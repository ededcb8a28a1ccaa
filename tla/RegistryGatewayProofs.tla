------------------------ MODULE RegistryGatewayProofs ------------------------
(***************************************************************************)
(* What holds inside one gateway: the life cycle of its entries, its gauge *)
(* and its proxy cache; and what holds of entries that travel between the  *)
(* gateways: the registry implements Replicas.  Proved from                *)
(* RegistryTypeCorrect.                                                    *)
(***************************************************************************)
EXTENDS RegistryProofs

-----------------------------------------------------------------------------
(* How a step may change the memory of a gateway.                          *)

\* One service of one gateway changed, in any way but a load.
OneEntry(i, s) ==
  \A j \in Instances, t \in Services : ~(j = i /\ t = s) => mem'[j][t] = mem[j][t]

LEMMA StoreChangesOne ==
  ASSUME TypeOK, NEW i \in Instances, NEW s \in Services, NEW v \in MaybeEntry,
         Store(i, s, v)
  PROVE  OneEntry(i, s) /\ mem'[i][s] = v
<1>1. mem' = [mem EXCEPT ![i][s] = v]
  BY DEF Store
<1> QED
  BY <1>1 DEF TypeOK, OneEntry

LEMMA LoadChanges ==
  ASSUME TypeOK, NEW i \in Instances, LoadReply(i)
  PROVE  \A j \in Instances, t \in Services :
           \/ mem'[j][t] = mem[j][t]
           \/ j = i /\ snap[i][t] # None /\ mem'[i][t] = snap[i][t]
<1>1. mem' = [mem EXCEPT ![i] = Loaded(i)]
  BY DEF LoadReply
<1>2. \A t \in Services :
        Loaded(i)[t] = IF snap[i][t] # None THEN snap[i][t] ELSE mem[i][t]
  BY DEF Loaded
<1> HIDE DEF Loaded
<1> QED
  BY <1>1, <1>2 DEF TypeOK

\* The steps that leave the memory and the gauge of every gateway alone.
QuietStep ==
  \/ \E i \in Instances :
       \/ \E s \in Services :
            OpenProxy(i, s) \/ \E ok \in BOOLEAN : HealthStands(i, s, ok)
       \/ StartSweep(i) \/ Reconcile(i) \/ SkipReconcile(i) \/ Boot(i)
       \/ BootAlone(i) \/ Execute(i) \/ WriteReply(i) \/ CompareReply(i)
       \/ Disconnect(i)
  \/ SaveRedis
  \/ RestartRedis
  \/ UNCHANGED vars

LEMMA QuietLeavesMemory == QuietStep => UNCHANGED <<mem, gauge>>
BY DEF QuietStep, OpenProxy, HealthStands, StartSweep, Reconcile, SkipReconcile,
       Boot, BootAlone, Execute, WriteReply, CompareReply, Disconnect, SaveRedis,
       RestartRedis, local, vars

-----------------------------------------------------------------------------
(* The life cycle.                                                         *)

RetiredStays(i, s) ==
  /\ mem[i][s] # None
  /\ mem[i][s].status = "retired"
  /\ mem'[i][s] # None
  => mem'[i][s].status = "retired" \/ mem'[i][s] = snap[i][s]

LEMMA NextRetired ==
  ASSUME TypeOK, [Next]_vars
  PROVE  \A j \in Instances, t \in Services : RetiredStays(j, t)
<1> USE DEF RetiredStays
<1>1. ASSUME NEW i \in Instances, NEW s \in Services, OneEntry(i, s),
             RetiredStays(i, s)
      PROVE  \A j \in Instances, t \in Services : RetiredStays(j, t)
  BY <1>1 DEF OneEntry
<1>2. ASSUME NEW i \in Instances, NEW s \in Services, NEW url \in Urls,
             NEW major \in Majors \cup {None}, Register(i, s, url, major)
      PROVE  \A j \in Instances, t \in Services : RetiredStays(j, t)
  <2>1. PICK new : mem' = [mem EXCEPT ![i][s] = new]
    BY <1>2 DEF Register
  <2>2. OneEntry(i, s)
    BY <2>1 DEF TypeOK, OneEntry
  <2>3. mem[i][s] # None => mem[i][s].status # "retired"
    BY <1>2 DEF Register
  <2> QED
    BY <1>1, <2>2, <2>3
<1>3. ASSUME NEW i \in Instances, NEW s \in Services, Deregister(i, s)
      PROVE  \A j \in Instances, t \in Services : RetiredStays(j, t)
  <2>1. OneEntry(i, s) /\ mem'[i][s] = None
    BY <1>3, StoreChangesOne DEF Deregister, MaybeEntry
  <2> QED
    BY <1>1, <2>1
<1>4. ASSUME NEW i \in Instances, NEW s \in Services,
             Deprecate(i, s) \/ Activate(i, s)
      PROVE  \A j \in Instances, t \in Services : RetiredStays(j, t)
  <2>1. mem[i][s] \in Entry /\ mem[i][s].status # "retired"
    BY <1>4 DEF Deprecate, Activate, Activates, Known, TypeOK, MaybeEntry
  <2>2. PICK st \in Status : Store(i, s, [mem[i][s] EXCEPT !.status = st])
    BY <1>4 DEF Deprecate, Activate, Status
  <2>3. [mem[i][s] EXCEPT !.status = st] \in MaybeEntry
    BY <2>1, EntryFields DEF MaybeEntry
  <2> QED
    BY <1>1, <2>1, <2>2, <2>3, StoreChangesOne
<1>5. ASSUME NEW i \in Instances, NEW s \in Services, Retire(i, s)
      PROVE  \A j \in Instances, t \in Services : RetiredStays(j, t)
  <2>1. mem[i][s] \in Entry
    BY <1>5 DEF Retire, Known, TypeOK, MaybeEntry
  <2>2. /\ [mem[i][s] EXCEPT !.status = "retired"] \in MaybeEntry
        /\ [mem[i][s] EXCEPT !.status = "retired"].status = "retired"
    BY <2>1, EntryFields DEF MaybeEntry, Status
  <2>3. OneEntry(i, s) /\ mem'[i][s].status = "retired"
    BY <1>5, <2>2, StoreChangesOne DEF Retire
  <2> QED
    BY <1>1, <2>3
<1>6. ASSUME NEW i \in Instances, NEW s \in Services, NEW ok \in BOOLEAN,
             HealthChanges(i, s, ok)
      PROVE  \A j \in Instances, t \in Services : RetiredStays(j, t)
  <2>1. mem[i][s] \in Entry
    BY <1>6 DEF HealthChanges, Known, TypeOK, MaybeEntry
  <2> DEFINE new == [mem[i][s] EXCEPT !.healthy = ok]
  <2>2. new \in MaybeEntry /\ new.status = mem[i][s].status
    BY <2>1, EntryFields DEF MaybeEntry
  <2>3. Store(i, s, new)
    BY <1>6 DEF HealthChanges
  <2> HIDE DEF new
  <2>4. OneEntry(i, s) /\ mem'[i][s] = new
    BY <2>2, <2>3, StoreChangesOne
  <2> QED
    BY <1>1, <2>2, <2>4
<1>7. ASSUME NEW i \in Instances, LoadReply(i)
      PROVE  \A j \in Instances, t \in Services : RetiredStays(j, t)
  BY <1>7, LoadChanges
<1>8. ASSUME NEW i \in Instances, NEW S \in SUBSET Services, RollBack(i, S)
      PROVE  \A j \in Instances, t \in Services : RetiredStays(j, t)
  <2>1. mem' = [mem EXCEPT ![i] = [s \in Services |-> IF s \in S THEN None ELSE mem[i][s]]]
    BY <1>8 DEF RollBack
  <2> QED
    BY <2>1 DEF TypeOK
<1>9. ASSUME NEW i \in Instances, WriteTimeout(i) \/ Flush(i)
      PROVE  \E S \in SUBSET Services : RollBack(i, S)
  BY <1>9, RollBackOfAwaited
<1>10. ASSUME NEW i \in Instances, Crash(i)
       PROVE  \A j \in Instances, t \in Services : RetiredStays(j, t)
  BY <1>10 DEF Crash, TypeOK, NoEntries
<1>11. CASE QuietStep
  BY <1>11, QuietLeavesMemory
<1> QED
  BY <1>2, <1>3, <1>4, <1>5, <1>6, <1>7, <1>8, <1>9, <1>10, <1>11 DEF Next, QuietStep

\* No handler and no probe of this gateway brings a retired entry back: only a
\* load does, for any number of gateways and calls under way.
THEOREM RegistryRetiredUnlessRedis == Spec => RetiredUnlessRedis
<1>1. TypeOK /\ [Next]_vars =>
        [\A i \in Instances, s \in Services : RetiredStays(i, s)]_vars
  BY NextRetired
<1> QED
  BY <1>1, RegistryTypeCorrect, PTL DEF Spec, RetiredUnlessRedis, RetiredStays

-----------------------------------------------------------------------------
(* The gauge.                                                              *)

Counted(e) == e # None /\ e.status \in {"active", "deprecated"}

\* The gauge depends on nothing but which services count.
LEMMA GaugeOfSame ==
  ASSUME NEW m, NEW n, \A s \in Services : Counted(m[s]) <=> Counted(n[s])
  PROVE  GaugeOf(m) = GaugeOf(n)
<1>1. {s \in Services : Counted(m[s])} = {s \in Services : Counted(n[s])}
  OBVIOUS
<1> QED
  BY <1>1 DEF GaugeOf, Counted

GaugeFollows(i) ==
  gauge[i] = GaugeOf(mem[i]) =>
    \/ gauge'[i] = GaugeOf(mem'[i])
    \/ \E s \in Services : /\ mem'[i][s] # mem[i][s]
                           /\ mem'[i][s] # None
                           /\ mem'[i][s] = snap[i][s]

\* The handler of one gateway: it syncs its gauge, or changes nothing that counts.
LEMMA GaugeOfOneGateway ==
  ASSUME TypeOK, NEW i \in Instances,
         \A j \in Instances : j # i => mem'[j] = mem[j] /\ gauge'[j] = gauge[j],
         \/ gauge'[i] = GaugeOf(mem'[i])
         \/ /\ gauge'[i] = gauge[i]
            /\ \A s \in Services : Counted(mem'[i][s]) <=> Counted(mem[i][s])
  PROVE  \A j \in Instances : GaugeFollows(j)
<1>1. GaugeFollows(i)
  <2>1. CASE gauge'[i] = GaugeOf(mem'[i])
    BY <2>1 DEF GaugeFollows
  <2>2. CASE /\ gauge'[i] = gauge[i]
             /\ \A s \in Services : Counted(mem'[i][s]) <=> Counted(mem[i][s])
    <3>1. GaugeOf(mem'[i]) = GaugeOf(mem[i])
      BY <2>2, GaugeOfSame
    <3> QED
      BY <2>2, <3>1 DEF GaugeFollows
  <2> QED
    BY <2>1, <2>2
<1> QED
  BY <1>1 DEF GaugeFollows

LEMMA NextGauge ==
  ASSUME TypeOK, [Next]_vars
  PROVE  \A j \in Instances : GaugeFollows(j)
<1>1. ASSUME NEW i \in Instances, NEW m, mem' = [mem EXCEPT ![i] = m],
             gauge' = [gauge EXCEPT ![i] = GaugeOf(mem'[i])]
      PROVE  \A j \in Instances : GaugeFollows(j)
  <2> DEFINE g == GaugeOf(mem'[i])
  <2>1. gauge' = [gauge EXCEPT ![i] = g]
    BY <1>1
  <2> HIDE DEF g
  <2>2. \A j \in Instances : j # i => mem'[j] = mem[j] /\ gauge'[j] = gauge[j]
    BY <1>1, <2>1 DEF TypeOK
  <2>3. gauge'[i] = g
    BY <2>1 DEF TypeOK
  <2> QED
    BY <2>2, <2>3, GaugeOfOneGateway DEF g
<1>2. ASSUME NEW i \in Instances, NEW s \in Services, NEW v,
             mem' = [mem EXCEPT ![i][s] = v],
             gauge' = [gauge EXCEPT ![i] = GaugeOf(mem'[i])]
      PROVE  \A j \in Instances : GaugeFollows(j)
  <2>1. mem' = [mem EXCEPT ![i] = [mem[i] EXCEPT ![s] = v]]
    BY <1>2
  <2> QED
    BY <1>1, <1>2, <2>1
<1>3. ASSUME NEW i \in Instances, NEW s \in Services, NEW v \in MaybeEntry,
             Store(i, s, v), UNCHANGED gauge, Counted(v) <=> Counted(mem[i][s])
      PROVE  \A j \in Instances : GaugeFollows(j)
  <2>1. mem' = [mem EXCEPT ![i][s] = v]
    BY <1>3 DEF Store
  <2>2. /\ \A j \in Instances : j # i => mem'[j] = mem[j] /\ gauge'[j] = gauge[j]
        /\ \A t \in Services : mem'[i][t] = IF t = s THEN v ELSE mem[i][t]
    BY <1>3, <2>1 DEF TypeOK
  <2> QED
    BY <1>3, <2>2, GaugeOfOneGateway
<1>4. ASSUME NEW i \in Instances, NEW s \in Services, NEW url \in Urls,
             NEW major \in Majors \cup {None}, Register(i, s, url, major)
      PROVE  \A j \in Instances : GaugeFollows(j)
  <2>1. PICK new : mem' = [mem EXCEPT ![i][s] = new]
    BY <1>4 DEF Register
  <2> QED
    BY <1>2, <1>4, <2>1 DEF Register
<1>5. ASSUME NEW i \in Instances, NEW s \in Services,
             Deregister(i, s) \/ Retire(i, s) \/ Activate(i, s)
      PROVE  \A j \in Instances : GaugeFollows(j)
  <2>1. PICK new : Store(i, s, new)
    BY <1>5 DEF Deregister, Retire, Activate
  <2> QED
    BY <1>2, <1>5, <2>1 DEF Deregister, Retire, Activate, Store
<1>6. ASSUME NEW i \in Instances, NEW s \in Services, Deprecate(i, s)
      PROVE  \A j \in Instances : GaugeFollows(j)
  <2> DEFINE new == [mem[i][s] EXCEPT !.status = "deprecated"]
  <2>1. mem[i][s] \in Entry /\ mem[i][s].status # "retired"
    BY <1>6 DEF Deprecate, Known, TypeOK, MaybeEntry
  <2>2. new \in Entry /\ new.status = "deprecated"
    BY <2>1, EntryFields DEF Status
  <2>3. Store(i, s, new) /\ UNCHANGED gauge
    BY <1>6 DEF Deprecate, local
  <2> HIDE DEF new
  <2>4. Counted(new) /\ Counted(mem[i][s])
    <3>1. mem[i][s].status \in {"active", "deprecated"}
      BY <2>1 DEF Entry, Status
    <3> QED
      BY <2>1, <2>2, <3>1, NoneIsNoOther DEF Counted
  <2> QED
    BY <1>3, <2>2, <2>3, <2>4 DEF MaybeEntry
<1>7. ASSUME NEW i \in Instances, NEW s \in Services, NEW ok \in BOOLEAN,
             HealthChanges(i, s, ok)
      PROVE  \A j \in Instances : GaugeFollows(j)
  <2> DEFINE new == [mem[i][s] EXCEPT !.healthy = ok]
  <2>1. mem[i][s] \in Entry
    BY <1>7 DEF HealthChanges, Known, TypeOK, MaybeEntry
  <2>2. new \in Entry /\ new.status = mem[i][s].status
    BY <2>1, EntryFields
  <2>3. Store(i, s, new) /\ UNCHANGED gauge
    BY <1>7 DEF HealthChanges
  <2> HIDE DEF new
  <2>4. Counted(new) <=> Counted(mem[i][s])
    BY <2>1, <2>2, NoneIsNoOther DEF Counted
  <2> QED
    BY <1>3, <2>2, <2>3, <2>4 DEF MaybeEntry
<1>8. ASSUME NEW i \in Instances, LoadReply(i)
      PROVE  \A j \in Instances : GaugeFollows(j)
  <2>1. UNCHANGED gauge /\ \A j \in Instances : j # i => mem'[j] = mem[j]
    BY <1>8 DEF LoadReply, TypeOK
  <2>2. CASE \A t \in Services : mem'[i][t] = mem[i][t]
    BY <2>1, <2>2, GaugeOfOneGateway
  <2>3. CASE \E t \in Services : mem'[i][t] # mem[i][t]
    BY <1>8, <2>1, <2>3, LoadChanges DEF GaugeFollows
  <2> QED
    BY <2>2, <2>3
<1>9. ASSUME NEW i \in Instances, WriteTimeout(i) \/ Flush(i)
      PROVE  \A j \in Instances : GaugeFollows(j)
  <2>1. PICK S \in SUBSET Services : RollBack(i, S)
    BY <1>9, RollBackOfAwaited
  <2>2. PICK m : mem' = [mem EXCEPT ![i] = m]
    BY <2>1 DEF RollBack
  <2> QED
    BY <1>1, <2>1, <2>2 DEF RollBack
<1>10. ASSUME NEW i \in Instances, Crash(i)
       PROVE  \A j \in Instances : GaugeFollows(j)
  <2>1. /\ \A j \in Instances : j # i => mem'[j] = mem[j] /\ gauge'[j] = gauge[j]
        /\ mem'[i] = NoEntries /\ gauge'[i] = 0
    BY <1>10 DEF Crash, TypeOK
  <2>2. {s \in Services : Counted(NoEntries[s])} = {}
    BY DEF Counted, NoEntries
  <2>3. GaugeOf(NoEntries) = 0
    BY <2>2, FS_EmptySet DEF GaugeOf, Counted
  <2> QED
    BY <2>1, <2>3, GaugeOfOneGateway
<1>11. CASE QuietStep
  BY <1>11, QuietLeavesMemory DEF GaugeFollows
<1> QED
  BY <1>4, <1>5, <1>6, <1>7, <1>8, <1>9, <1>10, <1>11 DEF Next, QuietStep

\* A right gauge goes wrong by a load alone, never by a handler, a probe, a
\* rollback or a crash.
THEOREM RegistryGaugeKept == Spec => GaugeKept
<1>1. TypeOK /\ [Next]_vars => [\A i \in Instances : GaugeFollows(i)]_vars
  BY NextGauge
<1> QED
  BY <1>1, RegistryTypeCorrect, PTL DEF Spec, GaugeKept, GaugeFollows
-----------------------------------------------------------------------------
(* The proxy cache.  ProxyTargetCurrent needs, to be inductive, that a     *)
(* gateway that is down has no command under way: otherwise a boot could   *)
(* drop an update whose listeners are still to be told.                    *)

Pending(i, s) ==
  \E k \in DOMAIN pipe[i] : pipe[i][k].svc = s /\ pipe[i][k].then = "update"

Current(i, s) ==
  proxy[i][s] # None /\ s \notin moved[i] /\ ~Pending(i, s)
    => mem[i][s] # None /\ proxy[i][s] = mem[i][s].url

Idle(i) == mode[i] = "down" => pipe[i] = <<>>

ProxyInv == \A i \in Instances : Idle(i) /\ \A s \in Services : Current(i, s)

LEMMA ProxyInvGivesTarget == ProxyInv => ProxyTargetCurrent
BY DEF ProxyInv, Current, Pending, ProxyTargetCurrent

LEMMA InitProxy == Init => ProxyInv
BY DEF Init, ProxyInv, Idle, Current, NoEntries

\* A service whose proxy stays, whose URL stays, and whose updates stay pending.
LEMMA CurrentKept ==
  ASSUME NEW i \in Instances, NEW s \in Services, Current(i, s),
         proxy'[i][s] = proxy[i][s],
         s \in moved[i] => s \in moved'[i],
         Pending(i, s) => Pending(i, s)',
         \/ mem'[i][s] = mem[i][s]
         \/ mem[i][s] # None /\ mem'[i][s] # None /\ mem'[i][s].url = mem[i][s].url
  PROVE  Current(i, s)'
BY DEF Current

\* What is appended, or changed behind the head, leaves pending updates alone.
LEMMA PendingAppended ==
  ASSUME TypeOK, NEW i \in Instances, NEW s \in Services, NEW cmd \in Command,
         pipe'[i] = pipe[i] \/ pipe'[i] = Append(pipe[i], cmd), Pending(i, s)
  PROVE  Pending(i, s)'
<1>1. PICK k \in DOMAIN pipe[i] : pipe[i][k].svc = s /\ pipe[i][k].then = "update"
  BY DEF Pending
<1>2. /\ pipe[i] \in Seq(Command)
      /\ k \in 1..Len(Append(pipe[i], cmd)) /\ Append(pipe[i], cmd)[k] = pipe[i][k]
      /\ DOMAIN Append(pipe[i], cmd) = 1..Len(Append(pipe[i], cmd))
  BY <1>1 DEF TypeOK
<1>3. k \in DOMAIN pipe'[i] /\ pipe'[i][k] = pipe[i][k]
  BY <1>1, <1>2
<1> QED
  BY <1>1, <1>3 DEF Pending

LEMMA PendingBehindHead ==
  ASSUME TypeOK, NEW i \in Instances, NEW s \in Services, NEW q \in Seq(Command),
         pipe[i] # <<>>,
         ~(Head(pipe[i]).svc = s /\ Head(pipe[i]).then = "update"),
         Len(q) >= Len(Tail(pipe[i])),
         \A k \in DOMAIN Tail(pipe[i]) : q[k] = Tail(pipe[i])[k],
         pipe'[i] = q, Pending(i, s)
  PROVE  Pending(i, s)'
<1>1. PICK k \in DOMAIN pipe[i] : pipe[i][k].svc = s /\ pipe[i][k].then = "update"
  BY DEF Pending
<1>2. /\ pipe[i] \in Seq(Command) /\ DOMAIN pipe[i] = 1..Len(pipe[i])
      /\ Head(pipe[i]) = pipe[i][1] /\ Len(Tail(pipe[i])) = Len(pipe[i]) - 1
      /\ \A n \in 1..(Len(pipe[i]) - 1) : Tail(pipe[i])[n] = pipe[i][n + 1]
  BY DEF TypeOK
<1>3. k # 1 /\ k \in 1..Len(pipe[i])
  BY <1>1, <1>2
<1>4. k - 1 \in 1..(Len(pipe[i]) - 1) /\ Tail(pipe[i])[k - 1] = pipe[i][k]
  BY <1>2, <1>3
<1>5. k - 1 \in DOMAIN Tail(pipe[i]) /\ k - 1 \in DOMAIN q
  BY <1>2, <1>4
<1>6. pipe'[i][k - 1] = pipe[i][k]
  BY <1>4, <1>5
<1> QED
  BY <1>1, <1>5, <1>6 DEF Pending
\* A gateway the step does not touch.
LEMMA OtherGateway ==
  ASSUME ProxyInv, NEW j \in Instances,
         mem'[j] = mem[j], proxy'[j] = proxy[j], moved'[j] = moved[j],
         pipe'[j] = pipe[j], mode'[j] = mode[j]
  PROVE  Idle(j)' /\ \A s \in Services : Current(j, s)'
BY DEF ProxyInv, Idle, Current, Pending

\* Handlers that write an entry: they keep its URL, or delete it as moved.
LEMMA StoreKeepsProxy ==
  ASSUME TypeOK, ProxyInv, NEW i \in Instances, NEW s \in Services,
         NEW v \in MaybeEntry, Store(i, s, v), UNCHANGED <<mode, proxy>>,
         \/ UNCHANGED moved /\ mem[i][s] # None /\ v # None /\ v.url = mem[i][s].url
         \/ moved' = Unnotified(i, {s})
  PROVE  ProxyInv'
<1> DEFINE cmd == Write(s, v, "nothing")
<1>1. cmd \in Command
  BY WriteIsCommand
<1>2. mem' = [mem EXCEPT ![i][s] = v] /\ pipe' = Send(i, cmd)
  BY DEF Store
<1> HIDE DEF cmd
<1>3. /\ \A j \in Instances : j # i => mem'[j] = mem[j] /\ pipe'[j] = pipe[j]
      /\ \A t \in Services : t # s => mem'[i][t] = mem[i][t]
      /\ mem'[i][s] = v
      /\ pipe'[i] = pipe[i] \/ pipe'[i] = Append(pipe[i], cmd)
      /\ mode[i] = "down" => pipe'[i] = pipe[i]
  BY <1>1, <1>2, SendType DEF TypeOK
<1>4. /\ \A j \in Instances : j # i => moved'[j] = moved[j]
      /\ moved[i] \subseteq moved'[i]
      /\ \/ mem[i][s] # None /\ v # None /\ v.url = mem[i][s].url
         \/ proxy[i][s] # None => s \in moved'[i]
  BY DEF Unnotified, TypeOK
<1>5. ASSUME NEW j \in Instances, j # i
      PROVE  Idle(j)' /\ \A t \in Services : Current(j, t)'
  BY <1>3, <1>4, <1>5, OtherGateway
<1>6. Idle(i)'
  BY <1>3 DEF ProxyInv, Idle
<1>7. ASSUME NEW t \in Services PROVE Current(i, t)'
  <2>1. Current(i, t) /\ (Pending(i, t) => Pending(i, t)')
    BY <1>1, <1>3, PendingAppended DEF ProxyInv
  <2>2. CASE \/ t # s
             \/ mem[i][s] # None /\ v # None /\ v.url = mem[i][s].url
    BY <1>3, <1>4, <2>1, <2>2, CurrentKept
  <2>3. CASE t = s /\ (proxy[i][s] # None => s \in moved'[i])
    BY <2>3 DEF Current
  <2> QED
    BY <1>4, <2>2, <2>3
<1> QED
  BY <1>5, <1>6, <1>7 DEF ProxyInv

\* Rolling back, when the queue loses no update but those of S.
LEMMA RollBackKeepsProxy ==
  ASSUME TypeOK, ProxyInv, NEW i \in Instances, NEW S \in SUBSET Services,
         RollBack(i, S), UNCHANGED proxy,
         \A j \in Instances : j # i => pipe'[j] = pipe[j] /\ mode'[j] = mode[j],
         Idle(i)',
         \A t \in Services \ S : Pending(i, t) => Pending(i, t)'
  PROVE  ProxyInv'
<1>1. /\ \A j \in Instances, t \in Services :
            ~(j = i /\ t \in S) => mem'[j][t] = mem[j][t]
      /\ mem' \in [Instances -> [Services -> MaybeEntry]]
  BY RollBackType
<1>2. /\ \A j \in Instances : j # i => moved'[j] = moved[j]
      /\ moved[i] \subseteq moved'[i]
      /\ \A t \in S : proxy[i][t] # None => t \in moved'[i]
  BY DEF RollBack, Unnotified, TypeOK
<1>3. ASSUME NEW j \in Instances, j # i
      PROVE  Idle(j)' /\ \A t \in Services : Current(j, t)'
  <2>1. mem'[j] = mem[j]
    BY <1>1, <1>3 DEF TypeOK
  <2> QED
    BY <1>2, <1>3, <2>1, OtherGateway
<1>4. ASSUME NEW t \in Services PROVE Current(i, t)'
  <2>1. CASE t \in S
    BY <1>2, <2>1 DEF Current
  <2>2. CASE t \notin S
    <3>1. Current(i, t) /\ mem'[i][t] = mem[i][t]
      BY <1>1, <2>2 DEF ProxyInv
    <3> QED
      BY <1>2, <2>2, <3>1, CurrentKept
  <2> QED
    BY <2>1, <2>2
<1> QED
  BY <1>3, <1>4 DEF ProxyInv
\* The step of one gateway whose proxies and entries stay as they are.
LEMMA QueueKeepsProxy ==
  ASSUME ProxyInv, NEW i \in Instances, UNCHANGED <<mem, proxy, moved>>,
         \A j \in Instances : j # i => pipe'[j] = pipe[j] /\ mode'[j] = mode[j],
         Idle(i)',
         \A t \in Services : Pending(i, t) => Pending(i, t)'
  PROVE  ProxyInv'
<1>1. ASSUME NEW j \in Instances, j # i
      PROVE  Idle(j)' /\ \A t \in Services : Current(j, t)'
  BY <1>1, OtherGateway
<1>2. ASSUME NEW t \in Services PROVE Current(i, t)'
  <2>1. Current(i, t)
    BY DEF ProxyInv
  <2> QED
    BY <2>1, CurrentKept
<1> QED
  BY <1>1, <1>2 DEF ProxyInv

LEMMA RegisterKeepsProxy ==
  ASSUME TypeOK, ProxyInv, NEW i \in Instances, NEW s \in Services,
         NEW url \in Urls, NEW major \in Majors \cup {None},
         Register(i, s, url, major)
  PROVE  ProxyInv'
<1> DEFINE new == [status |-> RegisteredStatus(mem[i][s]), url |-> url,
                   major |-> major, healthy |-> TRUE]
           cmd == Write(s, new, IF mem[i][s] = None THEN "create" ELSE "update")
<1>1. new \in MaybeEntry
  BY DEF RegisteredStatus, MaybeEntry, Entry, Status
<1>2. cmd \in Command /\ cmd.svc = s
  BY <1>1, WriteIsCommand
<1>3. mem[i][s] # None => cmd.then = "update"
  BY <1>1, WriteIsCommand
<1>4. /\ mem' = [mem EXCEPT ![i][s] = new]
      /\ pipe' = Send(i, cmd)
      /\ mode[i] \in {"redis", "memory"}
      /\ UNCHANGED mode
  BY DEF Register, Serving
<1>5. IF mode[i] = "memory" /\ mem[i][s] # None
        THEN /\ proxy' = [proxy EXCEPT ![i][s] = None]
             /\ moved' = [moved EXCEPT ![i] = moved[i] \ {s}]
        ELSE UNCHANGED <<proxy, moved>>
  BY DEF Register, NotifyCacheInvalidation
<1> HIDE DEF new, cmd
<1>6. /\ \A j \in Instances : j # i => mem'[j] = mem[j] /\ pipe'[j] = pipe[j]
      /\ \A t \in Services : t # s => mem'[i][t] = mem[i][t]
      /\ pipe'[i] = pipe[i] \/ pipe'[i] = Append(pipe[i], cmd)
      /\ mode[i] = "redis" => pipe'[i] = Append(pipe[i], cmd)
  BY <1>2, <1>4, SendType DEF TypeOK
<1>7. /\ \A j \in Instances : j # i => proxy'[j] = proxy[j] /\ moved'[j] = moved[j]
      /\ \A t \in Services : t # s => proxy'[i][t] = proxy[i][t]
      /\ \A t \in Services : t # s /\ t \in moved[i] => t \in moved'[i]
  BY <1>5 DEF TypeOK
<1>8. ASSUME NEW j \in Instances, j # i
      PROVE  Idle(j)' /\ \A t \in Services : Current(j, t)'
  BY <1>4, <1>6, <1>7, <1>8, OtherGateway
<1>9. Idle(i)'
  BY <1>4 DEF Idle
<1>10. ASSUME NEW t \in Services, t # s PROVE Current(i, t)'
  <2>1. Current(i, t) /\ (Pending(i, t) => Pending(i, t)')
    BY <1>2, <1>6, PendingAppended DEF ProxyInv
  <2>2. /\ mem'[i][t] = mem[i][t] /\ proxy'[i][t] = proxy[i][t]
        /\ (t \in moved[i] => t \in moved'[i])
    BY <1>6, <1>7, <1>10
  <2> QED
    BY <2>1, <2>2, CurrentKept
<1>11. Current(i, s)'
  <2>1. CASE mem[i][s] = None
    <3>1. Current(i, s) /\ (Pending(i, s) => Pending(i, s)')
      BY <1>2, <1>6, PendingAppended DEF ProxyInv
    <3>2. UNCHANGED <<proxy, moved>>
      BY <1>5, <2>1
    <3> QED
      BY <2>1, <3>1, <3>2 DEF Current
  <2>2. CASE mem[i][s] # None /\ mode[i] = "memory"
    BY <1>5, <2>2 DEF Current, TypeOK
  <2>3. CASE mem[i][s] # None /\ mode[i] = "redis"
    <3>1. pipe[i] \in Seq(Command) /\ pipe'[i] = Append(pipe[i], cmd)
      BY <1>6, <2>3 DEF TypeOK
    <3>2. Len(pipe[i]) + 1 \in DOMAIN pipe'[i] /\ pipe'[i][Len(pipe[i]) + 1] = cmd
      BY <3>1, <1>2
    <3>3. Pending(i, s)'
      BY <1>2, <1>3, <2>3, <3>2 DEF Pending
    <3> QED
      BY <3>3 DEF Current
  <2> QED
    BY <1>4, <2>1, <2>2, <2>3
<1> QED
  BY <1>8, <1>9, <1>10, <1>11 DEF ProxyInv

\* Replies: the oldest command goes, and perhaps a read is sent.
LEMMA ReplyKeepsPending ==
  ASSUME TypeOK, NEW i \in Instances, NEW ks, Answered(i, ks),
         NEW cmd \in Command,
         \/ pipe' = [pipe EXCEPT ![i] = Tail(pipe[i])]
         \/ pipe' = [pipe EXCEPT ![i] = Append(Tail(pipe[i]), cmd)]
  PROVE  /\ \A j \in Instances : j # i => pipe'[j] = pipe[j]
         /\ pipe[i] # <<>>
         /\ \A t \in Services :
              ~(Head(pipe[i]).svc = t /\ Head(pipe[i]).then = "update")
              /\ Pending(i, t) => Pending(i, t)'
<1> DEFINE r == Tail(pipe[i])
<1>1. pipe[i] # <<>> /\ r \in Seq(Command)
  BY AnsweredType
<1>2. PICK q \in {r, Append(r, cmd)} : pipe' = [pipe EXCEPT ![i] = q]
  OBVIOUS
<1>3. /\ q \in Seq(Command) /\ Len(q) >= Len(r)
      /\ \A k \in DOMAIN r : q[k] = r[k]
  <2> HIDE DEF r
  <2>1. CASE q = r
    BY <1>1, <2>1
  <2>2. CASE q = Append(r, cmd)
    BY <1>1, <2>2
  <2> QED
    BY <1>2, <2>1, <2>2
<1>4. pipe'[i] = q /\ \A j \in Instances : j # i => pipe'[j] = pipe[j]
  BY <1>2 DEF TypeOK
<1> QED
  BY <1>1, <1>3, <1>4, PendingBehindHead
LEMMA NextProxy == TypeOK /\ ProxyInv /\ [Next]_vars => ProxyInv'
<1> SUFFICES ASSUME TypeOK, ProxyInv, [Next]_vars
             PROVE  ProxyInv'
  OBVIOUS
<1>1. ASSUME NEW i \in Instances, NEW s \in Services, NEW url \in Urls,
             NEW major \in Majors \cup {None}, Register(i, s, url, major)
      PROVE  ProxyInv'
  BY <1>1, RegisterKeepsProxy
<1>2. ASSUME NEW i \in Instances, NEW s \in Services, Deregister(i, s)
      PROVE  ProxyInv'
  BY <1>2, StoreKeepsProxy DEF Deregister, MaybeEntry
<1>3. ASSUME NEW i \in Instances, NEW s \in Services,
             Deprecate(i, s) \/ Retire(i, s) \/ Activate(i, s)
      PROVE  ProxyInv'
  <2>1. mem[i][s] \in Entry
    BY <1>3 DEF Deprecate, Retire, Activate, Known, TypeOK, MaybeEntry
  <2>2. PICK st \in Status : Store(i, s, [mem[i][s] EXCEPT !.status = st])
    BY <1>3 DEF Deprecate, Retire, Activate, Status
  <2>3. UNCHANGED <<mode, proxy, moved>>
    BY <1>3 DEF Deprecate, Retire, Activate, local
  <2> DEFINE new == [mem[i][s] EXCEPT !.status = st]
  <2>4. new \in Entry /\ new.url = mem[i][s].url
    BY <2>1, EntryFields
  <2>5. Store(i, s, new)
    BY <2>2
  <2> HIDE DEF new
  <2> QED
    BY <2>1, <2>3, <2>4, <2>5, NoneIsNoOther, StoreKeepsProxy DEF MaybeEntry
<1>4. ASSUME NEW i \in Instances, NEW s \in Services, NEW ok \in BOOLEAN,
             HealthChanges(i, s, ok)
      PROVE  ProxyInv'
  <2> DEFINE new == [mem[i][s] EXCEPT !.healthy = ok]
  <2>1. mem[i][s] \in Entry
    BY <1>4 DEF HealthChanges, Known, TypeOK, MaybeEntry
  <2>2. new \in Entry /\ new.url = mem[i][s].url
    BY <2>1, EntryFields
  <2>3. Store(i, s, new) /\ UNCHANGED <<mode, proxy, moved>>
    BY <1>4 DEF HealthChanges
  <2> HIDE DEF new
  <2> QED
    BY <2>1, <2>2, <2>3, NoneIsNoOther, StoreKeepsProxy DEF MaybeEntry
<1>5. ASSUME NEW i \in Instances, NEW s \in Services, OpenProxy(i, s)
      PROVE  ProxyInv'
  <2>1. /\ proxy' = [proxy EXCEPT ![i][s] = mem[i][s].url]
        /\ moved' = [moved EXCEPT ![i] = moved[i] \ {s}]
        /\ mem[i][s] # None
        /\ UNCHANGED <<mode, mem, pipe>>
    BY <1>5 DEF OpenProxy, Accepts, Known
  <2>2. ASSUME NEW j \in Instances, NEW u \in Services PROVE Current(j, u)'
    <3>1. CASE j = i /\ u = s
      BY <2>1, <3>1 DEF Current, TypeOK
    <3>2. CASE ~(j = i /\ u = s)
      <4>1. proxy'[j][u] = proxy[j][u] /\ (u \in moved[j] => u \in moved'[j])
        BY <2>1, <3>2 DEF TypeOK
      <4>2. Current(j, u) /\ (Pending(j, u) => Pending(j, u)')
        BY <2>1 DEF ProxyInv, Pending
      <4> QED
        BY <2>1, <4>1, <4>2, CurrentKept
    <3> QED
      BY <3>1, <3>2
  <2> QED
    BY <2>1, <2>2 DEF ProxyInv, Idle
<1>6. ASSUME NEW i \in Instances, Reconcile(i) PROVE ProxyInv'
  <2>1. pipe' = [pipe EXCEPT ![i] = Append(pipe[i], Read("compare"))]
        /\ mode[i] = "redis" /\ UNCHANGED <<mode, mem, proxy, moved>>
    BY <1>6 DEF Reconcile, local
  <2>2. /\ \A j \in Instances : j # i => pipe'[j] = pipe[j] /\ mode'[j] = mode[j]
        /\ pipe'[i] = Append(pipe[i], Read("compare"))
    BY <2>1 DEF TypeOK
  <2>3. \A t \in Services : Pending(i, t) => Pending(i, t)'
    BY <2>2, ReadIsCommand, PendingAppended
  <2> QED
    BY <2>1, <2>2, <2>3, QueueKeepsProxy DEF Idle
<1>7. ASSUME NEW i \in Instances, Boot(i) PROVE ProxyInv'
  <2>1. /\ mode[i] = "down" /\ mode' = [mode EXCEPT ![i] = "booting"]
        /\ pipe' = [pipe EXCEPT ![i] = <<Read("boot")>>]
        /\ UNCHANGED <<mem, proxy, moved>>
    BY <1>7 DEF Boot
  <2>2. /\ \A j \in Instances : j # i => pipe'[j] = pipe[j] /\ mode'[j] = mode[j]
        /\ mode'[i] = "booting"
    BY <2>1 DEF TypeOK
  <2>3. \A t \in Services : ~Pending(i, t)
    BY <2>1 DEF ProxyInv, Idle, Pending
  <2> QED
    BY <2>1, <2>2, <2>3, QueueKeepsProxy DEF Idle
<1>8. ASSUME NEW i \in Instances, BootAlone(i) PROVE ProxyInv'
  <2>1. /\ mode' = [mode EXCEPT ![i] = "memory"]
        /\ UNCHANGED <<mem, proxy, moved, pipe>>
    BY <1>8 DEF BootAlone
  <2>2. /\ \A j \in Instances : j # i => pipe'[j] = pipe[j] /\ mode'[j] = mode[j]
        /\ mode'[i] = "memory"
    BY <2>1 DEF TypeOK
  <2>3. \A t \in Services : Pending(i, t) => Pending(i, t)'
    BY <2>1 DEF Pending
  <2> QED
    BY <2>1, <2>2, <2>3, QueueKeepsProxy DEF Idle
<1>9. ASSUME NEW i \in Instances, WriteReply(i) PROVE ProxyInv'
  <2> DEFINE cmd == Head(pipe[i])
  <2>1. /\ Answered(i, {"nothing", "create", "update"})
        /\ pipe' = [pipe EXCEPT ![i] = Tail(pipe[i])]
        /\ UNCHANGED <<mode, mem>>
    BY <1>9 DEF WriteReply, NotifyCacheInvalidation
  <2>2. /\ \A j \in Instances : j # i => pipe'[j] = pipe[j] /\ mode'[j] = mode[j]
        /\ pipe[i] # <<>>
        /\ \A t \in Services :
             ~(cmd.svc = t /\ cmd.then = "update") /\ Pending(i, t) => Pending(i, t)'
    BY <2>1, ReplyKeepsPending, ReadIsCommand
  <2>3. Idle(i)'
    BY <2>1, <2>2 DEF ProxyInv, Idle
  <2>4. CASE cmd.then # "update"
    <3>1. UNCHANGED <<proxy, moved>>
      BY <1>9, <2>4 DEF WriteReply, NotifyCacheInvalidation, NotifiedOf
    <3> QED
      BY <2>1, <2>2, <2>3, <2>4, <3>1, QueueKeepsProxy
  <2>5. CASE cmd.then = "update"
    <3>1. /\ proxy' = [proxy EXCEPT ![i][cmd.svc] = None]
          /\ moved' = [moved EXCEPT ![i] = moved[i] \ {cmd.svc}]
      BY <1>9, <2>5 DEF WriteReply, NotifyCacheInvalidation, NotifiedOf
    <3> HIDE DEF cmd
    <3>2. /\ \A j \in Instances : j # i => proxy'[j] = proxy[j] /\ moved'[j] = moved[j]
          /\ \A t \in Services : t # cmd.svc => proxy'[i][t] = proxy[i][t]
          /\ \A t \in Services : t # cmd.svc /\ t \in moved[i] => t \in moved'[i]
          /\ \A t \in Services : t = cmd.svc => proxy'[i][t] = None
      BY <3>1 DEF TypeOK
    <3>3. ASSUME NEW j \in Instances, j # i
          PROVE  Idle(j)' /\ \A t \in Services : Current(j, t)'
      BY <2>1, <2>2, <3>2, <3>3, OtherGateway
    <3>4. ASSUME NEW t \in Services PROVE Current(i, t)'
      <4>1. CASE t = cmd.svc
        BY <3>2, <4>1 DEF Current
      <4>2. CASE t # cmd.svc
        <5>1. Current(i, t) /\ (Pending(i, t) => Pending(i, t)') /\ mem'[i][t] = mem[i][t]
          BY <2>1, <2>2, <4>2 DEF ProxyInv
        <5>2. proxy'[i][t] = proxy[i][t] /\ (t \in moved[i] => t \in moved'[i])
          BY <3>2, <4>2
        <5> QED
          BY <5>1, <5>2, CurrentKept
      <4> QED
        BY <4>1, <4>2
    <3> QED
      BY <2>3, <3>3, <3>4 DEF ProxyInv
  <2> QED
    BY <2>4, <2>5
<1>10. ASSUME NEW i \in Instances, CompareReply(i) PROVE ProxyInv'
  <2>1. /\ Answered(i, {"compare"})
        /\ \/ pipe' = [pipe EXCEPT ![i] = Append(Tail(pipe[i]), Read("load"))]
           \/ pipe' = [pipe EXCEPT ![i] = Tail(pipe[i])]
        /\ UNCHANGED <<mode, mem, proxy, moved>>
    BY <1>10 DEF CompareReply, local
  <2>2. Head(pipe[i]).then # "update"
    BY <2>1 DEF Answered
  <2>3. /\ \A j \in Instances : j # i => pipe'[j] = pipe[j] /\ mode'[j] = mode[j]
        /\ pipe[i] # <<>>
        /\ \A t \in Services : Pending(i, t) => Pending(i, t)'
    BY <2>1, <2>2, ReplyKeepsPending, ReadIsCommand
  <2> QED
    BY <2>1, <2>3, QueueKeepsProxy DEF ProxyInv, Idle
<1>11. ASSUME NEW i \in Instances, LoadReply(i) PROVE ProxyInv'
  <2>1. /\ Answered(i, {"load", "boot"})
        /\ pipe' = [pipe EXCEPT ![i] = Tail(pipe[i])]
        /\ mode' = [mode EXCEPT ![i] = "redis"]
        /\ moved' = Unnotified(i, {t \in Services : snap[i][t] # None})
        /\ UNCHANGED proxy
    BY <1>11 DEF LoadReply
  <2>2. Head(pipe[i]).then # "update"
    BY <2>1 DEF Answered
  <2>3. /\ \A j \in Instances : j # i => pipe'[j] = pipe[j]
        /\ \A t \in Services : Pending(i, t) => Pending(i, t)'
    BY <2>1, <2>2, ReplyKeepsPending, ReadIsCommand
  <2>4. /\ \A j \in Instances : j # i => moved'[j] = moved[j] /\ mode'[j] = mode[j]
        /\ mode'[i] = "redis"
        /\ moved[i] \subseteq moved'[i]
        /\ \A t \in Services :
             snap[i][t] # None /\ proxy[i][t] # None => t \in moved'[i]
    BY <2>1 DEF Unnotified, TypeOK
  <2>5. ASSUME NEW j \in Instances, j # i
        PROVE  Idle(j)' /\ \A t \in Services : Current(j, t)'
    <3>1. mem'[j] = mem[j]
      BY <1>11, <2>5 DEF LoadReply, TypeOK
    <3> QED
      BY <2>1, <2>3, <2>4, <2>5, <3>1, OtherGateway
  <2>6. ASSUME NEW t \in Services PROVE Current(i, t)'
    <3>1. CASE mem'[i][t] = mem[i][t]
      BY <2>1, <2>3, <2>4, <3>1, CurrentKept DEF ProxyInv
    <3>2. CASE mem'[i][t] # mem[i][t]
      BY <1>11, <2>1, <2>4, <3>2, LoadChanges DEF Current
    <3> QED
      BY <3>1, <3>2
  <2> QED
    BY <2>4, <2>5, <2>6 DEF ProxyInv, Idle
<1>12. ASSUME NEW i \in Instances, WriteTimeout(i) PROVE ProxyInv'
  <2>1. PICK k \in DOMAIN pipe[i] :
          /\ Awaited(pipe[i][k])
          /\ RollBack(i, {pipe[i][k].svc})
          /\ pipe' = [pipe EXCEPT ![i][k].then = "nothing"]
    BY <1>12 DEF WriteTimeout
  <2> DEFINE svc == pipe[i][k].svc
             new == [pipe[i][k] EXCEPT !.then = "nothing"]
  <2>2. UNCHANGED <<mode, proxy>>
    BY <1>12 DEF WriteTimeout
  <2>3. svc \in Services
    BY <2>1, CommandKinds DEF TypeOK
  <2>4. pipe' = [pipe EXCEPT ![i] = [pipe[i] EXCEPT ![k] = new]] /\ RollBack(i, {svc})
    BY <2>1
  <2>5. ASSUME NEW t \in Services \ {svc}, Pending(i, t) PROVE Pending(i, t)'
    <3>1. PICK n \in DOMAIN pipe[i] : pipe[i][n].svc = t /\ pipe[i][n].then = "update"
      BY <2>5 DEF Pending
    <3>2. n # k
      BY <3>1
    <3> HIDE DEF svc, new
    <3>3. n \in DOMAIN pipe'[i] /\ pipe'[i][n] = pipe[i][n]
      BY <2>4, <3>2 DEF TypeOK
    <3> QED
      BY <3>1, <3>3 DEF Pending
  <2> HIDE DEF svc, new
  <2>6. \A j \in Instances : j # i => pipe'[j] = pipe[j] /\ mode'[j] = mode[j]
    BY <2>2, <2>4 DEF TypeOK
  <2>7. Idle(i)'
    <3>1. pipe[i] # <<>>
      BY <2>1 DEF TypeOK
    <3> QED
      BY <2>2, <3>1 DEF ProxyInv, Idle
  <2>8. {svc} \in SUBSET Services
    BY <2>3
  <2> QED
    BY <2>2, <2>4, <2>5, <2>6, <2>7, <2>8, RollBackKeepsProxy
<1>13. ASSUME NEW i \in Instances, Flush(i) PROVE ProxyInv'
  <2>1. PICK S \in SUBSET Services :
          /\ RollBack(i, S)
          /\ \A k \in DOMAIN pipe[i] : Awaited(pipe[i][k]) => pipe[i][k].svc \in S
    BY <1>13, RollBackOfAwaited
  <2>2. /\ pipe' = [pipe EXCEPT ![i] = <<>>]
        /\ mode' = [mode EXCEPT ![i] = IF mode[i] = "booting" THEN "memory" ELSE mode[i]]
        /\ UNCHANGED proxy
    BY <1>13 DEF Flush
  <2>3. /\ \A j \in Instances : j # i => pipe'[j] = pipe[j] /\ mode'[j] = mode[j]
        /\ pipe'[i] = <<>>
    BY <2>2 DEF TypeOK
  <2>4. \A t \in Services \ S : ~Pending(i, t)
    BY <2>1 DEF Pending, Awaited
  <2> QED
    BY <2>1, <2>2, <2>3, <2>4, RollBackKeepsProxy DEF Idle
<1>14. ASSUME NEW i \in Instances, Crash(i) PROVE ProxyInv'
  <2>1. \A j \in Instances :
          IF j = i THEN proxy'[j] = NoEntries /\ pipe'[j] = <<>>
          ELSE mem'[j] = mem[j] /\ proxy'[j] = proxy[j] /\ moved'[j] = moved[j]
               /\ pipe'[j] = pipe[j] /\ mode'[j] = mode[j]
    BY <1>14 DEF Crash, TypeOK
  <2>2. \A j \in Instances : j # i => Idle(j)' /\ \A t \in Services : Current(j, t)'
    BY <2>1, OtherGateway
  <2>3. Idle(i)' /\ \A t \in Services : Current(i, t)'
    BY <2>1 DEF Idle, Current, NoEntries
  <2> QED
    BY <2>2, <2>3 DEF ProxyInv
<1>15. ASSUME UNCHANGED <<mode, mem, proxy, moved, pipe>> PROVE ProxyInv'
  BY <1>15, OtherGateway DEF ProxyInv
<1>16. ASSUME NEW i \in Instances,
              \/ \E s \in Services, ok \in BOOLEAN : HealthStands(i, s, ok)
              \/ StartSweep(i) \/ SkipReconcile(i) \/ Execute(i) \/ Disconnect(i)
       PROVE  ProxyInv'
  BY <1>15, <1>16
     DEF HealthStands, StartSweep, SkipReconcile, Execute, Disconnect, local, vars
<1>17. CASE SaveRedis \/ RestartRedis \/ UNCHANGED vars
  BY <1>15, <1>17 DEF SaveRedis, RestartRedis, local, vars
<1> QED
  BY <1>1, <1>2, <1>3, <1>4, <1>5, <1>6, <1>7, <1>8, <1>9, <1>10, <1>11, <1>12,
     <1>13, <1>14, <1>16, <1>17 DEF Next

\* Cached middleware points at the registered URL in every gateway, except
\* where its entry changed in a way the listeners are not told of.
THEOREM RegistryProxyTarget == Spec => []ProxyTargetCurrent
<1>1. Init => TypeOK /\ ProxyInv
  BY InitType, InitProxy
<1>2. TypeOK /\ ProxyInv /\ [Next]_vars => (TypeOK /\ ProxyInv)'
  BY NextType, NextProxy
<1> QED
  BY <1>1, <1>2, ProxyInvGivesTarget, PTL DEF Spec

-----------------------------------------------------------------------------
(* What goes round.                                                        *)

LEMMA QueuedType ==
  ASSUME NEW q \in Seq(Command), NEW s \in Services
  PROVE  Queued(q, s) \subseteq MaybeEntry
<1>1. \A k \in DOMAIN q : q[k].svc = s => q[k].val \in MaybeEntry
  BY CommandKinds, NoneIsNoOther
<1> QED
  BY <1>1 DEF Queued

LEMMA QueuedAppended ==
  ASSUME NEW q \in Seq(Command), NEW cmd \in Command, NEW s
  PROVE  Queued(Append(q, cmd), s) =
           Queued(q, s) \cup (IF cmd.svc = s THEN {cmd.val} ELSE {})
<1> DEFINE r == Append(q, cmd)
<1>1. /\ DOMAIN r = 1..(Len(q) + 1) /\ DOMAIN q = 1..Len(q) /\ Len(q) \in Nat
      /\ r[Len(q) + 1] = cmd /\ \A k \in 1..Len(q) : r[k] = q[k]
  OBVIOUS
<1> HIDE DEF r
<1>2. ASSUME NEW e
      PROVE  (\E k \in DOMAIN r : r[k].svc = s /\ r[k].val = e) <=>
               \/ \E k \in DOMAIN q : q[k].svc = s /\ q[k].val = e
               \/ cmd.svc = s /\ cmd.val = e
  <2>1. ASSUME NEW k \in DOMAIN r, r[k].svc = s, r[k].val = e
        PROVE  \/ \E n \in DOMAIN q : q[n].svc = s /\ q[n].val = e
               \/ cmd.svc = s /\ cmd.val = e
    BY <1>1, <2>1
  <2>2. ASSUME NEW k \in DOMAIN q, q[k].svc = s, q[k].val = e
        PROVE  \E n \in DOMAIN r : r[n].svc = s /\ r[n].val = e
    <3>1. k \in DOMAIN r /\ r[k] = q[k]
      BY <1>1
    <3> QED
      BY <2>2, <3>1
  <2>3. Len(q) + 1 \in DOMAIN r
    BY <1>1
  <2> QED
    BY <1>1, <2>1, <2>2, <2>3
<1>3. \A e : e \in Queued(r, s) <=> \E k \in DOMAIN r : r[k].svc = s /\ r[k].val = e
  BY DEF Queued
<1>4. \A e : e \in Queued(q, s) <=> \E k \in DOMAIN q : q[k].svc = s /\ q[k].val = e
  BY DEF Queued
<1>5. \A e : e \in Queued(r, s) <=> e \in Queued(q, s) \/ (cmd.svc = s /\ cmd.val = e)
  BY <1>2, <1>3, <1>4
<1> QED
  BY <1>5 DEF r

LEMMA QueuedBehindHead ==
  ASSUME NEW q \in Seq(Command), q # <<>>, NEW s
  PROVE  Queued(Tail(q), s) \subseteq Queued(q, s)
<1> DEFINE r == Tail(q)
<1>1. /\ DOMAIN q = 1..Len(q) /\ Len(q) \in Nat /\ DOMAIN r = 1..(Len(q) - 1)
      /\ \A k \in DOMAIN r : r[k] = q[k + 1]
  OBVIOUS
<1> HIDE DEF r
<1>2. \A k \in DOMAIN r : k + 1 \in DOMAIN q /\ r[k] = q[k + 1]
  BY <1>1
<1>3. Queued(r, s) \subseteq Queued(q, s)
  BY <1>2 DEF Queued
<1> QED
  BY <1>3 DEF r

LEMMA QueuedOfDeadline ==
  ASSUME NEW q \in Seq(Command), NEW k \in DOMAIN q, NEW s
  PROVE  Queued([q EXCEPT ![k].then = "nothing"], s) = Queued(q, s)
<1> DEFINE r == [q EXCEPT ![k].then = "nothing"]
<1>1. q[k] \in Command
  OBVIOUS
<1>2. [q[k] EXCEPT !.then = "nothing"].svc = q[k].svc
      /\ [q[k] EXCEPT !.then = "nothing"].val = q[k].val
  BY <1>1 DEF Command, WriteCommand, ReadCommand
<1>3. /\ DOMAIN r = DOMAIN q
      /\ \A n \in DOMAIN q : r[n].svc = q[n].svc /\ r[n].val = q[n].val
  BY <1>2
<1> HIDE DEF r
<1>4. Queued(r, s) = Queued(q, s)
  BY <1>3 DEF Queued
<1> QED
  BY <1>4 DEF r

LEMMA AbroadHas ==
  ASSUME NEW s \in Services
  PROVE  /\ redis[s] \in Abroad[s] \cup {None}
         /\ saved[s] \in Abroad[s] \cup {None}
         /\ \A i \in Instances : snap[i][s] \in Abroad[s] \cup {None}
         /\ \A i \in Instances : Queued(pipe[i], s) \subseteq Abroad[s] \cup {None}
<1> USE DEF Abroad
<1>1. redis[s] \in Abroad[s] \cup {None} /\ saved[s] \in Abroad[s] \cup {None}
  OBVIOUS
<1>2. \A i \in Instances : snap[i][s] \in Abroad[s] \cup {None}
  OBVIOUS
<1>3. \A i \in Instances : Queued(pipe[i], s) \subseteq Abroad[s] \cup {None}
  OBVIOUS
<1> QED
  BY <1>1, <1>2, <1>3

LEMMA AbroadType == TypeOK => Abroad \in [Services -> SUBSET Entry]
<1> SUFFICES ASSUME TypeOK, NEW s \in Services, NEW e \in Abroad[s]
             PROVE  e \in Entry
  BY DEF Abroad
<1>1. e # None
  BY DEF Abroad
<1>2. \/ e \in {redis[s], saved[s]}
      \/ \E i \in Instances : e = snap[i][s] \/ e \in Queued(pipe[i], s)
  BY DEF Abroad
<1>3. \A i \in Instances : Queued(pipe[i], s) \subseteq MaybeEntry
  BY QueuedType DEF TypeOK
<1> QED
  BY <1>1, <1>2, <1>3 DEF TypeOK, MaybeEntry

\* Nothing new goes round: what is in Redis, on disk, read or queued after the
\* step went round before it.
LEMMA NothingNew ==
  ASSUME TypeOK,
         \A s \in Services :
           /\ redis'[s] \in Abroad[s] \cup {None}
           /\ saved'[s] \in Abroad[s] \cup {None}
           /\ \A i \in Instances :
                /\ snap'[i][s] \in Abroad[s] \cup {None}
                /\ Queued(pipe'[i], s) \subseteq Abroad[s] \cup {None}
  PROVE  Copies!Fade
<1>1. \A s \in Services : Abroad'[s] \subseteq Abroad[s]
  <2> SUFFICES ASSUME NEW s \in Services, NEW e \in Abroad'[s]
               PROVE  e \in Abroad[s]
    OBVIOUS
  <2>1. /\ e # None
        /\ \/ e \in {redis'[s], saved'[s]}
           \/ \E i \in Instances : e = snap'[i][s] \/ e \in Queued(pipe'[i], s)
    BY DEF Abroad, Queued
  <2> QED
    BY <2>1
<1>2. Abroad' = [s \in Services |-> Abroad'[s]]
  BY DEF Abroad
<1>3. Abroad' \in [Services -> SUBSET Entry]
  BY <1>1, <1>2, AbroadType
<1> QED
  BY <1>1, <1>3 DEF Copies!Fade

\* Steps that only touch the queue and the snapshot of one gateway.
LEMMA QueueFades ==
  ASSUME TypeOK, NEW i \in Instances, UNCHANGED <<redis, saved>>,
         \A j \in Instances : j # i => pipe'[j] = pipe[j] /\ snap'[j] = snap[j],
         \A s \in Services : Queued(pipe'[i], s) \subseteq Abroad[s] \cup {None},
         \A s \in Services : snap'[i][s] \in Abroad[s] \cup {None}
  PROVE  Copies!Fade
<1>1. \A s \in Services, j \in Instances :
        /\ snap'[j][s] \in Abroad[s] \cup {None}
        /\ Queued(pipe'[j], s) \subseteq Abroad[s] \cup {None}
  <2> SUFFICES ASSUME NEW s \in Services, NEW j \in Instances
               PROVE  /\ snap'[j][s] \in Abroad[s] \cup {None}
                      /\ Queued(pipe'[j], s) \subseteq Abroad[s] \cup {None}
    OBVIOUS
  <2>1. CASE j = i
    BY <2>1
  <2>2. CASE j # i
    BY <2>2, AbroadHas
  <2> QED
    BY <2>1, <2>2
<1> QED
  BY <1>1, AbroadHas, NothingNew

\* The reply to the oldest command, after which a read may be queued.
LEMMA ReplyQueues ==
  ASSUME TypeOK, NEW i \in Instances, NEW ks, Answered(i, ks), NEW k \in {"load", "compare"},
         NEW s \in Services,
         pipe'[i] \in {Tail(pipe[i]), Append(Tail(pipe[i]), Read(k))}
  PROVE  Queued(pipe'[i], s) \subseteq Abroad[s] \cup {None}
<1>1. pipe[i] # <<>> /\ pipe[i] \in Seq(Command) /\ Tail(pipe[i]) \in Seq(Command)
  BY AnsweredType DEF TypeOK
<1> DEFINE r == Tail(pipe[i])
           cmd == Read(k)
<1>2. cmd \in Command /\ cmd.svc # s
  BY ReadIsCommand, NoneIsNoOther
<1>3. r \in Seq(Command)
  BY <1>1
<1> HIDE DEF r, cmd
<1>4. Queued(Append(r, cmd), s) = Queued(r, s) \cup (IF cmd.svc = s THEN {cmd.val} ELSE {})
  BY <1>2, <1>3, QueuedAppended
<1>5. pipe'[i] = r \/ pipe'[i] = Append(r, cmd)
  BY DEF r, cmd
<1>6. Queued(pipe'[i], s) = Queued(r, s)
  BY <1>2, <1>4, <1>5
<1> QED
  BY <1>1, <1>6, QueuedBehindHead, AbroadHas DEF r

\* A handler's write, or no write in memory-only mode, brings its entry round.
LEMMA WriteGoesRound ==
  ASSUME TypeOK, NEW i \in Instances, NEW s \in Services, NEW v \in MaybeEntry,
         NEW k \in {"nothing", "create", "update"},
         pipe' = Send(i, Write(s, v, k)), UNCHANGED <<snap, redis, saved>>
  PROVE  \/ Abroad' = Abroad
         \/ Abroad' = [Abroad EXCEPT ![s] = @ \cup ({v} \ {None})]
<1> DEFINE cmd == Write(s, v, k)
<1>1. cmd \in Command /\ cmd.svc = s /\ cmd.val = v
  BY WriteIsCommand
<1> HIDE DEF cmd
<1>2. CASE mode[i] # "redis"
  <2>1. pipe' = pipe
    BY <1>2 DEF Send
  <2> QED
    BY <2>1 DEF Abroad
<1>3. CASE mode[i] = "redis"
  <2>1. /\ \A j \in Instances : j # i => pipe'[j] = pipe[j]
        /\ pipe'[i] = Append(pipe[i], cmd)
        /\ pipe[i] \in Seq(Command)
    BY <1>1, <1>3, SendType DEF TypeOK, cmd
  <2>2. \A t \in Services :
          Queued(pipe'[i], t) = Queued(pipe[i], t) \cup (IF s = t THEN {v} ELSE {})
    BY <1>1, <2>1, QueuedAppended
  <2>3. \A t \in Services : t # s => Abroad'[t] = Abroad[t]
    <3> SUFFICES ASSUME NEW t \in Services, t # s PROVE Abroad'[t] = Abroad[t]
      OBVIOUS
    <3>1. \A j \in Instances : Queued(pipe'[j], t) = Queued(pipe[j], t)
      BY <2>1, <2>2
    <3>2. \A j \in Instances : Queued(pipe[j], t)' = Queued(pipe[j], t)
      BY <3>1 DEF Queued
    <3> QED
      BY <3>2 DEF Abroad
  <2>4. Abroad'[s] = Abroad[s] \cup ({v} \ {None})
    <3>1. Queued(pipe[i], s)' = Queued(pipe[i], s) \cup {v}
      BY <2>2 DEF Queued
    <3>2. \A j \in Instances : j # i => Queued(pipe[j], s)' = Queued(pipe[j], s)
      BY <2>1 DEF Queued
    <3> DEFINE old == {redis[s], saved[s]} \cup
                        UNION {{snap[j][s]} \cup Queued(pipe[j], s) : j \in Instances}
               new == {redis[s], saved[s]} \cup
                        UNION {{snap[j][s]} \cup Queued(pipe[j], s)' : j \in Instances}
    <3>3. \A e : e \in new <=> e \in old \/ e = v
      BY <3>1, <3>2
    <3>4. Abroad[s] = old \ {None} /\ Abroad'[s] = new \ {None}
      BY DEF Abroad
    <3> HIDE DEF old, new
    <3> QED
      BY <3>3, <3>4
  <2>5. Abroad = [t \in Services |-> Abroad[t]] /\ Abroad' = [t \in Services |-> Abroad'[t]]
    BY DEF Abroad
  <2> QED
    BY <2>3, <2>4, <2>5
<1> QED
  BY <1>2, <1>3
-----------------------------------------------------------------------------
(* Steps.                                                                  *)

\* A handler or a probe that stores a governed entry decides.
LEMMA StoreDecides ==
  ASSUME TypeOK, NEW i \in Instances, NEW s \in Services, NEW new \in Entry,
         NEW k \in {"nothing", "create", "update"},
         Copies!Governed(mem[i][s], new),
         mem' = [mem EXCEPT ![i][s] = new],
         pipe' = Send(i, Write(s, new, k)), UNCHANGED <<snap, redis, saved>>
  PROVE  Copies!Next
<1>1. new # None /\ new \in MaybeEntry
  BY NoneIsNoOther DEF MaybeEntry
<1>2. \/ Abroad' = Abroad
      \/ Abroad' = [Abroad EXCEPT ![s] = @ \cup ({new} \ {None})]
  BY <1>1, WriteGoesRound
<1>3. {new} \ {None} = {new}
  BY <1>1
<1>4. Copies!Decide(i, s, new)
  BY <1>2, <1>3 DEF Copies!Decide
<1> QED
  BY <1>4 DEF Copies!Next

LEMMA RegisterDecides ==
  ASSUME TypeOK, NEW i \in Instances, NEW s \in Services, NEW url \in Urls,
         NEW major \in Majors \cup {None}, Register(i, s, url, major)
  PROVE  Copies!Next
<1> DEFINE old == mem[i][s]
           new == [status |-> RegisteredStatus(old), url |-> url, major |-> major,
                   healthy |-> TRUE]
           k == IF old = None THEN "create" ELSE "update"
<1>1. /\ old # None => ~Downgrade(old, major) /\ old.status # "retired"
      /\ mem' = [mem EXCEPT ![i][s] = new]
      /\ pipe' = Send(i, Write(s, new, k))
      /\ UNCHANGED <<snap, redis, saved>>
  BY DEF Register, server
<1>2. old \in Entry \cup {None}
  BY DEF TypeOK, MaybeEntry
<1>3. RegisteredStatus(old) \in Status
  BY DEF RegisteredStatus, Status
<1>4. new \in Entry /\ new.status = RegisteredStatus(old) /\ new.major = major
  BY <1>3 DEF Entry
<1>5. k \in {"nothing", "create", "update"}
  OBVIOUS
<1> HIDE DEF new, k
<1>6. CASE old = None
  <2>1. Copies!Created(old, new)
    BY <1>4, <1>6 DEF Copies!Created, RegisteredStatus
  <2> QED
    BY <1>1, <1>4, <1>5, <2>1, StoreDecides DEF Copies!Governed
<1>7. CASE old # None
  <2>1. old.status \in {"active", "deprecated"} /\ old.major \in Majors \cup {None}
    BY <1>1, <1>2, <1>7 DEF Entry, Status
  <2>2. new.status = old.status
    BY <1>4, <1>7, <2>1 DEF RegisteredStatus
  <2>3. old.major # None /\ new.major # None => new.major >= old.major
    BY <1>1, <1>4, <1>7, <2>1, RegistryAssumption DEF Downgrade
  <2>4. Copies!Updated(old, new)
    BY <1>7, <2>1, <2>2, <2>3 DEF Copies!Updated
  <2> QED
    BY <1>1, <1>4, <1>5, <2>4, StoreDecides DEF Copies!Governed
<1> QED
  BY <1>6, <1>7

LEMMA StatusDecides ==
  ASSUME TypeOK, NEW i \in Instances, NEW s \in Services,
         Deprecate(i, s) \/ Retire(i, s) \/ Activate(i, s)
  PROVE  Copies!Next
<1>1. mem[i][s] \in Entry /\ mem[i][s] # None
  BY DEF Deprecate, Retire, Activate, Known, TypeOK, MaybeEntry
<1>2. PICK st \in Status :
        /\ Store(i, s, [mem[i][s] EXCEPT !.status = st])
        /\ mem[i][s].status = "retired" => st = "retired"
  BY DEF Deprecate, Retire, Activate, Activates, Status
<1> DEFINE new == [mem[i][s] EXCEPT !.status = st]
<1>3. new \in Entry /\ new.status = st
  BY <1>1, EntryFields
<1>4. Copies!Moved(mem[i][s], new)
  BY <1>1, <1>2, <1>3 DEF Copies!Moved
<1>5. /\ mem' = [mem EXCEPT ![i][s] = new]
      /\ pipe' = Send(i, Write(s, new, "nothing"))
  BY <1>2 DEF Store
<1>6. UNCHANGED <<snap, redis, saved>>
  BY DEF Deprecate, Retire, Activate, server
<1> HIDE DEF new
<1> QED
  BY <1>3, <1>4, <1>5, <1>6, StoreDecides DEF Copies!Governed

LEMMA ProbeDecides ==
  ASSUME TypeOK, NEW i \in Instances, NEW s \in Services, NEW ok \in BOOLEAN,
         HealthChanges(i, s, ok)
  PROVE  Copies!Next
<1>1. mem[i][s] \in Entry /\ mem[i][s] # None
  BY DEF HealthChanges, Known, TypeOK, MaybeEntry
<1> DEFINE new == [mem[i][s] EXCEPT !.healthy = ok]
<1>2. new \in Entry /\ new.healthy = ok
  BY <1>1, EntryFields DEF Entry
<1>3. Copies!Probed(mem[i][s], new)
  BY <1>1, <1>2 DEF Copies!Probed
<1>4. /\ mem' = [mem EXCEPT ![i][s] = new]
      /\ pipe' = Send(i, Write(s, new, "nothing"))
      /\ UNCHANGED <<snap, redis, saved>>
  BY DEF HealthChanges, Store, server
<1> HIDE DEF new
<1> QED
  BY <1>2, <1>3, <1>4, StoreDecides DEF Copies!Governed

LEMMA DeregisterLoses ==
  ASSUME TypeOK, NEW i \in Instances, NEW s \in Services, Deregister(i, s)
  PROVE  Copies!Next
<1>1. mem' = [mem EXCEPT ![i][s] = None] /\ pipe' = Send(i, Write(s, None, "nothing"))
      /\ UNCHANGED <<snap, redis, saved>>
  BY DEF Deregister, Store, server
<1>2. Abroad' = Abroad
  <2>1. \/ Abroad' = Abroad
        \/ Abroad' = [Abroad EXCEPT ![s] = @ \cup ({None} \ {None})]
    BY <1>1, WriteGoesRound DEF MaybeEntry
  <2>2. [Abroad EXCEPT ![s] = @ \cup ({None} \ {None})] = Abroad
    BY DEF Abroad
  <2> QED
    BY <2>1, <2>2
<1>3. Copies!Fade
  BY <1>2, AbroadType DEF Copies!Fade
<1>4. mem' = [mem EXCEPT ![i] = [t \in Services |-> IF t \in {s} THEN None ELSE mem[i][t]]]
  BY <1>1 DEF TypeOK
<1>5. Copies!Lose(i, {s})
  BY <1>3, <1>4 DEF Copies!Lose
<1> QED
  BY <1>5 DEF Copies!Next

LEMMA LoadAdopts ==
  ASSUME TypeOK, NEW i \in Instances, LoadReply(i)
  PROVE  Copies!Next
<1>1. /\ pipe' = [pipe EXCEPT ![i] = Tail(pipe[i])]
      /\ snap' = [snap EXCEPT ![i] = NoEntries]
      /\ Answered(i, {"load", "boot"})
      /\ UNCHANGED <<redis, saved>>
      /\ mem' = [mem EXCEPT ![i] = Loaded(i)]
  BY DEF LoadReply, server
<1>2. \A s \in Services : Queued(pipe'[i], s) \subseteq Abroad[s] \cup {None}
  BY <1>1, ReplyQueues DEF TypeOK
<1>3. /\ \A j \in Instances : j # i => pipe'[j] = pipe[j] /\ snap'[j] = snap[j]
      /\ \A s \in Services : snap'[i][s] \in Abroad[s] \cup {None}
  BY <1>1 DEF TypeOK, NoEntries
<1>4. Copies!Fade
  BY <1>1, <1>2, <1>3, QueueFades
<1>5. \A h \in Instances \ {i} : mem'[h] = mem[h]
  BY <1>1 DEF TypeOK
<1>6. \A s \in Services : mem'[i][s] \in Abroad[s] \cup {mem[i][s]}
  BY LoadChanges, AbroadHas
<1>7. Copies!Adopt(i)
  BY <1>4, <1>5, <1>6 DEF Copies!Adopt
<1> QED
  BY <1>7 DEF Copies!Next

LEMMA RollBackLoses ==
  ASSUME TypeOK, NEW i \in Instances, WriteTimeout(i) \/ Flush(i)
  PROVE  Copies!Next
<1>1. PICK S \in SUBSET Services : RollBack(i, S)
  BY RollBackOfAwaited
<1>2. mem' = [mem EXCEPT ![i] = [s \in Services |-> IF s \in S THEN None ELSE mem[i][s]]]
  BY <1>1 DEF RollBack
<1>3. Copies!Fade
  <2>1. CASE WriteTimeout(i)
    <3>1. PICK k \in DOMAIN pipe[i] : pipe' = [pipe EXCEPT ![i][k].then = "nothing"]
      BY <2>1 DEF WriteTimeout
    <3>2. pipe' = [pipe EXCEPT ![i] = [pipe[i] EXCEPT ![k].then = "nothing"]]
      BY <3>1
    <3> DEFINE q == [pipe[i] EXCEPT ![k].then = "nothing"]
    <3>3. \A s \in Services : Queued(q, s) = Queued(pipe[i], s)
      BY QueuedOfDeadline DEF TypeOK
    <3> HIDE DEF q
    <3>4. pipe'[i] = q /\ \A j \in Instances : j # i => pipe'[j] = pipe[j]
      BY <3>2 DEF TypeOK, q
    <3>5. UNCHANGED <<snap, redis, saved>>
      BY <2>1 DEF WriteTimeout, server
    <3> QED
      BY <3>3, <3>4, <3>5, AbroadHas, QueueFades
  <2>2. CASE Flush(i)
    <3>1. /\ pipe' = [pipe EXCEPT ![i] = <<>>]
          /\ snap' = [snap EXCEPT ![i] = NoEntries]
          /\ UNCHANGED <<redis, saved>>
      BY <2>2 DEF Flush, server
    <3>2. /\ \A j \in Instances : j # i => pipe'[j] = pipe[j] /\ snap'[j] = snap[j]
          /\ pipe'[i] = <<>> /\ \A s \in Services : snap'[i][s] = None
      BY <3>1 DEF TypeOK, NoEntries
    <3>3. \A s \in Services : Queued(<<>>, s) = {}
      BY DEF Queued
    <3> QED
      BY <3>1, <3>2, <3>3, QueueFades
  <2> QED
    BY <2>1, <2>2
<1>4. Copies!Lose(i, S)
  BY <1>2, <1>3 DEF Copies!Lose
<1> QED
  BY <1>4 DEF Copies!Next

LEMMA CrashLoses ==
  ASSUME TypeOK, NEW i \in Instances, Crash(i)
  PROVE  Copies!Next
<1>1. /\ pipe' = [pipe EXCEPT ![i] = <<>>]
      /\ snap' = [snap EXCEPT ![i] = NoEntries]
      /\ mem' = [mem EXCEPT ![i] = NoEntries]
      /\ UNCHANGED <<redis, saved>>
  BY DEF Crash, server
<1>2. /\ \A j \in Instances : j # i => pipe'[j] = pipe[j] /\ snap'[j] = snap[j]
      /\ pipe'[i] = <<>> /\ \A s \in Services : snap'[i][s] = None
  BY <1>1 DEF TypeOK, NoEntries
<1>3. \A s \in Services : Queued(<<>>, s) = {}
  BY DEF Queued
<1>4. Copies!Fade
  BY <1>1, <1>2, <1>3, QueueFades
<1>5. NoEntries = [s \in Services |-> IF s \in Services THEN None ELSE mem[i][s]]
  BY DEF NoEntries
<1>6. Copies!Lose(i, Services)
  BY <1>1, <1>4, <1>5 DEF Copies!Lose
<1> QED
  BY <1>6 DEF Copies!Next

\* The steps after which a gateway goes by the same entries.
LEMMA OthersFade ==
  ASSUME TypeOK, NEW i \in Instances,
         \/ Reconcile(i) \/ Boot(i) \/ Execute(i) \/ WriteReply(i) \/ CompareReply(i)
  PROVE  UNCHANGED mem /\ Copies!Fade
<1>1. CASE Reconcile(i)
  <2> DEFINE cmd == Read("compare")
  <2>1. /\ pipe' = [pipe EXCEPT ![i] = Append(pipe[i], cmd)]
        /\ UNCHANGED <<mem, snap, redis, saved>>
    BY <1>1 DEF Reconcile, server
  <2>2. cmd \in Command /\ cmd.svc = None
    BY ReadIsCommand
  <2> HIDE DEF cmd
  <2>3. pipe'[i] = Append(pipe[i], cmd) /\ \A j \in Instances : j # i => pipe'[j] = pipe[j]
    BY <2>1 DEF TypeOK
  <2>4. \A s \in Services : Queued(pipe'[i], s) = Queued(pipe[i], s)
    <3> SUFFICES ASSUME NEW s \in Services PROVE Queued(pipe'[i], s) = Queued(pipe[i], s)
      OBVIOUS
    <3> DEFINE q == pipe[i]
    <3>1. q \in Seq(Command)
      BY DEF TypeOK
    <3>2. pipe'[i] = Append(q, cmd)
      BY <2>3
    <3> HIDE DEF q
    <3>3. Queued(Append(q, cmd), s) = Queued(q, s) \cup (IF cmd.svc = s THEN {cmd.val} ELSE {})
      BY <2>2, <3>1, QueuedAppended
    <3>4. cmd.svc # s
      BY <2>2, NoneIsNoOther
    <3>5. Queued(pipe'[i], s) = Queued(q, s)
      BY <3>2, <3>3, <3>4
    <3> QED
      BY <3>5 DEF q
  <2> QED
    BY <2>1, <2>3, <2>4, AbroadHas, QueueFades
<1>2. CASE Boot(i)
  <2> DEFINE cmd == Read("boot")
  <2>1. pipe' = [pipe EXCEPT ![i] = <<cmd>>] /\ UNCHANGED <<mem, snap, redis, saved>>
    BY <1>2 DEF Boot, server
  <2>2. cmd \in Command /\ cmd.svc = None
    BY ReadIsCommand
  <2> HIDE DEF cmd
  <2>3. pipe'[i] = <<cmd>> /\ \A j \in Instances : j # i => pipe'[j] = pipe[j]
    BY <2>1 DEF TypeOK
  <2>4. \A s \in Services : Queued(<<cmd>>, s) = {}
    BY <2>2, NoneIsNoOther DEF Queued
  <2> QED
    BY <2>1, <2>3, <2>4, AbroadHas, QueueFades
<1>3. CASE Execute(i)
  <2> DEFINE cmd == pipe[i][sent[i] + 1]
  <2>1. UNCHANGED <<mem, pipe, saved>>
    BY <1>3 DEF Execute
  <2>2. sent[i] + 1 \in DOMAIN pipe[i]
    BY <1>3 DEF Execute, TypeOK
  <2>3. \/ snap' = [snap EXCEPT ![i] = redis] /\ redis' = redis
        \/ redis' = [redis EXCEPT ![cmd.svc] = cmd.val] /\ snap' = snap
    BY <1>3 DEF Execute
  <2>4. \A s \in Services : cmd.svc = s => cmd.val \in Queued(pipe[i], s)
    BY <2>2 DEF Queued
  <2> HIDE DEF cmd
  <2>5. ASSUME NEW s \in Services
        PROVE  /\ redis'[s] \in Abroad[s] \cup {None}
               /\ \A j \in Instances : snap'[j][s] \in Abroad[s] \cup {None}
    <3>1. CASE snap' = [snap EXCEPT ![i] = redis] /\ redis' = redis
      <4>1. \A j \in Instances : snap'[j] = IF j = i THEN redis ELSE snap[j]
        BY <3>1 DEF TypeOK
      <4> QED
        BY <3>1, <4>1, AbroadHas
    <3>2. CASE redis' = [redis EXCEPT ![cmd.svc] = cmd.val] /\ snap' = snap
      <4>1. redis'[s] = IF cmd.svc = s THEN cmd.val ELSE redis[s]
        BY <3>2 DEF TypeOK
      <4> QED
        BY <2>4, <3>2, <4>1, AbroadHas
    <3> QED
      BY <2>3, <3>1, <3>2
  <2> QED
    BY <2>1, <2>5, AbroadHas, NothingNew
<1>4. CASE WriteReply(i)
  <2>1. /\ Answered(i, {"nothing", "create", "update"})
        /\ pipe' = [pipe EXCEPT ![i] = Tail(pipe[i])]
        /\ UNCHANGED <<mem, snap, redis, saved>>
    BY <1>4 DEF WriteReply, server
  <2>2. pipe'[i] = Tail(pipe[i]) /\ \A j \in Instances : j # i => pipe'[j] = pipe[j]
    BY <2>1 DEF TypeOK
  <2>3. \A s \in Services : Queued(pipe'[i], s) \subseteq Abroad[s] \cup {None}
    BY <2>1, <2>2, ReplyQueues
  <2> QED
    BY <2>1, <2>2, <2>3, AbroadHas, QueueFades
<1>5. CASE CompareReply(i)
  <2>1. /\ Answered(i, {"compare"})
        /\ \/ pipe' = [pipe EXCEPT ![i] = Append(Tail(pipe[i]), Read("load"))]
           \/ pipe' = [pipe EXCEPT ![i] = Tail(pipe[i])]
        /\ snap' = [snap EXCEPT ![i] = NoEntries]
        /\ UNCHANGED <<mem, redis, saved>>
    BY <1>5 DEF CompareReply, server
  <2>2. /\ pipe'[i] \in {Tail(pipe[i]), Append(Tail(pipe[i]), Read("load"))}
        /\ \A j \in Instances : j # i => pipe'[j] = pipe[j] /\ snap'[j] = snap[j]
        /\ \A s \in Services : snap'[i][s] = None
    BY <2>1 DEF TypeOK, NoEntries
  <2>3. \A s \in Services : Queued(pipe'[i], s) \subseteq Abroad[s] \cup {None}
    BY <2>1, <2>2, ReplyQueues
  <2> QED
    BY <2>1, <2>2, <2>3, QueueFades
<1> QED
  BY <1>1, <1>2, <1>3, <1>4, <1>5

LEMMA NextCopies == TypeOK /\ [Next]_vars => [Copies!Next]_<<mem, Abroad>>
<1> SUFFICES ASSUME TypeOK, [Next]_vars PROVE Copies!Next \/ UNCHANGED <<mem, Abroad>>
  OBVIOUS
<1>1. ASSUME NEW i \in Instances,
             \/ Reconcile(i) \/ Boot(i) \/ Execute(i) \/ WriteReply(i) \/ CompareReply(i)
      PROVE  Copies!Next
  BY <1>1, OthersFade DEF Copies!Next
<1>2. ASSUME NEW i \in Instances,
             \/ \E s \in Services, ok \in BOOLEAN : HealthStands(i, s, ok)
             \/ \E s \in Services : OpenProxy(i, s)
             \/ StartSweep(i) \/ SkipReconcile(i) \/ BootAlone(i) \/ Disconnect(i)
      PROVE  UNCHANGED <<mem, Abroad>>
  <2>1. UNCHANGED <<mem, pipe, snap, redis, saved>>
    BY <1>2 DEF HealthStands, OpenProxy, StartSweep, SkipReconcile, BootAlone,
                Disconnect, local, server, vars
  <2> QED
    BY <2>1 DEF Abroad
<1>3. CASE SaveRedis \/ RestartRedis
  <2>1. /\ UNCHANGED <<mem, pipe, snap>>
        /\ redis' \in {redis, saved} /\ saved' \in {redis, saved}
    BY <1>3 DEF SaveRedis, RestartRedis, local
  <2>2. Copies!Fade
    BY <2>1, AbroadHas, NothingNew
  <2> QED
    BY <2>1, <2>2 DEF Copies!Next
<1>4. CASE UNCHANGED vars
  BY <1>4 DEF vars, Abroad
<1> QED
  BY <1>1, <1>2, <1>3, <1>4, RegisterDecides, StatusDecides, ProbeDecides,
     DeregisterLoses, LoadAdopts, RollBackLoses, CrashLoses DEF Next

\* Gateways, queues and Redis with all their faults implement Replicas: what a
\* gateway goes by is always a governed decision on what it knew, another's
\* decision, or nothing.
THEOREM RegistryFollowsReplicas == Spec => FollowsReplicas
<1>1. Init => Copies!Init
  BY DEF Init, Copies!Init, NoEntries, Abroad, Queued
<1>2. TypeOK /\ [Next]_vars => [Copies!Next]_(Copies!vars)
  BY NextCopies DEF Copies!vars
<1> QED
  BY <1>1, <1>2, RegistryTypeCorrect, PTL DEF Spec, FollowsReplicas, Copies!Spec

RetirementStays(s) ==
  RetiredEverywhere(s) =>
    \/ RetiredEverywhere(s)'
    \/ \E i \in Instances : mem[i][s] = None /\ mem'[i][s] # None

\* A consequence of the abstract steps alone.
LEMMA CopiesRetirement ==
  ASSUME TypeOK, Copies!Next, NEW s \in Services
  PROVE  RetirementStays(s)
<1> SUFFICES ASSUME RetiredEverywhere(s),
                    \A i \in Instances : mem[i][s] = None => mem'[i][s] = None
             PROVE  RetiredEverywhere(s)'
  BY DEF RetirementStays
<1>1. /\ \A i \in Instances : mem[i][s] # None => mem[i][s].status = "retired"
      /\ \A e \in Abroad[s] : e.status = "retired"
  BY DEF RetiredEverywhere, Known
<1>2. SUFFICES /\ \A i \in Instances : mem'[i][s] # None => mem'[i][s].status = "retired"
               /\ \A e \in Abroad'[s] : e.status = "retired"
  BY DEF RetiredEverywhere, Known
<1>3. CASE UNCHANGED mem /\ Copies!Fade
  BY <1>1, <1>3 DEF Copies!Fade
<1>4. ASSUME NEW i \in Instances, Copies!Adopt(i)
      PROVE  /\ \A j \in Instances : mem'[j][s] # None => mem'[j][s].status = "retired"
             /\ \A e \in Abroad'[s] : e.status = "retired"
  <2>1. \A j \in Instances : j # i => mem'[j] = mem[j]
    BY <1>4 DEF Copies!Adopt
  <2>2. mem'[i][s] \in Abroad[s] \cup {mem[i][s]} /\ Abroad'[s] \subseteq Abroad[s]
    BY <1>4 DEF Copies!Adopt, Copies!Fade
  <2> QED
    BY <1>1, <2>1, <2>2
<1>5. ASSUME NEW i \in Instances, NEW S \in SUBSET Services, Copies!Lose(i, S)
      PROVE  /\ \A j \in Instances : mem'[j][s] # None => mem'[j][s].status = "retired"
             /\ \A e \in Abroad'[s] : e.status = "retired"
  <2>1. \A j \in Instances : mem'[j][s] \in {mem[j][s], None}
    BY <1>5 DEF Copies!Lose, TypeOK
  <2>2. Abroad'[s] \subseteq Abroad[s]
    BY <1>5 DEF Copies!Lose, Copies!Fade
  <2> QED
    BY <1>1, <2>1, <2>2
<1>6. ASSUME NEW i \in Instances, NEW t \in Services, NEW new \in Entry,
             Copies!Decide(i, t, new)
      PROVE  /\ \A j \in Instances : mem'[j][s] # None => mem'[j][s].status = "retired"
             /\ \A e \in Abroad'[s] : e.status = "retired"
  <2>1. \A j \in Instances : mem'[j][s] = IF j = i /\ s = t THEN new ELSE mem[j][s]
    BY <1>6 DEF Copies!Decide, TypeOK
  <2>2. Abroad'[s] \subseteq Abroad[s] \cup (IF s = t THEN {new} ELSE {})
    BY <1>6 DEF Copies!Decide, Abroad
  <2>3. CASE s = t
    <3>1. mem[i][t] # None
      BY <2>1, <2>3, NoneIsNoOther
    <3>2. mem[i][t].status = "retired" /\ mem[i][t] \in Entry
      BY <1>1, <2>3, <3>1 DEF TypeOK, MaybeEntry
    <3>3. new.status = "retired"
      BY <1>6, <3>1, <3>2 DEF Copies!Decide, Copies!Governed, Copies!Created,
                              Copies!Updated, Copies!Moved, Copies!Probed, Entry
    <3> QED
      BY <1>1, <2>1, <2>2, <2>3, <3>3
  <2> QED
    BY <1>1, <2>1, <2>2, <2>3
<1> QED
  BY <1>3, <1>4, <1>5, <1>6 DEF Copies!Next

\* A retirement known everywhere is undone only where the service is unknown.
THEOREM RegistryRetirementHolds == Spec => RetirementHolds
<1>1. TypeOK /\ [Next]_vars => [\A s \in Services : RetirementStays(s)]_vars
  <2> SUFFICES ASSUME TypeOK, [Next]_vars, NEW s \in Services PROVE RetirementStays(s)
    OBVIOUS
  <2>1. CASE Copies!Next
    BY <2>1, CopiesRetirement
  <2>2. CASE UNCHANGED <<mem, Abroad>>
    BY <2>2 DEF RetirementStays, RetiredEverywhere, Known
  <2> QED
    BY <2>1, <2>2, NextCopies
<1> QED
  BY <1>1, RegistryTypeCorrect, PTL DEF Spec, RetirementHolds, RetirementStays
=============================================================================
