--------------------------- MODULE RegistryProofs ---------------------------
(***************************************************************************)
(* Theorems about the registry for every set of gateways, services, URLs   *)
(* and versions, every environment and every bound.                        *)
(***************************************************************************)
EXTENDS RegistryProperties, TLAPS, FiniteSetTheorems, SequenceTheorems

-----------------------------------------------------------------------------
(* Lemmas about the operators of the model.                                *)

LEMMA WriteIsCommand ==
  ASSUME NEW s \in Services, NEW v \in MaybeEntry,
         NEW k \in {"nothing", "create", "update"}
  PROVE  Write(s, v, k) \in Command /\ Write(s, v, k).svc = s
         /\ Write(s, v, k).val = v /\ Write(s, v, k).then = k
BY DEF Write, Command, WriteCommand

LEMMA ReadIsCommand ==
  ASSUME NEW k \in {"compare", "load", "boot"}
  PROVE  Read(k) \in Command /\ Read(k).svc = None /\ Read(k).then = k
BY DEF Read, Command, ReadCommand

\* None tells a read from a write, and no entry from an entry.
LEMMA NoneIsNoOther ==
  None \notin Services /\ None \notin Urls /\ None \notin Entry
BY RegistryAssumption

LEMMA CommandKinds ==
  ASSUME NEW cmd \in Command
  PROVE  /\ cmd.svc # None => cmd \in WriteCommand
         /\ cmd.svc = None => cmd \in ReadCommand
         /\ Awaited(cmd) => cmd \in WriteCommand
         /\ cmd \in WriteCommand => cmd.svc \in Services /\ cmd.val \in MaybeEntry
BY NoneIsNoOther DEF Command, WriteCommand, ReadCommand, Awaited

LEMMA EntryFields ==
  ASSUME NEW e \in Entry
  PROVE  /\ e.status \in Status /\ e.url \in Urls /\ e.healthy \in BOOLEAN
         /\ \A x \in Status : [e EXCEPT !.status = x] \in Entry
         /\ \A x \in Status : [e EXCEPT !.status = x].url = e.url
         /\ \A x \in Status : [e EXCEPT !.status = x].status = x
         /\ \A b \in BOOLEAN : [e EXCEPT !.healthy = b] \in Entry
         /\ \A b \in BOOLEAN : [e EXCEPT !.healthy = b].url = e.url
         /\ \A b \in BOOLEAN : [e EXCEPT !.healthy = b].status = e.status
BY DEF Entry

LEMMA GaugeIsNat ==
  ASSUME NEW m
  PROVE  GaugeOf(m) \in Nat
<1>1. IsFiniteSet({s \in Services : m[s] # None /\ m[s].status \in {"active", "deprecated"}})
  BY RegistryAssumption, FS_Subset
<1> QED
  BY <1>1, FS_CardinalityType DEF GaugeOf

\* A longer queue keeps the executed commands within it.
LEMMA SendType ==
  ASSUME TypeOK, NEW i \in Instances, NEW cmd \in Command
  PROVE  /\ Send(i, cmd) \in [Instances -> Seq(Command)]
         /\ \A j \in Instances : Len(pipe[j]) <= Len(Send(i, cmd)[j])
         /\ \A j \in Instances : j # i => Send(i, cmd)[j] = pipe[j]
         /\ mode[i] = "redis" => Send(i, cmd)[i] = Append(pipe[i], cmd)
         /\ mode[i] # "redis" => Send(i, cmd) = pipe
BY DEF TypeOK, Send

LEMMA StoreType ==
  ASSUME TypeOK, NEW i \in Instances, NEW s \in Services, NEW v \in MaybeEntry,
         Store(i, s, v)
  PROVE  /\ mem' \in [Instances -> [Services -> MaybeEntry]]
         /\ pipe' \in [Instances -> Seq(Command)]
         /\ \A j \in Instances : sent[j] <= Len(pipe'[j])
         /\ synced' \in [Instances -> SUBSET Services]
<1>1. Write(s, v, "nothing") \in Command
  BY WriteIsCommand
<1>2. \A j \in Instances : Len(pipe[j]) \in Nat /\ Len(pipe'[j]) \in Nat
                           /\ Len(pipe[j]) <= Len(pipe'[j])
  BY <1>1, SendType DEF Store, TypeOK
<1>3. \A j \in Instances : sent[j] <= Len(pipe'[j])
  BY <1>2 DEF TypeOK
<1>4. mem' \in [Instances -> [Services -> MaybeEntry]]
  BY DEF Store, TypeOK
<1>5. synced' \in [Instances -> SUBSET Services]
  BY DEF Store, TypeOK, WrittenThrough
<1> QED
  BY <1>1, <1>3, <1>4, <1>5, SendType DEF Store

LEMMA RollBackType ==
  ASSUME TypeOK, NEW i \in Instances, NEW S \in SUBSET Services, RollBack(i, S)
  PROVE  /\ mem' \in [Instances -> [Services -> MaybeEntry]]
         /\ gauge' \in [Instances -> Nat]
         /\ moved' \in [Instances -> SUBSET Services]
         /\ \A j \in Instances, t \in Services :
              ~(j = i /\ t \in S) => mem'[j][t] = mem[j][t]
<1>1. mem' = [mem EXCEPT ![i] = [s \in Services |-> IF s \in S THEN None ELSE mem[i][s]]]
  BY DEF RollBack
<1>2. [s \in Services |-> IF s \in S THEN None ELSE mem[i][s]] \in [Services -> MaybeEntry]
  BY DEF TypeOK, MaybeEntry
<1>3. mem' \in [Instances -> [Services -> MaybeEntry]]
  BY <1>1, <1>2 DEF TypeOK
<1>4. gauge' \in [Instances -> Nat]
  BY GaugeIsNat DEF RollBack, TypeOK
<1>5. moved' \in [Instances -> SUBSET Services]
  BY DEF RollBack, Unnotified, TypeOK
<1>6. \A j \in Instances, t \in Services :
        ~(j = i /\ t \in S) => mem'[j][t] = mem[j][t]
  BY <1>1 DEF TypeOK
<1> QED
  BY <1>3, <1>4, <1>5, <1>6

\* A deadline and a flush roll back services whose registration is awaited.
LEMMA RollBackOfAwaited ==
  ASSUME TypeOK, NEW i \in Instances, WriteTimeout(i) \/ Flush(i)
  PROVE  \E S \in SUBSET Services :
           /\ RollBack(i, S)
           /\ \A k \in DOMAIN pipe[i] : Flush(i) /\ Awaited(pipe[i][k]) => pipe[i][k].svc \in S
<1>1. \A k \in DOMAIN pipe[i] : Awaited(pipe[i][k]) => pipe[i][k].svc \in Services
  <2> SUFFICES ASSUME NEW k \in DOMAIN pipe[i], Awaited(pipe[i][k])
               PROVE  pipe[i][k].svc \in Services
    OBVIOUS
  <2>1. pipe[i][k] \in Command
    BY DEF TypeOK
  <2> QED
    BY <2>1, CommandKinds
<1>2. CASE Flush(i)
  <2> DEFINE awaited == {pipe[i][k].svc : k \in {n \in DOMAIN pipe[i] : Awaited(pipe[i][n])}}
  <2>1. RollBack(i, awaited)
    BY <1>2 DEF Flush
  <2>2. awaited \in SUBSET Services
    BY <1>1
  <2>3. \A k \in DOMAIN pipe[i] : Awaited(pipe[i][k]) => pipe[i][k].svc \in awaited
    OBVIOUS
  <2> HIDE DEF awaited
  <2> QED
    BY <2>1, <2>2, <2>3
<1>3. CASE WriteTimeout(i) /\ ~Flush(i)
  <2>1. PICK k \in DOMAIN pipe[i] : Awaited(pipe[i][k]) /\ RollBack(i, {pipe[i][k].svc})
    BY <1>3 DEF WriteTimeout
  <2> QED
    BY <1>1, <1>3, <2>1
<1> QED
  BY <1>2, <1>3

\* Dropping the oldest command, once executed.
LEMMA AnsweredType ==
  ASSUME TypeOK, NEW i \in Instances, NEW ks, Answered(i, ks)
  PROVE  /\ pipe[i] # <<>> /\ Head(pipe[i]) \in Command
         /\ Tail(pipe[i]) \in Seq(Command)
         /\ Len(Tail(pipe[i])) = Len(pipe[i]) - 1
         /\ sent' \in [Instances -> Nat]
         /\ sent'[i] <= Len(Tail(pipe[i]))
         /\ \A j \in Instances : j # i => sent'[j] = sent[j]
<1>1. /\ pipe[i] \in Seq(Command) /\ sent[i] \in Nat /\ sent[i] > 0
      /\ sent[i] <= Len(pipe[i])
  BY DEF TypeOK, Answered
<1>2. pipe[i] # <<>>
  BY <1>1
<1>3. Len(Tail(pipe[i])) = Len(pipe[i]) - 1 /\ Tail(pipe[i]) \in Seq(Command)
      /\ Head(pipe[i]) \in Command
  BY <1>1, <1>2
<1>4. sent' = [sent EXCEPT ![i] = sent[i] - 1] /\ sent[i] - 1 \in Nat
  BY <1>1 DEF Answered
<1>5. sent' \in [Instances -> Nat] /\ sent'[i] = sent[i] - 1
      /\ \A j \in Instances : j # i => sent'[j] = sent[j]
  BY <1>4 DEF TypeOK
<1> QED
  BY <1>1, <1>2, <1>3, <1>5

-----------------------------------------------------------------------------
(* Types.                                                                  *)

LEMMA InitType == Init => TypeOK
BY DEF Init, TypeOK, NoEntries, MaybeEntry

LEMMA RegisterType ==
  ASSUME TypeOK, NEW i \in Instances, NEW s \in Services, NEW url \in Urls,
         NEW major \in Majors \cup {None}, Register(i, s, url, major)
  PROVE  TypeOK'
<1> DEFINE new == [status |-> RegisteredStatus(mem[i][s]), url |-> url,
                   major |-> major, healthy |-> TRUE]
           cmd == Write(s, new, IF mem[i][s] = None THEN "create" ELSE "update")
<1>1. new \in Entry
  BY DEF RegisteredStatus, Entry, Status
<1>2. cmd \in Command
  BY <1>1, WriteIsCommand DEF MaybeEntry
<1> HIDE DEF new
<1>3. /\ mem' = [mem EXCEPT ![i][s] = new]
      /\ pipe' = Send(i, cmd)
      /\ gauge' = [gauge EXCEPT ![i] = GaugeOf(mem'[i])]
      /\ synced' = WrittenThrough(i, s)
      /\ calls' = calls + 1
      /\ UNCHANGED <<mode, probes, sent, snap, server, faults>>
  BY DEF Register, NotifyCacheInvalidation, Call, new
<1>4. \/ UNCHANGED <<proxy, moved>>
      \/ /\ proxy' = [proxy EXCEPT ![i][s] = None]
         /\ moved' = [moved EXCEPT ![i] = moved[i] \ {s}]
  BY DEF Register, NotifyCacheInvalidation
<1> HIDE DEF cmd
<1>5. mem' \in [Instances -> [Services -> MaybeEntry]]
  BY <1>1, <1>3 DEF TypeOK, MaybeEntry
<1>6. gauge' \in [Instances -> Nat]
  BY <1>3, GaugeIsNat DEF TypeOK
<1>7. /\ proxy' \in [Instances -> [Services -> Urls \cup {None}]]
      /\ moved' \in [Instances -> SUBSET Services]
  <2>1. CASE UNCHANGED <<proxy, moved>>
    BY <2>1 DEF TypeOK
  <2>2. CASE /\ proxy' = [proxy EXCEPT ![i][s] = None]
             /\ moved' = [moved EXCEPT ![i] = moved[i] \ {s}]
    BY <2>2 DEF TypeOK
  <2> QED
    BY <1>4, <2>1, <2>2
<1>8. synced' \in [Instances -> SUBSET Services]
  BY <1>3 DEF TypeOK, WrittenThrough
<1>9. pipe' \in [Instances -> Seq(Command)]
      /\ \A j \in Instances : Len(pipe[j]) <= Len(pipe'[j])
  BY <1>2, <1>3, SendType
<1>10. \A j \in Instances : sent'[j] <= Len(pipe'[j])
  BY <1>3, <1>9 DEF TypeOK
<1> QED
  BY <1>3, <1>5, <1>6, <1>7, <1>8, <1>9, <1>10 DEF TypeOK, server

\* Deprecate, Retire, Activate and HealthChanges write a changed entry.
LEMMA StoreKeepsType ==
  ASSUME TypeOK, NEW i \in Instances, NEW s \in Services, NEW v \in Entry,
         Store(i, s, v),
         gauge' = [gauge EXCEPT ![i] = GaugeOf(mem'[i])] \/ UNCHANGED gauge,
         probes' = [probes EXCEPT ![i] = @ \ {s}] \/ UNCHANGED probes,
         calls' \in Nat,
         UNCHANGED <<mode, proxy, sent, snap, server, faults, moved>>
  PROVE  TypeOK'
<1> DEFINE n == GaugeOf(mem'[i])
<1>0. n \in Nat
  BY GaugeIsNat
<1> HIDE DEF n
<1>1. gauge' \in [Instances -> Nat]
  <2>1. CASE gauge' = [gauge EXCEPT ![i] = n]
    BY <1>0, <2>1 DEF TypeOK
  <2> QED
    BY <2>1 DEF TypeOK, n
<1>2. probes' \in [Instances -> SUBSET Services]
  BY DEF TypeOK
<1> QED
  BY <1>1, <1>2, StoreType DEF TypeOK, server, MaybeEntry

LEMMA NextType == TypeOK /\ [Next]_vars => TypeOK'
<1> SUFFICES ASSUME TypeOK, [Next]_vars
             PROVE  TypeOK'
  OBVIOUS
<1> DEFINE API(i, s) ==
       \/ \E url \in Urls, major \in Majors \cup {None} : Register(i, s, url, major)
       \/ Deregister(i, s) \/ Deprecate(i, s) \/ Retire(i, s) \/ Activate(i, s)
<1>1. ASSUME NEW i \in Instances, NEW s \in Services, API(i, s)
      PROVE  TypeOK'
  <2>1. ASSUME NEW url \in Urls, NEW major \in Majors \cup {None},
               Register(i, s, url, major)
        PROVE  TypeOK'
    BY <2>1, RegisterType
  <2>2. CASE Deregister(i, s)
    <3>1. None \in MaybeEntry /\ GaugeOf(mem'[i]) \in Nat
      BY GaugeIsNat DEF MaybeEntry
    <3>2. gauge' \in [Instances -> Nat] /\ calls' \in Nat
      BY <2>2, <3>1 DEF Deregister, Call, TypeOK
    <3>3. moved' \in [Instances -> SUBSET Services]
      BY <2>2 DEF Deregister, Unnotified, TypeOK
    <3> QED
      BY <2>2, <3>1, <3>2, <3>3, StoreType DEF Deregister, TypeOK, server
  <2>3. CASE Deprecate(i, s)
    <3>0. mem[i][s] \in Entry /\ calls' \in Nat
      BY <2>3 DEF Deprecate, Known, Call, TypeOK, MaybeEntry
    <3>1. [mem[i][s] EXCEPT !.status = "deprecated"] \in Entry
      BY <3>0, EntryFields DEF Status
    <3> QED
      BY <2>3, <3>0, <3>1, StoreKeepsType DEF Deprecate, local
  <2>4. CASE Retire(i, s)
    <3>0. mem[i][s] \in Entry /\ calls' \in Nat
      BY <2>4 DEF Retire, Known, Call, TypeOK, MaybeEntry
    <3>1. [mem[i][s] EXCEPT !.status = "retired"] \in Entry
      BY <3>0, EntryFields DEF Status
    <3> QED
      BY <2>4, <3>0, <3>1, StoreKeepsType DEF Retire
  <2>5. CASE Activate(i, s)
    <3>0. mem[i][s] \in Entry /\ calls' \in Nat
      BY <2>5 DEF Activate, Known, Call, TypeOK, MaybeEntry
    <3>1. [mem[i][s] EXCEPT !.status = "active"] \in Entry
      BY <3>0, EntryFields DEF Status
    <3> QED
      BY <2>5, <3>0, <3>1, StoreKeepsType DEF Activate
  <2> QED
    BY <1>1, <2>1, <2>2, <2>3, <2>4, <2>5
<1>2. ASSUME NEW i \in Instances, NEW s \in Services, OpenProxy(i, s)
      PROVE  TypeOK'
  <2>1. mem[i][s].url \in Urls
    BY <1>2, EntryFields DEF OpenProxy, Accepts, Known, TypeOK, MaybeEntry
  <2>2. proxy' \in [Instances -> [Services -> Urls \cup {None}]]
    BY <1>2, <2>1 DEF OpenProxy, TypeOK
  <2>3. moved' \in [Instances -> SUBSET Services]
    BY <1>2 DEF OpenProxy, TypeOK
  <2> QED
    BY <1>2, <2>2, <2>3 DEF OpenProxy, TypeOK, server
<1>3. ASSUME NEW i \in Instances, NEW s \in Services, NEW ok \in BOOLEAN,
             HealthChanges(i, s, ok)
      PROVE  TypeOK'
  <2>1. [mem[i][s] EXCEPT !.healthy = ok] \in Entry /\ calls' \in Nat
    BY <1>3, EntryFields DEF HealthChanges, Known, TypeOK, MaybeEntry
  <2> QED
    BY <1>3, <2>1, StoreKeepsType DEF HealthChanges
<1>4. ASSUME NEW i \in Instances, NEW s \in Services, NEW ok \in BOOLEAN,
             HealthStands(i, s, ok)
      PROVE  TypeOK'
  BY <1>4 DEF HealthStands, TypeOK, server
<1>5. ASSUME NEW i \in Instances, StartSweep(i) PROVE TypeOK'
  BY <1>5 DEF StartSweep, TypeOK, server, Call
<1>6. ASSUME NEW i \in Instances, Reconcile(i) PROVE TypeOK'
  <2>1. Read("compare") \in Command /\ pipe[i] \in Seq(Command) /\ sent[i] \in Nat
        /\ sent[i] <= Len(pipe[i])
    BY ReadIsCommand DEF TypeOK
  <2>2. pipe' = [pipe EXCEPT ![i] = Append(pipe[i], Read("compare"))]
        /\ Append(pipe[i], Read("compare")) \in Seq(Command)
        /\ sent[i] <= Len(Append(pipe[i], Read("compare")))
    BY <1>6, <2>1 DEF Reconcile
  <2>3. pipe' \in [Instances -> Seq(Command)]
        /\ \A j \in Instances : sent[j] <= Len(pipe'[j])
    BY <2>2 DEF TypeOK
  <2> QED
    BY <1>6, <2>3 DEF Reconcile, TypeOK, server, local
<1>7. ASSUME NEW i \in Instances, Boot(i) PROVE TypeOK'
  <2>1. <<Read("boot")>> \in Seq(Command) /\ Len(<<Read("boot")>>) = 1
    BY ReadIsCommand
  <2>2. /\ pipe' = [pipe EXCEPT ![i] = <<Read("boot")>>]
        /\ sent' = [sent EXCEPT ![i] = 0]
    BY <1>7 DEF Boot
  <2>3. /\ pipe' \in [Instances -> Seq(Command)]
        /\ sent' \in [Instances -> Nat]
        /\ \A j \in Instances : sent'[j] <= Len(pipe'[j])
    BY <2>1, <2>2 DEF TypeOK
  <2> QED
    BY <1>7, <2>3 DEF Boot, TypeOK, server
<1>8. ASSUME NEW i \in Instances, BootAlone(i) PROVE TypeOK'
  BY <1>8 DEF BootAlone, Fault, TypeOK, server
<1>9. ASSUME NEW i \in Instances, Execute(i) PROVE TypeOK'
  <2> DEFINE cmd == pipe[i][sent[i] + 1]
  <2>1. cmd \in Command /\ sent[i] \in Nat /\ sent[i] + 1 <= Len(pipe[i])
    BY <1>9 DEF Execute, TypeOK
  <2>2. /\ sent' = [sent EXCEPT ![i] = sent[i] + 1]
        /\ UNCHANGED <<local, mem, pipe, saved, calls, faults, moved>>
    BY <1>9 DEF Execute
  <2>3. /\ sent' \in [Instances -> Nat]
        /\ \A j \in Instances : sent'[j] <= Len(pipe'[j])
    BY <2>1, <2>2 DEF TypeOK
  <2>4. CASE cmd.svc = None
    <3>1. snap' = [snap EXCEPT ![i] = redis] /\ UNCHANGED <<redis, synced>>
      BY <1>9, <2>4 DEF Execute
    <3> QED
      BY <2>2, <2>3, <3>1 DEF TypeOK, local
  <2>5. CASE cmd.svc # None
    <3>1. /\ redis' = [redis EXCEPT ![cmd.svc] = cmd.val]
          /\ synced' = [j \in Instances |->
                          IF j = i THEN synced[j] ELSE synced[j] \ {cmd.svc}]
          /\ UNCHANGED snap
      BY <1>9, <2>5 DEF Execute
    <3>2. cmd.svc \in Services /\ cmd.val \in MaybeEntry
      BY <2>1, <2>5, CommandKinds
    <3> HIDE DEF cmd
    <3>3. redis' \in [Services -> MaybeEntry]
      BY <3>1, <3>2 DEF TypeOK
    <3>4. synced' \in [Instances -> SUBSET Services]
      BY <3>1 DEF TypeOK
    <3> QED
      BY <2>2, <2>3, <3>1, <3>3, <3>4 DEF TypeOK, local
  <2> QED
    BY <2>4, <2>5
<1>10. ASSUME NEW i \in Instances, WriteReply(i) PROVE TypeOK'
  <2>1. Answered(i, {"nothing", "create", "update"})
    BY <1>10 DEF WriteReply, NotifyCacheInvalidation
  <2>2. /\ pipe' = [pipe EXCEPT ![i] = Tail(pipe[i])]
        /\ UNCHANGED <<mode, mem, gauge, probes, snap, server, calls, faults, synced>>
    BY <1>10 DEF WriteReply, NotifyCacheInvalidation
  <2>3. /\ pipe' \in [Instances -> Seq(Command)] /\ sent' \in [Instances -> Nat]
        /\ \A j \in Instances : sent'[j] <= Len(pipe'[j])
    BY <2>1, <2>2, AnsweredType DEF TypeOK
  <2> DEFINE s == Head(pipe[i]).svc
  <2>4. \/ UNCHANGED <<proxy, moved>>
        \/ /\ proxy' = [proxy EXCEPT ![i][s] = None]
           /\ moved' = [moved EXCEPT ![i] = moved[i] \ {s}]
    BY <1>10 DEF WriteReply, NotifyCacheInvalidation
  <2> HIDE DEF s
  <2>5. /\ proxy' \in [Instances -> [Services -> Urls \cup {None}]]
        /\ moved' \in [Instances -> SUBSET Services]
    <3>1. CASE UNCHANGED <<proxy, moved>>
      BY <3>1 DEF TypeOK
    <3>2. CASE /\ proxy' = [proxy EXCEPT ![i][s] = None]
               /\ moved' = [moved EXCEPT ![i] = moved[i] \ {s}]
      BY <3>2 DEF TypeOK
    <3> QED
      BY <2>4, <3>1, <3>2
  <2> QED
    BY <2>2, <2>3, <2>5 DEF TypeOK, server
<1>11. ASSUME NEW i \in Instances, CompareReply(i) PROVE TypeOK'
  <2>1. Answered(i, {"compare"})
    BY <1>11 DEF CompareReply
  <2>2. /\ \/ pipe' = [pipe EXCEPT ![i] = Append(Tail(pipe[i]), Read("load"))]
           \/ pipe' = [pipe EXCEPT ![i] = Tail(pipe[i])]
        /\ snap' = [snap EXCEPT ![i] = NoEntries]
        /\ UNCHANGED <<local, mem, server, calls, faults, synced, moved>>
    BY <1>11 DEF CompareReply
  <2>3. /\ Tail(pipe[i]) \in Seq(Command) /\ sent' \in [Instances -> Nat]
        /\ sent'[i] <= Len(Tail(pipe[i]))
        /\ \A j \in Instances : j # i => sent'[j] = sent[j]
    BY <2>1, AnsweredType
  <2>4. /\ Append(Tail(pipe[i]), Read("load")) \in Seq(Command)
        /\ sent'[i] <= Len(Append(Tail(pipe[i]), Read("load")))
    BY <2>3, ReadIsCommand
  <2>5. PICK q \in Seq(Command) : pipe' = [pipe EXCEPT ![i] = q] /\ sent'[i] <= Len(q)
    BY <2>2, <2>3, <2>4
  <2>6. /\ pipe' \in [Instances -> Seq(Command)]
        /\ \A j \in Instances : sent'[j] <= Len(pipe'[j])
    BY <2>3, <2>5 DEF TypeOK
  <2>7. snap' \in [Instances -> [Services -> MaybeEntry]]
    BY <2>2 DEF TypeOK, NoEntries, MaybeEntry
  <2> QED
    BY <2>2, <2>3, <2>6, <2>7 DEF TypeOK, server, local
<1>12. ASSUME NEW i \in Instances, LoadReply(i) PROVE TypeOK'
  <2>1. Answered(i, {"load", "boot"})
    BY <1>12 DEF LoadReply
  <2>2. /\ pipe' = [pipe EXCEPT ![i] = Tail(pipe[i])]
        /\ mem' = [mem EXCEPT ![i] = Loaded(i)]
        /\ mode' = [mode EXCEPT ![i] = "redis"]
        /\ snap' = [snap EXCEPT ![i] = NoEntries]
        /\ UNCHANGED <<gauge, proxy, probes, server, calls, faults>>
    BY <1>12 DEF LoadReply
  <2>3. /\ pipe' \in [Instances -> Seq(Command)] /\ sent' \in [Instances -> Nat]
        /\ \A j \in Instances : sent'[j] <= Len(pipe'[j])
    BY <2>1, <2>2, AnsweredType DEF TypeOK
  <2>4. mem' \in [Instances -> [Services -> MaybeEntry]]
        /\ snap' \in [Instances -> [Services -> MaybeEntry]]
    BY <2>2 DEF Loaded, TypeOK, NoEntries, MaybeEntry
  <2>5. synced' \in [Instances -> SUBSET Services] /\ moved' \in [Instances -> SUBSET Services]
    BY <1>12 DEF LoadReply, Unnotified, TypeOK
  <2> QED
    BY <2>2, <2>3, <2>4, <2>5 DEF TypeOK, server
<1>13. ASSUME NEW i \in Instances, WriteTimeout(i) PROVE TypeOK'
  <2>1. PICK k \in DOMAIN pipe[i] :
          /\ Awaited(pipe[i][k])
          /\ RollBack(i, {pipe[i][k].svc})
          /\ pipe' = [pipe EXCEPT ![i][k].then = "nothing"]
          /\ synced' = [synced EXCEPT ![i] = @ \ {pipe[i][k].svc}]
    BY <1>13 DEF WriteTimeout
  <2> DEFINE cmd == pipe[i][k]
             new == [cmd EXCEPT !.then = "nothing"]
  <2>2. cmd \in WriteCommand
    BY <2>1, CommandKinds DEF TypeOK
  <2>3. cmd.svc \in Services /\ new \in Command
    BY <2>2 DEF WriteCommand, Command
  <2>4. RollBack(i, {cmd.svc})
    BY <2>1
  <2>5. pipe' = [pipe EXCEPT ![i] = [pipe[i] EXCEPT ![k] = new]]
    BY <2>1
  <2>6. synced' = [synced EXCEPT ![i] = synced[i] \ {cmd.svc}]
    BY <2>1
  <2>7. /\ UNCHANGED <<mode, proxy, probes, sent, snap, server, calls>>
        /\ faults' \in Nat
    BY <1>13 DEF WriteTimeout, Fault, TypeOK
  <2> HIDE DEF cmd, new
  <2>8. [pipe[i] EXCEPT ![k] = new] \in Seq(Command)
        /\ Len([pipe[i] EXCEPT ![k] = new]) = Len(pipe[i])
    BY <2>3, <2>1 DEF TypeOK
  <2>9. /\ pipe' \in [Instances -> Seq(Command)]
        /\ \A j \in Instances : sent[j] <= Len(pipe'[j])
    BY <2>5, <2>8 DEF TypeOK
  <2>10. synced' \in [Instances -> SUBSET Services]
    BY <2>6 DEF TypeOK
  <2>11. /\ mem' \in [Instances -> [Services -> MaybeEntry]]
         /\ gauge' \in [Instances -> Nat]
         /\ moved' \in [Instances -> SUBSET Services]
    BY <2>3, <2>4, RollBackType
  <2> QED
    BY <2>7, <2>9, <2>10, <2>11 DEF TypeOK, server
<1>14. ASSUME NEW i \in Instances, Disconnect(i) PROVE TypeOK'
  <2>1. /\ sent' = [sent EXCEPT ![i] = 0] /\ UNCHANGED pipe
        /\ UNCHANGED <<local, mem, snap, server, calls, synced, moved>>
        /\ faults' \in Nat
    BY <1>14 DEF Disconnect, Fault, TypeOK
  <2>2. sent' \in [Instances -> Nat] /\ \A j \in Instances : sent'[j] <= Len(pipe'[j])
    BY <2>1 DEF TypeOK
  <2> QED
    BY <2>1, <2>2 DEF TypeOK, local, server
<1>15. ASSUME NEW i \in Instances, Flush(i) PROVE TypeOK'
  <2> DEFINE awaited == {pipe[i][k].svc : k \in {n \in DOMAIN pipe[i] : Awaited(pipe[i][n])}}
             writes == {pipe[i][k].svc : k \in DOMAIN pipe[i]} \ {None}
  <2>1. /\ RollBack(i, awaited)
        /\ pipe' = [pipe EXCEPT ![i] = <<>>]
        /\ sent' = [sent EXCEPT ![i] = 0]
        /\ snap' = [snap EXCEPT ![i] = NoEntries]
        /\ mode' = [mode EXCEPT ![i] = IF mode[i] = "booting" THEN "memory" ELSE mode[i]]
        /\ synced' = [synced EXCEPT ![i] = synced[i] \ writes]
        /\ UNCHANGED <<proxy, probes, server, calls>>
        /\ faults' \in Nat
    BY <1>15 DEF Flush, Fault, TypeOK
  <2>2. awaited \subseteq Services
    <3> SUFFICES ASSUME NEW k \in DOMAIN pipe[i], Awaited(pipe[i][k])
                 PROVE  pipe[i][k].svc \in Services
      OBVIOUS
    <3>1. pipe[i][k] \in Command
      BY DEF TypeOK
    <3> QED
      BY <3>1, CommandKinds
  <2> HIDE DEF awaited, writes
  <2>3. /\ mem' \in [Instances -> [Services -> MaybeEntry]]
        /\ gauge' \in [Instances -> Nat]
        /\ moved' \in [Instances -> SUBSET Services]
    BY <2>1, <2>2, RollBackType
  <2>4. /\ pipe' \in [Instances -> Seq(Command)] /\ sent' \in [Instances -> Nat]
        /\ \A j \in Instances : sent'[j] <= Len(pipe'[j])
    BY <2>1 DEF TypeOK
  <2>5. /\ mode' \in [Instances -> {"down", "booting", "redis", "memory"}]
        /\ snap' \in [Instances -> [Services -> MaybeEntry]]
        /\ synced' \in [Instances -> SUBSET Services]
    BY <2>1 DEF TypeOK, NoEntries, MaybeEntry
  <2> QED
    BY <2>1, <2>3, <2>4, <2>5 DEF TypeOK, server
<1>16. ASSUME NEW i \in Instances, Crash(i) PROVE TypeOK'
  <2>1. /\ pipe' \in [Instances -> Seq(Command)] /\ sent' \in [Instances -> Nat]
        /\ \A j \in Instances : sent'[j] <= Len(pipe'[j])
    BY <1>16 DEF Crash, TypeOK
  <2>2. /\ mem' \in [Instances -> [Services -> MaybeEntry]]
        /\ snap' \in [Instances -> [Services -> MaybeEntry]]
        /\ proxy' \in [Instances -> [Services -> Urls \cup {None}]]
    BY <1>16 DEF Crash, TypeOK, NoEntries, MaybeEntry
  <2> QED
    BY <1>16, <2>1, <2>2 DEF Crash, Fault, TypeOK, server
<1>17. CASE SaveRedis
  BY <1>17 DEF SaveRedis, TypeOK, local
<1>18. CASE RestartRedis
  <2>1. \A j \in Instances : 0 <= Len(pipe[j])
    BY DEF TypeOK
  <2> QED
    BY <1>18, <2>1 DEF RestartRedis, Fault, TypeOK, local
<1>19. CASE UNCHANGED vars
  BY <1>19 DEF vars, TypeOK, server
<1>20. ASSUME NEW i \in Instances, SkipReconcile(i) PROVE TypeOK'
  BY <1>20, <1>19 DEF SkipReconcile
<1> QED
  BY <1>1, <1>2, <1>3, <1>4, <1>5, <1>6, <1>7, <1>8, <1>9, <1>10, <1>11, <1>12,
     <1>13, <1>14, <1>15, <1>16, <1>17, <1>18, <1>19, <1>20 DEF Next

\* Every variable keeps its type; in particular Redis never has executed more
\* commands of a gateway than it has under way, and no command mixes the
\* fields of a write with the continuation of a read.
THEOREM RegistryTypeCorrect == Spec => []TypeOK
BY InitType, NextType, PTL DEF Spec
=============================================================================
