------------------------ MODULE RegistrySafetyProofs ------------------------
(***************************************************************************)
(* The safety properties of the registry, proved from RegistryTypeCorrect. *)
(***************************************************************************)
EXTENDS RegistryProofs

-----------------------------------------------------------------------------
(* WriteThrough.  It is not inductive: it says what Redis will hold once   *)
(* the queue is empty, and not what it holds while some of the commands    *)
(* have been executed and not answered.  Consistent adds that.             *)

Consistent(i, s) ==
  /\ \A k \in DOMAIN pipe[i] : LastWrite(i, s, k) => pipe[i][k].val = mem[i][s]
  /\ (\A k \in DOMAIN pipe[i] : IsWrite(i, s, k) => k <= sent[i])
       => redis[s] = mem[i][s]

SyncInv ==
  \A i \in Instances :
    /\ synced[i] # {} => mode[i] = "redis"
    /\ \A s \in synced[i] : Consistent(i, s)

LEMMA SyncInvGivesWriteThrough == TypeOK /\ SyncInv => WriteThrough
BY DEF TypeOK, SyncInv, Consistent, WriteThrough

\* The same commands, executed no further: nothing to show anew.
LEMMA QueueKept ==
  ASSUME TypeOK, TypeOK', NEW i \in Instances, NEW s \in Services, Consistent(i, s),
         Len(pipe'[i]) = Len(pipe[i]),
         \A k \in DOMAIN pipe[i] : pipe'[i][k].svc = pipe[i][k].svc
                                   /\ pipe'[i][k].val = pipe[i][k].val,
         sent'[i] <= sent[i],
         redis'[s] = redis[s],
         mem'[i][s] = mem[i][s]
  PROVE  Consistent(i, s)'
<1>1. DOMAIN pipe'[i] = DOMAIN pipe[i] /\ DOMAIN pipe[i] \subseteq Nat
      /\ sent[i] \in Nat /\ sent'[i] \in Nat
  BY DEF TypeOK
<1>2. \A k \in DOMAIN pipe[i] : IsWrite(i, s, k)' <=> IsWrite(i, s, k)
  BY <1>1 DEF IsWrite
<1>3. \A k \in DOMAIN pipe[i] : LastWrite(i, s, k)' <=> LastWrite(i, s, k)
  BY <1>1, <1>2 DEF LastWrite
<1> QED
  BY <1>1, <1>2, <1>3 DEF Consistent

\* One more command at the end, about another service or none.
LEMMA OtherAppended ==
  ASSUME TypeOK, NEW i \in Instances, NEW s \in Services, Consistent(i, s),
         NEW cmd \in Command, cmd.svc # s,
         pipe'[i] = Append(pipe[i], cmd),
         sent'[i] = sent[i],
         redis'[s] = redis[s],
         mem'[i][s] = mem[i][s]
  PROVE  Consistent(i, s)'
<1> DEFINE n == Len(pipe[i])
<1>1. /\ DOMAIN pipe[i] = 1..n /\ n \in Nat
      /\ DOMAIN pipe'[i] = 1..(n + 1)
      /\ \A k \in 1..n : pipe'[i][k] = pipe[i][k]
      /\ pipe'[i][n + 1] = cmd
  BY DEF TypeOK
<1> HIDE DEF n
<1>2. \A k \in 1..(n + 1) : IsWrite(i, s, k)' <=> k \in 1..n /\ IsWrite(i, s, k)
  BY <1>1 DEF IsWrite
<1>3. \A k \in 1..(n + 1) : LastWrite(i, s, k)' => k \in 1..n /\ LastWrite(i, s, k)
  BY <1>1, <1>2 DEF LastWrite
<1> QED
  BY <1>1, <1>2, <1>3 DEF Consistent

\* One more command at the end: the write of what memory now has.
LEMMA OwnAppended ==
  ASSUME TypeOK, NEW i \in Instances, NEW s \in Services,
         NEW cmd \in Command, cmd.svc = s,
         pipe'[i] = Append(pipe[i], cmd),
         sent'[i] = sent[i],
         mem'[i][s] = cmd.val
  PROVE  Consistent(i, s)'
<1> DEFINE n == Len(pipe[i])
<1>1. /\ DOMAIN pipe[i] = 1..n /\ n \in Nat /\ sent[i] \in Nat /\ sent[i] <= n
      /\ DOMAIN pipe'[i] = 1..(n + 1)
      /\ pipe'[i][n + 1] = cmd
  BY DEF TypeOK
<1> HIDE DEF n
<1>2. \A k : k = n + 1 => IsWrite(i, s, k)'
  BY <1>1 DEF IsWrite
<1>3. \A k \in 1..(n + 1) : LastWrite(i, s, k)' => k = n + 1
  BY <1>1, <1>2 DEF LastWrite
<1>4. n + 1 \in DOMAIN pipe'[i] /\ ~(n + 1 <= sent'[i])
  BY <1>1
<1> QED
  BY <1>1, <1>2, <1>3, <1>4 DEF Consistent

\* The oldest command is answered, hence executed.
LEMMA HeadDropped ==
  ASSUME TypeOK, NEW i \in Instances, NEW s \in Services, Consistent(i, s),
         NEW ks, Answered(i, ks),
         pipe'[i] = Tail(pipe[i]),
         redis'[s] = redis[s],
         mem'[i][s] = mem[i][s]
  PROVE  Consistent(i, s)'
<1> DEFINE n == Len(pipe[i])
<1>1. /\ pipe[i] \in Seq(Command) /\ pipe[i] # <<>>
      /\ sent[i] \in Nat /\ sent[i] >= 1 /\ sent'[i] = sent[i] - 1
  BY AnsweredType DEF TypeOK, Answered
<1>2. /\ DOMAIN pipe[i] = 1..n /\ n \in Nat /\ n >= 1
      /\ DOMAIN pipe'[i] = 1..(n - 1)
      /\ \A k \in 1..(n - 1) : pipe'[i][k] = pipe[i][k + 1]
  BY <1>1
<1> HIDE DEF n
<1>3. \A k \in 1..(n - 1) : IsWrite(i, s, k)' <=> IsWrite(i, s, k + 1)
  BY <1>2 DEF IsWrite
<1>4. \A k \in 1..(n - 1) : LastWrite(i, s, k)' => LastWrite(i, s, k + 1)
  <2> SUFFICES ASSUME NEW k \in 1..(n - 1), LastWrite(i, s, k)'
               PROVE  LastWrite(i, s, k + 1)
    OBVIOUS
  <2>1. IsWrite(i, s, k + 1)
    BY <1>3 DEF LastWrite
  <2>2. ASSUME NEW j \in 1..n, IsWrite(i, s, j) PROVE j <= k + 1
    <3>1. CASE j = 1
      BY <3>1
    <3>2. CASE j > 1
      <4>1. j - 1 \in 1..(n - 1) /\ (j - 1) + 1 = j
        BY <3>2, <1>2
      <4>2. IsWrite(i, s, j - 1)'
        BY <4>1, <2>2, <1>3
      <4>3. j - 1 <= k
        BY <4>1, <4>2, <1>2 DEF LastWrite
      <4> QED
        BY <4>3
    <3> QED
      BY <3>1, <3>2
  <2> QED
    BY <2>1, <2>2, <1>2 DEF LastWrite
<1>5. \A k \in DOMAIN pipe'[i] : LastWrite(i, s, k)' => pipe'[i][k].val = mem'[i][s]
  BY <1>2, <1>4 DEF Consistent
<1>6. ASSUME \A k \in DOMAIN pipe'[i] : IsWrite(i, s, k)' => k <= sent'[i]
      PROVE  redis'[s] = mem'[i][s]
  <2> SUFFICES ASSUME NEW j \in 1..n, IsWrite(i, s, j)
               PROVE  j <= sent[i]
    BY <1>2 DEF Consistent
  <2>1. CASE j = 1
    BY <2>1, <1>1
  <2>2. CASE j > 1
    <3>1. j - 1 \in 1..(n - 1) /\ (j - 1) + 1 = j
      BY <2>2, <1>2
    <3>2. IsWrite(i, s, j - 1)'
      BY <3>1, <1>3
    <3>3. j - 1 <= sent'[i]
      BY <3>1, <3>2, <1>2, <1>6
    <3> QED
      BY <3>3, <1>1
  <2> QED
    BY <2>1, <2>2
<1> QED
  BY <1>5, <1>6 DEF Consistent

\* The oldest command is answered and its continuation reads Redis again.
LEMMA HeadDroppedReadAppended ==
  ASSUME TypeOK, NEW i \in Instances, NEW s \in Services, Consistent(i, s),
         NEW ks, Answered(i, ks),
         pipe'[i] = Append(Tail(pipe[i]), Read("load")),
         redis'[s] = redis[s],
         mem'[i][s] = mem[i][s]
  PROVE  Consistent(i, s)'
<1> DEFINE n == Len(pipe[i])
<1>1. /\ pipe[i] \in Seq(Command) /\ pipe[i] # <<>>
      /\ sent[i] \in Nat /\ sent[i] >= 1 /\ sent'[i] = sent[i] - 1
  BY AnsweredType DEF TypeOK, Answered
<1>2. /\ DOMAIN pipe[i] = 1..n /\ n \in Nat /\ n >= 1
      /\ DOMAIN pipe'[i] = 1..n
      /\ \A k \in 1..(n - 1) : pipe'[i][k] = pipe[i][k + 1]
      /\ pipe'[i][n].svc # s
  BY <1>1, ReadIsCommand, NoneIsNoOther
<1> HIDE DEF n
<1>3. \A k \in 1..n : IsWrite(i, s, k)' <=> k \in 1..(n - 1) /\ IsWrite(i, s, k + 1)
  BY <1>2 DEF IsWrite
<1>4. ASSUME NEW j \in 1..n, j > 1, IsWrite(i, s, j)
      PROVE  j - 1 \in 1..(n - 1) /\ IsWrite(i, s, j - 1)'
  <2>1. j - 1 \in 1..(n - 1) /\ (j - 1) + 1 = j /\ j - 1 \in 1..n
    BY <1>2, <1>4
  <2> QED
    BY <2>1, <1>3, <1>4
<1>5. \A k \in 1..n : LastWrite(i, s, k)' => k \in 1..(n - 1) /\ LastWrite(i, s, k + 1)
  <2> SUFFICES ASSUME NEW k \in 1..n, LastWrite(i, s, k)'
               PROVE  k \in 1..(n - 1) /\ LastWrite(i, s, k + 1)
    OBVIOUS
  <2>1. k \in 1..(n - 1) /\ IsWrite(i, s, k + 1)
    BY <1>3 DEF LastWrite
  <2>2. ASSUME NEW j \in 1..n, IsWrite(i, s, j) PROVE j <= k + 1
    <3>1. CASE j = 1
      BY <3>1
    <3>2. CASE j > 1
      <4>1. j - 1 \in 1..n /\ IsWrite(i, s, j - 1)'
        BY <1>2, <1>4, <2>2, <3>2
      <4>2. j - 1 <= k
        BY <4>1, <1>2 DEF LastWrite
      <4> QED
        BY <4>2
    <3> QED
      BY <3>1, <3>2
  <2> QED
    BY <2>1, <2>2, <1>2 DEF LastWrite
<1>6. \A k \in DOMAIN pipe'[i] : LastWrite(i, s, k)' => pipe'[i][k].val = mem'[i][s]
  BY <1>2, <1>5 DEF Consistent
<1>7. ASSUME \A k \in DOMAIN pipe'[i] : IsWrite(i, s, k)' => k <= sent'[i]
      PROVE  redis'[s] = mem'[i][s]
  <2> SUFFICES ASSUME NEW j \in 1..n, IsWrite(i, s, j)
               PROVE  j <= sent[i]
    BY <1>2 DEF Consistent
  <2>1. CASE j = 1
    BY <2>1, <1>1
  <2>2. CASE j > 1
    <3>1. j - 1 \in 1..n /\ IsWrite(i, s, j - 1)'
      BY <1>2, <1>4, <2>2
    <3>2. j - 1 <= sent'[i]
      BY <3>1, <1>2, <1>7
    <3> QED
      BY <3>2, <1>1
  <2> QED
    BY <2>1, <2>2
<1> QED
  BY <1>6, <1>7 DEF Consistent

\* Redis executes the next command of i, whatever it is about.
LEMMA NextExecuted ==
  ASSUME TypeOK, NEW i \in Instances, NEW s \in Services, Consistent(i, s), Execute(i)
  PROVE  Consistent(i, s)'
<1> DEFINE n == Len(pipe[i])
           m == sent[i] + 1
<1>1. /\ DOMAIN pipe[i] = 1..n /\ n \in Nat /\ sent[i] \in Nat /\ m \in 1..n
      /\ pipe' = pipe /\ mem' = mem /\ sent'[i] = m
  BY DEF TypeOK, Execute
<1>2. pipe[i][m].svc = s => redis'[s] = pipe[i][m].val
  BY NoneIsNoOther, <1>1 DEF Execute, TypeOK
<1>3. pipe[i][m].svc # s => redis'[s] = redis[s]
  BY <1>1 DEF Execute, TypeOK
<1>4. \A k : IsWrite(i, s, k)' <=> IsWrite(i, s, k)
  BY <1>1 DEF IsWrite
<1>5. \A k : LastWrite(i, s, k)' <=> LastWrite(i, s, k)
  BY <1>1, <1>4 DEF LastWrite
<1>6. ASSUME \A k \in DOMAIN pipe[i] : IsWrite(i, s, k) => k <= m
      PROVE  redis'[s] = mem[i][s]
  <2>1. CASE pipe[i][m].svc = s
    <3>1. LastWrite(i, s, m)
      BY <2>1, <1>1, <1>6 DEF LastWrite, IsWrite
    <3> QED
      BY <3>1, <2>1, <1>1, <1>2 DEF Consistent
  <2>2. CASE pipe[i][m].svc # s
    <3>1. \A k \in DOMAIN pipe[i] : IsWrite(i, s, k) => k <= sent[i]
      BY <2>2, <1>1, <1>6 DEF IsWrite
    <3> QED
      BY <3>1, <2>2, <1>3 DEF Consistent
  <2> QED
    BY <2>1, <2>2
<1> QED
  BY <1>1, <1>4, <1>5, <1>6 DEF Consistent

\* Another gateway executes a write: only about services it takes out of
\* synced does anything change for i.
LEMMA PeerExecuted ==
  ASSUME TypeOK, NEW i \in Instances, NEW j \in Instances, j # i,
         NEW s \in Services, Consistent(i, s), s \in synced'[i], Execute(j)
  PROVE  Consistent(i, s)'
<1>1. pipe' = pipe /\ mem' = mem /\ sent'[i] = sent[i]
  BY DEF Execute, TypeOK
<1>2. redis'[s] = redis[s]
  <2> DEFINE cmd == pipe[j][sent[j] + 1]
  <2>1. CASE cmd.svc = None
    BY <2>1 DEF Execute
  <2>2. CASE cmd.svc # None
    <3>1. redis' = [redis EXCEPT ![cmd.svc] = cmd.val]
      BY <2>2 DEF Execute
    <3>2. synced' = [k \in Instances |->
                       IF k = j THEN synced[k] ELSE synced[k] \ {cmd.svc}]
      BY <2>2 DEF Execute
    <3> HIDE DEF cmd
    <3>3. cmd.svc # s
      BY <3>2
    <3> QED
      BY <3>1, <3>3 DEF TypeOK
  <2> QED
    BY <2>1, <2>2
<1>3. \A k : IsWrite(i, s, k)' <=> IsWrite(i, s, k)
  BY <1>1 DEF IsWrite
<1>4. \A k : LastWrite(i, s, k)' <=> LastWrite(i, s, k)
  BY <1>1, <1>3 DEF LastWrite
<1> QED
  BY <1>1, <1>2, <1>3, <1>4 DEF Consistent

\* Nothing of what Consistent looks at changes.
LEMMA Untouched ==
  ASSUME TypeOK, NEW i \in Instances, NEW s \in Services, Consistent(i, s),
         pipe'[i] = pipe[i], sent'[i] = sent[i],
         redis'[s] = redis[s], mem'[i][s] = mem[i][s]
  PROVE  Consistent(i, s)'
<1>1. \A k : IsWrite(i, s, k)' <=> IsWrite(i, s, k)
  BY DEF IsWrite
<1>2. \A k : LastWrite(i, s, k)' <=> LastWrite(i, s, k)
  BY <1>1 DEF LastWrite
<1> QED
  BY <1>1, <1>2 DEF Consistent

\* Every API handler and probe that changes an entry, written once.
LEMMA StoreKeepsSync ==
  ASSUME TypeOK, SyncInv, NEW i \in Instances, NEW s \in Services,
         NEW cmd \in Command, cmd.svc = s,
         mem' = [mem EXCEPT ![i][s] = cmd.val],
         pipe' = Send(i, cmd),
         synced' = WrittenThrough(i, s),
         UNCHANGED <<mode, sent, redis>>
  PROVE  SyncInv'
<1>1. ASSUME NEW j \in Instances, synced'[j] # {} PROVE mode'[j] = "redis"
  BY <1>1 DEF SyncInv, WrittenThrough, TypeOK
<1>2. ASSUME NEW j \in Instances, NEW t \in synced'[j] PROVE Consistent(j, t)'
  <2>0. t \in Services
    BY <1>2 DEF WrittenThrough, TypeOK
  <2>1. CASE j # i
    <3>1. t \in synced[j] /\ pipe'[j] = pipe[j] /\ mem'[j][t] = mem[j][t]
      BY <1>2, <2>1, SendType DEF WrittenThrough, TypeOK
    <3> QED
      BY <2>0, <3>1, Untouched DEF SyncInv
  <2>2. CASE j = i /\ t # s
    <3>1. t \in synced[i] /\ mem'[i][t] = mem[i][t]
      BY <1>2, <2>2 DEF WrittenThrough, TypeOK
    <3>2. mode[i] = "redis" /\ Consistent(i, t)
      BY <3>1 DEF SyncInv
    <3>3. pipe'[i] = Append(pipe[i], cmd)
      BY <3>2, SendType
    <3> QED
      BY <2>0, <2>2, <3>1, <3>2, <3>3, OtherAppended
  <2>3. CASE j = i /\ t = s
    <3>1. mode[i] = "redis"
      BY <1>1, <1>2, <2>3
    <3>2. pipe'[i] = Append(pipe[i], cmd)
      BY <3>1, SendType
    <3>3. mem'[i][s] = cmd.val
      BY DEF TypeOK
    <3> QED
      BY <2>3, <3>2, <3>3, OwnAppended
  <2> QED
    BY <2>1, <2>2, <2>3
<1> QED
  BY <1>1, <1>2 DEF SyncInv

LEMMA InitSync == Init => SyncInv
BY DEF Init, SyncInv

\* A step that leaves synced, the queues, Redis and the synced part of memory
\* alone.
LEMMA SyncUntouched ==
  ASSUME TypeOK, SyncInv,
         \A i \in Instances : /\ synced'[i] \subseteq synced[i]
                              /\ synced'[i] # {} => mode'[i] = "redis",
         \A i \in Instances : \A s \in synced'[i] :
           /\ s \in Services
           /\ pipe'[i] = pipe[i] /\ sent'[i] = sent[i]
           /\ redis'[s] = redis[s] /\ mem'[i][s] = mem[i][s]
  PROVE  SyncInv'
<1>1. ASSUME NEW i \in Instances, NEW s \in synced'[i] PROVE Consistent(i, s)'
  <2>1. s \in synced[i] /\ s \in Services
    OBVIOUS
  <2>2. Consistent(i, s)
    BY <2>1 DEF SyncInv
  <2>3. pipe'[i] = pipe[i] /\ sent'[i] = sent[i]
        /\ redis'[s] = redis[s] /\ mem'[i][s] = mem[i][s]
    OBVIOUS
  <2> QED
    BY <2>1, <2>2, <2>3, Untouched
<1> QED
  BY <1>1 DEF SyncInv

LEMMA NextSync == TypeOK /\ TypeOK' /\ SyncInv /\ [Next]_vars => SyncInv'
<1> SUFFICES ASSUME TypeOK, TypeOK', SyncInv, [Next]_vars
             PROVE  SyncInv'
  OBVIOUS
<1>0. \A i \in Instances : synced[i] \in SUBSET Services /\ synced'[i] \in SUBSET Services
  BY DEF TypeOK
<1>1. ASSUME NEW i \in Instances, NEW s \in Services, NEW v \in MaybeEntry,
             Store(i, s, v), UNCHANGED <<mode, sent, redis>>
      PROVE  SyncInv'
  <2> DEFINE cmd == Write(s, v, "nothing")
  <2>1. cmd \in Command /\ cmd.svc = s /\ cmd.val = v
    BY WriteIsCommand
  <2>2. mem' = [mem EXCEPT ![i][s] = cmd.val] /\ pipe' = Send(i, cmd)
        /\ synced' = WrittenThrough(i, s)
    BY <1>1, <2>1 DEF Store
  <2> HIDE DEF cmd
  <2> QED
    BY <1>1, <2>1, <2>2, StoreKeepsSync
<1>2. ASSUME NEW i \in Instances, NEW s \in Services, NEW url \in Urls,
             NEW major \in Majors \cup {None}, Register(i, s, url, major)
      PROVE  SyncInv'
  <2> DEFINE new == [status |-> RegisteredStatus(mem[i][s]), url |-> url,
                     major |-> major, healthy |-> TRUE]
             cmd == Write(s, new, IF mem[i][s] = None THEN "create" ELSE "update")
  <2>1. new \in MaybeEntry
    BY DEF RegisteredStatus, Entry, Status, MaybeEntry
  <2>2. /\ mem' = [mem EXCEPT ![i][s] = new] /\ pipe' = Send(i, cmd)
        /\ synced' = WrittenThrough(i, s) /\ UNCHANGED <<mode, sent, redis>>
    BY <1>2 DEF Register, server
  <2> HIDE DEF new
  <2>3. cmd \in Command /\ cmd.svc = s /\ cmd.val = new
    BY <2>1, WriteIsCommand
  <2> HIDE DEF cmd
  <2> QED
    BY <2>2, <2>3, StoreKeepsSync
<1>3. ASSUME NEW i \in Instances, NEW s \in Services,
             Deregister(i, s) \/ Deprecate(i, s) \/ Retire(i, s) \/ Activate(i, s)
      PROVE  SyncInv'
  <2>1. CASE Deregister(i, s)
    BY <2>1, <1>1 DEF Deregister, MaybeEntry, server
  <2>2. Known(i, s) => mem[i][s] \in Entry
    BY DEF Known, TypeOK, MaybeEntry
  <2>3. CASE Deprecate(i, s)
    <3>1. [mem[i][s] EXCEPT !.status = "deprecated"] \in MaybeEntry
      BY <2>2, <2>3, EntryFields DEF Deprecate, MaybeEntry, Status
    <3> QED
      BY <2>3, <3>1, <1>1 DEF Deprecate, local, server
  <2>4. CASE Retire(i, s)
    <3>1. [mem[i][s] EXCEPT !.status = "retired"] \in MaybeEntry
      BY <2>2, <2>4, EntryFields DEF Retire, MaybeEntry, Status
    <3> QED
      BY <2>4, <3>1, <1>1 DEF Retire, server
  <2>5. CASE Activate(i, s)
    <3>1. [mem[i][s] EXCEPT !.status = "active"] \in MaybeEntry
      BY <2>2, <2>5, EntryFields DEF Activate, MaybeEntry, Status
    <3> QED
      BY <2>5, <3>1, <1>1 DEF Activate, server
  <2> QED
    BY <1>3, <2>1, <2>3, <2>4, <2>5
<1>4. ASSUME NEW i \in Instances, NEW s \in Services, NEW ok \in BOOLEAN,
             HealthChanges(i, s, ok)
      PROVE  SyncInv'
  <2>1. mem[i][s] \in Entry
    BY <1>4 DEF HealthChanges, Known, TypeOK, MaybeEntry
  <2>2. [mem[i][s] EXCEPT !.healthy = ok] \in MaybeEntry
    BY <2>1, EntryFields DEF MaybeEntry
  <2> QED
    BY <1>4, <2>2, <1>1 DEF HealthChanges, server
<1>5. CASE UNCHANGED <<mode, mem, pipe, sent, redis, synced>>
  BY <1>0, <1>5, SyncUntouched DEF SyncInv
<1>6. ASSUME NEW i \in Instances, Reconcile(i) PROVE SyncInv'
  <2>1. /\ pipe' = [pipe EXCEPT ![i] = Append(pipe[i], Read("compare"))]
        /\ UNCHANGED <<mode, mem, sent, redis, synced>>
    BY <1>6 DEF Reconcile, local, server
  <2>2. ASSUME NEW j \in Instances, NEW t \in synced[j] PROVE Consistent(j, t)'
    <3>1. Consistent(j, t) /\ t \in Services
      BY <1>0 DEF SyncInv
    <3>2. CASE j = i
      <4>1. Read("compare") \in Command /\ Read("compare").svc # t
        BY <3>1, ReadIsCommand, NoneIsNoOther
      <4>2. pipe'[i] = Append(pipe[i], Read("compare"))
        BY <2>1 DEF TypeOK
      <4> QED
        BY <2>1, <3>1, <3>2, <4>1, <4>2, OtherAppended
    <3>3. CASE j # i
      <4>1. pipe'[j] = pipe[j]
        BY <2>1, <3>3 DEF TypeOK
      <4> QED
        BY <2>1, <3>1, <4>1, Untouched
    <3> QED
      BY <3>2, <3>3
  <2> QED
    BY <2>1, <2>2 DEF SyncInv
<1>7. ASSUME NEW i \in Instances, Boot(i) PROVE SyncInv'
  <2>1. synced[i] = {}
    BY <1>7 DEF Boot, SyncInv
  <2>2. /\ UNCHANGED <<mem, redis, synced>>
        /\ \A j \in Instances : j # i => /\ pipe'[j] = pipe[j]
                                        /\ sent'[j] = sent[j]
                                        /\ mode'[j] = mode[j]
    BY <1>7 DEF Boot, server, TypeOK
  <2> QED
    BY <1>0, <2>1, <2>2, SyncUntouched DEF SyncInv
<1>8. ASSUME NEW i \in Instances, BootAlone(i) PROVE SyncInv'
  <2>1. synced[i] = {}
    BY <1>8 DEF BootAlone, SyncInv
  <2>2. /\ UNCHANGED <<mem, redis, synced, pipe, sent>>
        /\ \A j \in Instances : j # i => mode'[j] = mode[j]
    BY <1>8 DEF BootAlone, server, TypeOK
  <2> QED
    BY <1>0, <2>1, <2>2, SyncUntouched DEF SyncInv
<1>9. ASSUME NEW i \in Instances, Execute(i) PROVE SyncInv'
  <2>1. /\ UNCHANGED mode
        /\ \A j \in Instances : synced'[j] \subseteq synced[j]
    <3>1. CASE UNCHANGED synced
      BY <1>9, <3>1 DEF Execute, local
    <3>2. CASE synced' = [j \in Instances |->
                 IF j = i THEN synced[j] ELSE synced[j] \ {pipe[i][sent[i] + 1].svc}]
      BY <1>9, <3>2 DEF Execute, local
    <3> QED
      BY <1>9, <3>1, <3>2 DEF Execute
  <2>2. ASSUME NEW j \in Instances, NEW t \in synced'[j] PROVE Consistent(j, t)'
    <3>1. Consistent(j, t) /\ t \in Services
      BY <1>0, <2>1 DEF SyncInv
    <3>2. CASE j = i
      BY <1>9, <3>1, <3>2, NextExecuted
    <3>3. CASE j # i
      BY <1>9, <3>1, <3>3, PeerExecuted
    <3> QED
      BY <3>2, <3>3
  <2> QED
    BY <2>1, <2>2 DEF SyncInv
<1>10. ASSUME NEW i \in Instances, NEW ks, Answered(i, ks),
              pipe' = [pipe EXCEPT ![i] = Tail(pipe[i])],
              UNCHANGED <<mode, redis>>,
              \A j \in Instances : synced'[j] \subseteq synced[j],
              \A j \in Instances : \A t \in synced'[j] : mem'[j][t] = mem[j][t]
       PROVE  SyncInv'
  <2>1. ASSUME NEW j \in Instances, NEW t \in synced'[j] PROVE Consistent(j, t)'
    <3>1. Consistent(j, t) /\ t \in Services /\ mem'[j][t] = mem[j][t]
      BY <1>0, <1>10 DEF SyncInv
    <3>2. CASE j = i
      <4>1. pipe'[i] = Tail(pipe[i])
        BY <1>10 DEF TypeOK
      <4> QED
        BY <1>10, <3>1, <3>2, <4>1, HeadDropped
    <3>3. CASE j # i
      <4>1. pipe'[j] = pipe[j] /\ sent'[j] = sent[j]
        BY <1>10, <3>3, AnsweredType DEF TypeOK
      <4> QED
        BY <1>10, <3>1, <4>1, Untouched
    <3> QED
      BY <3>2, <3>3
  <2> QED
    BY <1>10, <2>1 DEF SyncInv
<1>11. ASSUME NEW i \in Instances, WriteReply(i) PROVE SyncInv'
  <2>1. /\ Answered(i, {"nothing", "create", "update"})
        /\ pipe' = [pipe EXCEPT ![i] = Tail(pipe[i])]
        /\ UNCHANGED <<mode, redis, synced, mem>>
    BY <1>11 DEF WriteReply, server
  <2> QED
    BY <2>1, <1>10
<1>12. ASSUME NEW i \in Instances, CompareReply(i) PROVE SyncInv'
  <2>1. /\ Answered(i, {"compare"})
        /\ UNCHANGED <<mode, redis, synced, mem>>
    BY <1>12 DEF CompareReply, local, server
  <2>2. CASE pipe' = [pipe EXCEPT ![i] = Tail(pipe[i])]
    BY <2>1, <2>2, <1>10
  <2>3. CASE pipe' = [pipe EXCEPT ![i] = Append(Tail(pipe[i]), Read("load"))]
    <3>1. ASSUME NEW j \in Instances, NEW t \in synced[j] PROVE Consistent(j, t)'
      <4>1. Consistent(j, t) /\ t \in Services
        BY <1>0 DEF SyncInv
      <4>2. CASE j = i
        BY <2>1, <2>3, <4>1, <4>2, HeadDroppedReadAppended DEF TypeOK
      <4>3. CASE j # i
        <5>1. pipe'[j] = pipe[j] /\ sent'[j] = sent[j]
          BY <2>1, <2>3, <4>3, AnsweredType DEF TypeOK
        <5> QED
          BY <2>1, <4>1, <5>1, Untouched
      <4> QED
        BY <4>2, <4>3
    <3> QED
      BY <2>1, <3>1 DEF SyncInv
  <2> QED
    BY <1>12, <2>2, <2>3 DEF CompareReply
<1>13. ASSUME NEW i \in Instances, LoadReply(i) PROVE SyncInv'
  <2>1. /\ Answered(i, {"load", "boot"})
        /\ pipe' = [pipe EXCEPT ![i] = Tail(pipe[i])]
        /\ mem' = [mem EXCEPT ![i] = Loaded(i)]
        /\ mode' = [mode EXCEPT ![i] = "redis"]
        /\ synced' = [synced EXCEPT ![i] = synced[i] \ {s \in Services : snap[i][s] # None}]
        /\ UNCHANGED redis
    BY <1>13 DEF LoadReply, server
  <2>2. \A j \in Instances : synced'[j] \subseteq synced[j]
    BY <2>1 DEF TypeOK
  <2>3. \A j \in Instances : \A t \in synced'[j] : mem'[j][t] = mem[j][t]
    BY <1>0, <2>1 DEF TypeOK, Loaded
  <2>4. ASSUME NEW j \in Instances, NEW t \in synced'[j] PROVE Consistent(j, t)'
    <3>1. Consistent(j, t) /\ t \in Services
      BY <1>0, <2>2 DEF SyncInv
    <3>2. CASE j = i
      <4>1. pipe'[i] = Tail(pipe[i])
        BY <2>1 DEF TypeOK
      <4> QED
        BY <2>1, <2>3, <3>1, <3>2, <4>1, HeadDropped
    <3>3. CASE j # i
      <4>1. pipe'[j] = pipe[j] /\ sent'[j] = sent[j]
        BY <2>1, <3>3, AnsweredType DEF TypeOK
      <4> QED
        BY <2>1, <2>3, <3>1, <4>1, Untouched
    <3> QED
      BY <3>2, <3>3
  <2>5. \A j \in Instances : synced'[j] # {} => mode'[j] = "redis"
    BY <2>1, <2>2 DEF TypeOK, SyncInv
  <2> QED
    BY <2>4, <2>5 DEF SyncInv
<1>14. ASSUME NEW i \in Instances, WriteTimeout(i) PROVE SyncInv'
  <2>1. PICK k \in DOMAIN pipe[i] :
          /\ Awaited(pipe[i][k])
          /\ RollBack(i, {pipe[i][k].svc})
          /\ pipe' = [pipe EXCEPT ![i][k].then = "nothing"]
          /\ synced' = [synced EXCEPT ![i] = synced[i] \ {pipe[i][k].svc}]
    BY <1>14 DEF WriteTimeout
  <2>2. UNCHANGED <<mode, sent, redis>>
    BY <1>14 DEF WriteTimeout, server
  <2> DEFINE svc == pipe[i][k].svc
             new == [pipe[i][k] EXCEPT !.then = "nothing"]
  <2>3. pipe[i][k] \in WriteCommand
    BY <2>1, CommandKinds DEF TypeOK
  <2>4. svc \in Services /\ new.svc = svc /\ new.val = pipe[i][k].val
    BY <2>3 DEF WriteCommand
  <2>5. pipe' = [pipe EXCEPT ![i] = [pipe[i] EXCEPT ![k] = new]]
    BY <2>1
  <2>6. RollBack(i, {svc}) /\ synced' = [synced EXCEPT ![i] = synced[i] \ {svc}]
    BY <2>1
  <2> HIDE DEF svc, new
  <2>7. /\ Len(pipe'[i]) = Len(pipe[i])
        /\ \A n \in DOMAIN pipe[i] : pipe'[i][n].svc = pipe[i][n].svc
                                     /\ pipe'[i][n].val = pipe[i][n].val
    <3>1. pipe'[i] = [pipe[i] EXCEPT ![k] = new]
      BY <2>5 DEF TypeOK
    <3>2. new.svc = pipe[i][k].svc /\ new.val = pipe[i][k].val
      BY <2>4 DEF svc
    <3> QED
      BY <3>1, <3>2, <2>1 DEF TypeOK
  <2>8. \A j \in Instances, t \in Services :
          ~(j = i /\ t \in {svc}) => mem'[j][t] = mem[j][t]
    <3>1. {svc} \subseteq Services
      BY <2>4
    <3> QED
      BY <2>6, <3>1, RollBackType
  <2>9. \A j \in Instances : \A t \in synced'[j] :
           t \in synced[j] /\ t \in Services /\ ~(j = i /\ t \in {svc})
    BY <2>6 DEF TypeOK
  <2>10. \A j \in Instances : \A t \in synced'[j] :
          t \in synced[j] /\ t \in Services /\ mem'[j][t] = mem[j][t]
    BY <2>8, <2>9
  <2>11. ASSUME NEW j \in Instances, NEW t \in synced'[j] PROVE Consistent(j, t)'
    <3>1. Consistent(j, t) /\ t \in Services /\ mem'[j][t] = mem[j][t]
      BY <2>10 DEF SyncInv
    <3>2. CASE j = i
      <4>1. sent'[i] <= sent[i] /\ redis'[t] = redis[t]
        BY <2>2 DEF TypeOK
      <4> QED
        BY <2>7, <3>1, <3>2, <4>1, QueueKept
    <3>3. CASE j # i
      <4>1. pipe'[j] = pipe[j] /\ sent'[j] = sent[j] /\ redis'[t] = redis[t]
        BY <2>2, <2>5, <3>3 DEF TypeOK
      <4> QED
        BY <3>1, <4>1, Untouched
    <3> QED
      BY <3>2, <3>3
  <2>12. \A j \in Instances : synced'[j] # {} => mode'[j] = "redis"
    BY <2>2, <2>10 DEF SyncInv
  <2> QED
    BY <2>11, <2>12 DEF SyncInv
<1>15. ASSUME NEW i \in Instances, Disconnect(i) PROVE SyncInv'
  <2>1. /\ sent' = [sent EXCEPT ![i] = 0]
        /\ UNCHANGED <<mode, mem, pipe, redis, synced>>
    BY <1>15 DEF Disconnect, local, server
  <2>2. ASSUME NEW j \in Instances, NEW t \in synced[j] PROVE Consistent(j, t)'
    <3>1. Consistent(j, t) /\ t \in Services
      BY <1>0 DEF SyncInv
    <3>2. sent'[j] <= sent[j] /\ Len(pipe'[j]) = Len(pipe[j])
      BY <2>1 DEF TypeOK
    <3> QED
      BY <2>1, <3>1, <3>2, QueueKept
  <2> QED
    BY <2>1, <2>2 DEF SyncInv
<1>16. ASSUME NEW i \in Instances, Flush(i) PROVE SyncInv'
  <2> DEFINE awaited == {pipe[i][k].svc : k \in {n \in DOMAIN pipe[i] : Awaited(pipe[i][n])}}
             writes == {pipe[i][k].svc : k \in DOMAIN pipe[i]} \ {None}
  <2>1. /\ RollBack(i, awaited)
        /\ pipe' = [pipe EXCEPT ![i] = <<>>]
        /\ mode' = [mode EXCEPT ![i] = IF mode[i] = "booting" THEN "memory" ELSE mode[i]]
        /\ sent' = [sent EXCEPT ![i] = 0]
        /\ synced' = [synced EXCEPT ![i] = synced[i] \ writes]
        /\ UNCHANGED redis
    BY <1>16 DEF Flush, server
  <2>2. awaited \subseteq writes /\ writes \subseteq Services
    <3> SUFFICES ASSUME NEW k \in DOMAIN pipe[i]
                 PROVE  /\ pipe[i][k].svc # None => pipe[i][k].svc \in Services
                        /\ Awaited(pipe[i][k]) => pipe[i][k].svc # None
      OBVIOUS
    <3>1. pipe[i][k] \in Command
      BY DEF TypeOK
    <3> QED
      BY <3>1, CommandKinds, NoneIsNoOther
  <2>3. ASSUME NEW t \in Services, t \notin writes
        PROVE  \A k \in DOMAIN pipe[i] : ~IsWrite(i, t, k)
    BY <2>3, NoneIsNoOther DEF IsWrite
  <2> HIDE DEF awaited, writes
  <2>4. \A j \in Instances, t \in Services :
          ~(j = i /\ t \in awaited) => mem'[j][t] = mem[j][t]
    BY <2>1, <2>2, RollBackType
  <2>5. \A j \in Instances : \A t \in synced'[j] :
          t \in synced[j] /\ t \in Services /\ mem'[j][t] = mem[j][t]
    BY <1>0, <2>1, <2>2, <2>4 DEF TypeOK
  <2>6. ASSUME NEW j \in Instances, NEW t \in synced'[j] PROVE Consistent(j, t)'
    <3>1. Consistent(j, t) /\ t \in Services /\ mem'[j][t] = mem[j][t]
      BY <2>5 DEF SyncInv
    <3>2. CASE j = i
      <4>1. t \notin writes /\ pipe'[i] = <<>>
        BY <2>1, <3>2 DEF TypeOK
      <4>2. redis[t] = mem[i][t]
        BY <2>3, <3>1, <3>2, <4>1 DEF Consistent
      <4>3. \A k : ~IsWrite(i, t, k)'
        BY <4>1 DEF IsWrite
      <4> QED
        BY <2>1, <3>1, <3>2, <4>2, <4>3 DEF Consistent, LastWrite
    <3>3. CASE j # i
      <4>1. pipe'[j] = pipe[j] /\ sent'[j] = sent[j] /\ redis'[t] = redis[t]
        BY <2>1, <3>3 DEF TypeOK
      <4> QED
        BY <3>1, <4>1, Untouched
    <3> QED
      BY <3>2, <3>3
  <2>7. ASSUME NEW j \in Instances, synced'[j] # {} PROVE mode'[j] = "redis"
    <3>1. mode[j] = "redis"
      BY <2>5, <2>7 DEF SyncInv
    <3> QED
      BY <2>1, <3>1 DEF TypeOK
  <2> QED
    BY <2>6, <2>7 DEF SyncInv
<1>17. ASSUME NEW i \in Instances, Crash(i) PROVE SyncInv'
  <2>1. \A j \in Instances :
          IF j = i THEN synced'[j] = {}
          ELSE synced'[j] = synced[j] /\ pipe'[j] = pipe[j] /\ sent'[j] = sent[j]
               /\ mem'[j] = mem[j] /\ mode'[j] = mode[j]
    BY <1>17 DEF Crash, TypeOK
  <2>2. UNCHANGED redis
    BY <1>17 DEF Crash, server
  <2> QED
    BY <1>0, <2>1, <2>2, SyncUntouched DEF SyncInv
<1>18. CASE RestartRedis
  BY <1>18 DEF RestartRedis, SyncInv
<1>19. CASE SaveRedis
  BY <1>19, <1>5 DEF SaveRedis, local
<1>20. ASSUME NEW i \in Instances, NEW s \in Services,
              OpenProxy(i, s) \/ (\E ok \in BOOLEAN : HealthStands(i, s, ok))
       PROVE  SyncInv'
  BY <1>20, <1>5 DEF OpenProxy, HealthStands, server
<1>21. ASSUME NEW i \in Instances, StartSweep(i) \/ SkipReconcile(i) PROVE SyncInv'
  BY <1>21, <1>5 DEF StartSweep, SkipReconcile, server, vars
<1>22. CASE UNCHANGED vars
  BY <1>22, <1>5 DEF vars, server
<1> QED
  BY <1>2, <1>3, <1>4, <1>6, <1>7, <1>8, <1>9, <1>11, <1>12, <1>13, <1>14, <1>15,
     <1>16, <1>17, <1>18, <1>19, <1>20, <1>21, <1>22 DEF Next

\* Between a handler's write and the next interference, memory is what Redis
\* will hold: with queues of any length, resent commands and other gateways.
THEOREM RegistryWritesThrough == Spec => []WriteThrough
<1>1. Init => TypeOK /\ SyncInv
  BY InitType, InitSync
<1>2. TypeOK /\ SyncInv /\ [Next]_vars => (TypeOK /\ SyncInv)'
  BY NextType, NextSync
<1> QED
  BY <1>1, <1>2, SyncInvGivesWriteThrough, PTL DEF Spec
=============================================================================
