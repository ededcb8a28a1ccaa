--------------------------- MODULE ThrottlerProofs ---------------------------
(***************************************************************************)
(* Theorems about Throttler, for any number of gateways and requests, any  *)
(* limit, window and block duration, and any faults.                       *)
(***************************************************************************)
EXTENDS Throttler, TLAPS

\* A key lives at least as long as it was meant to.
LEMMA KeyLifeBounds ==
  ASSUME NEW t \in Nat
  PROVE  KeyLife(t) \in Nat /\ KeyLife(t) >= t /\ (t > 0 => KeyLife(t) > 0)
BY DEF KeyLife, Seconds

\* The arithmetic of counters and times stays in range.
LEMMA IncreasedInRange ==
  ASSUME NEW n \in 0..MaxHits
  PROVE  Increased(n) \in 0..MaxHits /\ Increased(n) >= n /\ Increased(n) > 0
BY ThrottlerAssumption DEF Increased, MaxHits

LEMMA LeftInRange ==
  ASSUME NEW m \in Nat, NEW t \in 0..m
  PROVE  Left(t) \in 0..m
BY DEF Left

\* What TTL replies, in ticks: half a second too much at most, no more than the
\* longest life of the key, and something before the last half second.
LEMMA TtlReplyBounds ==
  ASSUME NEW t \in Nat, NEW b \in 0..KeyLife(t)
  PROVE  /\ TtlReply(b) \in Nat
         /\ 4 * TtlReply(b) \in 0..KeyLife(t)
         /\ 4 * TtlReply(b) <= b + 2
         /\ b >= 2 => TtlReply(b) > 0
BY DEF TtlReply, KeyLife, Seconds

LEMMA EntryCounted ==
  ASSUME NEW e \in Entry
  PROVE  Cleaned(e) \in Entry /\ Counted(e) \in Entry
BY ThrottlerAssumption, IncreasedInRange
   DEF Cleaned, Counted, Entry, NoEntry, MaxHits

LEMMA EntryAged ==
  ASSUME NEW e \in Entry
  PROVE  Aged(e) \in Entry
<1>1. /\ e.hits \in 0..MaxHits
      /\ e.expires \in 0..Window
      /\ e.blocked \in 0..BlockTime
  BY DEF Entry
<1>2. /\ Left(e.expires) \in 0..Window
      /\ Left(e.blocked) \in 0..BlockTime
  BY <1>1, ThrottlerAssumption, LeftInRange
<1> QED BY <1>1, <1>2 DEF Aged, Entry

-----------------------------------------------------------------------------
(* Type correctness.                                                       *)

LEMMA InitTypeOK == Init => TypeOK
BY ThrottlerAssumption, KeyLifeBounds
   DEF Init, TypeOK, Entry, NoEntry, MaxHits

LEMMA NextTypeOK ==
  ASSUME TypeOK, [Next]_vars
  PROVE  TypeOK'
<1> USE ThrottlerAssumption
<1>1. /\ KeyLife(Window) \in Nat
      /\ KeyLife(BlockTime) \in Nat
  BY KeyLifeBounds
<1>2. MaxHits \in Nat
  BY DEF MaxHits
<1>3. ASSUME NEW r \in Requests, RedisStep(r)  PROVE TypeOK'
  <2>1. CASE RejectBlocked(r)
    <3>1. 4 * TtlReply(block) \in 0..KeyLife(BlockTime)
      BY TtlReplyBounds DEF TypeOK
    <3> QED BY <2>1, <3>1 DEF RejectBlocked, Announce, TypeOK, watchVars
  <2>2. CASE PassCheck(r)
    BY <2>2 DEF PassCheck, TypeOK, redisVars, watchVars
  <2>3. CASE Incr(r)
    BY <2>3, IncreasedInRange DEF Incr, Count, TypeOK
  <2>4. CASE Expire(r)
    BY <2>4, <1>1 DEF Expire, SetExpiry, TypeOK, watchVars
  <2>5. CASE RejectOverLimit(r)
    <3>1. BlockTime \in 0..KeyLife(BlockTime)
      BY <1>1, KeyLifeBounds
    <3> QED
      BY <2>5, <1>1, <1>2, <3>1 DEF RejectOverLimit, Announce, TypeOK, watchVars
  <2>6. CASE Grant(r)
    BY <2>6, <1>2 DEF Grant, TypeOK, redisVars, watchVars
  <2> QED
    BY <1>3, <2>1, <2>2, <2>3, <2>4, <2>5, <2>6 DEF RedisStep
<1>4. ASSUME NEW r \in Requests, MemoryStep(r)  PROVE TypeOK'
  <2>1. PICK g \in Gateways : MemoryRejectBlocked(g, r) \/ MemoryCount(g, r)
    BY <1>4 DEF MemoryStep
  <2>2. entry[g] \in Entry
    BY DEF TypeOK
  <2>3. CASE MemoryRejectBlocked(g, r)
    BY <2>2, <2>3, EntryCounted
       DEF MemoryRejectBlocked, TypeOK, redisVars, watchVars
  <2>4. CASE MemoryCount(g, r)
    <3>1. Counted(Cleaned(entry[g])) \in Entry
      BY <2>2, EntryCounted
    <3>2. entry' \in [Gateways -> Entry]
      BY <2>4, <3>1 DEF MemoryCount, TypeOK
    <3> QED
      BY <2>4, <3>2 DEF MemoryCount, Count, TypeOK, redisVars
  <2> QED BY <2>1, <2>3, <2>4
<1>5. ASSUME NEW r \in Requests, Fail(r)  PROVE TypeOK'
  BY <1>5, <1>2 DEF Fail, Fault, TypeOK, redisVars, watchVars
<1>6. ASSUME NEW r \in Requests, Repeated(r)  PROVE TypeOK'
  BY <1>6, <1>1, IncreasedInRange
     DEF Repeated, Fault, SetExpiry, TypeOK, watchVars
<1>7. ASSUME NEW g \in Gateways, Restart(g)  PROVE TypeOK'
  <2>1. NoEntry \in Entry
    BY <1>2 DEF NoEntry, Entry
  <2> QED
    BY <1>7, <1>2, <2>1 DEF Restart, Fault, TypeOK, redisVars
<1>8. CASE Tick
  <2>1. hits' \in 0..MaxHits
    BY <1>8, <1>2 DEF Tick, TypeOK
  <2>2. /\ hitsTtl' \in 0..KeyLife(Window)
        /\ block' \in 0..KeyLife(BlockTime)
        /\ told' \in 0..KeyLife(BlockTime)
        /\ watch' \in 0..Window
    BY <1>8, <1>1, LeftInRange DEF Tick, TypeOK
  <2>3. ASSUME NEW g \in Gateways  PROVE Aged(entry[g]) \in Entry
    BY EntryAged DEF TypeOK
  <2>4. entry' \in [Gateways -> Entry]
    BY <1>8, <2>3 DEF Tick
  <2> QED
    BY <1>8, <2>1, <2>2, <2>4 DEF Tick, TypeOK
<1>9. CASE BeginWatch
  BY <1>9 DEF BeginWatch, TypeOK, redisVars
<1>10. CASE Forget
  BY <1>10, <1>1, <1>2 DEF Forget, Fault, TypeOK
<1>11. CASE UNCHANGED vars
  BY <1>11 DEF vars, redisVars, watchVars, TypeOK
<1> QED
  BY <1>3, <1>4, <1>5, <1>6, <1>7, <1>8, <1>9, <1>10, <1>11 DEF Next

\* Counters, times and stages of requests keep their type: nothing goes below
\* zero or beyond the life of a key.
THEOREM ThrottlerTypeCorrect == Spec => []TypeOK
BY InitTypeOK, NextTypeOK, PTL DEF Spec

-----------------------------------------------------------------------------
(* A counter without TTL has an owner.                                     *)

\* Without faults: an absent counter has no TTL, and one without TTL was
\* created by a request that has EXPIRE as its next command.
OwnerInv ==
  /\ hits = 0 => hitsTtl = 0
  /\ CounterHasOwner

LEMMA OwnerInvKept ==
  ASSUME TypeOK, TypeOK', OwnerInv, [Next]_vars
  PROVE  OwnerInv'
<1> USE ThrottlerAssumption
<1>1. KeyLife(Window) > 0
  BY KeyLifeBounds
<1>2. /\ hits \in Nat
      /\ hitsTtl \in Nat
      /\ faults \in Nat
      /\ pc \in [Requests -> {"idle", "incr", "expire", "answer"}]
  BY <1>1, KeyLifeBounds DEF TypeOK, MaxHits
<1>3. ASSUME Fault  PROVE faults' # 0
  BY <1>2, <1>3 DEF Fault
<1>4. ASSUME NEW r \in Requests, RedisStep(r)  PROVE OwnerInv'
  <2>1. CASE RejectBlocked(r) \/ PassCheck(r) \/ RejectOverLimit(r) \/ Grant(r)
    <3>1. UNCHANGED <<hits, hitsTtl, faults>>
      BY <2>1 DEF RejectBlocked, PassCheck, RejectOverLimit, Grant, redisVars
    <3>2. \A q \in Requests : pc[q] = "expire" => pc'[q] = "expire"
      BY <1>2, <2>1
         DEF RejectBlocked, PassCheck, RejectOverLimit, Grant, Arrives
    <3> QED BY <3>1, <3>2 DEF OwnerInv, CounterHasOwner
  <2>2. CASE Incr(r)
    <3>1. hits' > 0 /\ (hits = 0 => hits' = 1)
      BY <2>2, IncreasedInRange DEF Incr, Increased, TypeOK, MaxHits
    <3>2. CASE hits = 0
      <4>1. pc'[r] = "expire"
        BY <1>2, <2>2, <3>1, <3>2 DEF Incr, FirstHit
      <4> QED BY <3>1, <4>1, <1>2 DEF OwnerInv, CounterHasOwner, TypeOK
    <3>3. CASE hits # 0
      <4>1. \A q \in Requests : pc[q] = "expire" => pc'[q] = "expire"
        BY <1>2, <2>2 DEF Incr
      <4>2. UNCHANGED <<hitsTtl, faults>>
        BY <2>2 DEF Incr
      <4> QED BY <1>2, <3>1, <3>3, <4>1, <4>2 DEF OwnerInv, CounterHasOwner
    <3> QED BY <3>2, <3>3
  <2>3. CASE Expire(r)
    BY <1>1, <1>2, <2>3 DEF Expire, SetExpiry, OwnerInv, CounterHasOwner
  <2> QED BY <1>4, <2>1, <2>2, <2>3 DEF RedisStep
<1>5. ASSUME NEW r \in Requests, MemoryStep(r)  PROVE OwnerInv'
  <2>1. UNCHANGED <<hits, hitsTtl, faults, pc>>
    BY <1>5 DEF MemoryStep, MemoryRejectBlocked, MemoryCount, redisVars
  <2> QED BY <2>1 DEF OwnerInv, CounterHasOwner
<1>6. ASSUME NEW r \in Requests, Fail(r)  PROVE OwnerInv'
  BY <1>3, <1>6 DEF Fail, OwnerInv, CounterHasOwner, redisVars
<1>7. ASSUME NEW r \in Requests, Repeated(r)  PROVE OwnerInv'
  <2>1. hits' = 0 => hitsTtl' = 0
    BY <1>2, <1>7, IncreasedInRange
       DEF Repeated, SetExpiry, OwnerInv, TypeOK, Increased, MaxHits
  <2> QED BY <1>3, <1>7, <2>1 DEF Repeated, OwnerInv, CounterHasOwner
<1>8. ASSUME NEW g \in Gateways, Restart(g)  PROVE OwnerInv'
  BY <1>3, <1>8 DEF Restart, OwnerInv, CounterHasOwner, redisVars
<1>9. CASE Tick
  BY <1>2, <1>9 DEF Tick, Left, OwnerInv, CounterHasOwner
<1>10. CASE BeginWatch
  BY <1>10 DEF BeginWatch, OwnerInv, CounterHasOwner, redisVars
<1>11. CASE Forget
  <2>1. hits' = 0 => hitsTtl' = 0
    BY <1>11 DEF Forget, OwnerInv
  <2> QED BY <1>3, <1>11, <2>1 DEF Forget, OwnerInv, CounterHasOwner
<1>12. CASE UNCHANGED vars
  BY <1>12 DEF vars, redisVars, OwnerInv, CounterHasOwner
<1> QED
  BY <1>4, <1>5, <1>6, <1>7, <1>8, <1>9, <1>10, <1>11, <1>12 DEF Next

LEMMA ThrottlerOwnerInv == Spec => [](TypeOK /\ OwnerInv)
<1>1. Init => TypeOK /\ OwnerInv
  BY InitTypeOK DEF Init, OwnerInv, CounterHasOwner
<1>2. TypeOK /\ OwnerInv /\ [Next]_vars => (TypeOK /\ OwnerInv)'
  BY NextTypeOK, OwnerInvKept
<1> QED BY <1>1, <1>2, PTL DEF Spec

\* As long as no command is lost, sent twice or forgotten, a counter that has
\* no TTL is about to get it: gateways that create and count at the same time
\* never leave it without.
THEOREM ThrottlerCounterHasOwner == Spec => []CounterHasOwner
<1>1. TypeOK /\ OwnerInv => CounterHasOwner
  BY DEF OwnerInv
<1> QED BY <1>1, ThrottlerOwnerInv, PTL

-----------------------------------------------------------------------------
(* A running window is not prolonged.                                      *)

\* Without faults the request that is about to send EXPIRE is alone with it,
\* and its counter is there, still without TTL.
SoleOwner ==
  faults = 0 =>
    \A r \in Requests : pc[r] = "expire" =>
      /\ hits > 0 /\ hitsTtl = 0
      /\ \A q \in Requests : pc[q] = "expire" => q = r

LEMMA SoleOwnerKept ==
  ASSUME TypeOK, OwnerInv, SoleOwner, [Next]_vars
  PROVE  SoleOwner'
<1>1. /\ hits \in Nat
      /\ hitsTtl \in Nat
      /\ faults \in Nat
      /\ pc \in [Requests -> {"idle", "incr", "expire", "answer"}]
  BY ThrottlerAssumption, KeyLifeBounds DEF TypeOK, MaxHits
<1>2. Fault => faults' # 0
  BY <1>1 DEF Fault
<1>3. ASSUME UNCHANGED <<hits, hitsTtl, faults>>,
             \A q \in Requests : pc'[q] = "expire" => pc[q] = "expire"
      PROVE  SoleOwner'
  BY <1>3 DEF SoleOwner
<1>4. ASSUME NEW r \in Requests, Incr(r) PROVE SoleOwner'
  <2>1. /\ hits' = Increased(hits) /\ UNCHANGED <<hitsTtl, faults>>
        /\ pc' = [pc EXCEPT ![r] = IF FirstHit(hits') THEN "expire" ELSE "answer"]
    BY <1>4 DEF Incr
  <2>2. CASE hits = 0
    <3>1. hits' = 1
      BY <2>1, <2>2, ThrottlerAssumption DEF Increased, MaxHits
    <3>2. faults = 0 => \A q \in Requests : pc'[q] = "expire" => q = r
      BY <1>1, <2>1, <2>2 DEF SoleOwner
    <3>3. faults = 0 => hitsTtl = 0
      BY <2>2 DEF SoleOwner, OwnerInv
    <3> QED
      BY <2>1, <3>1, <3>2, <3>3 DEF SoleOwner
  <2>3. CASE hits # 0
    <3>1. hits' > 1
      BY <1>1, <2>1, <2>3, ThrottlerAssumption DEF Increased, MaxHits, TypeOK
    <3>2. \A q \in Requests : pc'[q] = "expire" => pc[q] = "expire"
      BY <1>1, <2>1, <3>1 DEF FirstHit
    <3>3. hits' > 0 /\ hitsTtl' = hitsTtl /\ faults' = faults
      BY <1>1, <2>1, <3>1, ThrottlerAssumption DEF Increased, MaxHits
    <3> QED
      BY <3>2, <3>3 DEF SoleOwner
  <2> QED
    BY <2>2, <2>3
<1>5. ASSUME NEW r \in Requests, Expire(r) PROVE SoleOwner'
  <2>1. pc[r] = "expire" /\ pc' = [pc EXCEPT ![r] = "answer"] /\ faults' = faults
    BY <1>5 DEF Expire
  <2>2. faults = 0 => \A q \in Requests : pc'[q] # "expire"
    BY <1>1, <2>1 DEF SoleOwner
  <2> QED
    BY <2>1, <2>2 DEF SoleOwner
<1>6. ASSUME NEW r \in Requests,
             RejectBlocked(r) \/ PassCheck(r) \/ RejectOverLimit(r) \/ Grant(r)
      PROVE  SoleOwner'
  BY <1>1, <1>3, <1>6
     DEF RejectBlocked, PassCheck, RejectOverLimit, Grant, Arrives, redisVars
<1>7. ASSUME NEW r \in Requests, MemoryStep(r) PROVE SoleOwner'
  BY <1>3, <1>7 DEF MemoryStep, MemoryRejectBlocked, MemoryCount, redisVars
<1>8. ASSUME NEW r \in Requests, Fail(r) \/ Repeated(r) PROVE SoleOwner'
  BY <1>2, <1>8 DEF Fail, Repeated, SoleOwner
<1>9. ASSUME NEW g \in Gateways, Restart(g) PROVE SoleOwner'
  BY <1>2, <1>9 DEF Restart, SoleOwner
<1>10. CASE Tick
  BY <1>1, <1>10 DEF Tick, Left, SoleOwner
<1>11. CASE BeginWatch
  BY <1>3, <1>11 DEF BeginWatch, redisVars
<1>12. CASE Forget
  BY <1>2, <1>12 DEF Forget, SoleOwner
<1>13. CASE UNCHANGED vars
  BY <1>3, <1>13 DEF vars, redisVars
<1> QED
  BY <1>4, <1>5, <1>6, <1>7, <1>8, <1>9, <1>10, <1>11, <1>12, <1>13 DEF Next, RedisStep

LEMMA WindowStep ==
  ASSUME TypeOK, OwnerInv, SoleOwner, [Next]_vars, hitsTtl > 0, faults' = 0
  PROVE  hitsTtl' <= hitsTtl
<1>1. hitsTtl \in Nat /\ faults \in Nat /\ ~Fault
  BY ThrottlerAssumption, KeyLifeBounds DEF TypeOK, Fault
<1>2. \A r \in Requests : ~Repeated(r) /\ ~Fail(r)
  BY <1>1 DEF Repeated, Fail
<1>3. ~Forget /\ \A g \in Gateways : ~Restart(g)
  BY <1>1 DEF Forget, Restart
<1>4. \A r \in Requests : ~Expire(r)
  BY <1>1 DEF Expire, SoleOwner
<1>5. ASSUME NEW r \in Requests, RedisStep(r) \/ MemoryStep(r)
      PROVE  hitsTtl' = hitsTtl
  BY <1>4, <1>5
     DEF RedisStep, RejectBlocked, PassCheck, Incr, RejectOverLimit, Grant,
         MemoryStep, MemoryRejectBlocked, MemoryCount, redisVars
<1>6. Tick => hitsTtl' <= hitsTtl
  BY <1>1 DEF Tick, Left
<1>7. BeginWatch \/ UNCHANGED vars => hitsTtl' = hitsTtl
  BY DEF BeginWatch, vars, redisVars
<1> QED
  BY <1>1, <1>2, <1>3, <1>5, <1>6, <1>7 DEF Next

LEMMA MemoryWindowStep ==
  ASSUME TypeOK, [Next]_vars, NEW g \in Gateways, entry[g].expires > 0
  PROVE  entry'[g].expires <= entry[g].expires
<1>1. entry[g] \in Entry /\ entry[g].expires \in Nat /\ entry[g] # NoEntry
  BY ThrottlerAssumption DEF TypeOK, Entry, NoEntry
<1>2. CASE entry'[g] \in {entry[g], NoEntry}
  BY <1>1, <1>2 DEF NoEntry
<1>3. CASE Tick
  BY <1>1, <1>3 DEF Tick, Aged, Left
<1>4. ASSUME NEW r \in Requests, NEW h \in Gateways,
             MemoryRejectBlocked(h, r) \/ MemoryCount(h, r)
      PROVE  entry'[g].expires = entry[g].expires
  <2>1. Cleaned(entry[g]) = entry[g]
    BY <1>1 DEF Cleaned
  <2>2. Counted(entry[g]).expires = entry[g].expires
    BY <1>1 DEF Counted
  <2>3. entry'[g] \in {entry[g], Cleaned(entry[g]), Counted(Cleaned(entry[g]))}
    BY <1>4 DEF MemoryRejectBlocked, MemoryCount, TypeOK
  <2> QED
    BY <2>1, <2>2, <2>3
<1>5. ASSUME NEW h \in Gateways, Restart(h) PROVE entry'[g] \in {entry[g], NoEntry}
  BY <1>5 DEF Restart, TypeOK
<1>6. ASSUME NEW r \in Requests, RedisStep(r) \/ Fail(r) \/ Repeated(r)
      PROVE  entry' = entry
  BY <1>6 DEF RedisStep, RejectBlocked, PassCheck, Incr, Expire, RejectOverLimit, Grant,
              Fail, Repeated
<1>7. BeginWatch \/ Forget \/ UNCHANGED vars => entry' = entry
  BY DEF BeginWatch, Forget, vars
<1> QED
  BY <1>1, <1>2, <1>3, <1>4, <1>5, <1>6, <1>7 DEF Next, MemoryStep

\* A running window is never prolonged: not by asking, on Redis or in memory, and
\* on Redis not by a slow EXPIRE either, unless a command is lost or repeated or
\* a key forgotten.
THEOREM ThrottlerWindowNotProlonged == Spec => WindowNotProlonged
<1>1. Init => SoleOwner
  BY DEF Init, SoleOwner
<1>2. TypeOK /\ OwnerInv /\ SoleOwner /\ [Next]_vars => SoleOwner'
  BY SoleOwnerKept
<1>3. TypeOK /\ OwnerInv /\ SoleOwner /\ [Next]_vars =>
        /\ hitsTtl > 0 /\ faults' = 0 => hitsTtl' <= hitsTtl
        /\ \A g \in Gateways : entry[g].expires > 0 => entry'[g].expires <= entry[g].expires
  BY WindowStep, MemoryWindowStep
<1> QED
  BY <1>1, <1>2, <1>3, ThrottlerOwnerInv, PTL DEF Spec, WindowNotProlonged

-----------------------------------------------------------------------------
(* The announced block is kept.                                            *)

\* The block key lives as long as any client was told, but for half a second.
BlockOutlivesTold == told <= block + 2

LEMMA BlockOutlivesToldKept ==
  ASSUME TypeOK, BlockOutlivesTold, [Next]_vars
  PROVE  BlockOutlivesTold'
<1>1. /\ told \in Nat
      /\ block \in 0..KeyLife(BlockTime)
      /\ told <= KeyLife(BlockTime)
      /\ BlockTime \in Nat
      /\ KeyLife(BlockTime) \in Nat
      /\ KeyLife(BlockTime) >= BlockTime
  BY ThrottlerAssumption, KeyLifeBounds DEF TypeOK
<1>2. CASE UNCHANGED <<block, told>>
  BY <1>2 DEF BlockOutlivesTold
<1>3. ASSUME NEW r \in Requests, RedisStep(r)  PROVE BlockOutlivesTold'
  <2>1. CASE RejectOverLimit(r)
    BY <1>1, <2>1 DEF RejectOverLimit, Announce, BlockOutlivesTold
  <2>2. CASE RejectBlocked(r)
    <3>1. TtlReply(block) \in Nat /\ 4 * TtlReply(block) <= block + 2
      BY <1>1, TtlReplyBounds
    <3> QED
      BY <1>1, <2>2, <3>1 DEF RejectBlocked, Announce, BlockOutlivesTold
  <2> QED
    BY <1>2, <1>3, <2>1, <2>2
       DEF RedisStep, PassCheck, Incr, Expire, Grant, redisVars
<1>4. ASSUME NEW r \in Requests, MemoryStep(r)  PROVE BlockOutlivesTold'
  BY <1>2, <1>4 DEF MemoryStep, MemoryRejectBlocked, MemoryCount, redisVars
<1>5. ASSUME NEW r \in Requests, Fail(r)  PROVE BlockOutlivesTold'
  BY <1>2, <1>5 DEF Fail, redisVars
<1>6. ASSUME NEW r \in Requests, Repeated(r)  PROVE BlockOutlivesTold'
  BY <1>1, <1>6 DEF Repeated, BlockOutlivesTold
<1>7. ASSUME NEW g \in Gateways, Restart(g)  PROVE BlockOutlivesTold'
  BY <1>2, <1>7 DEF Restart, redisVars
<1>8. CASE Tick
  BY <1>1, <1>8 DEF Tick, Left, BlockOutlivesTold
<1>9. CASE BeginWatch
  BY <1>2, <1>9 DEF BeginWatch, redisVars
<1>10. CASE Forget
  BY <1>1, <1>10 DEF Forget, BlockOutlivesTold
<1>11. CASE UNCHANGED vars
  BY <1>2, <1>11 DEF vars, redisVars
<1> QED
  BY <1>3, <1>4, <1>5, <1>6, <1>7, <1>8, <1>9, <1>10, <1>11 DEF Next

LEMMA CheckBeforeIncr ==
  ASSUME TypeOK, BlockOutlivesTold, [Next]_vars, told >= 4,
         NEW q \in Requests, pc'[q] = "incr"
  PROVE  pc[q] = "incr"
<1>1. /\ pc \in [Requests -> {"idle", "incr", "expire", "answer"}]
      /\ told \in Nat
      /\ block \in 0..KeyLife(BlockTime)
      /\ BlockTime \in Nat
      /\ KeyLife(BlockTime) \in Nat
  BY ThrottlerAssumption, KeyLifeBounds DEF TypeOK
<1>2. Blocked
  BY <1>1, TtlReplyBounds DEF Blocked, BlockOutlivesTold
<1>3. ASSUME NEW r \in Requests, RedisStep(r)  PROVE pc[q] = "incr"
  BY <1>1, <1>2, <1>3
     DEF RedisStep, RejectBlocked, PassCheck, Incr, Expire, RejectOverLimit, Grant
<1>4. ASSUME NEW r \in Requests, MemoryStep(r)  PROVE pc[q] = "incr"
  BY <1>1, <1>4 DEF MemoryStep, MemoryRejectBlocked, MemoryCount
<1>5. ASSUME NEW r \in Requests, Fail(r) \/ Repeated(r)  PROVE pc[q] = "incr"
  BY <1>1, <1>5 DEF Fail, Repeated
<1>6. ASSUME NEW g \in Gateways, Restart(g)  PROVE pc[q] = "incr"
  BY <1>1, <1>6 DEF Restart
<1>7. CASE Tick \/ BeginWatch \/ Forget \/ UNCHANGED vars
  BY <1>1, <1>7 DEF Tick, BeginWatch, Forget, vars
<1> QED BY <1>3, <1>4, <1>5, <1>6, <1>7 DEF Next

\* While a second or more is left of a time that any client was told, from
\* blockDuration or from the rounded TTL, no request passes the check of a gateway
\* on Redis, whatever requests and faults come in between, as long as Redis keeps
\* the key.
THEOREM ThrottlerBlockHolds == Spec => BlockHolds
<1>1. Init => BlockOutlivesTold
  BY DEF Init, BlockOutlivesTold
<1>2. TypeOK /\ BlockOutlivesTold /\ [Next]_vars => BlockOutlivesTold'
  BY BlockOutlivesToldKept
<1>3. TypeOK /\ BlockOutlivesTold /\ [Next]_vars
        => [told >= 4 => \A r \in Requests : pc'[r] = "incr" => pc[r] = "incr"]_vars
  BY CheckBeforeIncr
<1> QED
  BY <1>1, <1>2, <1>3, ThrottlerTypeCorrect, PTL DEF Spec, BlockHolds

-----------------------------------------------------------------------------
(* The burst bound.                                                        *)

\* The requests bucket b has counted in its current window.  An entry of the
\* memory store counts until it expires, even if it is deleted later.
InWindow(b) ==
  IF b = Redis THEN hits ELSE IF entry[b].expires = 0 THEN 0 ELSE entry[b].hits

\* The current window of bucket b ends no earlier than the watched period.
Outlasts(b) ==
  IF b = Redis THEN hitsTtl = 0 \/ hitsTtl >= watch ELSE entry[b].expires >= watch

AtMostLimit(n) == IF n < Limit THEN n ELSE Limit

\* How many requests s of a period, of which w is left, a bucket can have
\* admitted when its current window holds n: only those of the current window;
\* or a window that is over, and no other yet; or a window that is over and the
\* current one, which is then the last; or the period itself is over.
Admitted(s, w, n, outlasts) ==
  \/ s <= AtMostLimit(n)
  \/ n = 0 /\ s <= Limit
  \/ n > 0 /\ outlasts /\ s <= Limit + AtMostLimit(n)
  \/ w = 0 /\ s <= 2 * Limit

BurstInv ==
  /\ hits = 0 => hitsTtl = 0
  /\ \A g \in Gateways : entry[g].expires > 0 => entry[g].hits > 0
  /\ Admitted(seen, watch, InWindow(watched), Outlasts(watched))

\* Nothing is counted, time stands still, the window does not get shorter.
LEMMA AdmittedStays ==
  ASSUME NEW s \in Nat, NEW w \in Nat, NEW n \in Nat,
         NEW p \in BOOLEAN, NEW q \in BOOLEAN,
         Admitted(s, w, n, p), p => q
  PROVE  Admitted(s, w, n, q)
BY ThrottlerAssumption DEF Admitted, AtMostLimit

\* A request is counted; if the window begins with it, it outlasts the period.
LEMMA AdmittedCounts ==
  ASSUME NEW s \in Nat, NEW w \in Nat, NEW n \in Nat,
         NEW p \in BOOLEAN, NEW q \in BOOLEAN, NEW ok \in BOOLEAN,
         Admitted(s, w, n, p), n = 0 \/ p => q,
         ok => Increased(n) <= Limit
  PROVE  Admitted(IF ok /\ w > 0 THEN s + 1 ELSE s, w, Increased(n), q)
BY ThrottlerAssumption DEF Admitted, AtMostLimit, Increased, MaxHits

\* Time passes, and the window goes on or is over.
LEMMA AdmittedAges ==
  ASSUME NEW s \in Nat, NEW w \in Nat, NEW n \in Nat, NEW m \in Nat,
         NEW p \in BOOLEAN, NEW q \in BOOLEAN,
         Admitted(s, w, n, p),
         m = n \/ m = 0,
         p => IF m = 0 THEN n = 0 \/ w <= 1 ELSE q
  PROVE  Admitted(s, Left(w), m, q)
BY ThrottlerAssumption DEF Admitted, AtMostLimit, Left

LEMMA AdmittedBounded ==
  ASSUME NEW s \in Nat, NEW w \in Nat, NEW n \in Nat, NEW p \in BOOLEAN,
         Admitted(s, w, n, p)
  PROVE  s <= 2 * Limit
BY ThrottlerAssumption DEF Admitted, AtMostLimit

\* A call to memoryIncrement that counts: an expired entry starts again.
LEMMA CountedEntry ==
  ASSUME NEW e \in Entry, e.expires > 0 => e.hits > 0
  PROVE  LET c == Counted(Cleaned(e))
         IN /\ c.hits = Increased(IF e.expires = 0 THEN 0 ELSE e.hits)
            /\ c.hits > 0
            /\ c.expires > 0
            /\ c.expires = IF e.expires = 0 THEN Window ELSE e.expires
<1>1. /\ e.hits \in 0..MaxHits
      /\ e.expires \in 0..Window
  BY DEF Entry
<1>2. 0 \in 0..MaxHits
  BY ThrottlerAssumption DEF MaxHits
<1>3. /\ Increased(e.hits) > 0
      /\ Increased(0) > 0
  BY <1>1, <1>2, IncreasedInRange
<1>4. CASE e.expires = 0
  <2>1. Cleaned(e) = NoEntry
    BY <1>4 DEF Cleaned
  <2> QED
    BY <1>3, <1>4, <2>1, ThrottlerAssumption DEF Counted, NoEntry
<1>5. CASE e.expires # 0
  <2>1. Cleaned(e) = e /\ e # NoEntry
    BY <1>5 DEF Cleaned, NoEntry
  <2> QED
    BY <1>1, <1>3, <1>5, <2>1 DEF Counted
<1> QED BY <1>4, <1>5

\* A bucket's window in the types that the lemmas above ask for.
LEMMA WindowTypes ==
  ASSUME TypeOK
  PROVE  /\ seen \in Nat
         /\ watch \in Nat
         /\ watch <= Window
         /\ hits \in Nat
         /\ hitsTtl \in Nat
         /\ InWindow(watched) \in Nat
         /\ Outlasts(watched) \in BOOLEAN
         /\ watched # Redis => watched \in Gateways
         /\ \A g \in Gateways : /\ entry[g] \in Entry
                                /\ entry[g].hits \in Nat
                                /\ entry[g].expires \in Nat
<1> USE ThrottlerAssumption
<1>1. /\ seen \in Nat
      /\ watch \in Nat
      /\ watch <= Window
      /\ hits \in Nat
      /\ hitsTtl \in Nat
      /\ watched # Redis => watched \in Gateways
  BY KeyLifeBounds DEF TypeOK, MaxHits, Buckets
<1>2. ASSUME NEW g \in Gateways
      PROVE  /\ entry[g] \in Entry
             /\ entry[g].hits \in Nat
             /\ entry[g].expires \in Nat
  <2>1. entry[g] \in Entry
    BY DEF TypeOK
  <2> QED BY <2>1 DEF Entry, MaxHits
<1>3. InWindow(watched) \in Nat
  BY <1>1, <1>2 DEF InWindow
<1>4. Outlasts(watched) \in BOOLEAN
  <2>1. (hitsTtl = 0 \/ hitsTtl >= watch) \in BOOLEAN
    BY <1>1
  <2>2. ASSUME watched # Redis  PROVE (entry[watched].expires >= watch) \in BOOLEAN
    BY <1>1, <1>2, <2>2
  <2> QED BY <2>1, <2>2 DEF Outlasts
<1> QED BY <1>1, <1>2, <1>3, <1>4

\* Steps that leave the windows and the watched period alone.
LEMMA BurstUntouched ==
  ASSUME BurstInv, UNCHANGED <<hits, hitsTtl, entry, watchVars>>
  PROVE  BurstInv'
BY DEF BurstInv, InWindow, Outlasts, Admitted, AtMostLimit, watchVars

\* Steps that only change the window of Redis, or that of a gateway, while
\* another bucket is watched.
LEMMA BurstElsewhere ==
  ASSUME BurstInv, UNCHANGED watchVars,
         InWindow(watched)' = InWindow(watched),
         Outlasts(watched)' = Outlasts(watched),
         (hits = 0 => hitsTtl = 0)',
         (\A g \in Gateways : entry[g].expires > 0 => entry[g].hits > 0)'
  PROVE  BurstInv'
BY DEF BurstInv, Admitted, AtMostLimit, watchVars

LEMMA BurstKeptByRedis ==
  ASSUME TypeOK, TypeOK', BurstInv, NEW r \in Requests,
         RedisStep(r) \/ Repeated(r)
  PROVE  BurstInv'
<1> USE ThrottlerAssumption
<1>1. CASE UNCHANGED <<hits, hitsTtl, entry, watchVars>>
  BY <1>1, BurstUntouched
<1>2. ASSUME hits' = Increased(hits), UNCHANGED <<hitsTtl, entry, watched, watch>>,
             NEW ok \in BOOLEAN, ok => hits' <= Limit,
             seen' = IF ok /\ watched = Redis /\ watch > 0 THEN seen + 1 ELSE seen
      PROVE  BurstInv'
  <2>1. hits' > 0
    BY <1>2, IncreasedInRange DEF TypeOK
  <2>2. CASE watched = Redis
    <3>1. InWindow(watched) = hits /\ InWindow(watched)' = Increased(hits)
      BY <1>2, <2>2 DEF InWindow
    <3>2. hits = 0 \/ Outlasts(watched) => Outlasts(watched)'
      BY <1>2, <2>2 DEF BurstInv, Outlasts
    <3>3. Admitted(IF ok /\ watch > 0 THEN seen + 1 ELSE seen, watch,
                   Increased(hits), Outlasts(watched)')
      <4>1. Outlasts(watched)' \in BOOLEAN
        BY WindowTypes, <1>2, <2>2 DEF Outlasts
      <4> QED
        BY <1>2, <3>1, <3>2, <4>1, WindowTypes, AdmittedCounts DEF BurstInv
    <3> QED BY <1>2, <2>1, <2>2, <3>1, <3>3 DEF BurstInv
  <2>3. CASE watched # Redis
    BY <1>2, <2>1, <2>3, BurstElsewhere
       DEF InWindow, Outlasts, BurstInv, watchVars
  <2> QED BY <2>2, <2>3
<1>3. ASSUME SetExpiry, UNCHANGED <<hits, entry, watchVars>>  PROVE BurstInv'
  <2>1. hits = 0 => hitsTtl' = 0
    BY <1>3 DEF SetExpiry
  <2>2. CASE watched = Redis
    <3>1. InWindow(watched) = hits /\ InWindow(watched)' = hits
      BY <1>3, <2>2 DEF InWindow, watchVars
    <3>2. KeyLife(Window) >= watch
      BY WindowTypes, KeyLifeBounds
    <3>3. Outlasts(watched)'
      BY <1>3, <2>2, <3>2 DEF Outlasts, SetExpiry, watchVars
    <3>4. Admitted(seen, watch, hits, TRUE)
      BY <3>1, WindowTypes, AdmittedStays DEF BurstInv
    <3> QED
      BY <1>3, <2>1, <2>2, <3>1, <3>3, <3>4
         DEF BurstInv, watchVars, Admitted
  <2>3. CASE watched # Redis
    BY <1>3, <2>1, <2>3, BurstElsewhere
       DEF InWindow, Outlasts, BurstInv, watchVars
  <2> QED BY <2>2, <2>3
<1>4. CASE RejectBlocked(r) \/ PassCheck(r) \/ RejectOverLimit(r) \/ Grant(r)
  BY <1>1, <1>4 DEF RejectBlocked, PassCheck, RejectOverLimit, Grant, redisVars
<1>5. CASE Incr(r)
  <2>1. ~Blocks(hits') => hits' <= Limit
    BY <1>5, IncreasedInRange DEF Blocks, Incr, TypeOK, MaxHits
  <2>2. seen' = IF ~Blocks(hits') /\ watched = Redis /\ watch > 0
                  THEN seen + 1 ELSE seen
    BY <1>5 DEF Incr, Count
  <2> QED BY <1>2, <1>5, <2>1, <2>2 DEF Incr, Count, Blocks
<1>6. CASE Expire(r)
  BY <1>3, <1>6 DEF Expire
<1>7. CASE Repeated(r)
  <2>1. CASE hits' = Increased(hits) /\ UNCHANGED <<hitsTtl, block>>
    BY <1>2, <1>7, <2>1 DEF Repeated, watchVars
  <2> QED
    BY <1>1, <1>3, <1>7, <2>1 DEF Repeated
<1> QED
  BY <1>4, <1>5, <1>6, <1>7 DEF RedisStep

LEMMA BurstKeptByMemory ==
  ASSUME TypeOK, TypeOK', BurstInv, NEW r \in Requests, MemoryStep(r)
  PROVE  BurstInv'
<1> USE ThrottlerAssumption
<1>1. PICK g \in Gateways : MemoryRejectBlocked(g, r) \/ MemoryCount(g, r)
  BY DEF MemoryStep
<1>2. /\ g # Redis
      /\ UNCHANGED <<hits, hitsTtl, watched, watch>>
      /\ entry \in [Gateways -> Entry]
      /\ entry[g] \in Entry
      /\ entry[g].expires > 0 => entry[g].hits > 0
      /\ entry[g].expires \in Nat
  BY <1>1, WindowTypes
     DEF MemoryRejectBlocked, MemoryCount, Count, redisVars, watchVars, BurstInv,
         TypeOK
<1>3. ASSUME NEW e, entry' = [entry EXCEPT ![g] = e], e.expires > 0 => e.hits > 0
      PROVE  (\A h \in Gateways : entry[h].expires > 0 => entry[h].hits > 0)'
  BY <1>2, <1>3 DEF BurstInv
<1>4. CASE MemoryRejectBlocked(g, r)
  <2>1. entry' = [entry EXCEPT ![g] = Cleaned(entry[g])] /\ UNCHANGED watchVars
    BY <1>4 DEF MemoryRejectBlocked
  <2>2. CASE entry[g].expires = 0
    <3>1. entry'[g] = NoEntry
      BY <1>2, <2>1, <2>2 DEF Cleaned
    <3>2. InWindow(watched)' = InWindow(watched)
      BY <1>2, <2>1, <2>2, <3>1 DEF InWindow, NoEntry
    <3>3. Outlasts(watched)' = Outlasts(watched)
      BY <1>2, <2>1, <2>2, <3>1 DEF Outlasts, NoEntry
    <3>4. (\A h \in Gateways : entry[h].expires > 0 => entry[h].hits > 0)'
      <4>1. entry' = [entry EXCEPT ![g] = NoEntry]
        BY <2>1, <2>2 DEF Cleaned
      <4>2. ~(NoEntry.expires > 0)
        BY DEF NoEntry
      <4> QED BY <1>3, <4>1, <4>2
    <3> QED BY <1>2, <2>1, <3>2, <3>3, <3>4, BurstElsewhere DEF BurstInv
  <2>3. CASE entry[g].expires # 0
    <3>1. entry' = entry
      BY <1>2, <2>1, <2>3 DEF Cleaned
    <3> QED BY <1>2, <2>1, <3>1, BurstUntouched
  <2> QED BY <2>2, <2>3
<1>5. CASE MemoryCount(g, r)
  <2> DEFINE e == Counted(Cleaned(entry[g]))
             n == IF entry[g].expires = 0 THEN 0 ELSE entry[g].hits
  <2>1. /\ e.hits = Increased(n)
        /\ e.hits > 0
        /\ e.expires > 0
        /\ e.expires = IF entry[g].expires = 0 THEN Window ELSE entry[g].expires
    BY <1>2, CountedEntry
  <2>2. entry' = [entry EXCEPT ![g] = e]
    BY <1>5 DEF MemoryCount
  <2>3. /\ entry'[g] = e
        /\ \A h \in Gateways : h # g => entry'[h] = entry[h]
    BY <1>2, <2>2
  <2>4. seen' = IF ~Blocks(e.hits) /\ g = watched /\ watch > 0
                  THEN seen + 1 ELSE seen
    BY <1>5, <2>3 DEF MemoryCount, Count
  <2> HIDE DEF e
  <2>5. (\A h \in Gateways : entry[h].expires > 0 => entry[h].hits > 0)'
    BY <1>3, <2>1, <2>2
  <2>6. CASE watched = g
    <3>1. InWindow(watched) = n /\ InWindow(watched)' = Increased(n)
      BY <1>2, <2>1, <2>3, <2>6 DEF InWindow
    <3>2. e.hits \in Nat
      <4>1. e \in Entry
        BY <2>3 DEF TypeOK
      <4> QED BY <4>1 DEF Entry, MaxHits
    <3>3. n = 0 \/ Outlasts(watched) => Outlasts(watched)'
      BY <1>2, <2>1, <2>3, <2>6, WindowTypes DEF Outlasts
    <3>4. Outlasts(watched)' \in BOOLEAN
      BY <1>2, <2>1, <2>3, <2>6, WindowTypes DEF Outlasts
    <3> DEFINE ok == ~Blocks(e.hits)
    <3>5. ok \in BOOLEAN /\ (ok => Increased(n) <= Limit)
      BY <2>1, <3>2 DEF Blocks
    <3>6. n \in Nat /\ Admitted(seen, watch, n, Outlasts(watched))
      BY <3>1, WindowTypes DEF BurstInv
    <3>7. Admitted(IF ok /\ watch > 0 THEN seen + 1 ELSE seen, watch,
                   Increased(n), Outlasts(watched)')
      <4> HIDE DEF n, ok
      <4> QED
        BY <3>3, <3>4, <3>5, <3>6, WindowTypes, AdmittedCounts
    <3> QED BY <1>2, <2>4, <2>5, <2>6, <3>1, <3>7 DEF BurstInv
  <2>7. CASE watched # g
    <3>1. seen' = seen
      BY <2>4, <2>7
    <3>2. /\ InWindow(watched)' = InWindow(watched)
          /\ Outlasts(watched)' = Outlasts(watched)
      BY <1>2, <2>3, <2>7, WindowTypes DEF InWindow, Outlasts
    <3> QED
      BY <1>2, <2>5, <3>1, <3>2, BurstElsewhere DEF BurstInv, watchVars
  <2> QED BY <2>6, <2>7
<1> QED BY <1>1, <1>4, <1>5

LEMMA BurstKeptByTick ==
  ASSUME TypeOK, TypeOK', BurstInv, Tick
  PROVE  BurstInv'
<1> USE ThrottlerAssumption
<1>1. /\ watch' = Left(watch)
      /\ UNCHANGED <<watched, seen>>
      /\ hitsTtl' = Left(hitsTtl)
      /\ hits' = IF hitsTtl = 1 THEN 0 ELSE hits
      /\ \A g \in Gateways : entry'[g] = Aged(entry[g])
  BY DEF Tick
<1>2. \A g \in Gateways : /\ entry'[g].hits = entry[g].hits
                          /\ entry'[g].expires = Left(entry[g].expires)
  <2>1. ASSUME NEW e
        PROVE  Aged(e).hits = e.hits /\ Aged(e).expires = Left(e.expires)
    BY DEF Aged
  <2> QED BY <1>1, <2>1
<1>3. hits' = 0 => hitsTtl' = 0
  BY <1>1, WindowTypes DEF BurstInv, Left
<1>4. (\A g \in Gateways : entry[g].expires > 0 => entry[g].hits > 0)'
  BY <1>2, WindowTypes DEF BurstInv, Left
<1>5. InWindow(watched)' = InWindow(watched) \/ InWindow(watched)' = 0
  BY <1>1, <1>2, WindowTypes DEF InWindow, Left
<1>6. InWindow(watched)' = 0 /\ Outlasts(watched)
        => InWindow(watched) = 0 \/ watch <= 1
  BY <1>1, <1>2, WindowTypes DEF InWindow, Outlasts, Left, BurstInv
<1>7. InWindow(watched)' # 0 /\ Outlasts(watched) => Outlasts(watched)'
  BY <1>1, <1>2, WindowTypes DEF InWindow, Outlasts, Left, BurstInv
<1>8. InWindow(watched)' \in Nat /\ Outlasts(watched)' \in BOOLEAN
  <2>1. InWindow(watched)' \in Nat
    BY <1>5, WindowTypes
  <2>2. /\ watch' \in Nat
        /\ hitsTtl' \in Nat
        /\ watched' # Redis => entry'[watched'].expires \in Nat
    BY <1>1, <1>2, WindowTypes DEF Left
  <2>3. CASE watched' = Redis
    <3>1. (hitsTtl' = 0 \/ hitsTtl' >= watch') \in BOOLEAN
      BY <2>2
    <3> QED BY <2>1, <2>3, <3>1 DEF Outlasts
  <2>4. CASE watched' # Redis
    BY <2>1, <2>2, <2>4 DEF Outlasts
  <2> QED BY <2>3, <2>4
<1>9. Admitted(seen, Left(watch), InWindow(watched)', Outlasts(watched)')
  BY <1>5, <1>6, <1>7, <1>8, WindowTypes, AdmittedAges DEF BurstInv
<1> QED BY <1>1, <1>3, <1>4, <1>9 DEF BurstInv

\* Steps after which the observation starts anew.
LEMMA BurstRestarted ==
  ASSUME TypeOK', seen' = 0,
         (hits = 0 => hitsTtl = 0)',
         (\A g \in Gateways : entry[g].expires > 0 => entry[g].hits > 0)'
  PROVE  BurstInv'
<1>1. InWindow(watched)' \in Nat
  <2>1. hits' \in Nat
    BY ThrottlerAssumption DEF TypeOK, MaxHits
  <2>2. ASSUME watched' # Redis  PROVE entry'[watched'].hits \in Nat
    <3>1. entry'[watched'] \in Entry
      BY <2>2 DEF TypeOK, Buckets
    <3> QED BY <3>1, ThrottlerAssumption DEF Entry, MaxHits
  <2> QED BY <2>1, <2>2 DEF InWindow
<1> QED
  BY <1>1, ThrottlerAssumption DEF BurstInv, Admitted, AtMostLimit

LEMMA BurstKept ==
  ASSUME TypeOK, TypeOK', BurstInv, [Next]_vars
  PROVE  BurstInv'
<1> USE ThrottlerAssumption
<1>1. ASSUME NEW r \in Requests, Fail(r)  PROVE BurstInv'
  BY <1>1, BurstUntouched DEF Fail, redisVars
<1>2. ASSUME NEW g \in Gateways, Restart(g)  PROVE BurstInv'
  <2>1. /\ UNCHANGED <<hits, hitsTtl, watched>>
        /\ entry' = [entry EXCEPT ![g] = NoEntry]
        /\ entry \in [Gateways -> Entry]
    BY <1>2 DEF Restart, redisVars, TypeOK
  <2>2. (hits = 0 => hitsTtl = 0)'
    BY <2>1 DEF BurstInv
  <2>3. (\A h \in Gateways : entry[h].expires > 0 => entry[h].hits > 0)'
    <3>1. ~(NoEntry.expires > 0)
      BY DEF NoEntry
    <3> QED BY <2>1, <3>1 DEF BurstInv
  <2>4. CASE watched = g
    BY <1>2, <2>2, <2>3, <2>4, BurstRestarted DEF Restart
  <2>5. CASE watched # g
    <3>1. UNCHANGED watchVars
      BY <1>2, <2>5 DEF Restart, watchVars
    <3>2. /\ InWindow(watched)' = InWindow(watched)
          /\ Outlasts(watched)' = Outlasts(watched)
      BY <2>1, <2>5, <3>1, WindowTypes DEF InWindow, Outlasts, watchVars
    <3> QED BY <2>2, <2>3, <3>1, <3>2, BurstElsewhere
  <2> QED BY <2>4, <2>5
<1>3. CASE BeginWatch
  BY <1>3, BurstRestarted DEF BeginWatch, BurstInv, redisVars
<1>4. CASE Forget
  <2>1. (hits = 0 => hitsTtl = 0)'
    BY <1>4 DEF Forget, BurstInv
  <2>2. UNCHANGED <<entry, watched>>
    BY <1>4 DEF Forget
  <2>3. (\A g \in Gateways : entry[g].expires > 0 => entry[g].hits > 0)'
    BY <2>2 DEF BurstInv
  <2>4. CASE watched = Redis
    BY <1>4, <2>1, <2>3, <2>4, BurstRestarted DEF Forget
  <2>5. CASE watched # Redis
    <3>1. UNCHANGED watchVars
      BY <1>4, <2>5 DEF Forget, watchVars
    <3>2. /\ InWindow(watched)' = InWindow(watched)
          /\ Outlasts(watched)' = Outlasts(watched)
      BY <2>2, <2>5, <3>1 DEF InWindow, Outlasts, watchVars
    <3> QED BY <2>1, <2>3, <3>1, <3>2, BurstElsewhere
  <2> QED BY <2>4, <2>5
<1>5. CASE UNCHANGED vars
  BY <1>5, BurstUntouched DEF vars, redisVars
<1> QED
  BY <1>1, <1>2, <1>3, <1>4, <1>5,
     BurstKeptByRedis, BurstKeptByMemory, BurstKeptByTick DEF Next

\* In a period of one window a bucket admits at most twice the limit: for any
\* number of gateways and concurrent requests, any limit and window, and
\* whatever commands are lost or sent twice.
THEOREM ThrottlerBurstBounded == Spec => []BurstBounded
<1>1. Init => BurstInv
  BY ThrottlerAssumption
     DEF Init, BurstInv, NoEntry, InWindow, Admitted, AtMostLimit, Buckets
<1>2. TypeOK /\ TypeOK' /\ BurstInv /\ [Next]_vars => BurstInv'
  BY BurstKept
<1>3. TypeOK /\ BurstInv => BurstBounded
  BY WindowTypes, AdmittedBounded DEF BurstInv, BurstBounded
<1> QED
  BY <1>1, <1>2, <1>3, ThrottlerTypeCorrect, PTL DEF Spec

=============================================================================
