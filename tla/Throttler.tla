----------------------------- MODULE Throttler ------------------------------
(***************************************************************************)
(* RedisThrottlerStorage (shared/redis-throttler-storage.ts) for one       *)
(* throttle key, that is one tribe: requests of that tribe arrive at       *)
(* several gateways, which share a Redis or count in their own memory.     *)
(*                                                                         *)
(* redisIncrement awaits four Redis commands one after the other.  Redis   *)
(* executes each of them atomically, so a request is at one of them and    *)
(* every command is one action; which gateway sends it makes no            *)
(* difference.  memoryIncrement is synchronous, hence one action.          *)
(*                                                                         *)
(* A tick is a quarter of a second.  Keys have TTLs in whole seconds, and  *)
(* the TTL command replies the nearest one: up to half a second too much,  *)
(* and 0 for a key in its last half second.                                *)
(*                                                                         *)
(* Counters are only compared with 1 and with Limit: they saturate at      *)
(* MaxHits.                                                                *)
(***************************************************************************)
EXTENDS Naturals

CONSTANTS
  Gateways,     \* running instances
  Requests,     \* requests that may be in flight at the same time
  Limit,        \* limit, RATE_LIMIT_MAX
  Window,       \* ttl, RATE_LIMIT_WINDOW_MS, in ticks
  BlockTime,    \* blockDuration in ticks; the guard passes ttl by default
  Redis,        \* the bucket of the gateways connected to Redis
  MaxFaults     \* bound on lost commands, restarts, evictions

ASSUME ThrottlerAssumption ==
  /\ Limit \in Nat \ {0}
  /\ Window \in Nat \ {0}
  /\ BlockTime \in Nat \ {0}
  /\ Redis \notin Gateways

VARIABLES
  mode,       \* mode[g]: redis, or memory when Redis was away at the start
  hits,       \* the key throttle:{key}:hits, 0 when absent
  hitsTtl,    \* its remaining life, 0 when absent or without TTL
  block,      \* remaining life of throttle:{key}:block, 0 when absent
  entry,      \* entry[g]: memoryStore.get(key), with remaining times
  pc,         \* pc[r]: the command request r is about to send, or idle
  reply,      \* reply[r]: `hits`, what INCR returned
  last,       \* history: the last answer a request got
  told,       \* history: what is left of the longest block announced
  watched,    \* history: one bucket,
  watch,      \* history: a period of length Window, what is left of it,
  seen,       \* history: and the requests admitted in it
  faults

redisVars == <<hits, hitsTtl, block, told>>
watchVars == <<watched, watch, seen>>
vars == <<mode, redisVars, entry, pc, reply, last, watchVars, faults>>

MaxHits == Limit + 2
Buckets == Gateways \cup {Redis}

\* Math.ceil(ms / 1000)
Seconds(t) == (t + 3) \div 4

\* What EXPIRE and SETEX make of it: the life of the key.
KeyLife(t) == 4 * Seconds(t)

\* The reply of TTL, in seconds: the nearest one, a half is rounded up.
TtlReply(t) == (t + 2) \div 4

\* Mutant: off by one, a block in its last second is over.
BlockedTooShort == TtlReply(block) > 1

\* blockTtl > 0
Blocked == TtlReply(block) > 0

\* INCR, ++
Increased(n) == IF n < MaxHits THEN n + 1 ELSE n

\* What a tick leaves of a remaining time.
Left(t) == IF t = 0 THEN 0 ELSE t - 1

\* Mutant: off by one, one request too many.
BlocksLate(n) == n > Limit + 1

\* hits > limit && blockDuration > 0
Blocks(n) == n > Limit /\ BlockTime > 0

\* Mutant: every hit renews the window.
EveryHit(n) == n > 0

\* Mutant: off by one, no hit starts the window.
SecondHit(n) == n = 2

\* hits === 1
FirstHit(n) == n = 1

NoEntry == [hits |-> 0, expires |-> 0, blocked |-> 0]
Entry == [hits : 0..MaxHits, expires : 0..Window, blocked : 0..BlockTime]

TypeOK ==
  /\ mode \in [Gateways -> {"redis", "memory"}]
  /\ hits \in 0..MaxHits
  /\ hitsTtl \in 0..KeyLife(Window)
  /\ block \in 0..KeyLife(BlockTime)
  /\ entry \in [Gateways -> Entry]
  /\ pc \in [Requests -> {"idle", "incr", "expire", "answer"}]
  /\ reply \in [Requests -> 0..MaxHits]
  /\ last \in {"none", "granted", "rejected"}
  /\ told \in 0..KeyLife(BlockTime)
  /\ watched \in Buckets
  /\ watch \in 0..Window
  /\ seen \in Nat
  /\ faults \in Nat

-----------------------------------------------------------------------------
\* onModuleInit of every gateway.
Init ==
  /\ mode \in [Gateways -> {"redis", "memory"}]
  /\ hits = 0
  /\ hitsTtl = 0
  /\ block = 0
  /\ entry = [g \in Gateways |-> NoEntry]
  /\ pc = [r \in Requests |-> "idle"]
  /\ reply = [r \in Requests |-> 0]
  /\ last = "none"
  /\ told = 0
  /\ watched \in Buckets
  /\ watch = 0
  /\ seen = 0
  /\ faults = 0

\* History: bucket b has counted a request, and admits it or not.
Count(b, admitted) ==
  /\ seen' = IF admitted /\ b = watched /\ watch > 0 THEN seen + 1 ELSE seen
  /\ UNCHANGED <<watched, watch>>

-----------------------------------------------------------------------------
(* redisIncrement, one action per command.                                 *)

\* A request arrives at a gateway connected to Redis.
Arrives(r) ==
  /\ pc[r] = "idle"
  /\ \E g \in Gateways : mode[g] = "redis"

\* History: a client is told that it is blocked for t more ticks.
Announce(t) == told' = IF t > told THEN t ELSE told

\* TTL of the block key: the request is rejected, and the client is told the
\* rounded reply (timeToBlockExpire) ...
RejectBlocked(r) ==
  /\ Arrives(r)
  /\ Blocked
  /\ Announce(4 * TtlReply(block))
  /\ last' = "rejected"
  /\ UNCHANGED <<mode, hits, hitsTtl, block, entry, pc, reply, watchVars, faults>>

\* ... or goes on to the counter.
PassCheck(r) ==
  /\ Arrives(r)
  /\ ~Blocked
  /\ pc' = [pc EXCEPT ![r] = "incr"]
  /\ UNCHANGED <<mode, redisVars, entry, reply, last, watchVars, faults>>

\* INCR creates a missing key without TTL and keeps the TTL of a present one.
Incr(r) ==
  /\ pc[r] = "incr"
  /\ hits' = Increased(hits)
  /\ reply' = [reply EXCEPT ![r] = hits']
  /\ pc' = [pc EXCEPT ![r] = IF FirstHit(hits') THEN "expire" ELSE "answer"]
  /\ Count(Redis, ~Blocks(hits'))
  /\ UNCHANGED <<mode, hitsTtl, block, told, entry, last, faults>>

\* Mutant: EXPIRE is given milliseconds.
SetExpiryInMilliseconds ==
  hitsTtl' = IF hits = 0 THEN 0 ELSE 1000 * KeyLife(Window)

\* EXPIRE does nothing to a missing key.
SetExpiry == hitsTtl' = IF hits = 0 THEN 0 ELSE KeyLife(Window)

Expire(r) ==
  /\ pc[r] = "expire"
  /\ SetExpiry
  /\ pc' = [pc EXCEPT ![r] = "answer"]
  /\ UNCHANGED <<mode, hits, block, told, entry, reply, last, watchVars, faults>>

\* The TTL of the counter is only reported.  The request is over the limit:
\* SETEX of the block key, and the client is told blockDuration itself.
RejectOverLimit(r) ==
  /\ pc[r] = "answer"
  /\ Blocks(reply[r])
  /\ block' = KeyLife(BlockTime)
  /\ Announce(BlockTime)
  /\ last' = "rejected"
  /\ pc' = [pc EXCEPT ![r] = "idle"]
  /\ reply' = [reply EXCEPT ![r] = 0]
  /\ UNCHANGED <<mode, hits, hitsTtl, entry, watchVars, faults>>

Grant(r) ==
  /\ pc[r] = "answer"
  /\ ~Blocks(reply[r])
  /\ last' = "granted"
  /\ pc' = [pc EXCEPT ![r] = "idle"]
  /\ reply' = [reply EXCEPT ![r] = 0]
  /\ UNCHANGED <<mode, redisVars, entry, watchVars, faults>>

-----------------------------------------------------------------------------
(* memoryIncrement.                                                        *)

\* existing.expiresAt <= now: the entry is deleted.
Cleaned(e) == IF e.expires = 0 THEN NoEntry ELSE e

\* memoryStore.get(key) || a new entry, after hits++ and, over the limit, the
\* assignment of blockedUntil
Counted(e) ==
  [hits |-> Increased(e.hits),
   expires |-> IF e = NoEntry THEN Window ELSE e.expires,
   blocked |-> IF Blocks(Increased(e.hits)) THEN BlockTime ELSE e.blocked]

ArrivesAt(g, r) == pc[r] = "idle" /\ mode[g] = "memory"

\* The block is read from the entry although it may just have been deleted.
MemoryRejectBlocked(g, r) ==
  /\ ArrivesAt(g, r)
  /\ entry[g].blocked > 0
  /\ entry' = [entry EXCEPT ![g] = Cleaned(entry[g])]
  /\ last' = "rejected"
  /\ UNCHANGED <<mode, redisVars, pc, reply, watchVars, faults>>

MemoryCount(g, r) ==
  /\ ArrivesAt(g, r)
  /\ entry[g].blocked = 0
  /\ entry' = [entry EXCEPT ![g] = Counted(Cleaned(entry[g]))]
  /\ LET over == Blocks(entry'[g].hits)
     IN /\ last' = IF over THEN "rejected" ELSE "granted"
        /\ Count(g, ~over)
  /\ UNCHANGED <<mode, redisVars, pc, reply, faults>>

-----------------------------------------------------------------------------
\* expiresAt - now and blockedUntil - now, one tick later
Aged(e) ==
  [hits |-> e.hits, expires |-> Left(e.expires), blocked |-> Left(e.blocked)]

\* Time passes.  A key whose TTL runs out is gone; a counter without TTL stays.
Tick ==
  /\ hitsTtl' = Left(hitsTtl)
  /\ hits' = IF hitsTtl = 1 THEN 0 ELSE hits
  /\ block' = Left(block)
  /\ entry' = [g \in Gateways |-> Aged(entry[g])]
  /\ told' = Left(told)
  /\ watch' = Left(watch)
  /\ UNCHANGED <<mode, pc, reply, last, watched, seen, faults>>

\* History: a period of length Window begins.
BeginWatch ==
  /\ watch = 0
  /\ watch' = Window
  /\ seen' = 0
  /\ UNCHANGED <<mode, redisVars, entry, pc, reply, last, watched, faults>>

-----------------------------------------------------------------------------
(* Faults.                                                                 *)

Fault == faults < MaxFaults /\ faults' = faults + 1

\* A command fails and increment throws; the command may have been executed,
\* which is the failure of the next one.
Fail(r) ==
  /\ pc[r] # "idle"
  /\ Fault
  /\ pc' = [pc EXCEPT ![r] = "idle"]
  /\ reply' = [reply EXCEPT ![r] = 0]
  /\ UNCHANGED <<mode, redisVars, entry, last, watchVars>>

\* Redis executes a command and the connection breaks before the reply:
\* ioredis sends it again.
Repeated(r) ==
  /\ Fault
  /\ \/ /\ pc[r] = "incr"
        /\ hits' = Increased(hits)
        /\ UNCHANGED <<hitsTtl, block>>
     \/ /\ pc[r] = "expire"
        /\ SetExpiry
        /\ UNCHANGED <<hits, block>>
     \/ /\ pc[r] = "answer"
        /\ Blocks(reply[r])
        /\ block' = KeyLife(BlockTime)
        /\ UNCHANGED <<hits, hitsTtl>>
  /\ UNCHANGED <<mode, entry, pc, reply, last, told, watchVars>>

\* A gateway restarts: its memory is lost, and requests it was serving.
Restart(g) ==
  /\ Fault
  /\ \E m \in {"redis", "memory"} : mode' = [mode EXCEPT ![g] = m]
  /\ \E lost \in SUBSET Requests :
       /\ mode[g] = "memory" => lost = {}
       /\ \A r \in lost : pc[r] # "idle"
       /\ pc' = [r \in Requests |-> IF r \in lost THEN "idle" ELSE pc[r]]
       /\ reply' = [r \in Requests |-> IF r \in lost THEN 0 ELSE reply[r]]
  /\ entry' = [entry EXCEPT ![g] = NoEntry]
  /\ watch' = IF watched = g THEN 0 ELSE watch
  /\ seen' = IF watched = g THEN 0 ELSE seen
  /\ UNCHANGED <<redisVars, last, watched>>

\* Redis evicts a key (allkeys-lru) or restarts without its data.
Forget ==
  /\ Fault
  /\ \/ hits' = 0 /\ hitsTtl' = 0 /\ UNCHANGED <<block, told>>
     \/ block' = 0 /\ told' = 0 /\ UNCHANGED <<hits, hitsTtl>>
     \/ hits' = 0 /\ hitsTtl' = 0 /\ block' = 0 /\ told' = 0
  /\ watch' = IF watched = Redis THEN 0 ELSE watch
  /\ seen' = IF watched = Redis THEN 0 ELSE seen
  /\ UNCHANGED <<mode, entry, pc, reply, last, watched>>

-----------------------------------------------------------------------------
RedisStep(r) ==
  \/ RejectBlocked(r) \/ PassCheck(r) \/ Incr(r) \/ Expire(r)
  \/ RejectOverLimit(r) \/ Grant(r)

MemoryStep(r) ==
  \E g \in Gateways : MemoryRejectBlocked(g, r) \/ MemoryCount(g, r)

Next ==
  \/ \E r \in Requests : RedisStep(r) \/ MemoryStep(r) \/ Fail(r) \/ Repeated(r)
  \/ \E g \in Gateways : Restart(g)
  \/ Tick \/ BeginWatch \/ Forget

Spec == Init /\ [][Next]_vars

\* Time passes, Redis answers, and the client keeps asking.
Fairness ==
  /\ WF_vars(Tick)
  /\ \A r \in Requests : WF_vars(RedisStep(r)) /\ WF_vars(MemoryStep(r))

FairSpec == Spec /\ Fairness

-----------------------------------------------------------------------------
(* Properties.                                                             *)

\* In no period as long as the window does a bucket, that is the gateways on
\* Redis together or a gateway on its own memory, admit more than two windows'
\* worth of requests, however their commands interleave.  (The limiter counts
\* in fixed windows, so twice is what it can promise.)
BurstBounded == seen <= 2 * Limit

\* While a second or more is left of any time that clients were told they are
\* blocked - blockDuration from the request that set the block, the rounded TTL
\* from those it stopped - no request passes the check of a gateway on Redis.
\* (Not less: a reply may be half a second too long, and the last half second
\* of the key reads 0.  A gateway that lost Redis at its start has no such key.)
BlockHolds ==
  [][told >= 4 => \A r \in Requests : pc'[r] = "incr" => pc[r] = "incr"]_vars

\* A counter without TTL is about to get one, from the request that created
\* it: two gateways never leave that to each other.  (A fault may.)
CounterHasOwner ==
  hits > 0 /\ hitsTtl = 0 /\ faults = 0 => \E r \in Requests : pc[r] = "expire"

\* A window ends when its first request has set it to end: nobody prolongs it
\* by asking, and an EXPIRE that arrives late never hits a window that is running.
\* (A command that is sent twice may.)
WindowNotProlonged ==
  [][/\ hitsTtl > 0 /\ faults' = 0 => hitsTtl' <= hitsTtl
     /\ \A g \in Gateways : entry[g].expires > 0 => entry'[g].expires <= entry[g].expires]_vars

\* The counter will never run out, and nobody is about to change that.
Orphaned ==
  hits > 0 /\ hitsTtl = 0 /\ \A r \in Requests : pc[r] # "expire"

\* A client that keeps asking is let in again after a rejection, unless a
\* fault has left the counter without TTL: asking does not prolong the wait.
LetInAgain == last = "rejected" ~> (last = "granted" \/ Orphaned)

-----------------------------------------------------------------------------
(* What the header of the file claims and a run refutes.                   *)

\* "`throttle:{key}:hits` - counter with TTL for request count": when no
\* request is under way, the counter has a TTL.
CounterHasTtl ==
  hits > 0 /\ hitsTtl = 0 => \E r \in Requests : pc[r] # "idle"

=============================================================================
