------------------------------ MODULE Registry ------------------------------
(***************************************************************************)
(* The service registry of the API Center: every gateway instance keeps    *)
(* the whole registry in memory (RegistryService.services), and all        *)
(* instances share one Redis hash, the "source of truth".  Modelled here:  *)
(*                                                                         *)
(*   - RegistryService: boot, register, deregister, deprecate, retire,     *)
(*     activate, setHealthStatus, loadFromRedis and the writes to Redis;   *)
(*   - HealthMonitorService: the health sweep and the drift                *)
(*     reconciliation, two cron jobs of every instance;                    *)
(*   - the cache of proxy middleware that ProxyHandler keeps per service   *)
(*     and drops when the registry notifies it;                            *)
(*   - the connection of an instance to Redis (ioredis), Redis itself.     *)
(*                                                                         *)
(* Between two awaits JavaScript runs alone, so each stretch of a handler  *)
(* up to its await is one action, and what follows the await is part of    *)
(* the action that brings the reply.  An instance has one connection, so   *)
(* its commands form a queue: Redis executes them in order and answers in  *)
(* order.  The value of a command is fixed when it is queued: it is the    *)
(* JSON text of the entry at that moment.                                  *)
(***************************************************************************)
EXTENDS Naturals, Sequences, FiniteSets

CONSTANTS
  Instances,      \* gateway instances
  Services,       \* service ids
  Urls,           \* base URLs a manifest may carry
  Majors,         \* major versions a manifest may carry
  None,           \* no entry, no version, no cached proxy, no service
  Env,            \* what the environment may do, see EnvKinds
  MaxPipe,        \* bound: commands in flight per instance
  MaxCalls,       \* bound: API calls and health sweeps in a behaviour
  MaxFaults       \* bound: faults in a behaviour

EnvKinds ==
  {"requests",    \* clients send requests to services through the proxy
   "cron",        \* the reconciliation job runs
   "health",      \* the health sweep runs
   "timeout",     \* a strict write misses its 2 s deadline
   "disconnect",  \* a connection drops; its unanswered commands are sent again
   "flush",       \* ioredis gives up on its queue (maxRetriesPerRequest)
   "crash",       \* an instance dies and may boot again
   "alone",       \* an instance boots while Redis cannot be reached
   "redis"}       \* Redis restarts from its last snapshot (--save 60 1)

Status == {"active", "deprecated", "retired"}   \* no code path sets "proposed"

\* ServiceRegistryEntry, reduced to the fields the rules look at.  Changes of
\* an entry have different updatedAt stamps: two changes within the same
\* millisecond are left out.
Entry == [status : Status, url : Urls, major : Majors \cup {None}, healthy : BOOLEAN]

ASSUME RegistryAssumption ==
  /\ IsFiniteSet(Services)
  /\ Majors \subseteq Nat
  /\ None \notin Services \cup Urls \cup Majors \cup Entry
  /\ Env \subseteq EnvKinds
  /\ MaxPipe \in Nat /\ MaxCalls \in Nat /\ MaxFaults \in Nat

VARIABLES
  mode,      \* mode[i]: down, booting, redis (connected) or memory (memory-only)
  mem,       \* mem[i][s]: the entry of s in `services` of i
  gauge,     \* gauge[i]: the registry_services_total gauge of i
  proxy,     \* proxy[i][s]: target of the cached proxy middleware
  probes,    \* probes[i]: services whose health probe is in flight
  pipe,      \* pipe[i]: commands of i not yet answered, oldest first
  sent,      \* sent[i]: how many of them Redis has executed
  snap,      \* snap[i]: what the HGETALL of i has read
  redis,     \* redis[s]: the hash api-center:registry:services
  saved,     \* the last snapshot Redis wrote to disk
  calls,     \* API calls and sweeps so far
  faults,    \* faults so far
  synced,    \* history: entries of i written through and not disturbed since
  moved      \* history: entries of i that changed without a notification

vars == <<mode, mem, gauge, proxy, probes, pipe, sent, snap, redis, saved,
          calls, faults, synced, moved>>

local == <<mode, gauge, proxy, probes>>
server == <<redis, saved>>

NoEntries == [s \in Services |-> None]
MaybeEntry == Entry \cup {None}

\* HSET of val, or HDEL when val = None; `then` is what the reply resumes:
\* nothing, a first registration, or an update.
WriteCommand == [svc : Services, val : MaybeEntry, then : {"nothing", "create", "update"}]

\* HGETALL, for getRedisEntries or for loadFromRedis (reconciliation, boot).
ReadCommand == [svc : {None}, val : {None}, then : {"compare", "load", "boot"}]

Command == WriteCommand \cup ReadCommand

Write(s, v, k) == [svc |-> s, val |-> v, then |-> k]
Read(k) == [svc |-> None, val |-> None, then |-> k]

TypeOK ==
  /\ mode \in [Instances -> {"down", "booting", "redis", "memory"}]
  /\ mem \in [Instances -> [Services -> MaybeEntry]]
  /\ gauge \in [Instances -> Nat]
  /\ proxy \in [Instances -> [Services -> Urls \cup {None}]]
  /\ probes \in [Instances -> SUBSET Services]
  /\ pipe \in [Instances -> Seq(Command)]
  /\ sent \in [Instances -> Nat]
  /\ \A i \in Instances : sent[i] <= Len(pipe[i])
  /\ snap \in [Instances -> [Services -> MaybeEntry]]
  /\ redis \in [Services -> MaybeEntry]
  /\ saved \in [Services -> MaybeEntry]
  /\ calls \in Nat
  /\ faults \in Nat
  /\ synced \in [Instances -> SUBSET Services]
  /\ moved \in [Instances -> SUBSET Services]

-----------------------------------------------------------------------------
(* Rules of the registry.                                                  *)

Serving(i) == mode[i] \in {"redis", "memory"}
Known(i, s) == mem[i][s] # None
Room(i) == Len(pipe[i]) < MaxPipe
Call == calls < MaxCalls /\ calls' = calls + 1
Fault(kind) == kind \in Env /\ faults < MaxFaults /\ faults' = faults + 1

\* Mutant: the versions are compared the wrong way round.
Upgrade(old, major) ==
  old.major # None /\ major # None /\ old.major < major

\* validateVersionUpgrade, skipped unless both versions are there.
Downgrade(old, major) ==
  old.major # None /\ major # None /\ major < old.major

\* Mutant: a service that is not known yet starts as a proposal.
StatusProposed(old) == IF old = None THEN "proposed" ELSE "active"

\* The status register gives: deprecated survives, everything else is active.
RegisteredStatus(old) ==
  IF old # None /\ old.status = "deprecated" THEN "deprecated" ELSE "active"

\* syncMetricsGauge over the map m.
GaugeOf(m) ==
  Cardinality({s \in Services : m[s] # None /\ m[s].status \in {"active", "deprecated"}})

\* Mutant: no second write of a service while one is under way.
SendOnce(i, cmd) ==
  IF mode[i] = "redis" /\ \A k \in DOMAIN pipe[i] : pipe[i][k].svc # cmd.svc
    THEN [pipe EXCEPT ![i] = Append(@, cmd)] ELSE pipe

\* persistToRedis: nothing at all in memory-only mode.
Send(i, cmd) ==
  IF mode[i] = "redis" THEN [pipe EXCEPT ![i] = Append(@, cmd)] ELSE pipe

\* History: i has just queued a write of s.
WrittenThrough(i, s) ==
  IF mode[i] = "redis" THEN [synced EXCEPT ![i] = @ \cup {s}] ELSE synced

\* History: the entries of S change on i and no listener hears of it.
Unnotified(i, S) ==
  [moved EXCEPT ![i] = @ \cup {s \in S : proxy[i][s] # None}]

\* The listeners of s are told, and ProxyHandler drops its middleware.
NotifyCacheInvalidation(i, s) ==
  /\ proxy' = [proxy EXCEPT ![i][s] = None]
  /\ moved' = [moved EXCEPT ![i] = @ \ {s}]

\* A handler replaces the entry of s by v, None to delete it, and tells Redis.
Store(i, s, v) ==
  /\ mem' = [mem EXCEPT ![i][s] = v]
  /\ pipe' = Send(i, Write(s, v, "nothing"))
  /\ synced' = WrittenThrough(i, s)

-----------------------------------------------------------------------------
(* API handlers.                                                           *)

\* register up to its await.  In memory-only mode nothing is awaited and the
\* listeners of an update are notified at once.
Register(i, s, url, major) ==
  LET old == mem[i][s]
      new == [status |-> RegisteredStatus(old), url |-> url, major |-> major,
              healthy |-> TRUE]
  IN  /\ Serving(i) /\ Room(i) /\ Call
      /\ old # None => ~Downgrade(old, major) /\ old.status # "retired"
      /\ mem' = [mem EXCEPT ![i][s] = new]
      /\ gauge' = [gauge EXCEPT ![i] = GaugeOf(mem'[i])]
      /\ pipe' = Send(i, Write(s, new, IF old = None THEN "create" ELSE "update"))
      /\ IF mode[i] = "memory" /\ old # None
           THEN NotifyCacheInvalidation(i, s)
           ELSE UNCHANGED <<proxy, moved>>
      /\ synced' = WrittenThrough(i, s)
      /\ UNCHANGED <<mode, probes, sent, snap, server, faults>>

\* deregister.  No listener is notified; a failing HDEL is only logged, so
\* nothing but the answer to the client waits for it.
Deregister(i, s) ==
  /\ Serving(i) /\ Room(i) /\ Call
  /\ Known(i, s)
  /\ Store(i, s, None)
  /\ gauge' = [gauge EXCEPT ![i] = GaugeOf(mem'[i])]
  /\ moved' = Unnotified(i, {s})
  /\ UNCHANGED <<mode, proxy, probes, sent, snap, server, faults>>

\* deprecate, also of a service that is deprecated already.  No gauge sync.
Deprecate(i, s) ==
  /\ Serving(i) /\ Room(i) /\ Call
  /\ Known(i, s)
  /\ mem[i][s].status # "retired"
  /\ Store(i, s, [mem[i][s] EXCEPT !.status = "deprecated"])
  /\ UNCHANGED <<local, sent, snap, server, faults, moved>>

\* retire, from any status.
Retire(i, s) ==
  /\ Serving(i) /\ Room(i) /\ Call
  /\ Known(i, s)
  /\ Store(i, s, [mem[i][s] EXCEPT !.status = "retired"])
  /\ gauge' = [gauge EXCEPT ![i] = GaugeOf(mem'[i])]
  /\ UNCHANGED <<mode, proxy, probes, sent, snap, server, faults, moved>>

\* Mutant: activate takes any status, retired included.
ActivatesAny(status) == TRUE

\* activate refuses active and retired services.
Activates(status) == status \in {"proposed", "deprecated"}

Activate(i, s) ==
  /\ Serving(i) /\ Room(i) /\ Call
  /\ Known(i, s)
  /\ Activates(mem[i][s].status)
  /\ Store(i, s, [mem[i][s] EXCEPT !.status = "active"])
  /\ gauge' = [gauge EXCEPT ![i] = GaugeOf(mem'[i])]
  /\ UNCHANGED <<mode, proxy, probes, sent, snap, server, faults, moved>>

-----------------------------------------------------------------------------
(* The proxy.                                                              *)

\* proxyRequest lets a request for s through: known and not retired.
\* isRoutable, which looks at `healthy`, is not consulted.
Accepts(i, s) == Serving(i) /\ Known(i, s) /\ mem[i][s].status # "retired"

\* The first request for s since the cache was dropped creates middleware
\* whose target is the URL of that moment; later requests reuse it.
OpenProxy(i, s) ==
  /\ "requests" \in Env
  /\ Accepts(i, s)
  /\ proxy[i][s] = None
  /\ proxy' = [proxy EXCEPT ![i][s] = mem[i][s].url]
  /\ moved' = [moved EXCEPT ![i] = @ \ {s}]
  /\ UNCHANGED <<mode, mem, gauge, probes, pipe, sent, snap, server, calls,
                 faults, synced>>

-----------------------------------------------------------------------------
(* Health monitor.                                                         *)

\* handleHealthChecks: one sweep at a time, one probe per checkable service.
StartSweep(i) ==
  LET checkable == {s \in Services : Known(i, s) /\ mem[i][s].status # "retired"}
  IN  /\ "health" \in Env
      /\ Serving(i) /\ Call
      /\ probes[i] = {}
      /\ checkable # {}
      /\ probes' = [probes EXCEPT ![i] = checkable]
      /\ UNCHANGED <<mode, mem, gauge, proxy, pipe, sent, snap, server, faults,
                     synced, moved>>

\* A probe that changes the flag: setHealthStatus writes whatever entry s has
\* by now, which need not be the one that was probed.
HealthChanges(i, s, ok) ==
  /\ s \in probes[i] /\ Room(i)
  /\ Known(i, s)
  /\ mem[i][s].healthy # ok
  /\ Store(i, s, [mem[i][s] EXCEPT !.healthy = ok])
  /\ probes' = [probes EXCEPT ![i] = @ \ {s}]
  /\ UNCHANGED <<mode, gauge, proxy, sent, snap, server, calls, faults, moved>>

\* A probe that confirms it, or whose service is gone: touchHealthCheck.
HealthStands(i, s, ok) ==
  /\ s \in probes[i]
  /\ Known(i, s) => mem[i][s].healthy = ok
  /\ probes' = [probes EXCEPT ![i] = @ \ {s}]
  /\ UNCHANGED <<mode, mem, gauge, proxy, pipe, sent, snap, server, calls,
                 faults, synced, moved>>

-----------------------------------------------------------------------------
(* Reconciliation and boot: HGETALL, then what its reply does.             *)

Reading(i) == \E k \in DOMAIN pipe[i] : pipe[i][k].svc = None

\* handleRedisDriftReconciliation up to its first await.
Reconcile(i) ==
  /\ "cron" \in Env
  /\ mode[i] = "redis" /\ Room(i)
  /\ ~Reading(i)
  /\ pipe' = [pipe EXCEPT ![i] = Append(@, Read("compare"))]
  /\ UNCHANGED <<local, mem, sent, snap, server, calls, faults, synced, moved>>

\* The same job in memory-only mode: getRedisEntries returns null.
SkipReconcile(i) ==
  /\ "cron" \in Env
  /\ mode[i] = "memory"
  /\ UNCHANGED vars

\* onModuleInit reaches Redis and asks for the hash.
Boot(i) ==
  /\ mode[i] = "down"
  /\ mode' = [mode EXCEPT ![i] = "booting"]
  /\ pipe' = [pipe EXCEPT ![i] = <<Read("boot")>>]
  /\ sent' = [sent EXCEPT ![i] = 0]
  /\ UNCHANGED <<mem, gauge, proxy, probes, snap, server, calls, faults,
                 synced, moved>>

\* onModuleInit cannot connect: memory-only for the life of the process.
BootAlone(i) ==
  /\ Fault("alone")
  /\ mode[i] = "down"
  /\ mode' = [mode EXCEPT ![i] = "memory"]
  /\ UNCHANGED <<mem, gauge, proxy, probes, pipe, sent, snap, server, calls,
                 synced, moved>>

-----------------------------------------------------------------------------
(* Redis, and its replies.                                                 *)

\* Redis executes the next command of i.
Execute(i) ==
  /\ sent[i] < Len(pipe[i])
  /\ sent' = [sent EXCEPT ![i] = @ + 1]
  /\ LET cmd == pipe[i][sent[i] + 1]
     IN  IF cmd.svc = None
           THEN /\ snap' = [snap EXCEPT ![i] = redis]
                /\ UNCHANGED <<redis, synced>>
           ELSE /\ redis' = [redis EXCEPT ![cmd.svc] = cmd.val]
                /\ synced' = [j \in Instances |->
                                IF j = i THEN synced[j] ELSE synced[j] \ {cmd.svc}]
                /\ UNCHANGED snap
  /\ UNCHANGED <<local, mem, pipe, saved, calls, faults, moved>>

\* The reply to the oldest command is there, and k is its continuation.
Answered(i, ks) ==
  /\ sent[i] > 0
  /\ Head(pipe[i]).then \in ks
  /\ sent' = [sent EXCEPT ![i] = @ - 1]

\* Mutant: the listeners are told about first registrations only.
NotifiedOfCreate == {"create"}

\* notifyCacheInvalidation runs only when an entry existed before.
NotifiedOf == {"update"}

\* A write is answered.  register goes on: an update notifies the listeners,
\* and ProxyHandler.invalidateProxyCache drops the middleware.
WriteReply(i) ==
  /\ Answered(i, {"nothing", "create", "update"})
  /\ pipe' = [pipe EXCEPT ![i] = Tail(@)]
  /\ LET cmd == Head(pipe[i])
     IN  IF cmd.then \in NotifiedOf
           THEN NotifyCacheInvalidation(i, cmd.svc)
           ELSE UNCHANGED <<proxy, moved>>
  /\ UNCHANGED <<mode, mem, gauge, probes, snap, server, calls, faults, synced>>

\* Mutant: only services the gateway does not know count as drift.
DriftMissing(i) == \E s \in Services : snap[i][s] # None /\ ~Known(i, s)

\* The comparison of handleRedisDriftReconciliation, of what was read with
\* memory as it is by now: a service missing on either side, or different.
Drift(i) == snap[i] # mem[i]

\* A service on both sides with the same fields may still have another
\* updatedAt, as after two instances have seen the same failed probe.
Restamped(i) == \E s \in Services : snap[i][s] # None

\* The reconciliation compares and, on drift, calls loadFromRedis, which reads
\* the hash again; otherwise it is over.
CompareReply(i) ==
  /\ Answered(i, {"compare"})
  /\ \/ /\ Drift(i) \/ Restamped(i)
        /\ pipe' = [pipe EXCEPT ![i] = Append(Tail(@), Read("load"))]
     \/ /\ ~Drift(i)
        /\ pipe' = [pipe EXCEPT ![i] = Tail(@)]
  /\ snap' = [snap EXCEPT ![i] = NoEntries]
  /\ UNCHANGED <<local, mem, server, calls, faults, synced, moved>>

\* loadFromRedis overwrites what Redis holds and leaves the rest.
Loaded(i) == [s \in Services |-> IF snap[i][s] # None THEN snap[i][s] ELSE mem[i][s]]

\* loadFromRedis after its await, at boot and in the reconciliation: neither
\* the gauge nor the listeners are told.
LoadReply(i) ==
  /\ Answered(i, {"load", "boot"})
  /\ pipe' = [pipe EXCEPT ![i] = Tail(@)]
  /\ mem' = [mem EXCEPT ![i] = Loaded(i)]
  /\ mode' = [mode EXCEPT ![i] = "redis"]
  /\ snap' = [snap EXCEPT ![i] = NoEntries]
  /\ LET loaded == {s \in Services : snap[i][s] # None}
     IN  /\ synced' = [synced EXCEPT ![i] = @ \ loaded]
         /\ moved' = Unnotified(i, loaded)
  /\ UNCHANGED <<gauge, proxy, probes, server, calls, faults>>

-----------------------------------------------------------------------------
(* Faults.                                                                 *)

Awaited(cmd) == cmd.then \in {"create", "update"}

\* Mutant: the catch branch forgets the gauge.
RollBackUncounted(i, S) ==
  /\ mem' = [mem EXCEPT ![i] = [s \in Services |-> IF s \in S THEN None ELSE @[s]]]
  /\ moved' = Unnotified(i, S)
  /\ UNCHANGED gauge

\* persistToRedisStrict, catch branch, for the services S: the entry is
\* deleted, whatever it was before the registration and whatever it is now.
RollBack(i, S) ==
  /\ mem' = [mem EXCEPT ![i] = [s \in Services |-> IF s \in S THEN None ELSE @[s]]]
  /\ gauge' = [gauge EXCEPT ![i] = GaugeOf(mem'[i])]
  /\ moved' = Unnotified(i, S)

\* The 2 s deadline of the oldest awaited registration passes before the
\* reply.  The command is not taken back: Redis may have executed it, or may
\* execute it later.
WriteTimeout(i) ==
  /\ Fault("timeout")
  /\ \E k \in DOMAIN pipe[i] :
       /\ Awaited(pipe[i][k])
       /\ \A j \in 1..(k - 1) : ~Awaited(pipe[i][j])
       /\ RollBack(i, {pipe[i][k].svc})
       /\ pipe' = [pipe EXCEPT ![i][k].then = "nothing"]
       /\ synced' = [synced EXCEPT ![i] = @ \ {pipe[i][k].svc}]
  /\ UNCHANGED <<mode, proxy, probes, sent, snap, server, calls>>

\* The connection drops and comes back: ioredis sends every unanswered
\* command again, those Redis has executed included.
Disconnect(i) ==
  /\ Fault("disconnect")
  /\ sent[i] > 0
  /\ sent' = [sent EXCEPT ![i] = 0]
  /\ UNCHANGED <<local, mem, pipe, snap, server, calls, synced, moved>>

\* Too many reconnections: ioredis rejects every unanswered command.  Awaited
\* registrations roll back, other writes log, a read ends the reconciliation,
\* and at boot it leaves the instance in memory-only mode.
Flush(i) ==
  LET writes == {pipe[i][k].svc : k \in DOMAIN pipe[i]} \ {None}
      awaited == {pipe[i][k].svc : k \in {n \in DOMAIN pipe[i] : Awaited(pipe[i][n])}}
  IN  /\ Fault("flush")
      /\ pipe[i] # <<>>
      /\ RollBack(i, awaited)
      /\ pipe' = [pipe EXCEPT ![i] = <<>>]
      /\ sent' = [sent EXCEPT ![i] = 0]
      /\ snap' = [snap EXCEPT ![i] = NoEntries]
      /\ mode' = [mode EXCEPT ![i] = IF @ = "booting" THEN "memory" ELSE @]
      /\ synced' = [synced EXCEPT ![i] = @ \ writes]
      /\ UNCHANGED <<proxy, probes, server, calls>>

\* The process dies with everything it held in memory.
Crash(i) ==
  /\ Fault("crash")
  /\ mode[i] # "down"
  /\ mode' = [mode EXCEPT ![i] = "down"]
  /\ mem' = [mem EXCEPT ![i] = NoEntries]
  /\ gauge' = [gauge EXCEPT ![i] = 0]
  /\ proxy' = [proxy EXCEPT ![i] = NoEntries]
  /\ probes' = [probes EXCEPT ![i] = {}]
  /\ pipe' = [pipe EXCEPT ![i] = <<>>]
  /\ sent' = [sent EXCEPT ![i] = 0]
  /\ snap' = [snap EXCEPT ![i] = NoEntries]
  /\ synced' = [synced EXCEPT ![i] = {}]
  /\ moved' = [moved EXCEPT ![i] = {}]
  /\ UNCHANGED <<server, calls>>

\* Redis writes its snapshot.
SaveRedis ==
  /\ "redis" \in Env
  /\ saved # redis
  /\ saved' = redis
  /\ UNCHANGED <<local, mem, pipe, sent, snap, redis, calls, faults, synced, moved>>

\* Redis restarts: what the last snapshot misses is gone, and every
\* connection drops.
RestartRedis ==
  /\ Fault("redis")
  /\ redis' = saved
  /\ sent' = [i \in Instances |-> 0]
  /\ synced' = [i \in Instances |-> {}]
  /\ UNCHANGED <<local, mem, pipe, snap, saved, calls, moved>>

-----------------------------------------------------------------------------
Init ==
  /\ mode = [i \in Instances |-> "down"]
  /\ mem = [i \in Instances |-> NoEntries]
  /\ gauge = [i \in Instances |-> 0]
  /\ proxy = [i \in Instances |-> NoEntries]
  /\ probes = [i \in Instances |-> {}]
  /\ pipe = [i \in Instances |-> <<>>]
  /\ sent = [i \in Instances |-> 0]
  /\ snap = [i \in Instances |-> NoEntries]
  /\ redis = NoEntries
  /\ saved = NoEntries
  /\ calls = 0
  /\ faults = 0
  /\ synced = [i \in Instances |-> {}]
  /\ moved = [i \in Instances |-> {}]

Next ==
  \/ \E i \in Instances :
       \/ \E s \in Services :
            \/ \E url \in Urls, major \in Majors \cup {None} : Register(i, s, url, major)
            \/ Deregister(i, s)
            \/ Deprecate(i, s)
            \/ Retire(i, s)
            \/ Activate(i, s)
            \/ OpenProxy(i, s)
            \/ \E ok \in BOOLEAN : HealthChanges(i, s, ok)
            \/ \E ok \in BOOLEAN : HealthStands(i, s, ok)
       \/ StartSweep(i)
       \/ Reconcile(i)
       \/ SkipReconcile(i)
       \/ Boot(i)
       \/ BootAlone(i)
       \/ Execute(i)
       \/ WriteReply(i)
       \/ CompareReply(i)
       \/ LoadReply(i)
       \/ WriteTimeout(i)
       \/ Disconnect(i)
       \/ Flush(i)
       \/ Crash(i)
  \/ SaveRedis
  \/ RestartRedis

Spec == Init /\ [][Next]_vars

(***************************************************************************)
(* Fairness.  Redis executes and answers what it is sent (only finitely    *)
(* many faults get in the way), and the cron of a connected instance       *)
(* starts the reconciliation whenever the previous one is over.            *)
(***************************************************************************)
Fairness ==
  \A i \in Instances :
    /\ WF_vars(Execute(i))
    /\ WF_vars(WriteReply(i) \/ CompareReply(i) \/ LoadReply(i))
    /\ WF_vars(Reconcile(i))

FairSpec == Spec /\ Fairness
=============================================================================
