------------------------- MODULE RegistryProperties -------------------------
(***************************************************************************)
(* What the registry should guarantee, apart from how it works.            *)
(***************************************************************************)
EXTENDS Registry

-----------------------------------------------------------------------------
(* Memory against Redis.                                                   *)

IsWrite(i, s, k) == k \in DOMAIN pipe[i] /\ pipe[i][k].svc = s

LastWrite(i, s, k) ==
  IsWrite(i, s, k) /\ \A j \in DOMAIN pipe[i] : IsWrite(i, s, j) => j <= k

\* From the moment an instance changes an entry until a failed write, a load
\* or another instance's write interferes, the entry in memory is what Redis
\* will hold once it has executed the commands under way: no handler forgets
\* its write, writes something else than it stored, or is overtaken by an
\* older write of its own, resent commands included.
WriteThrough ==
  \A i \in Instances : \A s \in synced[i] :
    /\ \A k \in DOMAIN pipe[i] : LastWrite(i, s, k) => pipe[i][k].val = mem[i][s]
    /\ (\A k \in DOMAIN pipe[i] : ~IsWrite(i, s, k)) => redis[s] = mem[i][s]

\* A retired entry in memory stays retired or disappears, unless Redis says
\* otherwise: no handler and no health probe brings it back.
RetiredUnlessRedis ==
  [][\A i \in Instances, s \in Services :
       /\ mem[i][s] # None
       /\ mem[i][s].status = "retired"
       /\ mem'[i][s] # None
       => mem'[i][s].status = "retired" \/ mem'[i][s] = snap[i][s]]_vars

\* An instance connected to Redis ends up with every service Redis has, as
\* Redis has it, once calls and faults are over: the reconciliation repairs
\* whatever lost writes, rollbacks, restarts and other instances have done.
Converges ==
  \A i \in Instances :
    <>[](mode[i] = "redis" =>
           \A s \in Services : redis[s] # None => mem[i][s] = redis[s])

\* The gauge changes away from the number of routable services only when a
\* load from Redis changes memory behind it: every handler keeps it right.
GaugeKept ==
  [][\A i \in Instances :
       gauge[i] = GaugeOf(mem[i]) =>
         \/ gauge'[i] = GaugeOf(mem'[i])
         \/ \E s \in Services : /\ mem'[i][s] # mem[i][s]
                                /\ mem'[i][s] # None
                                /\ mem'[i][s] = snap[i][s]]_vars

\* A cached proxy points at the registered URL, except between an update and
\* its notification, and after the entry changed in one of the ways nobody is
\* notified of: deregistration, rollback, load.
ProxyTargetCurrent ==
  \A i \in Instances, s \in Services :
    /\ proxy[i][s] # None
    /\ s \notin moved[i]
    /\ \A k \in DOMAIN pipe[i] :
         ~(pipe[i][k].svc = s /\ pipe[i][k].then = "update")
    => mem[i][s] # None /\ proxy[i][s] = mem[i][s].url

-----------------------------------------------------------------------------
(* One registry, many copies.                                              *)

\* Values of s that a queue of commands would still bring to Redis.
Queued(q, s) == {q[k].val : k \in {n \in DOMAIN q : q[n].svc = s}}

\* What is in Redis or in its snapshot on disk, what has been read and what is on
\* its way.
Abroad ==
  [s \in Services |->
     ({redis[s], saved[s]} \cup UNION {{snap[i][s]} \cup Queued(pipe[i], s) : i \in Instances})
       \ {None}]

\* Whatever is resent, overtaken, rolled back, restored from disk or loaded
\* late, an entry in a gateway's memory changes only by a decision that the life
\* cycle and version governance allow for the entry it replaces, by taking over
\* a value that some gateway has decided on, or by being lost.
Copies == INSTANCE Replicas WITH Gateways <- Instances, local <- mem, abroad <- Abroad

FollowsReplicas == Copies!Spec

\* Every copy of s that exists anywhere is retired.
RetiredEverywhere(s) ==
  /\ \A i \in Instances : Known(i, s) => mem[i][s].status = "retired"
  /\ \A e \in Abroad[s] : e.status = "retired"

\* A retirement that every copy has heard of is undone by nobody who knows the
\* service: not by a resent command, a late load, an old snapshot or a probe, but
\* only by a registration at a gateway that has no entry of it.
RetirementHolds ==
  [][\A s \in Services :
       RetiredEverywhere(s) =>
         \/ RetiredEverywhere(s)'
         \/ \E i \in Instances : mem[i][s] = None /\ mem'[i][s] # None]_vars

-----------------------------------------------------------------------------
(* What documents and comments claim, and the runs refute.                 *)

\* "Permanently retire a service" (registry.controller.ts): an entry once
\* retired is retired until it is removed.
RetiredForGood ==
  [][\A i \in Instances, s \in Services :
       /\ mem[i][s] # None
       /\ mem[i][s].status = "retired"
       /\ mem'[i][s] # None
       => mem'[i][s].status = "retired"]_vars

\* "missing keys in either direction, resync the local memory from Redis"
\* (health-monitor.service.ts): a service gone from Redis leaves memory too.
RemovalConverges ==
  \A i \in Instances, s \in Services :
    <>[](mode[i] = "redis" /\ redis[s] = None) => <>[](mem[i][s] = None)
=============================================================================
