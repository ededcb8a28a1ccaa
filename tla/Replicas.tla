------------------------------ MODULE Replicas ------------------------------
(***************************************************************************)
(* What the registry promises although every gateway has a copy of its own *)
(* and Redis, the connections and snapshots hold any number of old ones.   *)
(* Nothing is said of queues, replies, timeouts, restarts or who is the    *)
(* source of truth: a gateway changes its entry of a service by the rules  *)
(* of the life cycle and of version governance, or takes over a value that *)
(* a gateway had once decided on, or loses the entry; and what goes round  *)
(* is nothing but such decisions.                                          *)
(*                                                                         *)
(* Registry implements this specification.                                 *)
(***************************************************************************)
EXTENDS Naturals

CONSTANTS Gateways, Services, Entry, None

VARIABLES
  local,      \* local[g][s]: the entry of s that g goes by
  abroad      \* abroad[s]: values of s that may still reach somebody

vars == <<local, abroad>>

-----------------------------------------------------------------------------
(* Decisions a gateway may take about the entry it knows.                  *)

\* A service it does not know starts active, in any version.
Created(old, new) == old = None /\ new.status = "active"

\* A known one keeps its status and is not retired; if both registrations have
\* a major version, it is not lowered.
Updated(old, new) ==
  /\ old # None /\ old.status # "retired"
  /\ new.status = old.status
  /\ old.major # None /\ new.major # None => new.major >= old.major

\* The status alone changes, and never from retired.
Moved(old, new) ==
  /\ old # None
  /\ new = [old EXCEPT !.status = new.status]
  /\ old.status = "retired" => new.status = "retired"

\* The health alone changes, in any status.
Probed(old, new) == old # None /\ new = [old EXCEPT !.healthy = new.healthy]

Governed(old, new) ==
  Created(old, new) \/ Updated(old, new) \/ Moved(old, new) \/ Probed(old, new)

-----------------------------------------------------------------------------
Init ==
  /\ local = [g \in Gateways |-> [s \in Services |-> None]]
  /\ abroad = [s \in Services |-> {}]

\* Values may be overwritten or lost, none comes out of nothing.
Fade ==
  /\ abroad' \in [Services -> SUBSET Entry]
  /\ \A s \in Services : abroad'[s] \subseteq abroad[s]

\* A gateway decides, for itself or for the others as well.
Decide(g, s, new) ==
  /\ local' = [local EXCEPT ![g][s] = new]
  /\ Governed(local[g][s], new)
  /\ UNCHANGED abroad \/ abroad' = [abroad EXCEPT ![s] = @ \cup {new}]

\* A gateway takes over what goes round of some services.
Adopt(g) ==
  /\ \A h \in Gateways \ {g} : local'[h] = local[h]
  /\ \A s \in Services : local'[g][s] \in abroad[s] \cup {local[g][s]}
  /\ Fade

\* A gateway loses entries: removed, rolled back or gone with the process.
Lose(g, S) ==
  /\ local' = [local EXCEPT ![g] = [s \in Services |-> IF s \in S THEN None ELSE @[s]]]
  /\ Fade

Next ==
  \/ UNCHANGED local /\ Fade
  \/ \E g \in Gateways :
       \/ Adopt(g)
       \/ \E S \in SUBSET Services : Lose(g, S)
       \/ \E s \in Services, new \in Entry : Decide(g, s, new)

Spec == Init /\ [][Next]_vars
=============================================================================
