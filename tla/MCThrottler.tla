---------------------------- MODULE MCThrottler -----------------------------
(***************************************************************************)
(* Throttler for TLC.  All gateways on Redis are alike, only the requests  *)
(* they send differ, so one gateway stands for any number of them; and it  *)
(* is on Redis or on its own memory.                                       *)
(***************************************************************************)
EXTENDS Throttler

CONSTANTS g1, r1, r2

OneGateway == {g1}
TwoRequests == {r1, r2}

=============================================================================
