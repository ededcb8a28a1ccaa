---------------------------- MODULE MCForwarding ----------------------------
(***************************************************************************)
(* Forwarding for TLC: three requests at a time, one for each result a     *)
(* breaker may be waiting for when another arrives.                        *)
(***************************************************************************)
EXTENDS Forwarding

CONSTANTS r1, r2, r3

ThreeRequests == {r1, r2, r3}
=============================================================================
