-------------------------- MODULE MCCircuitBreaker --------------------------
(***************************************************************************)
(* CircuitBreaker for TLC: three calls in flight.  No symmetry,     *)
(* because liveness is checked.                                            *)
(***************************************************************************)
EXTENDS CircuitBreaker

CONSTANTS c1, c2, c3

ThreeCalls == {c1, c2, c3}
=============================================================================
