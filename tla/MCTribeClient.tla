--------------------------- MODULE MCTribeClient ---------------------------
(***************************************************************************)
(* TribeClient for TLC: two calls at once.  No symmetry, because liveness  *)
(* is checked.                                                             *)
(***************************************************************************)
EXTENDS TribeClient

CONSTANTS c1, c2

TwoCalls == {c1, c2}
=============================================================================
