----------------------------- MODULE MCAccess ------------------------------
(***************************************************************************)
(* Access for TLC: the tribe and one other service, which may be what it   *)
(* consumes, and which may consume itself or the tribe.                    *)
(***************************************************************************)
EXTENDS Access

CONSTANTS tribeA, svcB, read, own

TwoServices == {tribeA, svcB}
TwoScopes == {read, own}
OwnPermissions == {own}

=============================================================================
