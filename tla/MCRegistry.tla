----------------------------- MODULE MCRegistry -----------------------------
(***************************************************************************)
(* The registry for TLC.  Every configuration says which environment it    *)
(* switches on, and bounds commands in flight, calls and faults.           *)
(***************************************************************************)
EXTENDS RegistryProperties, TLC

CONSTANTS gw1, gw2, svcA, svcB, url1, url2

\* Nothing tells gateways apart, nor services, nor URLs; every property of a
\* run that uses one of these quantifies over all of them alike.
GatewaySymmetry == Permutations({gw1, gw2})
ServiceSymmetry == Permutations({svcA, svcB}) \cup Permutations({url1, url2})
=============================================================================
