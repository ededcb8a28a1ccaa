------------------------------- MODULE Access -------------------------------
(***************************************************************************)
(* What one tribe may reach through a gateway: the scopes that             *)
(* AuthController.issueToken collects for it, the list of services it is   *)
(* shown and the decision of ProxyHandler.proxyRequest, while the registry *)
(* changes.  The scopes are looked up once, when a token is issued; the    *)
(* list and the decision look at the registry of the moment.               *)
(*                                                                         *)
(* The model follows one token of the tribe, from the request for it until *)
(* the next request.  Its claims are those the gateway asked for, which is *)
(* what DevJwtProvider signs and KeycloakProvider expects of its server.   *)
(* Expiry is a matter of module TribeClient.  Calls of services change     *)
(* nothing here, so what they would be answered is an operator.            *)
(***************************************************************************)

CONSTANTS
  Services,     \* service ids
  Scopes,       \* scopes a manifest may require
  Permissions,  \* permissions issueToken grants, `tribe:{id}:read` and so on
  Tribe,        \* the service whose token is followed
  None          \* no entry, no request for a token, no token

Namespace == {"tribe", "shared"}

\* The fields that decide who may call a service.  Of the status only one
\* thing matters: deprecated services answer like active ones.
Entry == [type : Namespace, retired : BOOLEAN,
          consumes : SUBSET Services, requiredScopes : SUBSET Scopes]

\* What issueToken uses of the entry it has read.
Demand == [consumes : SUBSET Services, requiredScopes : SUBSET Scopes]

\* JwtClaims; fresh says that the token was issued, not refreshed.
Claims == [scopes : SUBSET Scopes, permissions : SUBSET Permissions, fresh : BOOLEAN]

ASSUME AccessAssumption ==
  /\ Tribe \in Services
  /\ Permissions \subseteq Scopes
  /\ None \notin Entry \cup Demand \cup Claims

VARIABLES
  services,     \* services[s]: the gateway's entry of s
  asking,       \* what issueToken has read of the tribe that asks for a token
  token,        \* the claims of the tribe's token
  changed       \* history: services that changed since the token was asked for

vars == <<services, asking, token, changed>>

TypeOK ==
  /\ services \in [Services -> Entry \cup {None}]
  /\ asking \in Demand \cup {None}
  /\ token \in Claims \cup {None}
  /\ changed \in SUBSET Services

\* The gateway has loaded any registry.
Init ==
  /\ services \in [Services -> Entry \cup {None}]
  /\ asking = None
  /\ token = None
  /\ changed = {}

-----------------------------------------------------------------------------
(* Lookups of RegistryService.                                             *)

Known(s) == services[s] # None

\* Mutant: an unknown service has unknown scopes.
RequiredScopesUnchecked(s) ==
  IF Known(s) THEN services[s].requiredScopes ELSE {None}

\* getRequiredScopes
GetRequiredScopes(s) == IF Known(s) THEN services[s].requiredScopes ELSE {}

\* canConsume
CanConsume(s) == Known(Tribe) /\ s \in services[Tribe].consumes

-----------------------------------------------------------------------------
(* Tokens.                                                                 *)

\* Mutant: the scopes of the targets are forgotten.
CollectOwnScopes(own) == own.requiredScopes

\* Mutant: the scopes of all services, consumed or not.
CollectAllScopes(own) ==
  own.requiredScopes \cup UNION {GetRequiredScopes(s) : s \in Services}

\* Its own scopes and those of the registered services it consumes.
CollectScopes(own) ==
  own.requiredScopes \cup UNION {GetRequiredScopes(s) : s \in own.consumes}

Demands(entry) ==
  [consumes |-> entry.consumes, requiredScopes |-> entry.requiredScopes]

\* POST /auth/token: issueToken reads the entry and awaits validateSecret.
Ask ==
  /\ Known(Tribe)
  /\ asking' = Demands(services[Tribe])
  /\ token' = None
  /\ changed' = {}
  /\ UNCHANGED services

\* The secret is wrong: 401.
Reject ==
  /\ asking # None
  /\ asking' = None
  /\ UNCHANGED <<services, token, changed>>

\* The secret is right: the scopes are collected from the entry read before
\* the await and from the targets of now, and the token is signed.
Issue ==
  /\ asking # None
  /\ token' = [scopes |-> CollectScopes(asking), permissions |-> Permissions,
               fresh |-> TRUE]
  /\ asking' = None
  /\ changed' = changed \cap {Tribe}
  /\ UNCHANGED services

\* Mutant: a refresh looks up the scopes of now.
RefreshedAnew ==
  [scopes |-> IF Known(Tribe) THEN CollectScopes(services[Tribe]) ELSE {},
   permissions |-> Permissions, fresh |-> FALSE]

\* Refresh tokens of the dev provider carry no claims but the tribe's id.
Refreshed == [scopes |-> {}, permissions |-> {}, fresh |-> FALSE]

\* POST /auth/token/refresh; the registry is not asked.  Keycloak keeps the
\* claims, so its refreshes change nothing here.
Refresh ==
  /\ token # None
  /\ token' = Refreshed
  /\ UNCHANGED <<services, asking, changed>>

-----------------------------------------------------------------------------
(* The registry.                                                           *)

\* A handler of this gateway, a rollback or a load: module Registry has their
\* rules, and what other gateways have written may be anything.
Change(s, entry) ==
  /\ services[s] # entry
  /\ services' = [services EXCEPT ![s] = entry]
  /\ changed' = changed \cup {s}
  /\ UNCHANGED <<asking, token>>

Next ==
  \/ Ask \/ Reject \/ Issue \/ Refresh
  \/ \E s \in Services, entry \in Entry \cup {None} : Change(s, entry)

Spec == Init /\ [][Next]_vars

-----------------------------------------------------------------------------
(* What the gateway answers the holder of the token.                       *)

\* Mutant: retired services are listed.
ListRetired(ns) == {s \in Services : Known(s) /\ services[s].type = ns}

\* listServices of the handler of namespace ns: getByType without the retired.
ListServices(ns) ==
  {s \in Services : Known(s) /\ services[s].type = ns /\ ~services[s].retired}

\* checkScopes of the claims merged by mergeCallerScopes
MissingScopes(s) == GetRequiredScopes(s) \ (token.scopes \cup token.permissions)

\* proxyRequest of that handler up to the scopes: the service is known (404),
\* of this namespace (404) and not retired (410), and the tribe consumes it (403).
Eligible(ns, s) ==
  /\ Known(s)
  /\ services[s].type = ns
  /\ ~services[s].retired
  /\ CanConsume(s)

\* 403 for want of scopes.
Insufficient(ns, s) == token # None /\ Eligible(ns, s) /\ MissingScopes(s) # {}

\* The request goes on to the circuit breaker.
Passes(ns, s) == token # None /\ Eligible(ns, s) /\ MissingScopes(s) = {}

-----------------------------------------------------------------------------
(* Properties.                                                             *)

\* A tribe with an issued token is refused for want of scopes only because its
\* own registration changed after it asked for the token, or the target's after
\* the token was issued: what issueToken collects is what checkScopes wants.
DenialMeansChange ==
  token # None /\ token.fresh =>
    \A ns \in Namespace, s \in Services :
      Insufficient(ns, s) => Tribe \in changed \/ s \in changed

\* A token has no scope which neither the tribe itself nor a service it consumes
\* requires, unless one of their registrations has changed since.
NoExcessScope ==
  token # None =>
    \A x \in token.scopes :
      \/ x \in GetRequiredScopes(Tribe)
      \/ \E s \in Services : CanConsume(s) /\ x \in GetRequiredScopes(s)
      \/ Tribe \in changed
      \/ \E s \in changed : CanConsume(s)

\* With an issued token and a registry at rest, the services the two lists show
\* as accessible (canAccess) are those whose requests pass, each under the
\* prefix of the list it is in: listServices, proxyRequest and issueToken agree.
ListKeepsPromise ==
  token # None /\ token.fresh /\ changed = {} =>
    \A ns \in Namespace :
      {s \in ListServices(ns) : CanConsume(s)} = {s \in Services : Passes(ns, s)}

\* What a tribe reaches grows only with a change of the registry or an issued
\* token: a refresh never adds to it.
ReachGrowsByRegistry ==
  [][services' = services /\ asking = None =>
       \A ns \in Namespace, s \in Services : Passes(ns, s)' => Passes(ns, s)]_vars
=============================================================================
