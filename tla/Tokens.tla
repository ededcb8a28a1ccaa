------------------------------- MODULE Tokens -------------------------------
(***************************************************************************)
(* Tokens as the gateway issues, refreshes and validates them: the         *)
(* AuthController and AuthService, and behind them one of two providers.   *)
(* The dev-jwt provider signs with a key pair made when its process        *)
(* starts.  Keycloak is an external server; KeycloakProvider passes        *)
(* requests on to it.                                                      *)
(*                                                                         *)
(* Of a token the model keeps what decides about it: the time until `exp`, *)
(* whether it carries the permissions and scopes its owner was entitled    *)
(* to, and whether its signature verifies.                                 *)
(***************************************************************************)
EXTENDS Naturals

CONSTANTS
  AccessLife,     \* tokenTtlSeconds, 3600 in production
  RefreshLife,    \* tokenTtlSeconds * refreshTtlMultiplier
  KeycloakRefresh \* whether Keycloak gives refresh tokens to its clients

ASSUME TokensAssumption ==
  /\ AccessLife \in Nat \ {0}
  /\ RefreshLife \in Nat
  /\ RefreshLife >= AccessLife
  /\ KeycloakRefresh \in BOOLEAN

Provider == {"dev-jwt", "keycloak"}

Token == [life : 0..RefreshLife, scoped : BOOLEAN, genuine : BOOLEAN]

\* IssuedToken: `refresh` holds the refresh token, or nothing for null.
Grant == [access : Token, refresh : SUBSET Token]

Sign(life, scoped) == [life |-> life, scoped |-> scoped, genuine |-> TRUE]

\* jwtVerify: signature and expiry.
ValidateToken(tok) == tok.genuine /\ tok.life > 0

\* Mutant: the refresh token carries scopes and permissions.
RefreshTokenClaims(scoped) == scoped

\* The payload of a refresh token of the dev provider is its owner and type.
RefreshTokenScoped(scoped) == FALSE

DevGrant(scoped) ==
  [access  |-> Sign(AccessLife, scoped),
   refresh |-> {Sign(RefreshLife, RefreshTokenScoped(scoped))}]

\* Keycloak gives refresh tokens for client credentials only when it is
\* configured to; they keep the scopes they were granted with.
KeycloakGrant(scoped) ==
  [access  |-> Sign(AccessLife, scoped),
   refresh |-> IF KeycloakRefresh THEN {Sign(RefreshLife, scoped)} ELSE {}]

IssueToken(provider, scoped) ==
  IF provider = "dev-jwt" THEN DevGrant(scoped) ELSE KeycloakGrant(scoped)

\* Refreshing returns a grant, or nothing; the registry is not consulted.
\* The new token of dev-jwt has the claims of the refresh token, so none.
DevRefreshToken(tok) ==
  IF ValidateToken(tok) THEN {DevGrant(tok.scoped)} ELSE {}

\* Keycloak validates the refresh token itself and keeps what was granted.
KeycloakRefreshToken(tok) ==
  IF ValidateToken(tok) THEN {KeycloakGrant(tok.scoped)} ELSE {}

RefreshToken(provider, tok) ==
  IF provider = "dev-jwt" THEN DevRefreshToken(tok) ELSE KeycloakRefreshToken(tok)

\* What a tick of the clock does to a token.
Older(tok) ==
  [life |-> IF tok.life > 0 THEN tok.life - 1 ELSE 0,
   scoped |-> tok.scoped, genuine |-> tok.genuine]

\* A token of an earlier key pair; nothing else about it matters any more.
Orphan == [life |-> 0, scoped |-> FALSE, genuine |-> FALSE]
=============================================================================
