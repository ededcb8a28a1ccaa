---------------------------- MODULE TribeClient ----------------------------
(***************************************************************************)
(* The SDK's TribeClient (sdk/TribeClient.ts) with several calls running   *)
(* at once, and the part of the gateway that gives it tokens.              *)
(*                                                                         *)
(* JavaScript runs alone between awaits: what a call does from one HTTP    *)
(* answer, error or timer to its next request is one action.  Requests for *)
(* tokens are served by the gateway at one moment and their answer arrives *)
(* later, so that answers may overtake each other and tokens age under     *)
(* way.  A tick is 30 s: both `timeout` and the margin of ensureAuth.      *)
(* A token, refresh token or answer that may be missing is a set with at   *)
(* most one element.                                                       *)
(***************************************************************************)
EXTENDS Tokens

CONSTANTS
  Calls,          \* calls of the client that may run at the same time
  Margin,         \* ensureAuth renews a token this long before its expiry
  Timeout,        \* `timeout` of axios
  MaxRetries      \* maxRetries, 3 in production

ASSUME ClientAssumption ==
  /\ Margin \in Nat
  /\ Timeout \in Nat
  /\ MaxRetries \in Nat
  /\ Timeout <= Margin

VARIABLES
  provider,       \* AUTH_PROVIDER of the gateway
  registration,   \* what the registry holds of this tribe: absent, plain, or
                  \* entitled to the scopes of a service it consumes
  since,          \* time since the tribe was entitled, saturated at AccessLife
  access,         \* accessToken
  refresh,        \* refreshToken
  expiry,         \* tokenExpiry - Date.now()
  pc,             \* what a call awaits
  wants,          \* whether a request follows the authentication
  token,          \* the token in the call's present request
  grant,          \* the gateway's answer under way
  attempt,        \* attempt of requestWithRetry
  left            \* time until the request for a token is given up

gateway == <<provider, registration, since>>
client  == <<access, refresh, expiry>>
calls   == <<pc, wants, token, grant, attempt, left>>
vars    == <<provider, registration, since, access, refresh, expiry,
             pc, wants, token, grant, attempt, left>>

AtMostOne(S) == \A x, y \in S : x = y

TypeOK ==
  /\ provider \in Provider
  /\ registration \in {"absent", "plain", "entitled"}
  /\ since \in 0..AccessLife
  /\ access \subseteq Token /\ AtMostOne(access)
  /\ refresh \subseteq Token /\ AtMostOne(refresh)
  /\ expiry \in 0..AccessLife
  /\ pc \in [Calls -> {"idle", "refresh", "token", "request", "backoff"}]
  /\ wants \in [Calls -> BOOLEAN]
  /\ token \in [Calls -> SUBSET Token] /\ \A c \in Calls : AtMostOne(token[c])
  /\ grant \in [Calls -> SUBSET Grant] /\ \A c \in Calls : AtMostOne(grant[c])
  /\ attempt \in [Calls -> 0..MaxRetries]
  /\ left \in [Calls -> 0..Timeout]

Init ==
  /\ provider \in Provider
  /\ registration = "entitled"
  /\ since = 0
  /\ access = {} /\ refresh = {} /\ expiry = 0
  /\ pc = [c \in Calls |-> "idle"]
  /\ wants = [c \in Calls |-> FALSE]
  /\ token = [c \in Calls |-> {}]
  /\ grant = [c \in Calls |-> {}]
  /\ attempt = [c \in Calls |-> 0]
  /\ left = [c \in Calls |-> 0]

-----------------------------------------------------------------------------
(* What a call does next.  Each operator sets all variables of the call    *)
(* but `wants`, or says which it leaves.                                   *)

\* Send the request with the access token the client holds at that moment;
\* requestWithRetry keeps this bearer for all attempts.
SendRequest(c, bearer) ==
  /\ pc' = [pc EXCEPT ![c] = "request"]
  /\ token' = [token EXCEPT ![c] = bearer]
  /\ attempt' = [attempt EXCEPT ![c] = 0]
  /\ left' = [left EXCEPT ![c] = 0]
  /\ grant' = [grant EXCEPT ![c] = {}]

\* POST /auth/token/refresh with the refresh token of the moment.
SendRefresh(c) ==
  /\ pc' = [pc EXCEPT ![c] = "refresh"]
  /\ token' = [token EXCEPT ![c] = refresh]
  /\ left' = [left EXCEPT ![c] = Timeout]
  /\ grant' = [grant EXCEPT ![c] = {}]
  /\ UNCHANGED attempt

\* POST /auth/token with tribeId and secret.
SendCredentials(c) ==
  /\ pc' = [pc EXCEPT ![c] = "token"]
  /\ token' = [token EXCEPT ![c] = {}]
  /\ left' = [left EXCEPT ![c] = Timeout]
  /\ grant' = [grant EXCEPT ![c] = {}]
  /\ UNCHANGED attempt

\* The call returns or throws.
Return(c) ==
  /\ pc' = [pc EXCEPT ![c] = "idle"]
  /\ token' = [token EXCEPT ![c] = {}]
  /\ attempt' = [attempt EXCEPT ![c] = 0]
  /\ left' = [left EXCEPT ![c] = 0]
  /\ grant' = [grant EXCEPT ![c] = {}]

\* refresh() without a refresh token authenticates.
Renew(c) == IF refresh # {} THEN SendRefresh(c) ELSE SendCredentials(c)

\* Mutant: the token is used until it expires.
NeedsTokenAtExpiry == expiry = 0

\* !accessToken || Date.now() >= tokenExpiry - 30_000
NeedsToken == expiry <= Margin

-----------------------------------------------------------------------------
(* The calls of the client's user.                                         *)

\* callService, callSharedService, callExternal, listServices and
\* listSharedServices: ensureAuth, then the request.
Call(c) ==
  /\ pc[c] = "idle"
  /\ wants' = [wants EXCEPT ![c] = TRUE]
  /\ IF NeedsToken THEN Renew(c) ELSE SendRequest(c, access)
  /\ UNCHANGED <<gateway, client>>

\* authenticate() and refresh() called by the user.
Login(c) ==
  /\ pc[c] = "idle"
  /\ wants' = [wants EXCEPT ![c] = FALSE]
  /\ SendCredentials(c) \/ Renew(c)
  /\ UNCHANGED <<gateway, client>>

-----------------------------------------------------------------------------
(* The gateway.                                                            *)

Served(c, grants) ==
  /\ grant[c] = {}
  /\ \E g \in grants : grant' = [grant EXCEPT ![c] = {g}]
  /\ UNCHANGED <<gateway, client, pc, wants, token, attempt, left>>

\* AuthController.issueToken for a registered service with its secret: the
\* scopes are looked up, and the token signed, in one go.
ServeToken(c) ==
  /\ pc[c] = "token"
  /\ registration # "absent"
  /\ Served(c, {IssueToken(provider, registration = "entitled")})

\* AuthController.refreshToken; the registry is not asked.
ServeRefresh(c) ==
  /\ pc[c] = "refresh"
  /\ \E tok \in token[c] : Served(c, RefreshToken(provider, tok))

\* Mutant: a failed refresh is thrown, and tried again by the next call.
ThrowFailedRefresh(c) == Return(c)

\* A failed refresh falls back to the credentials.
AfterFailedRefresh(c) == SendCredentials(c)

AuthenticationFails(c) ==
  /\ IF pc[c] = "refresh" THEN AfterFailedRefresh(c) ELSE Return(c)
  /\ UNCHANGED <<gateway, client, wants>>

\* The gateway has nothing for this request: the tribe is not registered, or
\* its refresh token is not valid.
Refused(c) ==
  /\ grant[c] = {}
  /\ \/ pc[c] = "token" /\ registration = "absent"
     \/ pc[c] = "refresh" /\ \E tok \in token[c] : ~ValidateToken(tok)

\* The refusal arrives; authenticate() throws, nothing is retried.
Refuse(c) ==
  /\ Refused(c)
  /\ AuthenticationFails(c)

-----------------------------------------------------------------------------
(* Answers.                                                                *)

\* data.refreshToken ?? this.refreshToken in refresh(), ?? null else.
RefreshTokenAfter(c, g) ==
  IF pc[c] = "refresh" /\ g.refresh = {} THEN refresh ELSE g.refresh

\* The new tokens arrive; the validity counts from now, not from `exp`.
Receive(c) ==
  /\ \E g \in grant[c] :
       /\ access' = {g.access}
       /\ refresh' = RefreshTokenAfter(c, g)
       /\ expiry' = AccessLife
       /\ IF wants[c] THEN SendRequest(c, {g.access}) ELSE Return(c)
  /\ UNCHANGED <<gateway, wants>>

\* An answer that is not retried: success, 401 for a bearer that is not
\* valid, 403, 404, 410, 429, 500.
Answer(c) ==
  /\ pc[c] = "request"
  /\ Return(c)
  /\ UNCHANGED <<gateway, client, wants>>

\* attempt === maxRetries
GivesUp(n) == n = MaxRetries

\* Mutant: the attempts are not counted.
SameAttempt(n) == n

\* Mutant: one attempt too many.
TwoAttempts(n) == n + 2

\* attempt++
NextAttempt(n) == n + 1

\* isRetryable: 502, 503, 504 or no answer in time.
RequestFails(c) ==
  /\ pc[c] = "request"
  /\ IF GivesUp(attempt[c])
     THEN Return(c)
     ELSE /\ pc' = [pc EXCEPT ![c] = "backoff"]
          /\ UNCHANGED <<token, grant, attempt, left>>
  /\ UNCHANGED <<gateway, client, wants>>

\* The backoff is over: the same request again.
Retry(c) ==
  /\ pc[c] = "backoff"
  /\ pc' = [pc EXCEPT ![c] = "request"]
  /\ attempt' = [attempt EXCEPT ![c] = NextAttempt(@)]
  /\ UNCHANGED <<gateway, client, wants, token, grant, left>>

\* No answer in time, a network error, or 5xx for a request for a token that
\* would not be refused.  The gateway may have served it.
Break(c) ==
  /\ pc[c] \in {"refresh", "token"}
  /\ ~Refused(c)
  /\ AuthenticationFails(c)

-----------------------------------------------------------------------------
(* The environment.                                                        *)

\* The tribe is registered, deregistered, or its rights change.
Register(r) ==
  /\ registration # r
  /\ registration' = r
  /\ since' = IF "entitled" \in {registration, r} THEN 0 ELSE since
  /\ UNCHANGED <<provider, client, calls>>

\* The gateway restarts; the dev provider makes a new key pair.
Restart ==
  /\ provider = "dev-jwt"
  /\ access' = {Orphan : tok \in access}
  /\ refresh' = {Orphan : tok \in refresh}
  /\ token' = [c \in Calls |-> {Orphan : tok \in token[c]}]
  /\ grant' = [c \in Calls |->
       {[access |-> Orphan, refresh |-> {Orphan : tok \in g.refresh}] : g \in grant[c]}]
  /\ UNCHANGED <<gateway, expiry, pc, wants, attempt, left>>

\* A tick of the clock.  A request for a token ends by its deadline; the
\* deadlines of other requests matter to no property and are left out.
Tick ==
  /\ \A c \in Calls : pc[c] \in {"refresh", "token"} => left[c] > 0
  /\ since' = IF registration # "entitled" /\ since < AccessLife THEN since + 1 ELSE since
  /\ access' = {Older(tok) : tok \in access}
  /\ refresh' = {Older(tok) : tok \in refresh}
  /\ expiry' = IF expiry > 0 THEN expiry - 1 ELSE 0
  /\ token' = [c \in Calls |-> {Older(tok) : tok \in token[c]}]
  /\ grant' = [c \in Calls |->
       {[access |-> Older(g.access), refresh |-> {Older(tok) : tok \in g.refresh}] :
          g \in grant[c]}]
  /\ left' = [c \in Calls |-> IF left[c] > 0 THEN left[c] - 1 ELSE 0]
  /\ UNCHANGED <<provider, registration, pc, wants, attempt>>

Faults ==
  \/ \E c \in Calls : RequestFails(c) \/ Break(c)
  \/ Restart

\* What goes on in a call once it has begun.
Step(c) ==
  \/ ServeToken(c)
  \/ ServeRefresh(c)
  \/ Refuse(c)
  \/ Receive(c)
  \/ Answer(c)
  \/ RequestFails(c)
  \/ Retry(c)
  \/ Break(c)

Next ==
  \/ \E c \in Calls : Call(c) \/ Login(c) \/ Step(c)
  \/ \E r \in {"absent", "plain", "entitled"} : Register(r)
  \/ Restart
  \/ Tick

Spec == Init /\ [][Next]_vars

(***************************************************************************)
(* Fairness.  Time passes; every request is answered or times out and      *)
(* every backoff ends (axios and setTimeout see to it); and the tribe goes *)
(* on making calls, the one assumption that is not about the code.         *)
(***************************************************************************)
Fairness ==
  /\ WF_vars(Tick)
  /\ \A c \in Calls : WF_vars(Step(c))
  /\ WF_vars(\E c \in Calls : Call(c))

FairSpec == Spec /\ Fairness

-----------------------------------------------------------------------------
(* Properties.                                                             *)

\* The bearer of a first attempt has not expired when it is sent, although
\* the client counts the validity from the arrival of the answer, answers
\* overtake each other and other calls replace the tokens meanwhile: the
\* margin of ensureAuth covers every delay the timeout allows.
FirstAttemptLive ==
  [][\A c \in Calls :
       pc[c] # "backoff" /\ pc[c] # "request" /\ pc'[c] = "request" =>
         \A tok \in token'[c] : tok.genuine => tok.life > 0]_vars

\* With the dev provider, rights taken from a tribe are gone once the tokens
\* of that time have expired, however the client refreshes: refresh tokens
\* carry no scopes (issueToken).
RightsExpire ==
  provider = "dev-jwt" /\ registration # "entitled" =>
    \A tok \in access \cup
                UNION {token[c] \cup {g.access : g \in grant[c]} : c \in Calls} :
      tok.scoped => tok.life + since <= AccessLife

\* Every call returns or throws: neither the fallbacks of refresh() nor the
\* retries go on for ever.
CallEnds == \A c \in Calls : pc[c] # "idle" ~> pc[c] = "idle"

\* Once faults are over and the tribe is registered, the client holds a valid
\* token again and again, also if the gateway restarted with other keys and
\* all its tokens are worthless: a refused refresh falls back to the secret.
ClientRecovers ==
  /\ <>[][~Faults]_vars
  /\ <>[](registration # "absent")
  => []<>(\E tok \in access : ValidateToken(tok))

\* "Issue a fresh access token using the same claims" (dev-jwt.provider.ts):
\* while the tribe keeps its rights, a refresh keeps them in the token.
RefreshKeepsClaims ==
  [][\A c \in Calls :
       /\ pc[c] = "refresh"
       /\ registration = "entitled"
       => \A tok \in access : \A g \in grant'[c] \ grant[c] :
            tok.scoped => g.access.scoped]_vars
=============================================================================
