------------------------- MODULE TribeClientProofs -------------------------
(***************************************************************************)
(* Proofs about TribeClient, for any number of concurrent calls and any    *)
(* lives, margins, timeouts and numbers of retries: type correctness,      *)
(* RightsExpire and FirstAttemptLive.                                      *)
(***************************************************************************)
EXTENDS TribeClient, TLAPS

-----------------------------------------------------------------------------
(* Tokens.                                                                 *)

LEMMA SignType ==
  ASSUME NEW scoped \in BOOLEAN
  PROVE  Sign(AccessLife, scoped) \in Token /\ Sign(RefreshLife, scoped) \in Token
BY TokensAssumption DEF Sign, Token

LEMMA OlderType == \A tok \in Token : Older(tok) \in Token
BY TokensAssumption DEF Older, Token

LEMMA OrphanType == Orphan \in Token
BY TokensAssumption DEF Orphan, Token

LEMMA DevGrantType == \A scoped \in BOOLEAN : DevGrant(scoped) \in Grant
BY SignType DEF DevGrant, Grant, RefreshTokenScoped

LEMMA KeycloakGrantType == \A scoped \in BOOLEAN : KeycloakGrant(scoped) \in Grant
BY SignType DEF KeycloakGrant, Grant

LEMMA OneRefreshToken ==
  \A scoped \in BOOLEAN : /\ AtMostOne(DevGrant(scoped).refresh)
                          /\ AtMostOne(KeycloakGrant(scoped).refresh)
BY DEF DevGrant, KeycloakGrant, AtMostOne

LEMMA IssueType ==
  \A scoped \in BOOLEAN : /\ IssueToken(provider, scoped) \in Grant
                          /\ AtMostOne(IssueToken(provider, scoped).refresh)
BY DevGrantType, KeycloakGrantType, OneRefreshToken DEF IssueToken

LEMMA RefreshType ==
  \A tok \in Token : \A g \in RefreshToken(provider, tok) :
    g \in Grant /\ AtMostOne(g.refresh)
BY DevGrantType, KeycloakGrantType, OneRefreshToken
DEF RefreshToken, DevRefreshToken, KeycloakRefreshToken, Token

\* What a tick and a restart make of a set of tokens.
LEMMA OlderSet ==
  ASSUME NEW S \in SUBSET Token, AtMostOne(S)
  PROVE  /\ {Older(tok) : tok \in S} \in SUBSET Token
         /\ AtMostOne({Older(tok) : tok \in S})
BY OlderType DEF AtMostOne

LEMMA OrphanSet ==
  ASSUME NEW S \in SUBSET Token
  PROVE  /\ {Orphan : tok \in S} \in SUBSET Token
         /\ AtMostOne({Orphan : tok \in S})
BY OrphanType DEF AtMostOne

-----------------------------------------------------------------------------
(* Type correctness.                                                       *)

\* Grants under way also have at most one refresh token, or the client would
\* not keep at most one.
GrantsOK ==
  \A c \in Calls : \A g \in grant[c] : AtMostOne(g.refresh)

\* A call that waits for a retry has one left.
RetriesLeft ==
  \A c \in Calls : pc[c] = "backoff" => attempt[c] # MaxRetries

Typed == TypeOK /\ GrantsOK /\ RetriesLeft

\* What the operators for "what a call does next" keep.
CallTyped ==
  /\ pc \in [Calls -> {"idle", "refresh", "token", "request", "backoff"}]
  /\ token \in [Calls -> SUBSET Token] /\ \A c \in Calls : AtMostOne(token[c])
  /\ grant \in [Calls -> SUBSET Grant] /\ \A c \in Calls : AtMostOne(grant[c])
  /\ attempt \in [Calls -> 0..MaxRetries]
  /\ left \in [Calls -> 0..Timeout]
  /\ GrantsOK
  /\ RetriesLeft

ClientTyped ==
  /\ access \subseteq Token /\ AtMostOne(access)
  /\ refresh \subseteq Token /\ AtMostOne(refresh)
  /\ expiry \in 0..AccessLife

RestTyped ==
  /\ provider \in Provider
  /\ registration \in {"absent", "plain", "entitled"}
  /\ since \in 0..AccessLife
  /\ wants \in [Calls -> BOOLEAN]

LEMMA TypedParts ==
  /\ Typed <=> CallTyped /\ ClientTyped /\ RestTyped
  /\ Typed' <=> CallTyped' /\ ClientTyped' /\ RestTyped'
BY DEF Typed, TypeOK, CallTyped, ClientTyped, RestTyped

LEMMA RequestTyped ==
  ASSUME CallTyped, NEW c \in Calls,
         NEW bearer \in SUBSET Token, AtMostOne(bearer), SendRequest(c, bearer)
  PROVE  CallTyped'
BY ClientAssumption DEF CallTyped, GrantsOK, RetriesLeft, SendRequest, AtMostOne

LEMMA RenewalTyped ==
  ASSUME CallTyped, ClientTyped, NEW c \in Calls,
         SendRefresh(c) \/ SendCredentials(c)
  PROVE  CallTyped'
<1>1. CASE SendRefresh(c)
  BY <1>1, ClientAssumption
  DEF CallTyped, ClientTyped, GrantsOK, RetriesLeft, SendRefresh, AtMostOne
<1>2. CASE SendCredentials(c)
  BY <1>2, ClientAssumption
  DEF CallTyped, GrantsOK, RetriesLeft, SendCredentials, AtMostOne
<1> QED BY <1>1, <1>2

LEMMA ReturnTyped ==
  ASSUME CallTyped, NEW c \in Calls, Return(c)
  PROVE  CallTyped'
BY ClientAssumption DEF CallTyped, GrantsOK, RetriesLeft, Return, AtMostOne

LEMMA FailureTyped ==
  ASSUME Typed, NEW c \in Calls, AuthenticationFails(c)
  PROVE  Typed'
<1>1. CallTyped'
  BY RenewalTyped, ReturnTyped, TypedParts DEF AuthenticationFails, AfterFailedRefresh
<1> QED
  BY <1>1, TypedParts DEF AuthenticationFails, gateway, client, ClientTyped, RestTyped

LEMMA ServedTyped ==
  ASSUME Typed, NEW c \in Calls, NEW grants,
         \A g \in grants : g \in Grant /\ AtMostOne(g.refresh),
         Served(c, grants)
  PROVE  Typed'
<1>1. CallTyped'
  BY TypedParts DEF Served, CallTyped, GrantsOK, RetriesLeft, AtMostOne
<1> QED
  BY <1>1, TypedParts DEF Served, gateway, client, ClientTyped, RestTyped

LEMMA TickTyped ==
  ASSUME Typed, Tick
  PROVE  Typed'
<1> USE TypedParts DEF RestTyped
<1>1. ClientTyped'
  <2>1. expiry' \in 0..AccessLife
    BY TokensAssumption DEF Tick, ClientTyped, RestTyped
  <2> QED
    BY <2>1, OlderSet DEF Tick, ClientTyped, RestTyped
<1>2. CallTyped'
  <2>1. token' \in [Calls -> SUBSET Token] /\ \A c \in Calls : AtMostOne(token'[c])
    BY OlderSet DEF Tick, CallTyped
  <2> DEFINE Later(g) == [access |-> Older(g.access),
                        refresh |-> {Older(tok) : tok \in g.refresh}]
  <2>2. ASSUME NEW g \in Grant, AtMostOne(g.refresh)
        PROVE  Later(g) \in Grant /\ AtMostOne(Later(g).refresh)
    BY <2>2, OlderSet, OlderType DEF Grant
  <2>3. grant' = [c \in Calls |-> {Later(g) : g \in grant[c]}]
    BY DEF Tick
  <2> HIDE DEF Later
  <2>4. ASSUME NEW c \in Calls, NEW g \in grant[c]
        PROVE  g \in Grant /\ AtMostOne(g.refresh) /\ \A f \in grant[c] : f = g
    BY DEF CallTyped, GrantsOK, AtMostOne
  <2>5. grant' \in [Calls -> SUBSET Grant]
    BY <2>2, <2>3, <2>4
  <2>6. ASSUME NEW c \in Calls
        PROVE  /\ AtMostOne(grant'[c])
               /\ \A h \in grant'[c] : AtMostOne(h.refresh)
    BY <2>2, <2>3, <2>4 DEF AtMostOne
  <2>7. GrantsOK'
    BY <2>6 DEF GrantsOK
  <2>8. left' \in [Calls -> 0..Timeout]
    BY ClientAssumption DEF Tick, CallTyped
  <2> QED
    BY <2>1, <2>5, <2>6, <2>7, <2>8 DEF Tick, CallTyped, RetriesLeft
<1>3. since' \in 0..AccessLife
  BY TokensAssumption DEF Tick
<1> QED
  BY <1>1, <1>2, <1>3 DEF Tick

LEMMA RestartTyped ==
  ASSUME Typed, Restart
  PROVE  Typed'
<1> USE TypedParts DEF RestTyped
<1>1. ClientTyped'
  BY OrphanSet DEF Restart, ClientTyped, RestTyped
<1>2. CallTyped'
  <2>1. token' \in [Calls -> SUBSET Token] /\ \A c \in Calls : AtMostOne(token'[c])
    BY OrphanSet DEF Restart, CallTyped
  <2> DEFINE Later(g) == [access |-> Orphan, refresh |-> {Orphan : tok \in g.refresh}]
  <2>2. ASSUME NEW g \in Grant
        PROVE  Later(g) \in Grant /\ AtMostOne(Later(g).refresh)
    BY OrphanSet, OrphanType DEF Grant
  <2>3. grant' = [c \in Calls |-> {Later(g) : g \in grant[c]}]
    BY DEF Restart
  <2> HIDE DEF Later
  <2>4. ASSUME NEW c \in Calls, NEW g \in grant[c]
        PROVE  g \in Grant /\ AtMostOne(g.refresh) /\ \A f \in grant[c] : f = g
    BY DEF CallTyped, GrantsOK, AtMostOne
  <2>5. grant' \in [Calls -> SUBSET Grant]
    BY <2>2, <2>3, <2>4
  <2>6. ASSUME NEW c \in Calls
        PROVE  /\ AtMostOne(grant'[c])
               /\ \A h \in grant'[c] : AtMostOne(h.refresh)
    BY <2>2, <2>3, <2>4 DEF AtMostOne
  <2>7. GrantsOK'
    BY <2>6 DEF GrantsOK
  <2> QED
    BY <2>1, <2>5, <2>6, <2>7 DEF Restart, CallTyped, RetriesLeft
<1> QED
  BY <1>1, <1>2 DEF Restart, gateway

LEMMA StepTyped ==
  ASSUME Typed, NEW c \in Calls, Step(c)
  PROVE  Typed'
<1> USE TypedParts DEF RestTyped
<1>1. CASE ServeToken(c)
  BY <1>1, ServedTyped, IssueType DEF ServeToken
<1>2. CASE ServeRefresh(c)
  <2>1. PICK tok \in token[c] : Served(c, RefreshToken(provider, tok))
    BY <1>2 DEF ServeRefresh
  <2>2. tok \in Token
    BY DEF CallTyped
  <2> QED
    BY <2>1, <2>2, RefreshType, ServedTyped
<1>3. CASE Refuse(c) \/ Break(c)
  BY <1>3, FailureTyped DEF Refuse, Break
<1>4. CASE Receive(c)
  <2>1. PICK g \in grant[c] :
          /\ access' = {g.access}
          /\ refresh' = RefreshTokenAfter(c, g)
          /\ expiry' = AccessLife
          /\ IF wants[c] THEN SendRequest(c, {g.access}) ELSE Return(c)
    BY <1>4 DEF Receive
  <2>2. g \in Grant /\ AtMostOne(g.refresh) /\ AtMostOne({g.access})
    BY DEF CallTyped, GrantsOK, AtMostOne
  <2>3. {g.access} \in SUBSET Token /\ g.refresh \in SUBSET Token
    BY <2>2 DEF Grant
  <2>4. ClientTyped'
    BY <2>1, <2>2, <2>3, TokensAssumption DEF ClientTyped, RefreshTokenAfter
  <2>5. CallTyped'
    BY <2>1, <2>2, <2>3, RequestTyped, ReturnTyped
  <2> QED
    BY <1>4, <2>4, <2>5 DEF Receive, gateway
<1>5. CASE Answer(c)
  BY <1>5, ReturnTyped DEF Answer, gateway, client, ClientTyped, RestTyped
<1>6. CASE RequestFails(c)
  <2>1. CASE GivesUp(attempt[c])
    BY <1>6, <2>1, ReturnTyped DEF RequestFails, gateway, client, ClientTyped, RestTyped
  <2>2. CASE ~GivesUp(attempt[c])
    <3>1. /\ pc' = [pc EXCEPT ![c] = "backoff"]
          /\ UNCHANGED <<provider, registration, since, access, refresh, expiry,
                         wants, token, grant, attempt, left>>
      BY <1>6, <2>2 DEF RequestFails, gateway, client
    <3>2. CallTyped'
      BY <2>2, <3>1 DEF CallTyped, GrantsOK, RetriesLeft, GivesUp
    <3> QED
      BY <3>1, <3>2 DEF ClientTyped, RestTyped
  <2> QED
    BY <2>1, <2>2
<1>7. CASE Retry(c)
  <2>1. attempt[c] # MaxRetries
    BY <1>7 DEF Retry, CallTyped, RetriesLeft
  <2>2. attempt' \in [Calls -> 0..MaxRetries]
    BY <1>7, <2>1, ClientAssumption DEF Retry, NextAttempt, CallTyped
  <2>3. CallTyped'
    BY <1>7, <2>2 DEF Retry, CallTyped, GrantsOK, RetriesLeft
  <2> QED
    BY <1>7, <2>3 DEF Retry, gateway, client, ClientTyped, RestTyped
<1> QED
  BY <1>1, <1>2, <1>3, <1>4, <1>5, <1>6, <1>7 DEF Step

LEMMA TypedInit == Init => Typed
BY TokensAssumption, ClientAssumption
DEF Init, Typed, TypeOK, GrantsOK, RetriesLeft, AtMostOne

LEMMA TypedStep == Typed /\ [Next]_vars => Typed'
<1> SUFFICES ASSUME Typed, [Next]_vars PROVE Typed'
  OBVIOUS
<1> USE TypedParts DEF RestTyped
<1>1. ASSUME NEW c \in Calls, Call(c) PROVE Typed'
  <2>1. CallTyped'
    BY <1>1, RequestTyped, RenewalTyped DEF Call, Renew, ClientTyped, RestTyped
  <2> QED
    BY <1>1, <2>1 DEF Call, gateway, client, ClientTyped, RestTyped
<1>2. ASSUME NEW c \in Calls, Login(c) PROVE Typed'
  <2>1. CallTyped'
    BY <1>2, RenewalTyped DEF Login, Renew
  <2> QED
    BY <1>2, <2>1 DEF Login, gateway, client, ClientTyped, RestTyped
<1>3. ASSUME NEW r \in {"absent", "plain", "entitled"}, Register(r) PROVE Typed'
  <2>1. CallTyped' /\ ClientTyped'
    BY <1>3 DEF Register, client, calls, CallTyped, ClientTyped, GrantsOK, RetriesLeft
  <2>2. since' \in 0..AccessLife
    BY <1>3, TokensAssumption DEF Register
  <2> QED
    BY <1>3, <2>1, <2>2 DEF Register, calls
<1>4. ASSUME UNCHANGED vars PROVE Typed'
  BY <1>4 DEF vars, CallTyped, ClientTyped, GrantsOK, RetriesLeft
<1> QED
  BY <1>1, <1>2, <1>3, <1>4, StepTyped, TickTyped, RestartTyped DEF Next

\* The client never holds two tokens, counts no further than maxRetries and
\* gives up requests for tokens in time, whatever answers overtake each other.
THEOREM ClientTypeCorrect == Spec => []TypeOK
<1>1. Typed => TypeOK
  BY DEF Typed
<1> QED
  BY <1>1, TypedInit, TypedStep, PTL DEF Spec

-----------------------------------------------------------------------------
(* RightsExpire.  It is not inductive: a refresh token with scopes would   *)
(* renew rights that the tribe has lost, and a scoped token with a longer  *)
(* life would outlast them.  So refresh tokens of the dev provider carry   *)
(* no scopes, wherever they are, and every scoped token ends by `Limit`.   *)

\* What is left of the last life that began while the tribe had its rights.
Limit == IF registration = "entitled" THEN AccessLife ELSE AccessLife - since

EndsBy(tok, n) == tok.scoped => tok.life <= n

ClientRights ==
  /\ \A tok \in refresh : ~tok.scoped
  /\ \A tok \in access : EndsBy(tok, Limit)

CallRights ==
  /\ \A c \in Calls : \A tok \in token[c] :
       /\ EndsBy(tok, Limit)
       /\ pc[c] = "refresh" => ~tok.scoped
  /\ \A c \in Calls : \A g \in grant[c] :
       /\ EndsBy(g.access, Limit)
       /\ \A tok \in g.refresh : ~tok.scoped

Rights == provider = "dev-jwt" => ClientRights /\ CallRights

LEMMA DevGrantEnds ==
  \A scoped \in BOOLEAN :
    /\ \A tok \in DevGrant(scoped).refresh : ~tok.scoped
    /\ EndsBy(DevGrant(scoped).access, AccessLife)
    /\ ~scoped => \A n : EndsBy(DevGrant(scoped).access, n)
BY TokensAssumption DEF DevGrant, Sign, RefreshTokenScoped, EndsBy

LEMMA UnscopedEnds == \A tok, n : ~tok.scoped => EndsBy(tok, n)
BY DEF EndsBy

\* The steps of calls, on which registration and time stand still.
LEMMA RequestRights ==
  ASSUME CallTyped, CallRights, Limit' = Limit, NEW c \in Calls, NEW bearer,
         \A tok \in bearer : EndsBy(tok, Limit),
         SendRequest(c, bearer)
  PROVE  CallRights'
BY DEF CallTyped, CallRights, SendRequest

LEMMA RenewalRights ==
  ASSUME CallTyped, CallRights, ClientRights, Limit' = Limit, NEW c \in Calls,
         SendRefresh(c) \/ SendCredentials(c)
  PROVE  CallRights'
<1>1. CASE SendRefresh(c)
  BY <1>1, UnscopedEnds DEF CallTyped, CallRights, ClientRights, SendRefresh
<1>2. CASE SendCredentials(c)
  BY <1>2 DEF CallTyped, CallRights, SendCredentials
<1> QED BY <1>1, <1>2

LEMMA ReturnRights ==
  ASSUME CallTyped, CallRights, Limit' = Limit, NEW c \in Calls, Return(c)
  PROVE  CallRights'
BY DEF CallTyped, CallRights, Return

LEMMA FailureRights ==
  ASSUME CallTyped, CallRights, ClientRights, NEW c \in Calls,
         AuthenticationFails(c)
  PROVE  CallRights' /\ ClientRights'
<1>1. Limit' = Limit
  BY DEF AuthenticationFails, gateway, Limit
<1>2. CallRights'
  BY <1>1, RenewalRights, ReturnRights DEF AuthenticationFails, AfterFailedRefresh
<1> QED
  BY <1>1, <1>2 DEF AuthenticationFails, client, ClientRights

LEMMA ServedRights ==
  ASSUME CallTyped, CallRights, ClientRights, NEW c \in Calls, NEW grants,
         \A g \in grants : /\ EndsBy(g.access, Limit)
                           /\ \A tok \in g.refresh : ~tok.scoped,
         Served(c, grants)
  PROVE  CallRights' /\ ClientRights'
<1>1. Limit' = Limit
  BY DEF Served, gateway, Limit
<1>2. PICK g \in grants : grant' = [grant EXCEPT ![c] = {g}]
  BY DEF Served
<1>3. \A d \in Calls : \A h \in grant'[d] : h \in grant[d] \/ h = g
  BY <1>2 DEF CallTyped
<1>4. CallRights'
  BY <1>1, <1>3 DEF Served, CallRights
<1> QED
  BY <1>1, <1>4 DEF Served, client, ClientRights

LEMMA StepRights ==
  ASSUME Typed, provider = "dev-jwt", ClientRights, CallRights,
         NEW c \in Calls, Step(c)
  PROVE  CallRights' /\ ClientRights'
<1> USE TypedParts
<1>1. CASE ServeToken(c)
  <2>1. Served(c, {DevGrant(registration = "entitled")})
    BY <1>1 DEF ServeToken, IssueToken
  <2>2. EndsBy(DevGrant(registration = "entitled").access, Limit)
    BY DevGrantEnds DEF Limit
  <2> QED
    BY <2>1, <2>2, DevGrantEnds, ServedRights
<1>2. CASE ServeRefresh(c)
  <2>1. PICK tok \in token[c] : Served(c, DevRefreshToken(tok))
    BY <1>2 DEF ServeRefresh, RefreshToken
  <2>2. tok.scoped = FALSE
    BY <1>2, <2>1 DEF ServeRefresh, CallRights, CallTyped, Token
  <2>3. \A g \in DevRefreshToken(tok) : g = DevGrant(FALSE)
    BY <2>2 DEF DevRefreshToken
  <2> QED
    BY <2>1, <2>3, DevGrantEnds, ServedRights
<1>3. CASE Refuse(c) \/ Break(c)
  BY <1>3, FailureRights DEF Refuse, Break
<1>4. CASE Receive(c)
  <2>1. PICK g \in grant[c] :
          /\ access' = {g.access}
          /\ refresh' = RefreshTokenAfter(c, g)
          /\ IF wants[c] THEN SendRequest(c, {g.access}) ELSE Return(c)
    BY <1>4 DEF Receive
  <2>2. Limit' = Limit
    BY <1>4 DEF Receive, gateway, Limit
  <2>3. EndsBy(g.access, Limit) /\ \A tok \in g.refresh : ~tok.scoped
    BY <2>1 DEF CallRights
  <2>4. ClientRights'
    BY <2>1, <2>2, <2>3 DEF ClientRights, RefreshTokenAfter
  <2>5. CallRights'
    BY <2>1, <2>2, <2>3, RequestRights, ReturnRights
  <2> QED
    BY <2>4, <2>5
<1>5. CASE Answer(c) \/ RequestFails(c) \/ Retry(c)
  <2>1. Limit' = Limit /\ UNCHANGED client
    BY <1>5 DEF Answer, RequestFails, Retry, gateway, Limit
  <2>2. CASE Return(c)
    BY <2>1, <2>2, ReturnRights DEF client, ClientRights
  <2>3. CASE ~Return(c)
    <3>1. /\ \E s \in {"request", "backoff"} : pc' = [pc EXCEPT ![c] = s]
          /\ UNCHANGED <<token, grant>>
      BY <1>5, <2>3 DEF Answer, RequestFails, Retry
    <3> QED
      BY <2>1, <3>1 DEF CallTyped, CallRights, client, ClientRights
  <2> QED
    BY <2>2, <2>3
<1> QED
  BY <1>1, <1>2, <1>3, <1>4, <1>5 DEF Step

\* A tick shortens every life that has not ended, and the limit by no more.
LEMMA OlderEnds ==
  ASSUME Typed, Tick, NEW tok \in Token, EndsBy(tok, Limit)
  PROVE  EndsBy(Older(tok), Limit')
BY TypedParts, TokensAssumption DEF RestTyped, Tick, EndsBy, Older, Limit, Token

LEMMA TickRights ==
  ASSUME Typed, ClientRights, CallRights, Tick
  PROVE  CallRights' /\ ClientRights'
<1> USE TypedParts
<1>1. \A tok : Older(tok).scoped = tok.scoped
  BY DEF Older
<1>2. ClientRights'
  BY <1>1, OlderEnds DEF Tick, ClientTyped, ClientRights
<1>3. ASSUME NEW c \in Calls, NEW tok \in token'[c]
      PROVE  EndsBy(tok, Limit') /\ (pc'[c] = "refresh" => ~tok.scoped)
  <2>1. PICK old \in token[c] : tok = Older(old)
    BY <1>3 DEF Tick
  <2> QED
    BY <1>1, <2>1, OlderEnds DEF Tick, CallTyped, CallRights
<1>4. ASSUME NEW c \in Calls, NEW g \in grant'[c]
      PROVE  EndsBy(g.access, Limit') /\ \A tok \in g.refresh : ~tok.scoped
  <2>1. PICK h \in grant[c] : g = [access |-> Older(h.access),
                                   refresh |-> {Older(tok) : tok \in h.refresh}]
    BY <1>4 DEF Tick
  <2>2. h.access \in Token
    BY DEF CallTyped, Grant
  <2> QED
    BY <1>1, <2>1, <2>2, OlderEnds DEF CallRights
<1> QED
  BY <1>2, <1>3, <1>4 DEF CallRights

LEMMA RestartRights ==
  ASSUME Restart
  PROVE  CallRights' /\ ClientRights'
<1>1. Orphan.scoped = FALSE /\ \A n : EndsBy(Orphan, n)
  BY DEF Orphan, EndsBy
<1>2. ASSUME NEW c \in Calls, NEW g \in grant'[c]
      PROVE  g.access = Orphan /\ \A tok \in g.refresh : tok = Orphan
  BY <1>2 DEF Restart
<1>3. ASSUME NEW c \in Calls, NEW tok \in token'[c]
      PROVE  tok = Orphan
  BY <1>3 DEF Restart
<1> QED
  BY <1>1, <1>2, <1>3 DEF Restart, CallRights, ClientRights

LEMMA RegisterRights ==
  ASSUME Typed, ClientRights, CallRights,
         NEW r \in {"absent", "plain", "entitled"}, Register(r)
  PROVE  CallRights' /\ ClientRights'
<1>1. \A tok \in Token : EndsBy(tok, Limit) => EndsBy(tok, Limit')
  BY TypedParts, TokensAssumption DEF RestTyped, Register, EndsBy, Limit, Token
<1>2. ClientRights'
  BY <1>1, TypedParts DEF Register, client, ClientTyped, ClientRights
<1>3. \A c \in Calls : /\ token[c] \subseteq Token
                       /\ \A g \in grant[c] : g.access \in Token
  BY TypedParts DEF CallTyped, Grant
<1> QED
  BY <1>1, <1>2, <1>3 DEF Register, calls, CallRights

LEMMA RightsInit == Init => Rights
BY DEF Init, Rights, ClientRights, CallRights

LEMMA RightsStep == Typed /\ Rights /\ [Next]_vars => Rights'
<1> SUFFICES ASSUME Typed, Rights, [Next]_vars, provider' = "dev-jwt"
             PROVE  CallRights' /\ ClientRights'
  BY DEF Rights
<1>1. provider = "dev-jwt"
  BY DEF Next, vars, Step, Call, Login, ServeToken, ServeRefresh, Served, Refuse, Break,
         AuthenticationFails, Receive, Answer, RequestFails, Retry, Register,
         Restart, Tick, gateway
<1>2. ClientRights /\ CallRights
  BY <1>1 DEF Rights
<1> USE <1>1, <1>2, TypedParts
<1>3. ASSUME NEW c \in Calls, Call(c) \/ Login(c)
      PROVE  CallRights' /\ ClientRights'
  <2>1. Limit' = Limit /\ UNCHANGED client
    BY <1>3 DEF Call, Login, gateway, Limit
  <2>2. SendRefresh(c) \/ SendCredentials(c) \/ SendRequest(c, access)
    BY <1>3 DEF Call, Login, Renew
  <2>3. \A tok \in access : EndsBy(tok, Limit)
    BY DEF ClientRights
  <2>4. CallRights'
    BY <2>1, <2>2, <2>3, RequestRights, RenewalRights
  <2> QED
    BY <2>1, <2>4 DEF client, ClientRights
<1>4. ASSUME UNCHANGED vars PROVE CallRights' /\ ClientRights'
  BY <1>4 DEF vars, CallRights, ClientRights, Limit
<1> QED
  BY <1>3, <1>4, StepRights, RegisterRights, RestartRights, TickRights DEF Next

\* With the dev provider, rights that a tribe loses are gone at the latest one
\* access life later, whatever calls refresh, authenticate or overtake meanwhile
\* (issueToken puts scopes into access tokens only).
THEOREM ClientRightsExpire == Spec => []RightsExpire
<1>1. Typed /\ Rights => RightsExpire
  <2> SUFFICES ASSUME Typed, Rights, provider = "dev-jwt", registration # "entitled",
                      NEW tok \in access \cup
                        UNION {token[c] \cup {g.access : g \in grant[c]} : c \in Calls},
                      tok.scoped
               PROVE  tok.life + since <= AccessLife
    BY DEF RightsExpire
  <2> USE TypedParts
  <2>1. tok \in Token /\ EndsBy(tok, Limit)
    <3>1. CASE tok \in access
      BY <3>1 DEF ClientTyped, Rights, ClientRights
    <3>2. ASSUME NEW c \in Calls, tok \in token[c]
          PROVE  tok \in Token /\ EndsBy(tok, Limit)
      BY <3>2 DEF CallTyped, Rights, CallRights
    <3>3. ASSUME NEW c \in Calls, NEW g \in grant[c], tok = g.access
          PROVE  tok \in Token /\ EndsBy(tok, Limit)
      <4>1. g \in Grant
        BY DEF CallTyped
      <4> QED
        BY <3>3, <4>1 DEF Grant, Rights, CallRights
    <3>4. ASSUME tok \in UNION {token[c] \cup {g.access : g \in grant[c]} : c \in Calls}
          PROVE  \E c \in Calls : tok \in token[c] \/ \E g \in grant[c] : tok = g.access
      BY <3>4
    <3> QED
      BY <3>1, <3>2, <3>3, <3>4
  <2> QED
    BY <2>1, TokensAssumption DEF RestTyped, EndsBy, Limit, Token
<1> QED
  BY <1>1, TypedInit, TypedStep, RightsInit, RightsStep, PTL DEF Spec

-----------------------------------------------------------------------------
(* FirstAttemptLive.  The client believes in a token longer than it lives, *)
(* by the time its answer was under way, and that is at most the timeout.  *)

\* A grant under way was signed no longer ago than its call has waited.
GrantsFresh ==
  \A c \in Calls : \A g \in grant[c] :
    /\ pc[c] \in {"refresh", "token"}
    /\ g.access.genuine => g.access.life + Timeout >= AccessLife + left[c]

AccessFresh ==
  \A tok \in access : tok.genuine => tok.life + Timeout >= expiry

Fresh == GrantsFresh /\ AccessFresh

LEMMA GrantTypes ==
  ASSUME CallTyped, NEW c \in Calls, NEW g \in grant[c]
  PROVE  g.access \in Token /\ left[c] \in Nat /\ g.access.life \in Nat
BY TokensAssumption, ClientAssumption DEF CallTyped, Grant, Token

LEMMA SendsFresh ==
  ASSUME CallTyped, GrantsFresh, NEW c \in Calls,
         \/ \E bearer : SendRequest(c, bearer)
         \/ SendRefresh(c) \/ SendCredentials(c) \/ Return(c)
  PROVE  GrantsFresh'
<1>1. /\ \E s : pc' = [pc EXCEPT ![c] = s]
      /\ \E n : left' = [left EXCEPT ![c] = n]
      /\ grant' = [grant EXCEPT ![c] = {}]
  BY DEF SendRequest, SendRefresh, SendCredentials, Return
<1> QED
  BY <1>1 DEF CallTyped, GrantsFresh

LEMMA SignedFresh ==
  \A scoped \in BOOLEAN : /\ DevGrant(scoped).access.life = AccessLife
                          /\ KeycloakGrant(scoped).access.life = AccessLife
BY DEF DevGrant, KeycloakGrant, Sign

LEMMA ServedFresh ==
  ASSUME Typed, Fresh, NEW c \in Calls, pc[c] \in {"refresh", "token"}, NEW grants,
         \A g \in grants : g.access.life = AccessLife,
         Served(c, grants)
  PROVE  Fresh'
<1>1. PICK g \in grants : grant' = [grant EXCEPT ![c] = {g}]
  BY DEF Served
<1>2. left[c] \in 0..Timeout
  BY TypedParts DEF CallTyped
<1>3. g.access.life + Timeout >= AccessLife + left[c]
  BY <1>2, TokensAssumption, ClientAssumption
<1>4. \A d \in Calls : \A h \in grant'[d] : h \in grant[d] \/ (d = c /\ h = g)
  BY <1>1, TypedParts DEF CallTyped
<1>5. GrantsFresh'
  BY <1>3, <1>4 DEF Served, Fresh, GrantsFresh
<1> QED
  BY <1>5 DEF Served, client, Fresh, AccessFresh

LEMMA FailureFresh ==
  ASSUME Typed, Fresh, NEW c \in Calls, AuthenticationFails(c)
  PROVE  Fresh'
<1>1. GrantsFresh'
  BY SendsFresh, TypedParts DEF AuthenticationFails, AfterFailedRefresh, Fresh
<1> QED
  BY <1>1 DEF AuthenticationFails, client, Fresh, AccessFresh

LEMMA StepFresh ==
  ASSUME Typed, Fresh, NEW c \in Calls, Step(c)
  PROVE  Fresh'
<1> USE TypedParts
<1>1. CASE ServeToken(c)
  BY <1>1, SignedFresh, ServedFresh DEF ServeToken, IssueToken
<1>2. CASE ServeRefresh(c)
  <2>1. PICK tok \in token[c] : Served(c, RefreshToken(provider, tok))
    BY <1>2 DEF ServeRefresh
  <2>2. tok.scoped \in BOOLEAN
    BY <2>1 DEF CallTyped, Token
  <2>3. \A g \in RefreshToken(provider, tok) : g.access.life = AccessLife
    BY <2>2, SignedFresh DEF RefreshToken, DevRefreshToken, KeycloakRefreshToken
  <2> QED
    BY <1>2, <2>1, <2>3, ServedFresh DEF ServeRefresh
<1>3. CASE Refuse(c) \/ Break(c)
  BY <1>3, FailureFresh DEF Refuse, Break
<1>4. CASE Receive(c)
  <2>1. PICK g \in grant[c] :
          /\ access' = {g.access}
          /\ expiry' = AccessLife
          /\ IF wants[c] THEN SendRequest(c, {g.access}) ELSE Return(c)
    BY <1>4 DEF Receive
  <2>2. GrantsFresh'
    BY <2>1, SendsFresh DEF Fresh
  <2>3. g.access.genuine => g.access.life + Timeout >= AccessLife
    BY <2>1, GrantTypes, TokensAssumption, ClientAssumption DEF Fresh, GrantsFresh
  <2> QED
    BY <2>1, <2>2, <2>3 DEF Fresh, AccessFresh
<1>5. CASE Answer(c) \/ RequestFails(c) \/ Retry(c)
  <2>1. UNCHANGED client
    BY <1>5 DEF Answer, RequestFails, Retry
  <2>2. CASE Return(c)
    BY <2>1, <2>2, SendsFresh DEF client, Fresh, AccessFresh
  <2>3. CASE ~Return(c)
    <3>1. /\ pc[c] \in {"request", "backoff"}
          /\ \E s : pc' = [pc EXCEPT ![c] = s]
          /\ UNCHANGED <<grant, left>>
      BY <1>5, <2>3 DEF Answer, RequestFails, Retry
    <3> QED
      BY <2>1, <3>1 DEF CallTyped, client, Fresh, GrantsFresh, AccessFresh
  <2> QED
    BY <2>2, <2>3
<1> QED
  BY <1>1, <1>2, <1>3, <1>4, <1>5 DEF Step

LEMMA TickFresh ==
  ASSUME Typed, Fresh, Tick
  PROVE  Fresh'
<1> USE TypedParts
<1>1. ASSUME NEW c \in Calls, NEW g \in grant'[c]
      PROVE  /\ pc'[c] \in {"refresh", "token"}
             /\ g.access.genuine => g.access.life + Timeout >= AccessLife + left'[c]
  <2>1. PICK h \in grant[c] : g.access = Older(h.access)
    BY <1>1 DEF Tick
  <2>2. /\ pc[c] \in {"refresh", "token"} /\ left[c] > 0
        /\ h.access.genuine => h.access.life + Timeout >= AccessLife + left[c]
    BY <2>1 DEF Tick, Fresh, GrantsFresh
  <2>3. left'[c] = left[c] - 1 /\ pc'[c] = pc[c]
    BY <2>2 DEF Tick
  <2>4. left[c] \in Nat /\ h.access.life \in Nat
    BY <2>1, GrantTypes
  <2> QED
    BY <2>1, <2>2, <2>3, <2>4, TokensAssumption, ClientAssumption DEF Older
<1>2. AccessFresh'
  <2>1. ASSUME NEW tok \in access'
        PROVE  tok.genuine => tok.life + Timeout >= expiry'
    <3>1. PICK old \in access : tok = Older(old)
      BY <2>1 DEF Tick
    <3>2. /\ old.life \in Nat /\ expiry \in Nat
          /\ old.genuine => old.life + Timeout >= expiry
      BY <3>1, TokensAssumption DEF Fresh, AccessFresh, ClientTyped, Token
    <3> QED
      BY <3>1, <3>2, ClientAssumption DEF Older, Tick
  <2> QED
    BY <2>1 DEF AccessFresh
<1> QED
  BY <1>1, <1>2 DEF Fresh, GrantsFresh

LEMMA RestartFresh ==
  ASSUME Fresh, Restart
  PROVE  Fresh'
<1>1. Orphan.genuine = FALSE
  BY DEF Orphan
<1>2. ASSUME NEW c \in Calls, NEW g \in grant'[c]
      PROVE  g.access = Orphan /\ grant[c] # {}
  BY <1>2 DEF Restart
<1> QED
  BY <1>1, <1>2 DEF Restart, Fresh, GrantsFresh, AccessFresh

LEMMA FreshInit == Init => Fresh
BY DEF Init, Fresh, GrantsFresh, AccessFresh

LEMMA FreshStep == Typed /\ Fresh /\ [Next]_vars => Fresh'
<1> SUFFICES ASSUME Typed, Fresh, [Next]_vars PROVE Fresh'
  OBVIOUS
<1>1. ASSUME NEW c \in Calls, Call(c) \/ Login(c) PROVE Fresh'
  <2>1. SendRefresh(c) \/ SendCredentials(c) \/ SendRequest(c, access)
    BY <1>1 DEF Call, Login, Renew
  <2>2. GrantsFresh'
    BY <2>1, SendsFresh, TypedParts DEF Fresh
  <2> QED
    BY <1>1, <2>2 DEF Call, Login, client, Fresh, AccessFresh
<1>2. ASSUME NEW r \in {"absent", "plain", "entitled"}, Register(r) PROVE Fresh'
  BY <1>2 DEF Register, client, calls, Fresh, GrantsFresh, AccessFresh
<1>3. ASSUME UNCHANGED vars PROVE Fresh'
  BY <1>3 DEF vars, Fresh, GrantsFresh, AccessFresh
<1> QED
  BY <1>1, <1>2, <1>3, StepFresh, TickFresh, RestartFresh DEF Next

\* What FirstAttemptLive says of one step.
FirstAttempts ==
  \A c \in Calls :
    pc[c] # "backoff" /\ pc[c] # "request" /\ pc'[c] = "request" =>
      \A tok \in token'[c] : tok.genuine => tok.life > 0

LEMMA FirstAttemptStep ==
  ASSUME Timeout < AccessLife
  PROVE  Typed /\ Fresh /\ [Next]_vars => [FirstAttempts]_vars
<1> SUFFICES ASSUME Typed, Fresh, Next, NEW c \in Calls,
                    pc[c] # "backoff", pc[c] # "request", pc'[c] = "request",
                    NEW tok \in token'[c], tok.genuine
             PROVE  tok.life > 0
  BY DEF FirstAttempts
<1> USE TypedParts
<1>1. ASSUME Call(c) \/ Receive(c) PROVE tok.life > 0
  <2>1. CASE Call(c)
    <3>1. ~NeedsToken /\ SendRequest(c, access)
      BY <2>1 DEF Call, Renew, SendRefresh, SendCredentials, CallTyped
    <3>2. tok \in access
      BY <3>1 DEF SendRequest, CallTyped
    <3>3. tok.life \in Nat /\ expiry \in Nat /\ tok.life + Timeout >= expiry
      BY <3>2, TokensAssumption DEF ClientTyped, Token, Fresh, AccessFresh
    <3> QED
      BY <3>1, <3>3, ClientAssumption DEF NeedsToken
  <2>2. CASE Receive(c)
    <3>1. PICK g \in grant[c] : SendRequest(c, {g.access}) \/ Return(c)
      BY <2>2 DEF Receive
    <3>2. tok = g.access
      BY <3>1 DEF SendRequest, Return, CallTyped
    <3>3. /\ tok.life \in Nat /\ left[c] \in Nat
          /\ tok.life + Timeout >= AccessLife + left[c]
      BY <3>1, <3>2, GrantTypes DEF Fresh, GrantsFresh
    <3> QED
      BY <3>3, TokensAssumption, ClientAssumption
  <2> QED
    BY <1>1, <2>1, <2>2
<1>2. Call(c) \/ Receive(c)
  <2>1. ASSUME NEW d \in Calls, Next, pc'[c] # pc[c],
               Call(d) \/ Login(d) \/ Step(d)
        PROVE  d = c
    BY <2>1 DEF Call, Login, Step, ServeToken, ServeRefresh, Served, Refuse, Break,
            AuthenticationFails, AfterFailedRefresh, Receive, Answer, RequestFails,
            Retry, Renew, SendRequest, SendRefresh, SendCredentials, Return, CallTyped
  <2>2. ~Register("absent") /\ ~Register("plain") /\ ~Register("entitled")
          /\ ~Restart /\ ~Tick
    BY DEF Register, Restart, Tick, calls
  <2>3. Call(c) \/ Login(c) \/ Step(c)
    BY <2>1, <2>2 DEF Next
  <2>4. ~Login(c)
    BY DEF Login, Renew, SendRefresh, SendCredentials, CallTyped
  <2>5. ASSUME Step(c) PROVE Receive(c)
    BY <2>5 DEF Step, ServeToken, ServeRefresh, Served, Refuse, Break,
            AuthenticationFails, AfterFailedRefresh, Answer, RequestFails,
            Retry, SendCredentials, Return, CallTyped
  <2> QED
    BY <2>3, <2>4, <2>5
<1> QED
  BY <1>1, <1>2

\* Provided a token outlives the timeout of the request for it, no first
\* attempt carries a genuine token that has expired: the margin of ensureAuth
\* covers what tokenExpiry overestimates, for any number of concurrent calls.
THEOREM ClientFirstAttemptLive ==
  ASSUME Timeout < AccessLife
  PROVE  Spec => FirstAttemptLive
<1>1. Typed /\ Fresh /\ [Next]_vars => [FirstAttempts]_vars
  BY FirstAttemptStep
<1>2. Spec => [][FirstAttempts]_vars
  BY <1>1, TypedInit, TypedStep, FreshInit, FreshStep, PTL DEF Spec
<1> QED
  BY <1>2 DEF FirstAttemptLive, FirstAttempts
=============================================================================
