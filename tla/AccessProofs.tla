---------------------------- MODULE AccessProofs ----------------------------
(***************************************************************************)
(* What issueToken collects is what proxyRequest asks for: proofs for any  *)
(* registry, any number of services and any interleaving of changes.       *)
(***************************************************************************)
EXTENDS Access, TLAPS

LEMMA NoneApart == None \notin Entry /\ None \notin Demand /\ None \notin Claims
BY AccessAssumption

LEMMA EntryFields ==
  ASSUME NEW e \in Entry
  PROVE  /\ e.consumes \in SUBSET Services
         /\ e.requiredScopes \in SUBSET Scopes
         /\ Demands(e) \in Demand
         /\ Demands(e).consumes = e.consumes
         /\ Demands(e).requiredScopes = e.requiredScopes
BY DEF Entry, Demand, Demands

-----------------------------------------------------------------------------
(* Types.                                                                  *)

LEMMA RequiredType ==
  ASSUME TypeOK, NEW s \in Services
  PROVE  GetRequiredScopes(s) \in SUBSET Scopes
BY EntryFields DEF TypeOK, GetRequiredScopes, Known

LEMMA CollectedType ==
  ASSUME TypeOK, NEW own \in Demand
  PROVE  CollectScopes(own) \in SUBSET Scopes
<1>1. own.consumes \subseteq Services /\ own.requiredScopes \subseteq Scopes
  BY DEF Demand
<1> QED
  BY <1>1, RequiredType DEF CollectScopes

LEMMA RefreshedType == Refreshed \in Claims /\ ~Refreshed.fresh /\ Refreshed.scopes = {}
BY DEF Refreshed, Claims

LEMMA InitType == Init => TypeOK
BY DEF Init, TypeOK

LEMMA NextType == TypeOK /\ [Next]_vars => TypeOK'
<1> SUFFICES ASSUME TypeOK, [Next]_vars PROVE TypeOK'
  OBVIOUS
<1>1. CASE Ask
  <2>1. services[Tribe] \in Entry
    BY <1>1, AccessAssumption DEF Ask, Known, TypeOK
  <2> QED
    BY <1>1, <2>1, EntryFields DEF Ask, TypeOK
<1>2. CASE Reject
  BY <1>2 DEF Reject, TypeOK
<1>3. CASE Issue
  <2>1. asking \in Demand
    BY <1>3 DEF Issue, TypeOK
  <2>2. [scopes |-> CollectScopes(asking), permissions |-> Permissions,
         fresh |-> TRUE] \in Claims
    BY <2>1, CollectedType DEF Claims
  <2> QED
    BY <1>3, <2>2, AccessAssumption DEF Issue, TypeOK
<1>4. CASE Refresh
  BY <1>4, RefreshedType DEF Refresh, TypeOK
<1>5. ASSUME NEW s \in Services, NEW entry \in Entry \cup {None}, Change(s, entry)
      PROVE  TypeOK'
  BY <1>5 DEF Change, TypeOK
<1>6. CASE UNCHANGED vars
  BY <1>6 DEF vars, TypeOK
<1> QED
  BY <1>1, <1>2, <1>3, <1>4, <1>5, <1>6 DEF Next

\* Entries, claims and demands keep their types; in particular no scope is
\* collected of a service that is not registered.
THEOREM AccessTypeCorrect == Spec => []TypeOK
<1>1. Init => TypeOK
  BY InitType
<1>2. TypeOK /\ [Next]_vars => TypeOK'
  BY NextType
<1> QED
  BY <1>1, <1>2, PTL DEF Spec

-----------------------------------------------------------------------------
(* What the request for a token has read, and what the token holds, is up  *)
(* to date except for the services in `changed`.                           *)

AskedCurrent ==
  asking # None /\ Tribe \notin changed =>
    Known(Tribe) /\ asking = Demands(services[Tribe])

\* One request or one token at a time.
OneAtATime == asking # None => token = None

TokenCurrent ==
  token # None /\ token.fresh /\ Tribe \notin changed =>
    \A s \in Services :
      CanConsume(s) /\ s \notin changed => GetRequiredScopes(s) \subseteq token.scopes

RefreshedEmpty == token # None /\ ~token.fresh => token.scopes = {} /\ token.permissions = {}

AccessInv ==
  /\ AskedCurrent
  /\ OneAtATime
  /\ TokenCurrent
  /\ RefreshedEmpty
  /\ NoExcessScope

LEMMA InitInv == Init => AccessInv
BY DEF Init, AccessInv, AskedCurrent, OneAtATime, TokenCurrent, RefreshedEmpty,
       NoExcessScope

\* A change of s leaves the lookups of all other services alone.
LEMMA ChangeElsewhere ==
  ASSUME TypeOK, NEW s \in Services, NEW entry \in Entry \cup {None}, Change(s, entry)
  PROVE  /\ \A t \in Services : t # s => /\ services'[t] = services[t]
                                         /\ GetRequiredScopes(t)' = GetRequiredScopes(t)
         /\ s # Tribe => \A t \in Services : CanConsume(t)' = CanConsume(t)
<1>1. \A t \in Services : t # s => services'[t] = services[t]
  BY DEF Change, TypeOK
<1> QED
  BY <1>1, AccessAssumption DEF GetRequiredScopes, CanConsume, Known

LEMMA IssueKeepsInv == TypeOK /\ AccessInv /\ Issue => AccessInv'
<1> SUFFICES ASSUME TypeOK, AccessInv, Issue PROVE AccessInv'
  OBVIOUS
<1>1. /\ asking \in Demand /\ asking' = None /\ services' = services
      /\ changed' = changed \cap {Tribe}
      /\ token' = [scopes |-> CollectScopes(asking), permissions |-> Permissions,
                   fresh |-> TRUE]
  BY DEF Issue, TypeOK
<1>2. token'.scopes = CollectScopes(asking) /\ token'.fresh
  BY <1>1
<1>3. Tribe \notin changed' =>
        /\ changed' = {}
        /\ Known(Tribe) /\ asking = Demands(services[Tribe])
  BY <1>1 DEF AccessInv, AskedCurrent, Issue
<1>4. Tribe \notin changed' =>
        CollectScopes(asking) = GetRequiredScopes(Tribe) \cup
          UNION {GetRequiredScopes(s) : s \in {t \in Services : CanConsume(t)}}
  <2> SUFFICES ASSUME Tribe \notin changed'
               PROVE  CollectScopes(asking) = GetRequiredScopes(Tribe) \cup
                        UNION {GetRequiredScopes(s) : s \in {t \in Services : CanConsume(t)}}
    OBVIOUS
  <2>1. services[Tribe] \in Entry
    BY <1>3, AccessAssumption DEF Known, TypeOK
  <2>2. /\ asking.requiredScopes = GetRequiredScopes(Tribe)
        /\ asking.consumes = {t \in Services : CanConsume(t)}
    BY <1>3, <2>1, EntryFields DEF GetRequiredScopes, CanConsume
  <2> QED
    BY <2>2 DEF CollectScopes
<1>5. \A s \in Services : /\ GetRequiredScopes(s)' = GetRequiredScopes(s)
                          /\ CanConsume(s)' = CanConsume(s)
  BY <1>1 DEF GetRequiredScopes, CanConsume, Known
<1>6. TokenCurrent'
  BY <1>2, <1>4, <1>5 DEF TokenCurrent
<1>7. NoExcessScope'
  BY <1>2, <1>4, <1>5, AccessAssumption DEF NoExcessScope
<1> QED
  BY <1>1, <1>2, <1>6, <1>7 DEF AccessInv, AskedCurrent, OneAtATime, RefreshedEmpty

LEMMA ChangeKeepsInv ==
  ASSUME TypeOK, AccessInv, NEW s \in Services, NEW entry \in Entry \cup {None},
         Change(s, entry)
  PROVE  AccessInv'
<1>1. changed' = changed \cup {s} /\ UNCHANGED <<asking, token>>
  BY DEF Change
<1>2. AskedCurrent'
  BY <1>1, ChangeElsewhere, AccessAssumption DEF AccessInv, AskedCurrent, Known
<1>3. TokenCurrent'
  BY <1>1, ChangeElsewhere DEF AccessInv, TokenCurrent
<1>4. NoExcessScope'
  <2> SUFFICES ASSUME token # None, NEW x \in token.scopes, s # Tribe, Tribe \notin changed
               PROVE  \/ x \in GetRequiredScopes(Tribe)'
                      \/ \E t \in Services : CanConsume(t)' /\ x \in GetRequiredScopes(t)'
                      \/ \E t \in changed' : CanConsume(t)'
    BY <1>1 DEF NoExcessScope
  <2>1. \/ x \in GetRequiredScopes(Tribe)
        \/ \E t \in Services : CanConsume(t) /\ x \in GetRequiredScopes(t)
        \/ \E t \in changed : CanConsume(t)
    BY DEF AccessInv, NoExcessScope
  <2>2. CASE x \in GetRequiredScopes(Tribe)
    BY <2>2, ChangeElsewhere, AccessAssumption
  <2>3. ASSUME NEW t \in Services, CanConsume(t), x \in GetRequiredScopes(t)
        PROVE  \/ \E u \in Services : CanConsume(u)' /\ x \in GetRequiredScopes(u)'
               \/ \E u \in changed' : CanConsume(u)'
    BY <1>1, <2>3, ChangeElsewhere
  <2>4. ASSUME NEW t \in changed, CanConsume(t)
        PROVE  \E u \in changed' : CanConsume(u)'
    BY <1>1, <2>4, ChangeElsewhere DEF TypeOK
  <2> QED
    BY <2>1, <2>2, <2>3, <2>4
<1> QED
  BY <1>1, <1>2, <1>3, <1>4 DEF AccessInv, OneAtATime, RefreshedEmpty

LEMMA NextInv == TypeOK /\ AccessInv /\ [Next]_vars => AccessInv'
<1> SUFFICES ASSUME TypeOK, AccessInv, [Next]_vars PROVE AccessInv'
  OBVIOUS
<1>1. CASE Ask
  BY <1>1 DEF Ask, AccessInv, AskedCurrent, OneAtATime, TokenCurrent,
              RefreshedEmpty, NoExcessScope, Known
<1>2. CASE Reject
  BY <1>2 DEF Reject, AccessInv, AskedCurrent, OneAtATime, TokenCurrent,
              RefreshedEmpty, NoExcessScope
<1>3. CASE Issue
  BY <1>3, IssueKeepsInv
<1>4. CASE Refresh
  <2>1. /\ token' = Refreshed /\ token # None
        /\ UNCHANGED <<services, asking, changed>>
    BY <1>4 DEF Refresh
  <2>2. ~token'.fresh /\ token'.scopes = {} /\ token'.permissions = {}
    BY <2>1 DEF Refreshed
  <2>3. asking = None
    BY <2>1 DEF AccessInv, OneAtATime
  <2> QED
    BY <2>1, <2>2, <2>3 DEF AccessInv, AskedCurrent, OneAtATime, TokenCurrent,
                        RefreshedEmpty, NoExcessScope
<1>5. ASSUME NEW s \in Services, NEW entry \in Entry \cup {None}, Change(s, entry)
      PROVE  AccessInv'
  BY <1>5, ChangeKeepsInv
<1>6. CASE UNCHANGED vars
  BY <1>6 DEF vars, AccessInv, AskedCurrent, OneAtATime, TokenCurrent, RefreshedEmpty,
              NoExcessScope, GetRequiredScopes, CanConsume, Known
<1> QED
  BY <1>1, <1>2, <1>3, <1>4, <1>5, <1>6 DEF Next

LEMMA InvHolds == Spec => [](TypeOK /\ AccessInv)
<1>1. Init => TypeOK /\ AccessInv
  BY InitType, InitInv
<1>2. TypeOK /\ AccessInv /\ [Next]_vars => (TypeOK /\ AccessInv)'
  BY NextType, NextInv
<1> QED
  BY <1>1, <1>2, PTL DEF Spec

-----------------------------------------------------------------------------
(* Properties.                                                             *)

\* The scopes of a token have a reason, unless the registry has changed.
THEOREM AccessNoExcess == Spec => []NoExcessScope
<1>1. AccessInv => NoExcessScope
  BY DEF AccessInv
<1> QED
  BY <1>1, InvHolds, PTL

\* A registry at rest never makes issueToken and checkScopes disagree.
THEOREM AccessDenialMeansChange == Spec => []DenialMeansChange
<1>1. AccessInv => DenialMeansChange
  BY DEF AccessInv, TokenCurrent, DenialMeansChange, Insufficient, Eligible, MissingScopes
<1> QED
  BY <1>1, InvHolds, PTL

\* listServices, issueToken and proxyRequest agree on what a tribe may call.
THEOREM AccessListKeepsPromise == Spec => []ListKeepsPromise
<1>1. AccessInv => ListKeepsPromise
  BY DEF AccessInv, TokenCurrent, ListKeepsPromise, ListServices, Passes, Eligible,
         MissingScopes
<1> QED
  BY <1>1, InvHolds, PTL

\* Without a change of the registry or a token that is issued, nothing comes
\* into the tribe's reach.
THEOREM AccessReachGrows == Spec => ReachGrowsByRegistry
<1>1. TypeOK /\ AccessInv /\ [Next]_vars =>
        (services' = services /\ asking = None =>
           \A ns \in Namespace, s \in Services : Passes(ns, s)' => Passes(ns, s))
  <2> SUFFICES ASSUME TypeOK, AccessInv, [Next]_vars, services' = services, asking = None,
                      NEW ns \in Namespace, NEW s \in Services, Passes(ns, s)'
               PROVE  Passes(ns, s)
    OBVIOUS
  <2>1. Eligible(ns, s)' = Eligible(ns, s)
        /\ GetRequiredScopes(s)' = GetRequiredScopes(s)
    BY DEF Eligible, CanConsume, Known, GetRequiredScopes
  <2>2. Eligible(ns, s) /\ token' # None
        /\ GetRequiredScopes(s) \subseteq token'.scopes \cup token'.permissions
    BY <2>1 DEF Passes, MissingScopes
  <2>3. CASE token' = token
    BY <2>2, <2>3 DEF Passes, MissingScopes
  <2>4. CASE Refresh
    <3>1. token # None /\ token'.scopes = {} /\ token'.permissions = {}
      BY <2>4 DEF Refresh, Refreshed
    <3> QED
      BY <2>2, <3>1 DEF Passes, MissingScopes
  <2>5. CASE Ask
    BY <2>2, <2>5 DEF Ask
  <2>6. Refresh \/ Ask \/ token' = token
    BY DEF Next, Reject, Issue, Change, vars
  <2> QED
    BY <2>3, <2>4, <2>5, <2>6
<1> QED
  BY <1>1, InvHolds, PTL DEF Spec, ReachGrowsByRegistry
=============================================================================
