-------------------------- MODULE ForwardingProofs --------------------------
(***************************************************************************)
(* Proofs about Forwarding, for any number of requests and any thresholds. *)
(*                                                                         *)
(* Every action of the gate is built from one of its breaker, or leaves it *)
(* alone, so what is proved of the breaker can be used: its promise at the *)
(* gate, and the types of its variables.  What has to be proved of the     *)
(* gate itself is the invariant that matches what the breaker counts as    *)
(* running with what is running, and those that explain its failure count: *)
(* while the breaker of a proxied service is CLOSED, it has counted        *)
(* exactly the failures that are the upstream's own, and any CLOSED        *)
(* breaker at least those.                                                 *)
(***************************************************************************)
EXTENDS Forwarding, TLAPS

-----------------------------------------------------------------------------
(* The steps of the breaker.                                               *)

LEMMA StepDrivesBreaker == [Next]_vars => [Breaker!Next]_(Breaker!vars)
<1> SUFFICES ASSUME [Next]_vars
             PROVE  Breaker!Next \/ UNCHANGED Breaker!vars
  OBVIOUS
<1> USE DEF Breaker!vars, breaker
<1>1. ASSUME NEW r \in Requests,
             Arrive(r) \/ Throttle(r) \/ TooMany(r) \/ Unauthorized(r)
               \/ NotFound(r) \/ Gone(r) \/ Forbidden(r)
      PROVE  UNCHANGED Breaker!vars
  BY <1>1 DEF Arrive, Throttle, TooMany, Unauthorized, NotFound, Gone, Forbidden, Refuse
<1>2. ASSUME NEW r \in Requests, FailFast(r) PROVE UNCHANGED Breaker!vars
  BY <1>2 DEF FailFast, Breaker!Reject
<1>3. ASSUME NEW r \in Requests, Forward(r) PROVE Breaker!Next
  BY <1>3 DEF Forward, Breaker!Next
<1>4. ASSUME NEW r \in Requests, NEW o \in Outcome, UpstreamAnswers(r, o)
      PROVE  Breaker!Next
  BY <1>4 DEF UpstreamAnswers, Report, Breaker!Next, Breaker!Fail, Breaker!Succeed
<1>5. ASSUME NEW r \in Requests, BodyBreaks(r) PROVE Breaker!Next
  BY <1>5 DEF BodyBreaks, Breaker!Next, Breaker!Fail
<1>6. ASSUME NEW r \in Requests, BodyEnds(r) PROVE Breaker!Next
  BY <1>6 DEF BodyEnds, Breaker!Next
<1>7. ASSUME NEW r \in Requests, ClientGone(r) PROVE Breaker!Next
  BY <1>7 DEF ClientGone, Breaker!Next
<1>8. ASSUME AdminReset \/ Destroy \/ Restart PROVE Breaker!Next
  BY <1>8 DEF AdminReset, Destroy, Restart, Breaker!Next
<1>9. ASSUME Tick PROVE Breaker!Next
  BY <1>9 DEF Tick, Breaker!Next
<1>10. ASSUME UNCHANGED vars PROVE UNCHANGED Breaker!vars
  BY <1>10 DEF vars
<1> QED
  BY <1>1, <1>2, <1>3, <1>4, <1>5, <1>6, <1>7, <1>8, <1>9, <1>10 DEF Next

\* By construction: each action names the step of the breaker that it takes.
LEMMA GateRunsBreaker == Spec => Breaker!Spec
<1>1. Init => Breaker!Init
  BY DEF Init
<1> QED
  BY <1>1, StepDrivesBreaker, PTL DEF Spec, Breaker!Spec

-----------------------------------------------------------------------------
(* What is proved of the breaker holds at the gate.                        *)

Proved == INSTANCE CircuitBreakerProofs WITH Calls <- Requests

LEMMA GateMeetsBreaker == Proved!BreakerAssumption
BY GateAssumption DEF Proved!BreakerAssumption

LEMMA SameInit == Breaker!Init => Proved!Init
BY DEF Breaker!Init, Proved!Init

\* The breaker of this module is the one the theorems are about.
LEMMA SameNext == [Breaker!Next]_(Breaker!vars) => [Proved!Next]_(Proved!vars)
<1>1. ASSUME NEW c \in Requests, Breaker!Admit(c) PROVE Proved!Admit(c)
  BY <1>1 DEF Breaker!Admit, Proved!Admit, Breaker!AdmitsFreely, Proved!AdmitsFreely
<1>2. ASSUME NEW c \in Requests, Breaker!AdmitTrial(c) PROVE Proved!AdmitTrial(c)
  BY <1>2 DEF Breaker!AdmitTrial, Proved!AdmitTrial,
              Breaker!CooledDown, Proved!CooledDown,
              Breaker!FreshSuccessCount, Proved!FreshSuccessCount,
              Breaker!Announce, Proved!Announce
<1>3. ASSUME NEW c \in Requests, Breaker!Reject(c) PROVE Proved!Reject(c)
  BY <1>3 DEF Breaker!Reject, Proved!Reject, Breaker!CooledDown, Proved!CooledDown,
              Breaker!vars, Proved!vars
<1>4. ASSUME NEW c \in Requests, Breaker!SucceedOutsideTrial(c) PROVE Proved!SucceedOutsideTrial(c)
  BY <1>4 DEF Breaker!SucceedOutsideTrial, Proved!SucceedOutsideTrial,
              Breaker!Answered, Proved!Answered
<1>5. ASSUME NEW c \in Requests, Breaker!SucceedInTrial(c) PROVE Proved!SucceedInTrial(c)
  BY <1>5 DEF Breaker!SucceedInTrial, Proved!SucceedInTrial,
              Breaker!Answered, Proved!Answered, Breaker!Recovered, Proved!Recovered,
              Breaker!Bump, Proved!Bump
<1>6. ASSUME NEW c \in Requests, Breaker!Recover(c) PROVE Proved!Recover(c)
  BY <1>6 DEF Breaker!Recover, Proved!Recover, Breaker!Answered, Proved!Answered,
              Breaker!Recovered, Proved!Recovered, Breaker!Announce, Proved!Announce,
              Breaker!Bump, Proved!Bump
<1>7. ASSUME NEW c \in Requests, Breaker!FailBelowThreshold(c) PROVE Proved!FailBelowThreshold(c)
  BY <1>7 DEF Breaker!FailBelowThreshold, Proved!FailBelowThreshold,
              Breaker!Answered, Proved!Answered, Breaker!BodyOver, Proved!BodyOver,
              Breaker!Trips, Proved!Trips, Breaker!Bump, Proved!Bump,
              Breaker!AgeAfterFailure, Proved!AgeAfterFailure
<1>8. ASSUME NEW c \in Requests, Breaker!Trip(c) PROVE Proved!Trip(c)
  BY <1>8 DEF Breaker!Trip, Proved!Trip, Breaker!Answered, Proved!Answered,
              Breaker!BodyOver, Proved!BodyOver, Breaker!Trips, Proved!Trips,
              Breaker!Bump, Proved!Bump,
              Breaker!AgeAfterFailure, Proved!AgeAfterFailure,
              Breaker!Announce, Proved!Announce
<1>9. ASSUME NEW c \in Requests, Breaker!Reopen(c) PROVE Proved!Reopen(c)
  BY <1>9 DEF Breaker!Reopen, Proved!Reopen, Breaker!Answered, Proved!Answered,
              Breaker!BodyOver, Proved!BodyOver, Breaker!Bump, Proved!Bump,
              Breaker!AgeAfterFailure, Proved!AgeAfterFailure,
              Breaker!Announce, Proved!Announce
<1>10. ASSUME NEW c \in Requests, Breaker!Abandon(c) PROVE Proved!Abandon(c)
  BY <1>10 DEF Breaker!Abandon, Proved!Abandon, Breaker!Answered, Proved!Answered
<1>11. ASSUME NEW c \in Requests, Breaker!Finish(c) PROVE Proved!Finish(c)
  BY <1>11 DEF Breaker!Finish, Proved!Finish, Breaker!BodyOver, Proved!BodyOver
<1>12. Breaker!Reset => Proved!Reset
  BY DEF Breaker!Reset, Proved!Reset, Breaker!NotifiedByReset, Proved!NotifiedByReset
<1>13. Breaker!Tick => Proved!Tick
  BY DEF Breaker!Tick, Proved!Tick, Breaker!Bump, Proved!Bump
<1>14. Breaker!Next => Proved!Next
  BY <1>1, <1>2, <1>3, <1>4, <1>5, <1>6, <1>7, <1>8, <1>9, <1>10, <1>11, <1>12, <1>13
     DEF Breaker!Next, Proved!Next
<1> QED
  BY <1>14 DEF Breaker!vars, Proved!vars

\* End to end: whatever the guards, the handlers, the clients, destroy() and
\* the operator do, requests find a breaker that stops, rests, tries and resumes
\* as FailFast says.
THEOREM GateKeepsPromise == Spec => Proved!FailsFast
<1>1. Breaker!Spec => Proved!Spec
  BY SameInit, SameNext, PTL DEF Breaker!Spec, Proved!Spec
<1>2. Proved!Spec => Proved!FailsFast
  BY GateMeetsBreaker, Proved!BreakerKeepsPromise
<1> QED
  BY <1>1, <1>2, GateRunsBreaker

-----------------------------------------------------------------------------
(* Types.                                                                  *)

LEMMA BreakerKeepsType ==
  Breaker!TypeOK /\ [Breaker!Next]_(Breaker!vars) => Breaker!TypeOK'
<1> SUFFICES ASSUME Breaker!TypeOK, [Breaker!Next]_(Breaker!vars)
             PROVE  Breaker!TypeOK'
  OBVIOUS
<1> USE GateAssumption
    DEF Breaker!TypeOK, Breaker!CircuitState, Breaker!CallState, Breaker!Answered,
        Breaker!BodyOver, Breaker!Announce
<1>1. ASSUME NEW r \in Requests, Breaker!Admit(r) \/ Breaker!AdmitTrial(r)
      PROVE  Breaker!TypeOK'
  BY <1>1 DEF Breaker!Admit, Breaker!AdmitsFreely, Breaker!AdmitTrial,
              Breaker!FreshSuccessCount
<1>2. ASSUME NEW r \in Requests, Breaker!SucceedOutsideTrial(r)
      PROVE  Breaker!TypeOK'
  BY <1>2 DEF Breaker!SucceedOutsideTrial
<1>3. ASSUME NEW r \in Requests, Breaker!SucceedInTrial(r) \/ Breaker!Recover(r)
      PROVE  Breaker!TypeOK'
  <2>1. hist' = [streak |-> 0, trial |-> Breaker!Bump(hist.trial, SuccessThreshold),
                 opened |-> hist.opened]
    BY <1>3 DEF Breaker!SucceedInTrial, Breaker!Recover
  <2>2. Breaker!Bump(hist.trial, SuccessThreshold) \in 0..SuccessThreshold
    BY DEF Breaker!Bump
  <2>3. successCount' \in 0..(SuccessThreshold - 1)
    BY <1>3 DEF Breaker!SucceedInTrial, Breaker!Recover, Breaker!Recovered
  <2>4. /\ state' \in Breaker!CircuitState /\ notified' \in Breaker!CircuitState \cup {"none"}
        /\ failureCount' \in 0..FailureThreshold /\ age' = age
        /\ call' \in [Requests -> Breaker!CallState]
    BY <1>3 DEF Breaker!SucceedInTrial, Breaker!Recover
  <2> QED
    BY <2>1, <2>2, <2>3, <2>4
<1>5. ASSUME NEW r \in Requests, Breaker!FailBelowThreshold(r)
      PROVE  Breaker!TypeOK'
  <2>1. hist' = [streak |-> Breaker!Bump(hist.streak, FailureThreshold),
                 trial |-> hist.trial, opened |-> hist.opened]
    BY <1>5 DEF Breaker!FailBelowThreshold
  <2>2. /\ Breaker!Bump(hist.streak, FailureThreshold) \in 0..FailureThreshold
        /\ Breaker!Bump(failureCount, FailureThreshold) \in 0..FailureThreshold
    BY DEF Breaker!Bump
  <2> QED
    BY <1>5, <2>1, <2>2 DEF Breaker!FailBelowThreshold, Breaker!AgeAfterFailure
<1>6. ASSUME NEW r \in Requests, Breaker!Trip(r) \/ Breaker!Reopen(r)
      PROVE  Breaker!TypeOK'
  <2>1. hist' = [streak |-> Breaker!Bump(hist.streak, FailureThreshold),
                 trial |-> hist.trial, opened |-> 0]
    BY <1>6 DEF Breaker!Trip, Breaker!Reopen
  <2>2. /\ Breaker!Bump(hist.streak, FailureThreshold) \in 0..FailureThreshold
        /\ Breaker!Bump(failureCount, FailureThreshold) \in 0..FailureThreshold
    BY DEF Breaker!Bump
  <2> QED
    BY <1>6, <2>1, <2>2 DEF Breaker!Trip, Breaker!Reopen, Breaker!AgeAfterFailure
<1>7. ASSUME NEW r \in Requests,
             Breaker!Abandon(r) \/ Breaker!Finish(r) \/ Breaker!Reject(r)
      PROVE  Breaker!TypeOK'
  BY <1>7 DEF Breaker!Abandon, Breaker!Finish, Breaker!Reject, Breaker!vars
<1>8. ASSUME Breaker!Reset PROVE Breaker!TypeOK'
  BY <1>8 DEF Breaker!Reset, Breaker!NotifiedByReset
<1>9. ASSUME Breaker!Tick PROVE Breaker!TypeOK'
  <2>1. hist' = [streak |-> hist.streak, trial |-> hist.trial,
                 opened |-> Breaker!Bump(hist.opened, ResetTimeout)]
    BY <1>9 DEF Breaker!Tick
  <2>2. /\ Breaker!Bump(hist.opened, ResetTimeout) \in 0..ResetTimeout
        /\ Breaker!Bump(age, ResetTimeout) \in 0..ResetTimeout
    BY DEF Breaker!Bump
  <2> QED
    BY <1>9, <2>1, <2>2 DEF Breaker!Tick
<1>10. ASSUME UNCHANGED Breaker!vars PROVE Breaker!TypeOK'
  BY <1>10 DEF Breaker!vars
<1> QED
  BY <1>1, <1>2, <1>3, <1>5, <1>6, <1>7, <1>8, <1>9, <1>10
     DEF Breaker!Next, Breaker!Succeed, Breaker!Fail

LEMMA InitType == Init => TypeOK
<1> SUFFICES ASSUME Init
             PROVE  TypeOK
  OBVIOUS
<1>1. Breaker!TypeOK
  BY GateAssumption
     DEF Init, Breaker!Init, Breaker!TypeOK, Breaker!CircuitState, Breaker!CallState
<1>2. /\ exists \in BOOLEAN /\ destroyed \in BOOLEAN
      /\ kind = "external" => exists /\ ~destroyed
  BY Zenon DEF Init
<1>3. blame \in 0..FailureThreshold /\ kind \in {"proxy", "external"}
  BY GateAssumption DEF Init
<1>4. stage \in [Requests -> Stage]
  BY DEF Init, Stage
<1> QED
  BY <1>1, <1>2, <1>3, <1>4 DEF TypeOK

LEMMA BlamedType ==
  ASSUME blame \in 0..FailureThreshold, NEW o
  PROVE  Blamed(o) \in 0..FailureThreshold
BY GateAssumption DEF Blamed

LEMMA NextType == TypeOK /\ [Next]_vars => TypeOK'
<1> SUFFICES ASSUME TypeOK, [Next]_vars
             PROVE  TypeOK'
  OBVIOUS
<1>1. Breaker!TypeOK'
  BY StepDrivesBreaker, BreakerKeepsType DEF TypeOK
<1> HIDE DEF Breaker!TypeOK
<1> USE <1>1 DEF TypeOK, Stage, MovesTo, Leaves
<1>2. ASSUME NEW r \in Requests,
             Arrive(r) \/ Throttle(r) \/ TooMany(r) \/ Unauthorized(r)
               \/ NotFound(r) \/ Gone(r) \/ Forbidden(r)
      PROVE  TypeOK'
  BY <1>2 DEF Arrive, Throttle, TooMany, Unauthorized, NotFound, Gone, Forbidden, Refuse
<1>3. ASSUME NEW r \in Requests, FailFast(r) \/ Forward(r) PROVE TypeOK'
  <2>1. stage' \in [Requests -> Stage]
    BY <1>3 DEF FailFast, Forward
  <2>2. exists' \in BOOLEAN /\ (exists => exists')
    BY <1>3 DEF FailFast, Forward, GetOrCreateCircuitBreaker
  <2>3. UNCHANGED <<kind, destroyed, blame>>
    BY <1>3 DEF FailFast, Forward
  <2> QED
    BY <2>1, <2>2, <2>3
<1>4. ASSUME NEW r \in Requests, NEW o \in Outcome, UpstreamAnswers(r, o)
      PROVE  TypeOK'
  <2>1. stage' \in [Requests -> Stage]
    <3>1. MovesTo(r, "body") \/ MovesTo(r, "none")
      BY <1>4 DEF UpstreamAnswers, GoesOn
    <3> QED
      BY <3>1
  <2>2. blame' \in 0..FailureThreshold
    BY <1>4, BlamedType DEF UpstreamAnswers
  <2>3. UNCHANGED <<kind, exists, destroyed>>
    BY <1>4 DEF UpstreamAnswers
  <2> QED
    BY <2>1, <2>2, <2>3
<1>5. ASSUME NEW r \in Requests, BodyBreaks(r) PROVE TypeOK'
  <2>1. blame' \in 0..FailureThreshold
    BY <1>5, BlamedType DEF BodyBreaks
  <2> QED
    BY <1>5, <2>1 DEF BodyBreaks
<1>6. ASSUME NEW r \in Requests, BodyEnds(r) \/ ClientGone(r) PROVE TypeOK'
  BY <1>6 DEF BodyEnds, ClientGone
<1>7. ASSUME AdminReset \/ Destroy \/ Restart PROVE TypeOK'
  <2>1. blame' = 0 /\ UNCHANGED <<kind, stage>>
    BY <1>7 DEF AdminReset, Destroy, Restart
  <2>2. exists' \in BOOLEAN /\ destroyed' \in BOOLEAN
    BY <1>7 DEF AdminReset, Destroy, Restart
  <2>3. kind = "external" => UNCHANGED <<exists, destroyed>>
    BY <1>7 DEF AdminReset, Destroy, Restart
  <2> QED
    BY <2>1, <2>2, <2>3, GateAssumption
<1>8. ASSUME Tick PROVE TypeOK'
  BY <1>8 DEF Tick
<1>9. ASSUME UNCHANGED vars PROVE TypeOK'
  BY <1>9 DEF vars
<1> QED
  BY <1>2, <1>3, <1>4, <1>5, <1>6, <1>7, <1>8, <1>9 DEF Next

\* Types, and no breaker of an external API is ever lost.
THEOREM GateTypeCorrect == Spec => []TypeOK
BY InitType, NextType, PTL DEF Spec

-----------------------------------------------------------------------------
(* Admissions.                                                             *)

LEMMA InitMatch == Init => AdmissionsMatch
BY DEF Init, Breaker!Init, AdmissionsMatch

\* What one request r does to its place and to its admission, if no other
\* request moves, decides about the whole invariant.
Matches(r) ==
  /\ (call[r] \in {"CLOSED", "HALF_OPEN"}) <=> (stage[r] = "upstream")
  /\ (call[r] = "body") <=> (stage[r] = "body")

LEMMA MatchOne ==
  ASSUME TypeOK, AdmissionsMatch, NEW r \in Requests, NEW s, NEW k,
         stage' = [stage EXCEPT ![r] = s], call' = [call EXCEPT ![r] = k],
         (k \in {"CLOSED", "HALF_OPEN"}) <=> (s = "upstream"),
         (k = "body") <=> (s = "body")
  PROVE  AdmissionsMatch'
<1>1. /\ stage'[r] = s /\ call'[r] = k
      /\ \A q \in Requests : q # r => stage'[q] = stage[q] /\ call'[q] = call[q]
  BY DEF TypeOK, Breaker!TypeOK
<1> QED
  BY <1>1 DEF AdmissionsMatch

LEMMA NextMatch == TypeOK /\ AdmissionsMatch /\ [Next]_vars => AdmissionsMatch'
<1> SUFFICES ASSUME TypeOK, AdmissionsMatch, [Next]_vars
             PROVE  AdmissionsMatch'
  OBVIOUS
<1> USE DEF MovesTo, Leaves
<1>1. \A r \in Requests : /\ call[r] \in Breaker!CallState
                          /\ stage[r] \in Stage
                          /\ Matches(r)
  BY DEF TypeOK, Breaker!TypeOK, AdmissionsMatch, Matches
<1>2. ASSUME NEW r \in Requests, stage[r] \in {"none", "throttle", "verify"}
      PROVE  call[r] = "idle"
  BY <1>1, <1>2 DEF Matches, Breaker!CallState
<1>3. ASSUME NEW r \in Requests, NEW s \in {"none", "throttle", "verify"},
             stage[r] \in {"none", "throttle", "verify"},
             stage' = [stage EXCEPT ![r] = s], UNCHANGED call
      PROVE  AdmissionsMatch'
  <2>1. call' = [call EXCEPT ![r] = "idle"]
    BY <1>2, <1>3 DEF TypeOK, Breaker!TypeOK
  <2> QED
    BY <1>3, <2>1, MatchOne
<1>4. ASSUME NEW r \in Requests,
             Arrive(r) \/ Throttle(r) \/ TooMany(r) \/ Unauthorized(r)
               \/ NotFound(r) \/ Gone(r) \/ Forbidden(r) \/ FailFast(r)
      PROVE  AdmissionsMatch'
  <2>1. stage[r] \in {"none", "throttle", "verify"} /\ UNCHANGED call
    BY <1>4 DEF Arrive, Throttle, TooMany, Unauthorized, NotFound, Gone, Forbidden,
                Refuse, FailFast, Breaker!Reject, Breaker!vars, breaker
  <2>2. PICK s \in {"none", "throttle", "verify"} : stage' = [stage EXCEPT ![r] = s]
    BY <1>4 DEF Arrive, Throttle, TooMany, Unauthorized, NotFound, Gone, Forbidden,
                Refuse, FailFast
  <2> QED
    BY <1>3, <2>1, <2>2
<1>5. ASSUME NEW r \in Requests, Forward(r) PROVE AdmissionsMatch'
  <2>1. PICK k \in {"CLOSED", "HALF_OPEN"} : call' = [call EXCEPT ![r] = k]
    BY <1>5 DEF Forward, Breaker!Admit, Breaker!AdmitTrial, Breaker!AdmitsFreely,
                TypeOK, Breaker!TypeOK, Breaker!CircuitState
  <2>2. stage' = [stage EXCEPT ![r] = "upstream"]
    BY <1>5 DEF Forward
  <2> QED
    BY <2>1, <2>2, MatchOne
<1>6. ASSUME NEW r \in Requests, NEW o \in Outcome, UpstreamAnswers(r, o)
      PROVE  AdmissionsMatch'
  <2>1. call[r] \in {"CLOSED", "HALF_OPEN"}
    BY <1>1, <1>6 DEF UpstreamAnswers, Matches
  <2>2. PICK k \in {"idle", "body"} : call' = [call EXCEPT ![r] = k]
    BY <1>6, <2>1
       DEF UpstreamAnswers, Report, Breaker!Abandon, Breaker!Fail, Breaker!Succeed,
           Breaker!SucceedOutsideTrial, Breaker!SucceedInTrial, Breaker!Recover,
           Breaker!FailBelowThreshold, Breaker!Trip, Breaker!Reopen,
           Breaker!Answered, Breaker!BodyOver
  <2>3. call'[r] = k
    BY <2>2 DEF TypeOK, Breaker!TypeOK
  <2>4. stage' = [stage EXCEPT ![r] = IF k = "body" THEN "body" ELSE "none"]
    BY <1>6, <2>3 DEF UpstreamAnswers, GoesOn
  <2>5. CASE k = "body"
    BY <2>2, <2>4, <2>5, MatchOne
  <2>6. CASE k = "idle"
    BY <2>2, <2>4, <2>6, MatchOne
  <2> QED
    BY <2>2, <2>5, <2>6
<1>7. ASSUME NEW r \in Requests, BodyBreaks(r) \/ BodyEnds(r) \/ ClientGone(r)
      PROVE  AdmissionsMatch'
  <2>1. stage' = [stage EXCEPT ![r] = "none"]
    BY <1>7 DEF BodyBreaks, BodyEnds, ClientGone
  <2>2. stage[r] = "body" => call[r] = "body"
    BY <1>1 DEF Matches
  <2>3. call' = [call EXCEPT ![r] = "idle"]
    <3>1. CASE BodyBreaks(r)
      BY <3>1, <2>2
         DEF BodyBreaks, Breaker!Finish, Breaker!Fail, Breaker!FailBelowThreshold,
             Breaker!Trip, Breaker!Reopen, Breaker!Answered, Breaker!BodyOver
    <3>2. CASE BodyEnds(r)
      BY <3>2 DEF BodyEnds, Breaker!Finish, Breaker!BodyOver
    <3>3. CASE ClientGone(r)
      <4>1. CASE stage[r] = "body" /\ Breaker!Finish(r)
        BY <4>1 DEF Breaker!Finish, Breaker!BodyOver
      <4>2. CASE Breaker!Abandon(r) /\ call'[r] = "idle"
        <5>1. PICK k \in {"idle", "body"} : call' = [call EXCEPT ![r] = k]
          BY <4>2 DEF Breaker!Abandon, Breaker!Answered
        <5> QED
          BY <4>2, <5>1 DEF TypeOK, Breaker!TypeOK
      <4> QED
        BY <3>3, <4>1, <4>2 DEF ClientGone
    <3> QED
      BY <1>7, <3>1, <3>2, <3>3
  <2> QED
    BY <2>1, <2>3, MatchOne
<1>8. ASSUME AdminReset \/ Destroy \/ Restart \/ Tick \/ UNCHANGED vars
      PROVE  AdmissionsMatch'
  <2>1. call' = call /\ stage' = stage
    BY <1>8 DEF AdminReset, Destroy, Restart, Tick, vars, Breaker!Reset, Breaker!Tick
  <2> QED
    BY <2>1 DEF AdmissionsMatch
<1> QED
  BY <1>4, <1>5, <1>6, <1>7, <1>8 DEF Next

\* The breaker has as running exactly what is at the upstream, on every way
\* out of proxyRequest and ExternalService.call.
THEOREM GateAdmissionsMatch == Spec => []AdmissionsMatch
BY InitType, NextType, InitMatch, NextMatch, PTL DEF Spec

-----------------------------------------------------------------------------
(* Blame.                                                                  *)

\* While the breaker of a proxied service is CLOSED its count is the number
\* of failures in a row that are the upstream's own.
CountsBlame == kind = "proxy" /\ state = "CLOSED" => failureCount = blame

LEMMA InitBlame == Init => CountsBlame
BY DEF Init, Breaker!Init, CountsBlame

\* A result that the breaker takes, o for the upstream's part in it.
LEMMA SuccessClearsBlame ==
  ASSUME kind = "proxy", NEW r \in Requests, NEW o, o \notin UpstreamFailure,
         Breaker!Succeed(r), exists, blame' = Blamed(o)
  PROVE  /\ state' = "CLOSED" => failureCount' = blame'
         /\ state = "CLOSED" => state' # "OPEN"
BY DEF Blamed, Breaker!Succeed, Breaker!SucceedOutsideTrial, Breaker!SucceedInTrial,
       Breaker!Recover

LEMMA FailureRaisesBlame ==
  ASSUME TypeOK, CountsBlame, kind = "proxy", NEW r \in Requests,
         NEW o \in UpstreamFailure, Breaker!Fail(r), exists, blame' = Blamed(o)
  PROVE  /\ state' = "CLOSED" => state = "CLOSED" /\ failureCount' = blame'
         /\ state = "CLOSED" /\ state' = "OPEN" => blame' = FailureThreshold
<1>1. blame' = Breaker!Bump(blame, FailureThreshold)
  BY DEF Blamed, Breaker!Bump
<1>2. blame \in 0..FailureThreshold /\ failureCount \in 0..FailureThreshold
  BY DEF TypeOK, Breaker!TypeOK
<1>3. CASE Breaker!FailBelowThreshold(r)
  <2>1. UNCHANGED state /\ failureCount' = Breaker!Bump(failureCount, FailureThreshold)
    BY <1>3 DEF Breaker!FailBelowThreshold
  <2> QED
    BY <1>1, <2>1 DEF CountsBlame
<1>4. CASE Breaker!Trip(r)
  <2>1. state' = "OPEN" /\ failureCount + 1 >= FailureThreshold
    BY <1>4 DEF Breaker!Trip, Breaker!Trips
  <2>2. state = "CLOSED" => blame + 1 >= FailureThreshold
    BY <2>1 DEF CountsBlame
  <2> QED
    BY <1>1, <1>2, <2>1, <2>2, GateAssumption DEF Breaker!Bump
<1>5. CASE Breaker!Reopen(r)
  BY <1>5 DEF Breaker!Reopen
<1> QED
  BY <1>3, <1>4, <1>5 DEF Breaker!Fail

\* Only a reported failure opens a breaker, and every step keeps the count.
OpensFor ==
  kind = "proxy" /\ state = "CLOSED" /\ state' = "OPEN" => blame' = FailureThreshold

LEMMA NextBlame ==
  TypeOK /\ CountsBlame /\ [Next]_vars => CountsBlame' /\ OpensFor
<1> SUFFICES ASSUME TypeOK, CountsBlame, [Next]_vars
             PROVE  CountsBlame' /\ OpensFor
  OBVIOUS
<1>1. ASSUME kind # "proxy" PROVE CountsBlame' /\ OpensFor
  <2>1. UNCHANGED kind
    BY DEF Next, vars, Arrive, Throttle, TooMany, Unauthorized, NotFound, Gone,
           Forbidden, Refuse, FailFast, Forward, UpstreamAnswers, BodyBreaks,
           BodyEnds, ClientGone, AdminReset, Destroy, Restart, Tick
  <2> QED
    BY <1>1, <2>1 DEF CountsBlame, OpensFor
<1> SUFFICES ASSUME kind = "proxy"
             PROVE  CountsBlame' /\ OpensFor
  BY <1>1
<1>2. ASSUME UNCHANGED <<kind, state, failureCount, blame>>
      PROVE  CountsBlame' /\ OpensFor
  BY <1>2 DEF CountsBlame, OpensFor
<1>3. ASSUME NEW r \in Requests,
             Arrive(r) \/ Throttle(r) \/ TooMany(r) \/ Unauthorized(r)
               \/ NotFound(r) \/ Gone(r) \/ Forbidden(r) \/ FailFast(r)
      PROVE  UNCHANGED <<kind, state, failureCount, blame>>
  BY <1>3 DEF Arrive, Throttle, TooMany, Unauthorized, NotFound, Gone, Forbidden,
              Refuse, FailFast, breaker, Breaker!Reject, Breaker!vars
<1>4. ASSUME NEW r \in Requests, Forward(r) PROVE CountsBlame' /\ OpensFor
  <2>1. UNCHANGED <<kind, failureCount, blame>>
    BY <1>4 DEF Forward, Breaker!Admit, Breaker!AdmitTrial
  <2>2. UNCHANGED state \/ state' = "HALF_OPEN"
    BY <1>4 DEF Forward, Breaker!Admit, Breaker!AdmitTrial
  <2> QED
    BY <2>1, <2>2 DEF CountsBlame, OpensFor
<1>5. ASSUME NEW r \in Requests, NEW o \in Outcome, UpstreamAnswers(r, o)
      PROVE  CountsBlame' /\ OpensFor
  <2>1. UNCHANGED kind /\ blame' = Blamed(o) /\ Report(r, o)
    BY <1>5 DEF UpstreamAnswers
  <2>2. CASE ~exists
    BY <2>1, <2>2, <1>2 DEF Report, Blamed, Breaker!Abandon
  <2>3. CASE exists /\ o \in UpstreamFailure
    <3>1. Breaker!Fail(r)
      BY <2>1, <2>3 DEF Report, Failure, ProxyFailure
    <3> QED
      BY <2>1, <2>3, <3>1, FailureRaisesBlame DEF CountsBlame, OpensFor
  <2>4. CASE exists /\ o \notin UpstreamFailure
    <3>1. Breaker!Succeed(r)
      BY <2>1, <2>4 DEF Report, Failure, ProxyFailure
    <3> QED
      BY <2>1, <2>4, <3>1, SuccessClearsBlame DEF CountsBlame, OpensFor
  <2> QED
    BY <2>2, <2>3, <2>4
<1>6. ASSUME NEW r \in Requests, BodyBreaks(r) PROVE CountsBlame' /\ OpensFor
  <2>1. UNCHANGED kind /\ blame' = Blamed("error")
    BY <1>6 DEF BodyBreaks
  <2>2. CASE exists
    <3>1. Breaker!Fail(r) /\ "error" \in UpstreamFailure
      BY <1>6, <2>2 DEF BodyBreaks, UpstreamFailure
    <3> QED
      BY <2>1, <2>2, <3>1, FailureRaisesBlame DEF CountsBlame, OpensFor
  <2>3. CASE ~exists
    BY <1>6, <2>1, <2>3, <1>2 DEF BodyBreaks, Blamed, Breaker!Finish
  <2> QED
    BY <2>2, <2>3
<1>7. ASSUME NEW r \in Requests, BodyEnds(r) \/ ClientGone(r)
      PROVE  UNCHANGED <<kind, state, failureCount, blame>>
  BY <1>7 DEF BodyEnds, ClientGone, Breaker!Finish, Breaker!Abandon
<1>8. ASSUME AdminReset \/ Destroy \/ Restart PROVE CountsBlame' /\ OpensFor
  <2>1. blame' = 0 /\ failureCount' = 0 /\ state' = "CLOSED"
    BY <1>8 DEF AdminReset, Destroy, Restart, Breaker!Reset
  <2> QED
    BY <2>1 DEF CountsBlame, OpensFor
<1>9. ASSUME Tick \/ UNCHANGED vars
      PROVE  UNCHANGED <<kind, state, failureCount, blame>>
  BY <1>9 DEF Tick, vars, Breaker!Tick
<1> QED
  BY <1>2, <1>3, <1>4, <1>5, <1>6, <1>7, <1>8, <1>9 DEF Next

\* A proxied service is cut off only for a full row of its own failures
\* (UPSTREAM_FAILURE_CODES and error), whatever its callers provoke.
THEOREM GateOpensForUpstream == Spec => OpensForUpstream
<1>1. TypeOK /\ CountsBlame /\ [Next]_vars => [OpensFor]_vars
  BY NextBlame
<1> QED
  BY <1>1, InitType, NextType, InitBlame, NextBlame, PTL
     DEF Spec, OpensForUpstream, OpensFor

-----------------------------------------------------------------------------
(* Outages.                                                                *)

\* A CLOSED breaker of any kind has counted all of the upstream's own failures
\* since its last success, if not more, and is below its threshold.
CountsOutage ==
  state = "CLOSED" => blame <= failureCount /\ failureCount < FailureThreshold

LEMMA InitOutage == Init => CountsOutage
BY GateAssumption DEF Init, Breaker!Init, CountsOutage

\* A success comes with no blame.
LEMMA SuccessKeepsOutage ==
  ASSUME NEW r \in Requests, Breaker!Succeed(r), blame' = 0, CountsOutage
  PROVE  CountsOutage'
BY GateAssumption
   DEF CountsOutage, Breaker!Succeed, Breaker!SucceedOutsideTrial,
       Breaker!SucceedInTrial, Breaker!Recover

\* A failure is counted, whether it is the upstream's own or not.
LEMMA FailureKeepsOutage ==
  ASSUME TypeOK, CountsOutage, NEW r \in Requests, Breaker!Fail(r),
         blame' <= blame + 1, blame' \in Nat
  PROVE  CountsOutage'
<1>1. /\ blame \in Nat
      /\ failureCount \in Nat
      /\ FailureThreshold \in Nat
  BY GateAssumption DEF TypeOK, Breaker!TypeOK
<1>2. CASE Breaker!FailBelowThreshold(r)
  <2>1. /\ UNCHANGED state
        /\ ~(failureCount + 1 >= FailureThreshold)
        /\ failureCount' = failureCount + 1
    BY <1>1, <1>2 DEF Breaker!FailBelowThreshold, Breaker!Trips, Breaker!Bump
  <2> QED
    BY <1>1, <2>1 DEF CountsOutage
<1>3. CASE Breaker!Trip(r) \/ Breaker!Reopen(r)
  BY <1>3 DEF Breaker!Trip, Breaker!Reopen, CountsOutage
<1> QED
  BY <1>2, <1>3 DEF Breaker!Fail

LEMMA NextOutage ==
  TypeOK /\ CountsOutage /\ [Next]_vars => CountsOutage'
<1> SUFFICES ASSUME TypeOK, CountsOutage, [Next]_vars
             PROVE  CountsOutage'
  OBVIOUS
<1>1. ASSUME UNCHANGED <<state, failureCount, blame>>  PROVE CountsOutage'
  BY <1>1 DEF CountsOutage
<1>2. ASSUME NEW r \in Requests,
             Arrive(r) \/ Throttle(r) \/ TooMany(r) \/ Unauthorized(r)
               \/ NotFound(r) \/ Gone(r) \/ Forbidden(r) \/ FailFast(r)
               \/ BodyEnds(r) \/ ClientGone(r)
      PROVE  UNCHANGED <<state, failureCount, blame>>
  BY <1>2 DEF Arrive, Throttle, TooMany, Unauthorized, NotFound, Gone, Forbidden,
              Refuse, FailFast, BodyEnds, ClientGone, breaker, Breaker!Reject,
              Breaker!vars, Breaker!Finish, Breaker!Abandon
<1>3. ASSUME NEW r \in Requests, Forward(r)  PROVE CountsOutage'
  <2>1. /\ UNCHANGED <<failureCount, blame>>
        /\ UNCHANGED state \/ state' = "HALF_OPEN"
    BY <1>3 DEF Forward, Breaker!Admit, Breaker!AdmitTrial
  <2> QED
    BY <2>1 DEF CountsOutage
<1>4. ASSUME NEW o  PROVE Blamed(o) \in Nat /\ Blamed(o) <= blame + 1
  BY <1>4, GateAssumption DEF Blamed, TypeOK
<1>5. ASSUME NEW r \in Requests, NEW o \in Outcome, UpstreamAnswers(r, o)
      PROVE  CountsOutage'
  <2>1. blame' = Blamed(o) /\ Report(r, o)
    BY <1>5 DEF UpstreamAnswers
  <2>2. CASE ~exists
    BY <1>1, <2>1, <2>2 DEF Report, Blamed, Breaker!Abandon
  <2>3. CASE exists /\ o \in Failure
    BY <1>4, <2>1, <2>3, FailureKeepsOutage DEF Report
  <2>4. CASE exists /\ o \notin Failure
    <3>1. o \notin UpstreamFailure
      BY <2>4 DEF Failure, ProxyFailure, ExternalFailure, UpstreamFailure, Outcome
    <3>2. blame' = 0 /\ Breaker!Succeed(r)
      BY <2>1, <2>4, <3>1 DEF Report, Blamed
    <3> QED
      BY <3>2, SuccessKeepsOutage
  <2> QED
    BY <2>2, <2>3, <2>4
<1>6. ASSUME NEW r \in Requests, BodyBreaks(r)  PROVE CountsOutage'
  <2>1. blame' = Blamed("error")
    BY <1>6 DEF BodyBreaks
  <2>2. CASE exists
    BY <1>4, <1>6, <2>1, <2>2, FailureKeepsOutage DEF BodyBreaks
  <2>3. CASE ~exists
    BY <1>1, <1>6, <2>1, <2>3 DEF BodyBreaks, Blamed, Breaker!Finish
  <2> QED
    BY <2>2, <2>3
<1>7. ASSUME AdminReset \/ Destroy \/ Restart  PROVE CountsOutage'
  <2>1. blame' = 0 /\ failureCount' = 0
    BY <1>7 DEF AdminReset, Destroy, Restart, Breaker!Reset
  <2> QED
    BY <2>1, GateAssumption DEF CountsOutage
<1>8. ASSUME Tick \/ UNCHANGED vars
      PROVE  UNCHANGED <<state, failureCount, blame>>
  BY <1>8 DEF Tick, vars, Breaker!Tick
<1> QED
  BY <1>1, <1>2, <1>3, <1>5, <1>6, <1>7, <1>8 DEF Next

\* A full row of the upstream's own failures, of whatever requests, finds the
\* breaker OPEN or on trial: no answer that comes late, no caller's error and no
\* handler that is destroyed keeps an outage from being noticed.
THEOREM GateCutsOffOutage == Spec => []OutageIsCutOff
<1>1. TypeOK /\ CountsOutage => OutageIsCutOff
  BY GateAssumption DEF TypeOK, Breaker!TypeOK, CountsOutage, OutageIsCutOff
<1> QED
  BY <1>1, InitType, NextType, InitOutage, NextOutage, PTL DEF Spec

-----------------------------------------------------------------------------
(* Refusals.                                                               *)

\* Rate, token, rights and lifecycle are checked without touching a breaker:
\* an OPEN one is left only by a request that goes to the upstream.
THEOREM GateOnlyTrialsReopen == Spec => OnlyTrialsReopen
<1> DEFINE Trial == \E r \in Requests : stage[r] = "verify" /\ stage'[r] = "upstream"
<1>1. TypeOK /\ [Next]_vars => [state = "OPEN" /\ state' = "HALF_OPEN" => Trial]_vars
  <2> SUFFICES ASSUME TypeOK, Next, state = "OPEN", state' = "HALF_OPEN"
               PROVE  Trial
    BY DEF vars
  <2>1. ASSUME NEW r \in Requests, Forward(r) PROVE Trial
    <3>1. stage[r] = "verify" /\ stage' = [stage EXCEPT ![r] = "upstream"]
      BY <2>1 DEF Forward, MovesTo
    <3> QED
      BY <3>1 DEF TypeOK
  <2>2. ASSUME NEW r \in Requests,
               Arrive(r) \/ Throttle(r) \/ TooMany(r) \/ Unauthorized(r)
                 \/ NotFound(r) \/ Gone(r) \/ Forbidden(r) \/ FailFast(r)
        PROVE  UNCHANGED state
    BY <2>2 DEF Arrive, Throttle, TooMany, Unauthorized, NotFound, Gone, Forbidden,
                Refuse, FailFast, breaker, Breaker!Reject, Breaker!vars
  <2>3. ASSUME NEW r \in Requests, Breaker!Fail(r) \/ Breaker!Succeed(r)
        PROVE  state' # "HALF_OPEN"
    BY <2>3 DEF Breaker!Fail, Breaker!FailBelowThreshold, Breaker!Trip,
                Breaker!Reopen, Breaker!Succeed, Breaker!SucceedOutsideTrial,
                Breaker!SucceedInTrial, Breaker!Recover
  <2>4. ASSUME NEW r \in Requests, Breaker!Abandon(r) \/ Breaker!Finish(r)
        PROVE  UNCHANGED state
    BY <2>4 DEF Breaker!Abandon, Breaker!Finish
  <2>5. ASSUME NEW r \in Requests, NEW o \in Outcome, UpstreamAnswers(r, o)
        PROVE  FALSE
    BY <2>3, <2>4, <2>5 DEF UpstreamAnswers, Report
  <2>6. ASSUME NEW r \in Requests, BodyBreaks(r) \/ BodyEnds(r) \/ ClientGone(r)
        PROVE  FALSE
    BY <2>3, <2>4, <2>6 DEF BodyBreaks, BodyEnds, ClientGone
  <2>7. ASSUME AdminReset \/ Destroy \/ Restart \/ Tick
        PROVE  FALSE
    BY <2>7 DEF AdminReset, Destroy, Restart, Tick, Breaker!Reset, Breaker!Tick
  <2> QED
    BY <2>1, <2>2, <2>5, <2>6, <2>7 DEF Next
<1> QED
  BY <1>1, InitType, NextType, PTL DEF Spec, OnlyTrialsReopen
=============================================================================
