------------------------ MODULE CircuitBreakerProofs ------------------------
(***************************************************************************)
(* Theorems about CircuitBreaker for every set of calls, every threshold   *)
(* and every reset timeout.                                                *)
(***************************************************************************)
EXTENDS CircuitBreaker, TLAPS

(***************************************************************************)
(* TypeOK bounds successCount by the success threshold, which Recover      *)
(* enforces, so it is inductive by itself.  The four counters-versus-      *)
(* history invariants are inductive together with it.                      *)
(***************************************************************************)
BreakerInv ==
  /\ TypeOK
  /\ ClosedCountsStreak
  /\ TrialCountsThisTrial
  /\ GaugeFollowsState
  /\ CooldownNotShortened

LEMMA InitBreakerInv == Init => BreakerInv
BY BreakerAssumption
   DEF Init, BreakerInv, TypeOK, CircuitState, CallState, ClosedCountsStreak,
       TrialCountsThisTrial, GaugeFollowsState, CooldownNotShortened

LEMMA NextBreakerInv == BreakerInv /\ [Next]_vars => BreakerInv'
<1> SUFFICES ASSUME BreakerInv, [Next]_vars
             PROVE  BreakerInv'
  OBVIOUS
<1> USE BreakerAssumption
    DEF BreakerInv, TypeOK, CircuitState, CallState, ClosedCountsStreak,
        TrialCountsThisTrial, GaugeFollowsState, CooldownNotShortened,
        Answered, BodyOver, Announce
<1>1. ASSUME NEW c \in Calls, Admit(c) PROVE BreakerInv'
  BY <1>1 DEF Admit, AdmitsFreely
<1>2. ASSUME NEW c \in Calls, AdmitTrial(c) PROVE BreakerInv'
  BY <1>2 DEF AdmitTrial, CooledDown, FreshSuccessCount
<1>3. ASSUME NEW c \in Calls, SucceedOutsideTrial(c) PROVE BreakerInv'
  BY <1>3 DEF SucceedOutsideTrial
<1>4. ASSUME NEW c \in Calls, SucceedInTrial(c) PROVE BreakerInv'
  <2>1. hist' = [streak |-> 0, trial |-> Bump(hist.trial, SuccessThreshold),
                 opened |-> hist.opened]
    BY <1>4 DEF SucceedInTrial
  <2>2. hist.trial = successCount /\ successCount \in Nat /\ successCount + 1 < SuccessThreshold
    BY <1>4 DEF SucceedInTrial, Recovered
  <2>3. Bump(hist.trial, SuccessThreshold) = successCount + 1
    BY <2>2 DEF Bump
  <2>4. call' \in [Calls -> CallState]
    BY <1>4 DEF SucceedInTrial
  <2>5. successCount' = successCount + 1
    BY <1>4 DEF SucceedInTrial
  <2>6. /\ successCount' \in 0..(SuccessThreshold - 1)
        /\ hist'.trial \in 0..SuccessThreshold
        /\ hist'.trial = successCount'
    BY <2>1, <2>2, <2>3, <2>5
  <2> QED
    BY <1>4, <2>1, <2>4, <2>6 DEF SucceedInTrial
<1>5. ASSUME NEW c \in Calls, Recover(c) PROVE BreakerInv'
  <2>1. hist' = [streak |-> 0, trial |-> Bump(hist.trial, SuccessThreshold),
                 opened |-> hist.opened]
    BY <1>5 DEF Recover
  <2>2. /\ call' \in [Calls -> CallState]
        /\ hist'.trial \in 0..SuccessThreshold
    BY <1>5, <2>1 DEF Recover, Bump
  <2> QED
    BY <1>5, <2>1, <2>2 DEF Recover
<1>6. ASSUME NEW c \in Calls, FailBelowThreshold(c) PROVE BreakerInv'
  <2>1. hist' = [streak |-> Bump(hist.streak, FailureThreshold), trial |-> hist.trial,
                 opened |-> hist.opened]
    BY <1>6 DEF FailBelowThreshold
  <2>2. /\ call' \in [Calls -> CallState]
        /\ hist'.streak \in 0..FailureThreshold
        /\ state = "CLOSED" => hist'.streak = failureCount' /\ failureCount' < FailureThreshold
        /\ failureCount' \in 0..FailureThreshold
    BY <1>6, <2>1 DEF FailBelowThreshold, Bump, Trips
  <2> QED
    BY <1>6, <2>1, <2>2 DEF FailBelowThreshold, AgeAfterFailure
<1>7. ASSUME NEW c \in Calls, Trip(c) PROVE BreakerInv'
  <2>1. hist' = [streak |-> Bump(hist.streak, FailureThreshold), trial |-> hist.trial,
                 opened |-> 0]
    BY <1>7 DEF Trip
  <2>2. /\ call' \in [Calls -> CallState]
        /\ hist'.streak \in 0..FailureThreshold
        /\ failureCount' \in 0..FailureThreshold
    BY <1>7, <2>1 DEF Trip, Bump
  <2> QED
    BY <1>7, <2>1, <2>2 DEF Trip, AgeAfterFailure
<1>8. ASSUME NEW c \in Calls, Reopen(c) PROVE BreakerInv'
  <2>1. hist' = [streak |-> Bump(hist.streak, FailureThreshold), trial |-> hist.trial,
                 opened |-> 0]
    BY <1>8 DEF Reopen
  <2>2. /\ call' \in [Calls -> CallState]
        /\ hist'.streak \in 0..FailureThreshold
        /\ failureCount' \in 0..FailureThreshold
    BY <1>8, <2>1 DEF Reopen, Bump
  <2> QED
    BY <1>8, <2>1, <2>2 DEF Reopen, AgeAfterFailure
<1>9. ASSUME NEW c \in Calls, Abandon(c) PROVE BreakerInv'
  BY <1>9 DEF Abandon
<1>14. ASSUME NEW c \in Calls, Finish(c) PROVE BreakerInv'
  BY <1>14 DEF Finish
<1>10. CASE Reset
  BY <1>10 DEF Reset, NotifiedByReset
<1>11. CASE Tick
  BY <1>11 DEF Tick, Bump
<1>12. CASE UNCHANGED vars
  BY <1>12 DEF vars
<1>13. ASSUME NEW c \in Calls, Reject(c) PROVE BreakerInv'
  BY <1>12, <1>13 DEF Reject
<1> QED
  BY <1>1, <1>2, <1>3, <1>4, <1>5, <1>6, <1>7, <1>8, <1>9, <1>10, <1>11, <1>12, <1>13, <1>14
     DEF Next

\* Every variable of the breaker keeps its type; successCount never reaches
\* the success threshold, because reaching it closes the breaker.
THEOREM BreakerTypeCorrect == Spec => []TypeOK
<1>1. BreakerInv => TypeOK
  BY DEF BreakerInv
<1> QED
  BY <1>1, InitBreakerInv, NextBreakerInv, PTL DEF Spec

\* Whatever results of older calls arrive, a CLOSED breaker has counted
\* exactly the failures since the last success or reset (onFailure, onSuccess).
THEOREM BreakerCountsStreak == Spec => []ClosedCountsStreak
<1>1. BreakerInv => ClosedCountsStreak
  BY DEF BreakerInv
<1> QED
  BY <1>1, InitBreakerInv, NextBreakerInv, PTL DEF Spec

\* HALF_OPEN counts the successes of the current trial only (successCount).
THEOREM BreakerCountsTrial == Spec => []TrialCountsThisTrial
<1>1. BreakerInv => TrialCountsThisTrial
  BY DEF BreakerInv
<1> QED
  BY <1>1, InitBreakerInv, NextBreakerInv, PTL DEF Spec

\* The state announced by onStateChange is the state of the breaker.
THEOREM BreakerGaugeFollows == Spec => []GaugeFollowsState
<1>1. BreakerInv => GaugeFollowsState
  BY DEF BreakerInv
<1> QED
  BY <1>1, InitBreakerInv, NextBreakerInv, PTL DEF Spec

\* An OPEN breaker lets a call through only after a whole cooldown has passed
\* since it opened (execute, tryAcquire).
THEOREM BreakerRests == Spec => OpenRestsForCooldown
<1>1. BreakerInv /\ [Next]_vars
        => [state = "OPEN" /\ state' = "HALF_OPEN" => hist.opened >= ResetTimeout]_vars
  <2> SUFFICES ASSUME BreakerInv, Next, state = "OPEN", state' = "HALF_OPEN"
               PROVE  hist.opened >= ResetTimeout
    BY DEF vars
  <2>1. PICK c \in Calls : AdmitTrial(c)
    BY DEF Next, Admit, Reject, SucceedOutsideTrial, SucceedInTrial, Recover,
           FailBelowThreshold, Trip, Reopen, Abandon, Finish, Reset, Tick, vars
  <2> QED
    BY <2>1, BreakerAssumption
       DEF AdmitTrial, CooledDown, BreakerInv, TypeOK, CooldownNotShortened
<1> QED
  BY <1>1, InitBreakerInv, NextBreakerInv, PTL DEF Spec, OpenRestsForCooldown

\* Late failures only lengthen the rest of an OPEN breaker (onFailure).
THEOREM BreakerCooldown == Spec => []CooldownNotShortened
<1>1. BreakerInv => CooldownNotShortened
  BY DEF BreakerInv
<1> QED
  BY <1>1, InitBreakerInv, NextBreakerInv, PTL DEF Spec

-----------------------------------------------------------------------------
(* The breaker implements FailFast.  Every step maps to a step of it or    *)
(* leaves its four variables alone; the invariant ties the counters of the *)
(* code to the histories FailFast speaks of.                               *)

\* The state starts as the promise does.
LEMMA InitPromise == Init => Promise!Init
BY DEF Init, Promise!Init

\* Every step keeps the promise.
LEMMA NextPromise == BreakerInv /\ [Next]_vars => [Promise!Next]_(Promise!vars)
<1> SUFFICES ASSUME BreakerInv, [Next]_vars
             PROVE  Promise!Next \/ UNCHANGED Promise!vars
  OBVIOUS
<1> USE BreakerAssumption
    DEF BreakerInv, TypeOK, CircuitState, ClosedCountsStreak,
        TrialCountsThisTrial, CooldownNotShortened, Promise!vars
<1>1. ASSUME NEW c \in Calls, Admit(c) PROVE UNCHANGED Promise!vars
  BY <1>1 DEF Admit
<1>2. ASSUME NEW c \in Calls, AdmitTrial(c) PROVE Promise!Try
  <2>1. hist' = [streak |-> hist.streak, trial |-> 0, opened |-> hist.opened]
    BY <1>2 DEF AdmitTrial
  <2> QED
    BY <1>2, <2>1 DEF AdmitTrial, CooledDown, Promise!Try
<1>3. ASSUME NEW c \in Calls, SucceedOutsideTrial(c) PROVE Promise!Success
  <2>1. hist' = [streak |-> 0, trial |-> hist.trial, opened |-> hist.opened]
    BY <1>3 DEF SucceedOutsideTrial
  <2> QED
    BY <1>3, <2>1 DEF SucceedOutsideTrial, Promise!Success
<1>4. ASSUME NEW c \in Calls, SucceedInTrial(c) \/ Recover(c) PROVE Promise!Success
  <2>1. hist' = [streak |-> 0, trial |-> Bump(hist.trial, SuccessThreshold),
                 opened |-> hist.opened]
    BY <1>4 DEF SucceedInTrial, Recover
  <2>2. /\ state = "HALF_OPEN"
        /\ hist.trial = successCount
        /\ successCount \in Nat
    BY <1>4 DEF SucceedInTrial, Recover
  <2>3. Bump(hist.trial, SuccessThreshold)
          = Promise!AtMost(hist.trial + 1, SuccessThreshold)
    BY <2>2 DEF Bump, Promise!AtMost
  <2>4. state' = IF hist.trial + 1 >= SuccessThreshold THEN "CLOSED" ELSE "HALF_OPEN"
    BY <1>4, <2>2 DEF SucceedInTrial, Recover, Recovered
  <2> QED
    BY <2>1, <2>2, <2>3, <2>4 DEF Promise!Success
<1>5. hist.streak \in Nat /\ FailureThreshold \in Nat
        => Bump(hist.streak, FailureThreshold)
             = Promise!AtMost(hist.streak + 1, FailureThreshold)
  BY DEF Bump, Promise!AtMost
<1>6. ASSUME NEW c \in Calls, FailBelowThreshold(c) PROVE Promise!Tolerate
  <2>1. hist' = [streak |-> Bump(hist.streak, FailureThreshold), trial |-> hist.trial,
                 opened |-> hist.opened]
    BY <1>6 DEF FailBelowThreshold
  <2> QED
    BY <1>5, <1>6, <2>1 DEF FailBelowThreshold, Trips, Promise!Tolerate
<1>7. ASSUME NEW c \in Calls, Trip(c) \/ Reopen(c) PROVE Promise!Stop
  <2>1. hist' = [streak |-> Bump(hist.streak, FailureThreshold), trial |-> hist.trial,
                 opened |-> 0]
    BY <1>7 DEF Trip, Reopen
  <2>2. state = "CLOSED" => hist.streak + 1 >= FailureThreshold
    BY <1>7 DEF Trip, Trips, Reopen
  <2> QED
    BY <1>5, <1>7, <2>1, <2>2 DEF Trip, Reopen, Promise!Stop
<1>8. ASSUME NEW c \in Calls, Abandon(c) \/ Finish(c) \/ Reject(c) PROVE UNCHANGED Promise!vars
  BY <1>8 DEF Abandon, Finish, Reject, vars
<1>9. CASE Reset
  <2>1. hist' = [streak |-> 0, trial |-> hist.trial, opened |-> hist.opened]
    BY <1>9 DEF Reset
  <2> QED
    BY <1>9, <2>1 DEF Reset, Promise!Next, Promise!Overrule
<1>10. CASE Tick
  <2>1. hist' = [streak |-> hist.streak, trial |-> hist.trial,
                 opened |-> Bump(hist.opened, ResetTimeout)]
    BY <1>10 DEF Tick
  <2>2. Bump(hist.opened, ResetTimeout) = Promise!AtMost(hist.opened + 1, ResetTimeout)
    BY DEF Bump, Promise!AtMost
  <2> QED
    BY <1>10, <2>1, <2>2 DEF Tick, Promise!Next, Promise!Pass
<1>11. CASE UNCHANGED vars
  BY <1>11 DEF vars
<1> QED
  BY <1>1, <1>2, <1>3, <1>4, <1>6, <1>7, <1>8, <1>9, <1>10, <1>11 DEF Next, Promise!Next

\* However the results of concurrent calls interleave, the breaker stops,
\* rests, tries and resumes as FailFast says (class CircuitBreaker).
THEOREM BreakerKeepsPromise == Spec => FailsFast
BY InitBreakerInv, NextBreakerInv, InitPromise, NextPromise, PTL
   DEF Spec, FailsFast, Promise!Spec
=============================================================================
