------------------------------ MODULE FailFast ------------------------------
(***************************************************************************)
(* What a circuit breaker promises its users, without counters, clocks     *)
(* that restart, callbacks or calls in flight: it stops passing calls only *)
(* after FailureThreshold failures in a row, or one failure of a trial;    *)
(* then rests for ResetTimeout, tries, and resumes only after              *)
(* SuccessThreshold successes of that trial.  An operator may overrule it. *)
(*                                                                         *)
(* CircuitBreaker implements this specification.                           *)
(***************************************************************************)
EXTENDS Naturals

CONSTANTS FailureThreshold, SuccessThreshold, ResetTimeout

VARIABLES
  phase,      \* CLOSED passes calls, OPEN rejects them, HALF_OPEN tries
  streak,     \* failures in a row, saturated at FailureThreshold
  trial,      \* successes of the present trial, saturated at SuccessThreshold
  rested      \* time since calls were last stopped, saturated at ResetTimeout

vars == <<phase, streak, trial, rested>>

AtMost(n, max) == IF n < max THEN n ELSE max

Init ==
  /\ phase = "CLOSED"
  /\ streak = 0
  /\ trial = 0
  /\ rested = ResetTimeout

\* A call that succeeds: nothing changes, or the trial is over.
Success ==
  /\ streak' = 0
  /\ \/ /\ phase # "HALF_OPEN"
        /\ UNCHANGED <<phase, trial>>
     \/ /\ phase = "HALF_OPEN"
        /\ trial' = AtMost(trial + 1, SuccessThreshold)
        /\ phase' = IF trial + 1 >= SuccessThreshold THEN "CLOSED" ELSE "HALF_OPEN"
  /\ UNCHANGED rested

\* A call that fails without consequences: passing calls tolerate fewer than
\* FailureThreshold failures, and a resting breaker may ignore late ones.
Tolerate ==
  /\ phase # "HALF_OPEN"
  /\ phase = "CLOSED" => streak + 1 < FailureThreshold
  /\ streak' = AtMost(streak + 1, FailureThreshold)
  /\ UNCHANGED <<phase, trial, rested>>

\* A call that fails and stops calls, or lengthens the rest.
Stop ==
  /\ phase = "CLOSED" => streak + 1 >= FailureThreshold
  /\ streak' = AtMost(streak + 1, FailureThreshold)
  /\ phase' = "OPEN"
  /\ rested' = 0
  /\ UNCHANGED trial

\* The rest is over and a call is tried.
Try ==
  /\ phase = "OPEN"
  /\ rested >= ResetTimeout
  /\ phase' = "HALF_OPEN"
  /\ trial' = 0
  /\ UNCHANGED <<streak, rested>>

\* The operator resumes calls.
Overrule ==
  /\ phase' = "CLOSED"
  /\ streak' = 0
  /\ UNCHANGED <<trial, rested>>

Pass ==
  /\ rested' = AtMost(rested + 1, ResetTimeout)
  /\ UNCHANGED <<phase, streak, trial>>

Next == Success \/ Tolerate \/ Stop \/ Try \/ Overrule \/ Pass

Spec == Init /\ [][Next]_vars
=============================================================================
