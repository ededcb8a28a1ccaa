--------------------------- MODULE CircuitBreaker ---------------------------
(***************************************************************************)
(* One instance of the class CircuitBreaker (shared/circuit-breaker.ts),   *)
(* as ExternalService.call (execute) and ProxyHandler.proxyRequest         *)
(* (tryAcquire, recordSuccess, recordFailure) drive it: many calls are in  *)
(* flight at once, so the result of a call admitted in one state of the    *)
(* breaker may be reported in any other.                                   *)
(*                                                                         *)
(* Each method body is synchronous JavaScript, hence one atomic step.  The *)
(* await of the wrapped call lies between Admit and the report.            *)
(*                                                                         *)
(* Date.now() - lastFailureTime is only ever compared with resetTimeoutMs, *)
(* so it is kept as `age`, saturated there; failureCount is only ever      *)
(* compared with failureThreshold, so it saturates there.                  *)
(***************************************************************************)
EXTENDS Naturals

CONSTANTS
  Calls,              \* calls that may be in flight at the same time
  FailureThreshold,   \* failureThreshold, 5 in production
  SuccessThreshold,   \* successThreshold, 2 in production
  ResetTimeout        \* resetTimeoutMs in ticks of the model's clock

ASSUME BreakerAssumption ==
  /\ FailureThreshold \in Nat \ {0}
  /\ SuccessThreshold \in Nat \ {0}
  /\ ResetTimeout \in Nat \ {0}

VARIABLES
  state,          \* CLOSED, OPEN or HALF_OPEN
  failureCount,
  successCount,
  age,            \* time since lastFailureTime
  call,           \* call[c]: idle, the state of the breaker that admitted it, or
                  \* body: its answer is reported and its body under way
  notified,       \* the state the last onStateChange callback announced
  hist            \* history: what was reported, whatever the counters say

vars == <<state, failureCount, successCount, age, call, notified, hist>>

CircuitState == {"CLOSED", "OPEN", "HALF_OPEN"}

CallState == {"idle", "CLOSED", "HALF_OPEN", "body"}

\* n + 1, saturated at max.
Bump(n, max) == IF n < max THEN n + 1 ELSE max

TypeOK ==
  /\ state \in CircuitState
  /\ failureCount \in 0..FailureThreshold
  /\ successCount \in 0..(SuccessThreshold - 1)
  /\ age \in 0..ResetTimeout
  /\ call \in [Calls -> CallState]
  /\ notified \in CircuitState \cup {"none"}
  /\ hist \in [streak : 0..FailureThreshold,    \* failures since a success or reset
               trial  : 0..SuccessThreshold,    \* successes since HALF_OPEN began
               opened : 0..ResetTimeout]        \* time since the last opening

-----------------------------------------------------------------------------
(* The conditions of the code.                                             *)

\* Mutant: the cooldown is cut short by one tick.
CooledDownEarly == age >= ResetTimeout - 1

\* Date.now() - lastFailureTime >= resetTimeoutMs
CooledDown == age >= ResetTimeout

\* Mutant: off by one, the breaker trips one failure late.
TripsLate(n) == n > FailureThreshold

\* failureCount >= failureThreshold, n being the count after the increment
Trips(n) == n >= FailureThreshold

\* Mutant: off by one, the breaker closes one success late.
RecoversLate(n) == n > SuccessThreshold

\* successCount >= successThreshold, n being the count after the increment
Recovered(n) == n >= SuccessThreshold

\* Mutant: the count of an earlier trial survives into the next one.
KeepSuccessCount == successCount

\* successCount on entering HALF_OPEN
FreshSuccessCount == 0

\* Mutant: a failed trial keeps the old lastFailureTime.
KeepAge == age

\* Date.now() - lastFailureTime once onFailure has stored lastFailureTime
AgeAfterFailure == 0

\* Mutant: an idle HALF_OPEN breaker waits for another cooldown.
AdmitsClosedOnly == state = "CLOSED"

\* Neither execute nor tryAcquire looks further than "not OPEN".
AdmitsFreely == state # "OPEN"

\* onStateChange: the gauge of ExternalService shows the state announced last.
Announce(to) == notified' = to

-----------------------------------------------------------------------------
Init ==
  /\ state = "CLOSED"
  /\ failureCount = 0
  /\ successCount = 0
  /\ age = ResetTimeout              \* lastFailureTime is 0, the epoch
  /\ call = [c \in Calls |-> "idle"]
  /\ notified = "none"
  /\ hist = [streak |-> 0, trial |-> 0, opened |-> ResetTimeout]

\* execute / tryAcquire on a breaker that is CLOSED or HALF_OPEN.
Admit(c) ==
  /\ call[c] = "idle"
  /\ AdmitsFreely
  /\ call' = [call EXCEPT ![c] = state]
  /\ UNCHANGED <<state, failureCount, successCount, age, notified, hist>>

\* execute / tryAcquire on an OPEN breaker after the cooldown: the call that
\* finds it so moves the breaker to HALF_OPEN and goes through.
AdmitTrial(c) ==
  /\ call[c] = "idle"
  /\ state = "OPEN"
  /\ CooledDown
  /\ state' = "HALF_OPEN"
  /\ successCount' = FreshSuccessCount
  /\ Announce("HALF_OPEN")
  /\ call' = [call EXCEPT ![c] = "HALF_OPEN"]
  /\ hist' = [hist EXCEPT !.trial = 0]
  /\ UNCHANGED <<failureCount, age>>

\* Mutant: a rejected call counts as a failure and restarts the cooldown.
RejectRestarts(c) ==
  /\ call[c] = "idle"
  /\ state = "OPEN"
  /\ ~CooledDown
  /\ age' = 0
  /\ UNCHANGED <<state, failureCount, successCount, call, notified, hist>>

\* execute throws and tryAcquire returns false: fail fast.
Reject(c) ==
  /\ call[c] = "idle"
  /\ state = "OPEN"
  /\ ~CooledDown
  /\ UNCHANGED vars

\* A call has its answer or error.  execute is over then; of a proxied request
\* the body may still be to come.
Answered(c) ==
  /\ call[c] \in {"CLOSED", "HALF_OPEN"}
  /\ \E next \in {"idle", "body"} : call' = [call EXCEPT ![c] = next]

\* The body ends.  If it breaks off, http-proxy raises error after proxyRes,
\* so that the request reports once more.
BodyOver(c) ==
  /\ call[c] = "body"
  /\ call' = [call EXCEPT ![c] = "idle"]

\* onSuccess outside HALF_OPEN.  A call admitted before the breaker opened
\* clears the failures of an OPEN breaker too.
SucceedOutsideTrial(c) ==
  /\ Answered(c)
  /\ state # "HALF_OPEN"
  /\ failureCount' = 0
  /\ hist' = [hist EXCEPT !.streak = 0]
  /\ UNCHANGED <<state, successCount, age, notified>>

\* onSuccess in HALF_OPEN, below the success threshold.
SucceedInTrial(c) ==
  /\ Answered(c)
  /\ state = "HALF_OPEN"
  /\ ~Recovered(successCount + 1)
  /\ successCount' = successCount + 1
  /\ hist' = [hist EXCEPT !.streak = 0, !.trial = Bump(@, SuccessThreshold)]
  /\ UNCHANGED <<state, failureCount, age, notified>>

\* onSuccess in HALF_OPEN, reaching the success threshold: CLOSED (recovered).
Recover(c) ==
  /\ Answered(c)
  /\ state = "HALF_OPEN"
  /\ Recovered(successCount + 1)
  /\ state' = "CLOSED"
  /\ failureCount' = 0
  /\ successCount' = 0
  /\ Announce("CLOSED")
  /\ hist' = [hist EXCEPT !.streak = 0, !.trial = Bump(@, SuccessThreshold)]
  /\ UNCHANGED age

\* onFailure outside HALF_OPEN, below the failure threshold.  In an OPEN
\* breaker this restarts the cooldown without a callback.
FailBelowThreshold(c) ==
  /\ Answered(c) \/ BodyOver(c)
  /\ state # "HALF_OPEN"
  /\ ~Trips(failureCount + 1)
  /\ failureCount' = Bump(failureCount, FailureThreshold)
  /\ age' = AgeAfterFailure
  /\ hist' = [hist EXCEPT !.streak = Bump(@, FailureThreshold)]
  /\ UNCHANGED <<state, successCount, notified>>

\* onFailure outside HALF_OPEN, at the failure threshold.  The state may be
\* OPEN already: then the callback announces OPEN -> OPEN.
Trip(c) ==
  /\ Answered(c) \/ BodyOver(c)
  /\ state # "HALF_OPEN"
  /\ Trips(failureCount + 1)
  /\ failureCount' = Bump(failureCount, FailureThreshold)
  /\ age' = AgeAfterFailure
  /\ state' = "OPEN"
  /\ Announce("OPEN")
  /\ hist' = [hist EXCEPT !.streak = Bump(@, FailureThreshold), !.opened = 0]
  /\ UNCHANGED successCount

\* onFailure in HALF_OPEN: one failure re-opens, whatever the count.
Reopen(c) ==
  /\ Answered(c) \/ BodyOver(c)
  /\ state = "HALF_OPEN"
  /\ failureCount' = Bump(failureCount, FailureThreshold)
  /\ age' = AgeAfterFailure
  /\ state' = "OPEN"
  /\ Announce("OPEN")
  /\ hist' = [hist EXCEPT !.streak = Bump(@, FailureThreshold), !.opened = 0]
  /\ UNCHANGED successCount

\* Nothing is recorded: the client of a proxied request hangs up first, for
\* which http-proxy raises neither proxyRes nor error, or destroy() has
\* removed the breaker the answer is for.
Abandon(c) ==
  /\ Answered(c)
  /\ UNCHANGED <<state, failureCount, successCount, age, notified, hist>>

\* The body is complete, or nobody is left to report to.
Finish(c) ==
  /\ BodyOver(c)
  /\ UNCHANGED <<state, failureCount, successCount, age, notified, hist>>

\* Mutant: reset forgets to tell the gauge.
ResetSilently == notified

\* reset calls onStateChange only when the breaker was not CLOSED.
NotifiedByReset == IF state # "CLOSED" THEN "CLOSED" ELSE notified

\* reset(), called by the admin endpoint at any time.
Reset ==
  /\ state' = "CLOSED"
  /\ failureCount' = 0
  /\ successCount' = 0
  /\ age' = ResetTimeout
  /\ notified' = NotifiedByReset
  /\ hist' = [hist EXCEPT !.streak = 0]
  /\ UNCHANGED call

\* One tick of the clock.
Tick ==
  /\ age' = Bump(age, ResetTimeout)
  /\ hist' = [hist EXCEPT !.opened = Bump(@, ResetTimeout)]
  /\ UNCHANGED <<state, failureCount, successCount, call, notified>>

Succeed(c) == SucceedOutsideTrial(c) \/ SucceedInTrial(c) \/ Recover(c)
Fail(c) == FailBelowThreshold(c) \/ Trip(c) \/ Reopen(c)

Next ==
  \/ \E c \in Calls :
       \/ Admit(c)
       \/ AdmitTrial(c)
       \/ Reject(c)
       \/ SucceedOutsideTrial(c)
       \/ SucceedInTrial(c)
       \/ Recover(c)
       \/ FailBelowThreshold(c)
       \/ Trip(c)
       \/ Reopen(c)
       \/ Abandon(c)
       \/ Finish(c)
  \/ Reset
  \/ Tick

Spec == Init /\ [][Next]_vars

(***************************************************************************)
(* Fairness.  Time passes; an admitted call answers, because both users    *)
(* put a timeout on it (axios `timeout`, http-proxy `proxyTimeout`), which *)
(* ends a silent one; and requests keep arriving, answers and bodies that  *)
(* have begun end, which the code cannot give: a trickle keeps a socket    *)
(* busy, and an idle breaker stays OPEN for ever, there is no timer in it. *)
(***************************************************************************)
Fairness ==
  /\ WF_vars(Tick)
  /\ \A c \in Calls : WF_vars(Succeed(c) \/ Fail(c) \/ Finish(c))
  /\ WF_vars(\E c \in Calls : Admit(c) \/ AdmitTrial(c))

FairSpec == Spec /\ Fairness

-----------------------------------------------------------------------------
(* Properties.                                                             *)

\* A CLOSED breaker has counted exactly the failures reported since the last
\* success or reset, however the results of calls admitted in earlier states
\* interleave with it, and stays CLOSED only below the threshold (onFailure).
ClosedCountsStreak ==
  state = "CLOSED" => /\ failureCount = hist.streak
                      /\ failureCount < FailureThreshold

\* In HALF_OPEN the successes counted towards closing are those of this trial
\* alone: nothing is left over from a trial that failed (successCount).
TrialCountsThisTrial ==
  state = "HALF_OPEN" => successCount = hist.trial

\* The Prometheus gauge, set by onStateChange alone, always shows the state.
GaugeFollowsState ==
  IF notified = "none" THEN state = "CLOSED" ELSE notified = state

\* The cooldown of an OPEN breaker is never over before ResetTimeout has gone
\* by since it opened: late failures can only lengthen it.
CooldownNotShortened ==
  state = "OPEN" => age <= hist.opened

\* A call passes an OPEN breaker only when it has been open for the cooldown.
OpenRestsForCooldown ==
  [][state = "OPEN" /\ state' = "HALF_OPEN" => hist.opened >= ResetTimeout]_vars

\* The breaker implements its promise: failures, successes and the rest are
\* counted as FailFast counts them whatever counters and lastFailureTime hold,
\* late results, resets and repeated openings included.
Promise == INSTANCE FailFast WITH
  phase <- state, streak <- hist.streak, trial <- hist.trial, rested <- hist.opened

FailsFast == Promise!Spec

\* With requests arriving, an OPEN breaker does not stay OPEN: late failures
\* of calls in flight may restart the cooldown, but only finitely often.
OpenIsLeft == state = "OPEN" ~> state # "OPEN"

\* Once calls stop failing and stop being abandoned, the breaker is CLOSED
\* again and again, so traffic flows: no state is a trap.
Recovers ==
  <>[][~\E c \in Calls : Fail(c) \/ Abandon(c)]_vars => []<>(state = "CLOSED")
=============================================================================
