----------------------------- MODULE Forwarding -----------------------------
(***************************************************************************)
(* The way of a request through one gateway to one target, and of its      *)
(* results back to the target's circuit breaker: TribeThrottlerGuard,      *)
(* JwtAuthGuard, then                                                      *)
(*   "proxy"     ProxyHandler.proxyRequest of one of the two controllers,  *)
(*               for a service of the registry, or                         *)
(*   "external"  ExternalService.call, for a configured API.               *)
(*                                                                         *)
(* The guards await the rate limiter's storage and the check of the token; *)
(* between those awaits and the upstream's answer every other request may  *)
(* move.  The handler up to the upstream call is one action.  What the     *)
(* registry says at that moment is chosen freely, because registrations,   *)
(* reconciliations and health checks change it at any time; module         *)
(* Registry has their rules, module Throttler those of the rate limiter.   *)
(***************************************************************************)
EXTENDS Naturals

CONSTANTS
  Requests,           \* requests that may be under way at the same time
  FailureThreshold, SuccessThreshold, ResetTimeout

\* As CircuitBreaker assumes it.
ASSUME GateAssumption ==
  /\ FailureThreshold \in Nat \ {0}
  /\ SuccessThreshold \in Nat \ {0}
  /\ ResetTimeout \in Nat \ {0}

VARIABLES
  kind,               \* how the target is reached, "proxy" or "external"
  stage,              \* stage[r]: what the request awaits
  exists,             \* whether the target has a breaker in circuitBreakers
  destroyed,          \* ProxyHandler.destroy has run
  blame,              \* history: failures in a row that are the upstream's own
  state, failureCount, successCount, age, call, notified, hist

breaker == <<state, failureCount, successCount, age, call, notified, hist>>
vars == <<kind, stage, exists, destroyed, blame,
          state, failureCount, successCount, age, call, notified, hist>>

\* The target's breaker.  onStateChange is set by ExternalService only: for
\* a proxied service `notified` is what a callback would have announced.
Breaker == INSTANCE CircuitBreaker WITH Calls <- Requests

Stage == {"none", "throttle", "verify", "upstream", "body"}

\* ExternalService never loses a breaker: breakers.get(apiName)! is there.
TypeOK ==
  /\ kind \in {"proxy", "external"}
  /\ stage \in [Requests -> Stage]
  /\ exists \in BOOLEAN /\ destroyed \in BOOLEAN
  /\ kind = "external" => exists /\ ~destroyed
  /\ blame \in 0..FailureThreshold
  /\ Breaker!TypeOK

\* ExternalService makes its breakers at start, ProxyHandler on first use.
Init ==
  /\ kind \in {"proxy", "external"}
  /\ stage = [r \in Requests |-> "none"]
  /\ exists = (kind = "external")
  /\ destroyed = FALSE
  /\ blame = 0
  /\ Breaker!Init

MovesTo(r, s) == stage' = [stage EXCEPT ![r] = s]
Leaves(r) == MovesTo(r, "none")

-----------------------------------------------------------------------------
(* The guards.                                                             *)

\* A request arrives and TribeThrottlerGuard, the global guard, asks the
\* storage.  Its bucket concerns module Throttler, which has one.
Arrive(r) ==
  /\ stage[r] = "none"
  /\ MovesTo(r, "throttle")
  /\ UNCHANGED <<kind, exists, destroyed, blame, breaker>>

\* Below the limit; JwtAuthGuard has the token checked.
Throttle(r) ==
  /\ stage[r] = "throttle"
  /\ MovesTo(r, "verify")
  /\ UNCHANGED <<kind, exists, destroyed, blame, breaker>>

\* 429, or 500 because the storage fails.
TooMany(r) ==
  /\ stage[r] = "throttle"
  /\ Leaves(r)
  /\ UNCHANGED <<kind, exists, destroyed, blame, breaker>>

-----------------------------------------------------------------------------
(* The token is checked; if it is valid, the handler runs until it has     *)
(* called the upstream.                                                    *)

\* Mutant: the breaker is asked before the other checks.
RefuseAfterBreaker(r) ==
  /\ stage[r] = "verify"
  /\ Breaker!Admit(r) \/ Breaker!AdmitTrial(r) \/ Breaker!Reject(r)
  /\ Leaves(r)
  /\ exists' = TRUE
  /\ UNCHANGED <<kind, destroyed, blame>>

\* The request is turned away before the breaker is asked.
Refuse(r) ==
  /\ stage[r] = "verify"
  /\ Leaves(r)
  /\ UNCHANGED <<kind, exists, destroyed, blame, breaker>>

\* 401: JwtAuthGuard, for a token that is missing, expired or not genuine.
Unauthorized(r) == Refuse(r)

\* 404: the target is not registered or configured, or of the other namespace.
NotFound(r) == Refuse(r)

\* 410: the lifecycle gate, for a retired service.
Gone(r) == kind = "proxy" /\ Refuse(r)

\* 403: this tribe does not consume the service, or its token lacks a scope.
Forbidden(r) == kind = "proxy" /\ Refuse(r)

\* 503: the breaker is open.
FailFast(r) ==
  /\ stage[r] = "verify"
  /\ Breaker!Reject(r)
  /\ Leaves(r)
  /\ UNCHANGED <<kind, exists, destroyed, blame>>

\* The breaker of the target is there from here on, new and CLOSED if it was
\* not before: Destroy and Restart leave the variables of a new one.
GetOrCreateCircuitBreaker == exists' = TRUE

\* The breaker lets the request through.
Forward(r) ==
  /\ stage[r] = "verify"
  /\ Breaker!Admit(r) \/ Breaker!AdmitTrial(r)
  /\ MovesTo(r, "upstream")
  /\ GetOrCreateCircuitBreaker
  /\ UNCHANGED <<kind, destroyed, blame>>

-----------------------------------------------------------------------------
(* The results.                                                            *)

\* The status of the answer, or no answer: refused, reset, timed out.
Outcome == {"ok", "4xx", "500", "502-504", "error"}

\* The upstream's own failures: UPSTREAM_FAILURE_CODES and the error event.
UpstreamFailure == {"502-504", "error"}

\* Mutant: every status that is not a success counts.
ProxyFailureAnyStatus == Outcome \ {"ok"}

\* proxyRes and error of the middleware
ProxyFailure == UpstreamFailure

\* axios rejects every answer outside 2xx, the caller's own errors included.
ExternalFailure == Outcome \ {"ok"}

Failure == IF kind = "proxy" THEN ProxyFailure ELSE ExternalFailure

Blamed(o) ==
  IF ~exists THEN blame
  ELSE IF o \in UpstreamFailure
       THEN IF blame < FailureThreshold THEN blame + 1 ELSE FailureThreshold
       ELSE 0

\* Mutant: the error handler returns before it has released the call.
ReportAnswers(r, o) ==
  IF ~exists \/ o = "error" THEN UNCHANGED breaker
  ELSE IF o \in Failure THEN Breaker!Fail(r) ELSE Breaker!Succeed(r)

\* Mutant: the error handler logs, and records no failure.
ReportStatusOnly(r, o) ==
  IF ~exists \/ o = "error" THEN Breaker!Abandon(r)
  ELSE IF o \in Failure THEN Breaker!Fail(r) ELSE Breaker!Succeed(r)

\* The result goes to the breaker the target has now; after destroy() there
\* may be none, and the result is dropped.
Report(r, o) ==
  IF ~exists THEN Breaker!Abandon(r)
  ELSE IF o \in Failure THEN Breaker!Fail(r) ELSE Breaker!Succeed(r)

\* A proxied answer goes on with its body, every other result is the end.
GoesOn(r) == IF call'[r] = "body"
             THEN MovesTo(r, "body")
             ELSE Leaves(r)

\* proxyRes, error, or the settled promise of axios.
UpstreamAnswers(r, o) ==
  /\ o \in Outcome
  /\ stage[r] = "upstream"
  /\ Report(r, o)
  /\ (call'[r] = "body") = (kind = "proxy" /\ o # "error")
  /\ GoesOn(r)
  /\ blame' = Blamed(o)
  /\ UNCHANGED <<kind, exists, destroyed>>

\* The upstream breaks off in the middle of the body: error after proxyRes.
BodyBreaks(r) ==
  /\ stage[r] = "body"
  /\ IF exists THEN Breaker!Fail(r) ELSE Breaker!Finish(r)
  /\ Leaves(r)
  /\ blame' = Blamed("error")
  /\ UNCHANGED <<kind, exists, destroyed>>

\* The last byte of the body: no event, nothing is reported.
BodyEnds(r) ==
  /\ stage[r] = "body"
  /\ Breaker!Finish(r)
  /\ Leaves(r)
  /\ UNCHANGED <<kind, exists, destroyed, blame>>

\* The client of a proxied request goes away, or its idle socket times out
\* (`timeout`): nothing is reported.  A call of an external API goes on.
ClientGone(r) ==
  /\ kind = "proxy"
  /\ \/ stage[r] = "upstream" /\ Breaker!Abandon(r) /\ call'[r] = "idle"
     \/ stage[r] = "body" /\ Breaker!Finish(r)
  /\ Leaves(r)
  /\ UNCHANGED <<kind, exists, destroyed, blame>>

-----------------------------------------------------------------------------
(* The operator and the process.                                           *)

\* POST /admin/circuit-breakers/:apiName/reset; proxied services have none.
AdminReset ==
  /\ kind = "external"
  /\ Breaker!Reset
  /\ blame' = 0
  /\ UNCHANGED <<kind, stage, exists, destroyed>>

\* Mutant: ExternalService clears its breakers as well.
DestroyAll ==
  /\ ~destroyed
  /\ destroyed' = TRUE
  /\ exists' = FALSE
  /\ Breaker!Reset
  /\ blame' = 0
  /\ UNCHANGED <<kind, stage>>

\* onModuleDestroy of the controllers: it runs before the HTTP server closes,
\* so requests still arrive and results are still to come.
Destroy ==
  /\ kind = "proxy"
  /\ ~destroyed
  /\ destroyed' = TRUE
  /\ exists' = FALSE
  /\ Breaker!Reset
  /\ blame' = 0
  /\ UNCHANGED <<kind, stage>>

\* The server has closed; a new process takes over.
Restart ==
  /\ destroyed
  /\ \A r \in Requests : stage[r] = "none"
  /\ destroyed' = FALSE
  /\ exists' = FALSE
  /\ Breaker!Reset
  /\ blame' = 0
  /\ UNCHANGED <<kind, stage>>

Tick ==
  /\ Breaker!Tick
  /\ UNCHANGED <<kind, stage, exists, destroyed, blame>>

Next ==
  \/ \E r \in Requests :
       \/ Arrive(r)
       \/ Throttle(r)
       \/ TooMany(r)
       \/ Unauthorized(r)
       \/ NotFound(r)
       \/ Gone(r)
       \/ Forbidden(r)
       \/ FailFast(r)
       \/ Forward(r)
       \/ \E o \in Outcome : UpstreamAnswers(r, o)
       \/ BodyBreaks(r)
       \/ BodyEnds(r)
       \/ ClientGone(r)
  \/ AdminReset
  \/ Destroy
  \/ Restart
  \/ Tick

Spec == Init /\ [][Next]_vars

-----------------------------------------------------------------------------
(* Properties.                                                             *)

\* A breaker counts a request as running exactly while it is at the upstream,
\* on every path out: answer, error, broken body, client gone, destroyed
\* handler, and each refusal (tryAcquire against recordSuccess/recordFailure).
AdmissionsMatch ==
  \A r \in Requests : /\ (call[r] \in {"CLOSED", "HALF_OPEN"}) <=> (stage[r] = "upstream")
                      /\ (call[r] = "body") <=> (stage[r] = "body")

\* Requests that are turned away for what they are - rate, token, rights,
\* lifecycle - cannot change a breaker: an OPEN one stays OPEN until a request
\* is really sent to the upstream as its trial.
OnlyTrialsReopen ==
  [][state = "OPEN" /\ state' = "HALF_OPEN" =>
       \E r \in Requests : stage[r] = "verify" /\ stage'[r] = "upstream"]_vars

\* A proxied service is cut off only after FailureThreshold failures in a row
\* of its own: errors and 502-504, never a caller's 4xx (UPSTREAM_FAILURE_CODES),
\* although all callers share the breaker and their answers interleave.
OpensForUpstream ==
  [][kind = "proxy" /\ state = "CLOSED" /\ state' = "OPEN" =>
       blame' = FailureThreshold]_vars

\* And it is cut off then, as an external API is: after FailureThreshold results
\* in a row that were the upstream's own failures - refused or reset, timed out,
\* broken off in the body, 502-504 - its breaker is not CLOSED, whoever's requests
\* they were, in whatever state they were admitted, and whatever came in between
\* (proxyRes and error, the catch of execute).
OutageIsCutOff == blame = FailureThreshold => state # "CLOSED"
=============================================================================
