# API Center: TLA+ models

This directory holds TLA+ specifications of the API Center gateway (`src/` of
this repository), TLC configurations that check them on small instances, and
TLAPS proofs of their main invariants. Paths below are relative to the
repository root; `:n` is a line number.

## The system

The gateway is a NestJS application, run in several instances behind nginx.
Tribes register their services with it; consumers call those services and a few
external APIs through it. All instances share two Redis servers (the registry's
and the rate limiter's) and Kafka.

| Component | State it keeps | Operations that change it | Talks to | Hard behaviour | What makes it correct |
|---|---|---|---|---|---|
| `RegistryService` (`src/registry/registry.service.ts`) | `services` map in memory; the Redis hash `api-center:registry:services`; the services gauge | boot, register, deregister, deprecate, retire, activate, setHealthStatus, loadFromRedis | Redis, Kafka, `ProxyHandler` (listeners), metrics | two copies of the state, several writers, awaits in the middle, timeouts, lost and late writes, restarts | memory and Redis agree in the end; the life cycle (retired is final, no major downgrade) holds; gauge and listeners follow |
| `HealthMonitorService` (`health-monitor.service.ts`) | two "running" flags | health sweep every 30 s, reconciliation every 5 min | registry, upstreams, Kafka | results of probes and of `HGETALL` applied after an await | detects and repairs drift; never damages what a handler has just done |
| `ProxyHandler` (`src/shared/proxy-handler.ts`), used by the tribes and shared-services controllers | middleware cache, one breaker per service | proxyRequest, invalidateProxyCache, destroy | registry, auth, breaker | cache stale after registry changes; results after destroy; two reports of one request (proxyRes, then error) | requests go to the registered URL, never to a retired service; the breaker hears of every answer, and of no refusal |
| `CircuitBreaker` (`src/shared/circuit-breaker.ts`) | state, two counters, lastFailureTime | execute, tryAcquire, record*, reset | its users; gauge and Kafka by callback | many calls in flight, late results | trips after the threshold, rests for the cooldown, recovers |
| `ExternalService` (`src/external`) | client and breaker per external API | call, reset (admin) | external APIs, breaker | late results, reset with calls in flight | every call reports once, breaker and gauge agree |
| `RedisThrottlerStorage`, `TribeThrottlerGuard` | two Redis keys per client, or a local map | increment | rate-limit Redis | commands not atomic, shared by instances | no more than `limit` requests per window |
| `AuthController`, `AuthService`, providers (`src/auth`) | the key pair of the dev provider, new with every process; tokens cannot be revoked | token, refresh, validate | registry, Keycloak | rights that change while tokens live; restart with other keys | rights taken away expire with the tokens; a refresh keeps the claims (it does not) |
| `TribeClient` (`src/sdk`) | access and refresh token, expiry | authenticate, refresh, calls with retries | the gateway | concurrent refreshes, answers that overtake each other, expiry during retries, a gateway with new keys | a first attempt carries a live token, every call ends, the client recovers |
| `KafkaService` | producer, connected flag | publish (fire and forget) | Kafka | none for the gateway's state | - |
| guards, filters, interceptors, config, secrets, logger, tracing, DTOs | none, or read once | - | - | - | unit tests |

`PROJECT.json` lists every component with its status, and the hazards with the
line where each of them bites.

## Modules

| Module | Contents |
|---|---|
| `CircuitBreaker` | one breaker, as both of its users drive it; its properties; mutants of single rules next to the rule |
| `FailFast` | what a breaker promises its users: the abstract specification that `CircuitBreaker` implements |
| `Access` | what one tribe may reach: the token request, the lists of services and the decision of `proxyRequest`, while the registry changes; its properties |
| `AccessProofs` | five theorems |
| `MCAccess` | a tribe, a service and two scopes for TLC |
| `CircuitBreakerProofs` | inductive invariant and seven theorems, the refinement of `FailFast` among them |
| `MCCircuitBreaker` | sets of calls for TLC |
| `Forwarding` | the way of a request through guards, `ProxyHandler` or `ExternalService`, to the upstream and back to the breaker; composes `CircuitBreaker` |
| `ForwardingProofs` | types, `AdmissionsMatch`, `OpensForUpstream`, `OutageIsCutOff`, `OnlyTrialsReopen`, and the promise of `FailFast` at the gate |
| `MCForwarding` | three requests for TLC |
| `Registry` | instances, their memory, gauge, proxy cache, health sweep and reconciliation, their connection to Redis, Redis, faults |
| `RegistryProperties` | what the registry should guarantee, and what comments and documents claim |
| `Replicas` | what the registry promises although there are many copies of an entry: the abstract specification that `Registry` implements |
| `RegistryProofs` | type correctness of `Registry` |
| `RegistrySafetyProofs` | `WriteThrough` and the invariant it needs |
| `RegistryGatewayProofs` | what a gateway promises by itself (`RetiredUnlessRedis`, `GaugeKept`, `ProxyTargetCurrent`), and what holds of entries that travel: the refinement of `Replicas`, `RetirementHolds` |
| `MCRegistry` | symmetries |
| `Throttler` | the rate limiter of one tribe: requests between their Redis commands, the in-memory path, faults; its properties |
| `ThrottlerProofs` | five theorems, the burst bound among them |
| `MCThrottler` | sets of requests and gateways for TLC |
| `Tokens` | what the gateway signs, refreshes and validates: operators, no state |
| `TribeClient` | the SDK's client with concurrent calls, and the token endpoints as its server |
| `TribeClientProofs` | three theorems: types, `RightsExpire`, `FirstAttemptLive` |
| `MCTribeClient` | two calls for TLC |

### CircuitBreaker

Each method is synchronous, so it is one atomic step; the wrapped call is the
time between `Admit`/`AdmitTrial` and the report of its result. `call[c]` keeps
the breaker state in which the call was admitted, which the code does not: it
is what the properties speak about. `onSuccess` is split into
`SucceedOutsideTrial`, `SucceedInTrial`, `Recover`; `onFailure` into
`FailBelowThreshold`, `Trip`, `Reopen`. They are the branches of those methods,
and apply whatever state admitted the call. `notified` is the last
`onStateChange` announcement (`Announce`) and so the Prometheus gauge. `Abandon`
is a proxied request whose client goes away: `http-proxy` then raises neither of
the events that report a result.

A proxied request can report twice: `proxyRes` when the headers arrive, and
`error` when the upstream breaks off the body. Its call is in state `body`
between the two (`Answered` leads to `body` or to the end; `BodyOver` to the
end, by `Finish` or by one of the failures).

`FailFast` is the promise: a phase, the failures in a row, the successes of the
trial, the rest since the last stop. It has no counters, clock, callback or
calls in flight. `CircuitBreaker` implements it under a mapping to `state` and
`hist` (`FailsFast`): counters and `lastFailureTime` decide as the true history
would.

Data abstraction: `Date.now() - lastFailureTime` is `age`, saturated at the
timeout with which it is compared; `failureCount` saturates at the threshold.
`hist` is history: failures since the last success or reset, successes since
HALF_OPEN began, time since the breaker opened.

### Registry

JavaScript runs alone between awaits, so a handler up to its await is one
action, and what follows the await belongs to the action that delivers the
reply.

| Model | Code |
|---|---|
| `mode[i]` | down; booting; `redis` (`this.redis` set); `memory` (`this.redis = null`, for the life of the process) |
| `mem[i]` | `services`, entries reduced to status, URL, major version, health |
| `gauge[i]` | `registry_services_total` |
| `proxy[i]` | target of the cached middleware (`proxyCache`); a service has one namespace, so one handler |
| `probes[i]` | probes in flight; non-empty while `healthCheckRunning` |
| `pipe[i]`, `sent[i]` | unanswered commands of the ioredis connection, and how many of them Redis has executed |
| `snap[i]` | the result of the executed, unanswered `HGETALL` |
| `redis`, `saved` | the hash, and Redis' last snapshot on disk |
| `Register`, `WriteReply`, `WriteTimeout` | `register` before and after its await, and the catch branch of `persistToRedisStrict` |
| `Deregister`, `Deprecate`, `Retire`, `Activate` | the handlers of the same names; no state changes after their writes |
| `StartSweep`, `HealthChanges`, `HealthStands` | `handleHealthChecks` and `setHealthStatus` / `touchHealthCheck` |
| `Reconcile`, `CompareReply`, `LoadReply` | `handleRedisDriftReconciliation` and `loadFromRedis`, two `HGETALL`s |
| `Boot`, `BootAlone`, `LoadReply` | `onModuleInit` |
| `OpenProxy` | `proxyRequest` up to the creation of the middleware |
| `Disconnect`, `Flush` | ioredis resends unanswered commands after a reconnection, and rejects them after `maxRetriesPerRequest` |
| `SaveRedis`, `RestartRedis` | `redis-server --save 60 1` (`docker-compose.yml:151`) |

`synced` and `moved` are history: entries an instance has written through and
nothing has disturbed since, and entries that changed while a proxy was cached
and no listener was told.

Assumptions. A queue of commands is answered in order and resent in order:
that is ioredis with `autoResendUnfulfilledCommands`, its default. A change of
an entry gets a new `updatedAt`: two changes within a millisecond are left out.
Every service declares a `healthCheck`. `Restamped` lets the comparison find a
drift between entries with the same fields, because only `updatedAt` is
compared. Nothing in the code sets the status `proposed`, so `Status` does not
have it; the type invariant would notice. Kafka publishing changes no state.
`serviceType`, `consumes`, `requiredScopes` and the other manifest fields are
copied and never decide a transition of this model; module `Access` is about
them.

`Replicas` is the promise: `local[g][s]`, the entry a gateway goes by, and
`abroad[s]`, the values of `s` that may still reach somebody. A gateway decides
by the rules of the life cycle and of version governance for the entry it
knows, takes over a value from abroad, or loses its entry; what is abroad is
decisions, and may fade. There are no queues, replies, timeouts, restarts and
no source of truth. `Registry` implements it with `local` as `mem` and `abroad`
as all values in Redis, on its disk, in snapshots that a gateway has read and
in commands under way (`FollowsReplicas`). A stronger promise, a registry with
one copy, is not kept, not even by one gateway without faults: a load applies
what was read before a retirement (`registry_stale_load`). `RetirementHolds`
is what remains of "retired is final": once every copy is retired, nothing
revives the service but a registration at a gateway that has no entry of it.

### Access

One tribe, one gateway, one token at a time. `services` is the gateway's
registry, reduced to the fields that decide who may call a service: namespace,
retired or not, `consumes`, `requiredScopes`. It starts with any content and
changes in any way (`Change`), because handlers, loads and other gateways do.

| Model | Code |
|---|---|
| `Ask`, `Reject`, `Issue` | `AuthController.issueToken` before and after `await validateSecret`; `asking` is what it uses afterwards of the entry it has read before |
| `CollectScopes` | the scopes of the tribe and of the registered services it consumes, the latter read after the await |
| `Refresh`, `Refreshed` | `refreshToken`; the dev provider's refresh token carries no scopes and permissions |
| `ListServices`, `CanConsume` | `listServices` with `canAccess` |
| `Eligible`, `MissingScopes`, `Passes` | `proxyRequest` up to the breaker: known, namespace, life cycle, `canConsume`, `checkScopes` of `mergeCallerScopes` |

The awaits after `validateSecret` (signing, and the answer) change nothing
that these properties compare: the claims are fixed before them. `changed` is history:
the services whose entry changed since the token was asked for (the tribe's) or
issued (the others').

### Forwarding

One request is in one of five stages: `none`, `throttle` (the rate limiter's
storage is awaited), `verify` (the token check is awaited), `upstream`, `body`.
Everything in `proxyRequest` between the token check and the upstream call is
synchronous, hence one action with several outcomes: `Unauthorized` (401),
`NotFound` (404), `Gone` (410), `Forbidden` (403), `FailFast` (503) or
`Forward`. `kind` says which handler reaches the target, `ProxyHandler` or
`ExternalService`; an external call knows neither life cycle nor scopes here,
and axios counts every answer outside 2xx as a failure of the upstream
(`ExternalFailure`), where the proxy counts 502-504 and errors
(`ProxyFailure`).

What the registry says when it is asked is free: another gateway, a
reconciliation or a sweep may have changed it since the last request, and
`Registry` has the rules for that. The rate limiter's answer is free for the
same reason.

The breaker is `INSTANCE CircuitBreaker WITH Calls <- Requests`. The gate's
actions are built from its actions, so the gate runs a behaviour of that module
by construction, and this is no property of its own; which of its actions the
code takes when, and what is lost on the way, is what the properties are about.
`exists` tells whether the handler has a breaker for the target at
all; `Destroy` (`onModuleDestroy`) drops the breakers while requests are at
the upstream, and a result that finds none is dropped (`Report`). `Restart` is
the process that comes after. `blame` is history: failures in a row that were
the upstream's own. `ClientGone` stands also for the idle timeout of the
client's socket, which `proxyRequest` sets to the same value as `proxyTimeout`
(`proxy-handler.ts:198`): when it comes first, http-proxy reports `econnreset`
instead of `error`, and the breaker hears nothing of a silent upstream.

### Throttler

One throttle key. `redisIncrement` awaits its commands one by one, Redis
executes each of them atomically, and nothing local is read between execution
and reply: every command is one action of the request that sends it.

| Model | Code |
|---|---|
| `mode[g]` | `this.redis` set or null, decided by `onModuleInit` for the life of the process |
| `hits`, `hitsTtl` | `throttle:{key}:hits`; TTL 0 with `hits` > 0 is a counter that never expires |
| `block` | remaining life of `throttle:{key}:block` |
| `entry[g]` | `memoryStore.get(key)`; the absolute times are kept as what remains of them |
| `pc[r]`, `reply[r]` | the command a request is about to send; its local variable `hits` |
| `RejectBlocked`, `PassCheck`, `Incr`, `Expire`, `RejectOverLimit`, `Grant` | `redisIncrement`. The second `TTL` is only reported, so it is part of the action after it |
| `MemoryRejectBlocked`, `MemoryCount` | `memoryIncrement`, which is synchronous |
| `Fail` | a command fails, before or after Redis has executed it, and `increment` throws |
| `Repeated` | ioredis sends an executed but unanswered command again |
| `Restart`, `Forget` | a new gateway process; eviction (`allkeys-lru`) or a restart of Redis, which has no snapshot worth the name for keys that live a minute |

A tick is a quarter of a second. `EXPIRE` and `SETEX` get seconds rounded up
(`Math.ceil`), and `TTL` replies the nearest second (an exact half rounded up).
With half-second ticks a reply that is half a second too long and a key in its
last half second would be one state; quarters tell them apart.
Counters saturate above the limit, with which they are compared.

`last`, `told`, `watched`, `watch`, `seen` are history: the last answer that a
request got, what is left of the longest block that any client was told of
(`timeToBlockExpire`: `blockDuration` from the request that sets the block, the
rounded reply of `TTL` from those it stops), and the admissions of one bucket
(Redis, or one gateway's memory) in a period as long as the window, which may
begin at any time. The last four start anew when Redis loses what they are
about, or the watched gateway its memory, so the properties speak about the time
since then. An admission counts when `INCR` is
executed: the answer may come arbitrarily later.

`blockDuration` is not configured in `app.module.ts`, and the guard of
@nestjs/throttler then passes `ttl`; `BlockTime` is a constant of its own
because the class does not rely on that.

### Tokens and TribeClient

A tick is 30 s, the margin of `ensureAuth` and the timeout of axios. Of a token
the model keeps the time until `exp`, whether it carries permissions and scopes
(`scoped`) and whether its signature still verifies (`genuine`). A token or an
answer that may be missing is a set of at most one element.

| Model | Code |
|---|---|
| `registration`, `since` | what the registry holds of the tribe: absent, without or with rights; history: time since it last had them |
| `access`, `refresh`, `expiry` | `accessToken`, `refreshToken`, `tokenExpiry - Date.now()` |
| `pc[c]`, `wants[c]` | what a call awaits, and whether a request follows the token |
| `token[c]`, `grant[c]` | the token that travels with the call's request; the gateway's answer that travels back |
| `attempt[c]`, `left[c]` | loop variable of `requestWithRetry`; time until axios gives up |
| `Call`, `Login` | `callService` and its siblings up to their first await; `authenticate` and `refresh` |
| `ServeToken`, `ServeRefresh` | `AuthController` and its provider, at one moment; the answer arrives later |
| `Receive`, `Refuse`, `Break` | the answer, the refusal, no answer in time |
| `Answer`, `RequestFails`, `Retry` | `requestWithRetry`: final answer, retryable failure, end of the backoff |
| `Restart` | a gateway with a new key pair: every token of the dev provider is an `Orphan` |

The client has no lock: two calls that find the token too old both refresh, and
the last answer to arrive wins, which need not be the last one signed. A request
for a token ends by its deadline (`Tick`). The deadlines of other requests matter
to no property.

## Runs

Passing:

| Run | Question | Instance | Distinct states |
|---|---|---|---|
| `breaker` | are counters, cooldown and gauge right whatever arrives when, does it keep the promise of `FailFast`, does it leave OPEN, does it recover? | 3 calls, thresholds 3 and 2, cooldown 2 ticks | 7880 |
| `registry_two` | is what a gateway stores what Redis will hold, is retired final unless Redis says otherwise, and final for good once every copy is retired? | 2 gateways, 1 service | 1.57 million |
| `registry_one` | do proxy cache and gauge follow the registry? | 1 gateway, 2 services, 2 URLs, every fault | 390 000 |
| `registry_converge` | is the registry an implementation of `Replicas`, and does the reconciliation repair everything that Redis knows? | 2 gateways, 1 service, 2 major versions | 915 000 |
| `throttler` | how much gets through, does an announced block hold, rounding included, does a window end in time, does every counter get its TTL, is a rejected client let in again? | 2 concurrent requests, limit 2, window 3 and block 4 ticks, every fault once | 477 000 |
| `access` | do the token, the lists and the decision agree on what a tribe may call, whatever changes when? | the tribe and one service, either may consume either, 2 scopes, one of them also a permission, any registry at the start | 222 000 |
| `gate` | is every admission released on every way out, are only upstream failures held against a proxied service, is every outage cut off, does nothing but a trial reopen? | 3 requests, thresholds 2 and 2, cooldown 2 ticks, both kinds of target | 56 900 |
| `sdk` | do rights expire, is the first attempt's token live, does every call end, does the client recover? | 2 calls, tokens of 2 and 3 ticks, margin and timeout 1 tick, 1 retry, both providers | 249 000 |

Refuted claims, one run each; every one quotes the sentence it refutes in
`PROJECT.json` under "findings":

| Run | Claim | What happens |
|---|---|---|
| `registry_stale_load` | retirement is permanent | a reconciliation loads what it read before the retirement; no fault, one gateway |
| `registry_removal` | the reconciliation repairs keys missing in either direction | a key missing from Redis is never removed from memory |
| `throttler_ttl` | the counter has a TTL | not when its creator fails between `INCR` and `EXPIRE`; the tribe is then limited for ever |
| `sdk_refresh` | a refresh issues a token "using the same claims" | the refresh token of the dev provider has no permissions and scopes, so the first refresh drops them, though the tribe still has its rights |

More claims need no run, the code shows them false at a glance, and the models
have the behaviour of the code:

- a rollback does not keep memory and Redis from drifting (`README.md:463`,
  `registry.service.ts:120`): when the deadline passes, the entry is deleted from
  memory while its `HSET` stays queued and is executed later (`WriteTimeout` then
  `Execute`); it is also deleted when the write was an update, and when a later
  call has stored something else meanwhile;
- re-registration of a retired service is blocked (`README.md:505`) only on a
  gateway that has heard of the retirement: `register` looks at the gateway's own
  memory;
- a major downgrade is rejected only between two registrations that both have
  a version: a registration without one in between allows it;
- stale middleware stays after a deregistration and a registration with another
  URL: `deregister` tells no listener, and `register` tells them only of a
  service that it finds registered (`registry.service.ts:200`);
- the global `TribeThrottlerGuard` runs before `JwtAuthGuard`, so `req.user` is
  never there when it chooses the bucket (`README.md:611`);
- `proxyRequest` never calls `isRoutable`, so unhealthy services are not
  rejected (`README.md:754`);
- `loadFromRedis` does not sync the gauge, which shows 0 after a restart
  (`metrics.service.ts:10`);
- HALF_OPEN lets every request through until one has answered, not one test
  request (`circuit-breaker.ts:9`);
- the in-memory limiter deletes an expired entry before it reads its block, so
  a block that outlasts the window is announced once more and then forgotten;
- `increment` does not catch errors: when Redis fails after the start, requests
  fail and there is no fallback (`README.md:629`);
- windows are fixed, not sliding (`README.md:626`); what that allows is
  `BurstBounded`.

Every property of a passing run has a mutant: a definition of the model changed
the way a plausible bug would change the code (`mutants` in `PROJECT.json`, the
changed operators stand before the originals in the modules), and TLC finds the
property violated.

### Bounds

`MaxPipe` 2 lets a write overtake or be overtaken by a second write or by a
read of the same connection; with 2 gateways that makes 4 commands in flight.
`MaxCalls` 2 or 3 is register, a change, and a change of the change, of one or
two services. `MaxFaults` 1 or 2: the faults are one-step disturbances, and
every property that fails does so with at most one. The bounds are guards
(`Room`, `Call`, `Fault`) and appear in no property; the proofs hold without
regard to them. The breaker's thresholds in the model are small because only
comparisons with them matter; proofs are for all thresholds.

The throttler's window of 3 ticks is rounded up to a second by `EXPIRE`; its block
of 4 ticks is a second, and what is left of it is rounded up by `TTL` with 2 and 3
ticks, and down with 1. The check therefore lets a client pass while the counter
may have its last tick, so that it is over the limit at once and blocked again:
the case in which `LetInAgain` could fail. One gateway is enough: gateways on Redis differ only in
the requests they send.

`gate`: three requests are one for each result a breaker may be waiting for
when another one arrives: one that trips it, one admitted before, one turned
away. Thresholds of 2 need results of two requests.

`sdk`: two calls, so that one refreshes while the other's answer is under way.
A token of 2 ticks needs renewal after one (margin 1), and a refresh token of 3
can expire before the client uses it. Nothing is bounded but by time, which
saturates, and by `MaxRetries`. The timeout is smaller than the life of a token,
as the theorem about first attempts requires.

`registry_converge` has two major versions, so that one gateway's registration
may be refused by version governance while another's is not.

`access`: the properties relate the tribe to one other service at a time, so two
services are all there is to see, the tribe as its own target included. Of the
two scopes one is covered by the tribe's permissions and one is not. Nothing
else is bounded.

`CHECK_DEADLOCK FALSE` stands in the configurations without the reconciliation
job: there a gateway with no requests has nothing to do.

### Fairness

`CircuitBreaker`: time passes; an admitted call reports a result (axios
`timeout`, http-proxy `proxyTimeout`); requests keep arriving. The last is an
assumption about clients: the breaker has no timer, and with no request it
stays OPEN. The timeouts are for idle sockets; that an upstream does not
trickle for ever is an assumption as well. `Recovers` further assumes that calls eventually stop failing.

`Registry`: Redis executes commands and replies arrive (`Execute`, the replies);
the cron starts the reconciliation again and again (`Reconcile`). No fairness on
faults, requests, boots or sweeps.

`Throttler`: time passes, Redis answers, and the client keeps asking
(`LetInAgain` says nothing about a client that has given up).

`Forwarding` and `Access`: none, their properties are safety. That every request
is answered is not among them, because the code does not see to it: the Redis
client of the rate limiter has no `commandTimeout`
(`redis-throttler-storage.ts:41`), so its promises need not settle, and
`proxyTimeout` does not end a body that trickles.

`TribeClient`: time passes, every request is answered or times out, every
backoff ends, and the tribe goes on making calls. `ClientRecovers` assumes
besides that faults end some day and the tribe is registered from then on: the
only faults are failed requests, broken requests for tokens, and restarts of the
gateway with other keys.

## Proofs

All theorems are for arbitrary constants under `AccessAssumption`,
`BreakerAssumption`, `GateAssumption`, `RegistryAssumption`,
`ThrottlerAssumption`, `TokensAssumption` and `ClientAssumption`: any number of
calls in flight, gateways, services, URLs, scopes, requests, any threshold,
limit, window, block duration, token life, margin and number of retries.
`AccessAssumption` says that permissions are scopes too, as `checkScopes` takes
them, and that `None` is none of the records. `ClientAssumption` has the
client's timeout within its margin (both 30 s by default);
`ClientFirstAttemptLive` needs besides that a token lives longer than the
request for it may take, and says so.

`CircuitBreakerProofs`. `TypeOK`, `ClosedCountsStreak`, `TrialCountsThisTrial`
and `GaugeFollowsState` are proved together with the cooldown invariant
(`CooldownNotShortened`) as one inductive invariant, by one step per action.
`OpenRestsForCooldown` follows: a trial starts when `age` has reached the
timeout, and `age` never exceeds the time since the opening. The refinement of
`FailFast` (`BreakerKeepsPromise`) needs the same invariant, because the
abstract steps are guarded by the history and the code's by its counters.

`AccessProofs`. The invariant is `AccessInv`: unless the tribe is in `changed`,
what a request for a token has read is what the registry says (`AskedCurrent`);
a fresh token has the scopes of every consumed service that has not changed
(`TokenCurrent`); a refreshed one has none (`RefreshedEmpty`); and a request
excludes a token (`OneAtATime`), or `Refresh` could meet an `Ask` under way.
`DenialMeansChange` and `ListKeepsPromise` are its consequences. That `Issue`
establishes `TokenCurrent` although it mixes an old entry of the tribe with
targets of now is the core: either the tribe is in `changed`, or the old entry
is the current one.

`ForwardingProofs`. That every step of the gate is a step of its breaker or leaves
it alone holds by construction and is only a lemma (`GateRunsBreaker`). With it
`GateKeepsPromise` takes the theorem `BreakerKeepsPromise` to the gate:
`CircuitBreakerProofs` is instantiated with the gate's requests as calls,
`GateMeetsBreaker` shows its assumption, and `SameNext` that its breaker is the
gate's. Types are then kept by steps of the breaker, not of the gate. `AdmissionsMatch` is inductive with them.
`OpensForUpstream` needs that the failure count of the CLOSED breaker of a
proxied service is `blame` (`CountsBlame`). A breaker becomes CLOSED by a success,
a reset or by being new, and each of them sets both to zero. `OutageIsCutOff`
holds for external APIs as well, whose breakers count more than `blame`
(`CountsOutage`): a CLOSED breaker has counted at least `blame`, and less than the
threshold.

`TribeClientProofs`. Types need that grants under way have at most one refresh
token and that a call in its backoff has an attempt left. `RightsExpire` is not
inductive: a refresh token with scopes would renew them. So the invariant says
that no refresh token of the dev provider has scopes, wherever it is, and that
every scoped token ends within `Limit`, what is left of the last life begun while
the tribe had its rights; a tick shortens lives at least as much as the limit.
`FirstAttemptLive` follows from `Fresh`: a grant under way was signed no longer
ago than its call has waited, hence the client overestimates a token's life by
the timeout at most, and the margin is at least that.

`RegistryProofs`. `TypeOK` is inductive. The work is in the queues: appending,
dropping the head, and changing one command keep `Seq(Command)`, and `sent`
stays within the queue.

`RegistrySafetyProofs`. `WriteThrough` alone is not inductive: a disconnection
sets `sent` back and Redis executes old commands once more, so the *last* write
of the queue does not determine what Redis holds until it has been executed
again. The invariant `SyncInv` says, for every entry in `synced`, that the last
queued write has the value in memory, that once the last write has been
executed Redis holds it, and that an instance with a non-empty `synced` is
connected. It is kept by a lemma per kind of queue change (`QueueKept`,
`OwnAppended`, `OtherAppended`, `HeadDropped`, `NextExecuted`, `PeerExecuted`).

`RegistryGatewayProofs`. `RetiredUnlessRedis` and `GaugeKept` are properties of
steps, and type correctness is all they need: each action is shown to move a
retired entry only to removal or to what its snapshot says, and to set the
gauge whenever it changes the number of routable services.
`ProxyTargetCurrent` needs to know besides that a gateway that is down has no
command under way, or a boot could lose an update whose notification is still
to come. The refinement of `Replicas` (`RegistryFollowsReplicas`) follows values
through the system: what is in Redis, on disk, read or queued after a step was
there before it (`NothingNew`, for queues `QueueFades`, `ReplyQueues`), except for
the value of a handler that appends its write (`WriteGoesRound`), and that is a
governed decision on the entry in memory (`StoreDecides` for each handler and the
probe). A load takes over values that are abroad (`LoadAdopts`); deregistration,
rollback and crash lose entries. `RegistryRetirementHolds` is then proved from
the abstract steps alone: if every copy is retired, whatever is adopted is
retired, and of the decisions only `Created` makes anything else.

`ThrottlerProofs`. `CounterHasOwner` is inductive once one adds that an absent
counter has no TTL. `WindowNotProlonged` needs that the request about to send
`EXPIRE` is the only one, and that its counter is still there without TTL
(`SoleOwner`): a key without TTL does not expire, so however slow the request is,
no later window can have begun. `BlockHolds` follows from `told <= block + 2`: what any client was
told exceeds the life of the key by half a second at most, which a rounded reply
of `TTL` can reach, whereas the rounding up of `SETEX` errs on the other side
(`TtlReplyBounds`). With a second of `told` left, half a second of the key is, and
the check sees it. For `BurstBounded` the invariant (`Admitted`) tells how
a period of length `Window` can meet the windows of a bucket: it lies within
one; or one is over and no other has begun; or one is over and the current one
outlasts the period; or the period is over. Counting, ageing and renewing a
window keep that, whatever bucket it is: these are lemmas about numbers
(`AdmittedCounts`, `AdmittedAges`, `AdmittedStays`), applied once to the Redis
counter and once to the entries in memory.

Model-checked only: liveness (`OpenIsLeft`, `Recovers`, `Converges`,
`LetInAgain`, `CallEnds`, `ClientRecovers`), which is out of the
prover's reach.

## Not modelled, and what is left of the plan

Left of the plan: abstract specifications of the limiter and of the client's
tokens. `BurstBounded`, `RightsExpire` and `FirstAttemptLive` say most of what
they would.

Not modelled, because nothing in it changes state that a later step reads:

- `RegistryController`, except for the defaults of `register`, and the DTOs:
  validation and translation of requests; admin guards and key checks;
- Kafka: events are published without awaiting them, failures are logged; their
  order is that of the calls and no code of the gateway reads them;
- filters, and the audit and metrics interceptors, which only observe (they
  record a status before a proxied answer is there);
- `HealthController`: reads the state of others;
- configuration and secrets, except for the values that are constants here;
  bootstrap, logging, tracing, middleware, nginx.

Partly modelled: of `RegistryService` the manifest fields that decide nothing
(names, tags, contacts) are missing; `TribeThrottlerGuard` is a stage of
`Forwarding` with one bucket, so the choice of the bucket is not there; guards
are there with their outcomes, not with the rules for claims; of Keycloak what
`KeycloakProvider` expects of it, not its server; of metrics the two gauges; of
the deployment the settings of Redis. Whether the upstream receives a request
body that Nest's parser has consumed is a matter of data the models do not have.
The effects of a repeated POST (`isRetryable` does not look at the method) are in
the upstream.
