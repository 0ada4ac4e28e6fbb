-------------------------------- MODULE Gateway --------------------------------
(***************************************************************************)
(* api/routes.py and main.py: the requests of one gateway worker on their  *)
(* way through guard, token, rate limiter, circuit breaker and cost        *)
(* tracker, and the handlers that turn an exception into an answer.        *)
(*                                                                         *)
(* The circuit breaker is the module CircuitBreaker itself, its calls      *)
(* being the chat requests.  Guard and limiter have modules of their own;  *)
(* here they are what the routes see of them, a verdict after an await     *)
(* that depends on Redis.  A request waits nowhere else than in the guard, *)
(* in the limiter and for the upstream: what the routes do between two of  *)
(* these is one action, the writing of the usage record included.          *)
(*                                                                         *)
(* The module follows a worker from its start, when the cost tracker has   *)
(* replayed the ledger into its memory and the breaker is as new.          *)
(***************************************************************************)
EXTENDS CircuitBreaker

CONSTANTS
  Replayed,           \* records that the replay found when the worker started
  ReplayedFallbacks   \* those of them for a fallback answer

ASSUME ReplayAssumption == Replayed \in Nat /\ ReplayedFallbacks \in 0 .. Replayed

VARIABLES
  phase,               \* where each request waits, or "idle"
  kind,                \* the route it is for
  answer,              \* the status code sent last
  recorded,            \* usage records in memory, counted up to MaxRecords
  recorded_fallbacks,  \* those of them for a fallback answer, to MaxFallbacks
  redis_up,            \* Redis can be reached
  redis_healthy,       \* _redis_healthy of the rate limiter
  disk_ok              \* the ledger file can be written

books == <<recorded, recorded_fallbacks>>
environment == <<redis_up, disk_ok>>
gatewayVars == <<vars, phase, kind, answer, books, redis_healthy, environment>>

Routes == {"login", "chat"}
StatusCodes == {200, 401, 422, 429, 500}

\* Bounds: as many records are counted after the start as the metrics count calls.
MaxRecords == Replayed + CountCap
MaxFallbacks == ReplayedFallbacks + CountCap

GatewayInit ==
  /\ Init
  /\ phase = [r \in Calls |-> "idle"]
  /\ kind = [r \in Calls |-> "chat"]
  /\ answer = 200
  /\ recorded = Replayed /\ recorded_fallbacks = ReplayedFallbacks
  /\ redis_up \in BOOLEAN /\ disk_ok \in BOOLEAN
  /\ redis_healthy = TRUE

WaitsIn(r, place) == phase' = [phase EXCEPT ![r] = place]

Answer(r, code) == WaitsIn(r, "idle") /\ answer' = code

\* A request arrives; the guard, a dependency of both routes, comes first.
Arrive(r) ==
  /\ phase[r] = "idle"
  /\ WaitsIn(r, "guard")
  /\ \E route \in Routes : kind' = [kind EXCEPT ![r] = route]
  /\ UNCHANGED <<vars, answer, books, redis_healthy, environment>>

\* FastAPI parses the body before any dependency: one that is no JSON is
\* answered 422, unguarded.
Malformed(r) ==
  /\ phase[r] = "idle"
  /\ answer' = 422
  /\ UNCHANGED <<vars, phase, kind, books, redis_healthy, environment>>

\* enforce_ddos_guard raises 429, which it can only on the word of Redis.
GuardBlocks(r) ==
  /\ phase[r] = "guard" /\ redis_up
  /\ Answer(r, 429)
  /\ UNCHANGED <<vars, kind, books, redis_healthy, environment>>

\* The guard lets the request pass, Redis or not.  A login is answered at once,
\* and so is a chat request with a bad token (401), an invalid body (422) or,
\* in either route, a key that cannot be loaded (500).
GuardPasses(r) ==
  /\ phase[r] = "guard"
  /\ \/ /\ kind[r] = "login"
        /\ \E code \in {200, 401, 422, 500} : Answer(r, code)
     \/ /\ kind[r] = "chat"
        /\ \/ \E code \in {401, 422, 500} : Answer(r, code)
           \/ WaitsIn(r, "limiter") /\ UNCHANGED answer
  /\ UNCHANGED <<vars, kind, books, redis_healthy, environment>>

\* A variant ends in Slip when it is a bug a run must catch: no specification
\* uses it.
RecordUsageSlip(r, fallback) ==   \* the memory is updated after the file
  /\ recorded' = IF disk_ok THEN Capped(recorded, MaxRecords) ELSE recorded
  /\ recorded_fallbacks' = IF fallback /\ disk_ok THEN Capped(recorded_fallbacks, MaxFallbacks)
                                       ELSE recorded_fallbacks
  /\ Answer(r, IF disk_ok THEN 200 ELSE 500)

\* record_usage, then the answer: 500 if the file cannot be written, when the
\* memory has its record already.
RecordUsage(r, fallback) ==
  /\ recorded' = Capped(recorded, MaxRecords)
  /\ recorded_fallbacks' = IF fallback THEN Capped(recorded_fallbacks, MaxFallbacks)
                                       ELSE recorded_fallbacks
  /\ Answer(r, IF disk_ok THEN 200 ELSE 500)

CallBreakerSlip(r) ==   \* the fallback's answer is not used
  \/ CallAdmitted(r) /\ WaitsIn(r, "upstream") /\ UNCHANGED <<answer, books>>
  \/ ShortCircuit(TRUE) /\ WaitsIn(r, "upstream") /\ UNCHANGED <<answer, books>>

\* mock_ai_circuit_breaker.call with the fallback wrapper
CallBreaker(r) ==
  \/ CallAdmitted(r) /\ WaitsIn(r, "upstream") /\ UNCHANGED <<answer, books>>
  \/ ShortCircuit(TRUE) /\ RecordUsage(r, TRUE)

\* enforce_rate_limit raises 429, or the route goes on to the breaker.
Decide(r) ==
  \/ Answer(r, 429) /\ UNCHANGED <<vars, books>>
  \/ CallBreaker(r)

LimiterReplies(r) ==
  /\ phase[r] = "limiter" /\ redis_up
  /\ redis_healthy' = TRUE
  /\ Decide(r)
  /\ UNCHANGED <<kind, environment>>

LimiterDegradesSlip(r) ==   \* the flag is left as it is
  /\ phase[r] = "limiter"
  /\ Decide(r)
  /\ UNCHANGED <<kind, redis_healthy, environment>>

LimiterRetriesSlip(r) ==   \* a check is repeated until Redis is back
  /\ phase[r] = "limiter" /\ redis_up
  /\ redis_healthy' = FALSE
  /\ Decide(r)
  /\ UNCHANGED <<kind, environment>>

\* An error or a time-out: the local bucket decides.
LimiterDegrades(r) ==
  /\ phase[r] = "limiter"
  /\ redis_healthy' = FALSE
  /\ Decide(r)
  /\ UNCHANGED <<kind, environment>>

UpstreamReturns(r) ==
  /\ phase[r] = "upstream"
  /\ Succeed(r)
  /\ RecordUsage(r, FALSE)
  /\ UNCHANGED <<kind, redis_healthy, environment>>

UpstreamFailsSlip(r) ==   \* no fallback is given: the exception is answered 500
  /\ phase[r] = "upstream"
  /\ Fail(r, FALSE)
  /\ Answer(r, 500)
  /\ UNCHANGED <<kind, books, redis_healthy, environment>>

\* The upstream raises: the fallback answers.
UpstreamFails(r) ==
  /\ phase[r] = "upstream"
  /\ Fail(r, TRUE)
  /\ RecordUsage(r, TRUE)
  /\ UNCHANGED <<kind, redis_healthy, environment>>

\* GET /health and GET /metrics/dashboard, answered without an await
ServeMetrics ==
  /\ PollState
  /\ UNCHANGED <<phase, kind, answer, books, redis_healthy, environment>>

TimePasses ==
  /\ Tick
  /\ UNCHANGED <<phase, kind, answer, books, redis_healthy, environment>>

\* Redis and the disk come and go.
EnvironmentChanges ==
  /\ \/ redis_up' = ~redis_up /\ UNCHANGED disk_ok
     \/ disk_ok' = ~disk_ok /\ UNCHANGED redis_up
  /\ UNCHANGED <<vars, phase, kind, answer, books, redis_healthy>>

GuardEnds(r) == GuardBlocks(r) \/ GuardPasses(r)
LimiterEnds(r) == LimiterReplies(r) \/ LimiterDegrades(r)
UpstreamEnds(r) == UpstreamReturns(r) \/ UpstreamFails(r)

GatewayNext ==
  \/ \E r \in Calls :
       Arrive(r) \/ Malformed(r) \/ GuardEnds(r) \/ LimiterEnds(r) \/ UpstreamEnds(r)
  \/ ServeMetrics
  \/ TimePasses
  \/ EnvironmentChanges

GatewaySpec == GatewayInit /\ [][GatewayNext]_gatewayVars

\* Time passes, /health is polled, and every await ends: the Redis commands at
\* their socket timeout, the upstream at that of wait_for.
GatewayFairness ==
  /\ WF_gatewayVars(TimePasses)
  /\ WF_gatewayVars(ServeMetrics)
  /\ \A r \in Calls :
       /\ WF_gatewayVars(GuardEnds(r))
       /\ WF_gatewayVars(LimiterEnds(r))
       /\ WF_gatewayVars(UpstreamEnds(r))

GatewayLiveSpec == GatewaySpec /\ GatewayFairness
--------------------------------------------------------------------------------
\* Type invariant of the pipeline; the requests that wait for the upstream are
\* the calls the breaker has in flight.
GatewayTypeOK ==
  /\ phase \in [Calls -> {"idle", "guard", "limiter", "upstream"}]
  /\ kind \in [Calls -> Routes]
  /\ answer \in StatusCodes
  /\ recorded \in Replayed .. MaxRecords
  /\ recorded_fallbacks \in ReplayedFallbacks .. MaxFallbacks
  /\ redis_up \in BOOLEAN /\ redis_healthy \in BOOLEAN /\ disk_ok \in BOOLEAN
  /\ inflight = {r \in Calls : phase[r] = "upstream"}

\* The two halves of /metrics/dashboard differ by what the replay has found and
\* by the calls in flight, and by nothing else: since the worker started, every
\* call the breaker has counted has left one usage record in memory when it
\* ended, and every fallback it has counted is recorded as one, with calls that
\* overlap, fail or are answered 500 because the ledger cannot be written.
BooksBalance ==
  total_calls < CountCap =>
    /\ Replayed + total_calls = recorded + Cardinality(inflight)
    /\ ReplayedFallbacks + total_fallbacks_served = recorded_fallbacks

\* An authenticated request is answered 200 or refused by its rate limit,
\* whatever the upstream, the circuit and Redis do, as long as the ledger can
\* be written.
FailuresDegrade ==
  [][\A r \in Calls :
       phase[r] \in {"limiter", "upstream"} /\ phase'[r] = "idle" /\ disk_ok
         => answer' \in {200, 429}]_gatewayVars

\* Every request is answered, with Redis or without, and whatever overlaps it.
EveryRequestAnswered ==
  \A r \in Calls : phase[r] # "idle" ~> phase[r] = "idle"

\* The worker uses its breaker as the breaker's specification says, so that
\* whatever holds of the breaker holds in the gateway.
BreakerInside == Spec

\* If Redis is gone for good and chat requests keep coming, /health ends up
\* reporting `degraded' for good.
HealthFollows ==
  (<>[](~redis_up) /\ \A r \in Calls : []<>(phase[r] = "limiter")) => <>[](~redis_healthy)

\* /health as the documentation words it (routes.py:202-203, "Reports
\* `degraded` ... when Redis is unreachable"), given any time it needs.
HealthDetects == <>[](~redis_up) => <>(~redis_healthy)
================================================================================
