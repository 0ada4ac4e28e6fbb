----------------------------- MODULE GatewayProofs -----------------------------
(***************************************************************************)
(* What holds of the request pipeline for every number of requests and     *)
(* every setting of the breaker.  The pipeline runs the breaker as its     *)
(* specification says, so that the theorems about the breaker carry over;  *)
(* the balance of the books, for any ledger the replay may have found,     *)
(* rests on the type invariant, which ties the requests that wait for the  *)
(* upstream to the calls in flight.                                        *)
(***************************************************************************)
EXTENDS Gateway, CircuitBreakerProofs

USE BreakerAssumption, ReplayAssumption

\* What the breaker sees of an action of the pipeline is an action of its own,
\* or nothing.
LEMMA PipelineStep == [GatewayNext]_gatewayVars => [Next]_vars
<1> SUFFICES ASSUME [GatewayNext]_gatewayVars PROVE Next \/ UNCHANGED vars
  OBVIOUS
<1>1. ASSUME NEW r \in Calls, CallBreaker(r) PROVE Next
  BY <1>1 DEF CallBreaker, Next
<1>2. ASSUME NEW r \in Calls, Decide(r) PROVE Next \/ UNCHANGED vars
  BY <1>1, <1>2 DEF Decide
<1>3. ASSUME NEW r \in Calls,
             Arrive(r) \/ Malformed(r) \/ GuardEnds(r)
      PROVE  UNCHANGED vars
  BY <1>3 DEF Arrive, Malformed, GuardEnds, GuardBlocks, GuardPasses
<1>4. ASSUME NEW r \in Calls, LimiterEnds(r) PROVE Next \/ UNCHANGED vars
  BY <1>2, <1>4 DEF LimiterEnds, LimiterReplies, LimiterDegrades
<1>5. ASSUME NEW r \in Calls, UpstreamEnds(r) PROVE Next
  BY <1>5 DEF UpstreamEnds, UpstreamReturns, UpstreamFails, Next
<1>6. CASE ServeMetrics \/ TimePasses
  BY <1>6 DEF ServeMetrics, TimePasses, Next
<1>7. CASE EnvironmentChanges
  BY <1>7 DEF EnvironmentChanges
<1>8. CASE UNCHANGED gatewayVars
  BY <1>8 DEF gatewayVars
<1>9. QED
  BY <1>3, <1>4, <1>5, <1>6, <1>7, <1>8 DEF GatewayNext

\* The pipeline uses its breaker as the breaker's specification says.
THEOREM BreakerIsInside == GatewaySpec => BreakerInside
<1>1. GatewayInit => Init
  BY DEF GatewayInit
<1>2. QED
  BY <1>1, PipelineStep, PTL DEF GatewaySpec, BreakerInside, Spec

\* In the pipeline, too, only trial calls decide the recovery, and the breaker
\* keeps its contract.
THEOREM BreakerKeepsItsPromises ==
  GatewaySpec => []TrialIsolation /\ TrialsStartAlone /\ ImplementsContract
  BY BreakerIsInside, TrialsIsolated, TrialsAlone, BreakerImplementsContract, PTL
     DEF BreakerInside
-------------------------------------------------------------------------------
\* Writing the usage record keeps the books and the answer typed.
LEMMA RecordStep ==
  ASSUME GatewayTypeOK, NEW r \in Calls, NEW fallback \in BOOLEAN,
         RecordUsage(r, fallback)
  PROVE  /\ recorded' \in Replayed .. MaxRecords
         /\ recorded_fallbacks' \in ReplayedFallbacks .. MaxFallbacks
         /\ answer' \in StatusCodes
         /\ phase' = [phase EXCEPT ![r] = "idle"]
  BY DEF GatewayTypeOK, RecordUsage, Answer, WaitsIn, StatusCodes, Capped,
         MaxRecords, MaxFallbacks

\* No step breaks the type of the pipeline.
LEMMA PipelineType == TypeOK /\ GatewayTypeOK /\ [GatewayNext]_gatewayVars => GatewayTypeOK'
<1> SUFFICES ASSUME TypeOK, GatewayTypeOK, [GatewayNext]_gatewayVars
             PROVE  GatewayTypeOK'
  OBVIOUS
<1> USE DEF GatewayTypeOK, books, environment
<1>1. ASSUME NEW r \in Calls, phase[r] = "limiter", Decide(r),
             redis_healthy' \in BOOLEAN, UNCHANGED <<kind, environment>>
      PROVE  GatewayTypeOK'
  <2>1. CASE Answer(r, 429) /\ UNCHANGED <<vars, books>>
    BY <1>1, <2>1 DEF Answer, WaitsIn, StatusCodes, vars, pending
  <2>2. CASE CallAdmitted(r) /\ WaitsIn(r, "upstream") /\ UNCHANGED <<answer, books>>
    BY <1>1, <2>2 DEF CallAdmitted, WaitsIn
  <2>3. CASE ShortCircuit(TRUE) /\ RecordUsage(r, TRUE)
    BY <1>1, <2>3, RecordStep DEF ShortCircuit, pending
  <2>4. QED
    BY <1>1, <2>1, <2>2, <2>3 DEF Decide, CallBreaker
<1>2. ASSUME NEW r \in Calls, Arrive(r) PROVE GatewayTypeOK'
  BY <1>2 DEF Arrive, WaitsIn, vars, pending
<1>3. ASSUME NEW r \in Calls, Malformed(r) PROVE GatewayTypeOK'
  BY <1>3 DEF Malformed, StatusCodes, vars, pending
<1>4. ASSUME NEW r \in Calls, GuardEnds(r) PROVE GatewayTypeOK'
  BY <1>4 DEF GuardEnds, GuardBlocks, GuardPasses, Answer, WaitsIn, StatusCodes,
              vars, pending
<1>5. ASSUME NEW r \in Calls, LimiterEnds(r) PROVE GatewayTypeOK'
  BY <1>1, <1>5 DEF LimiterEnds, LimiterReplies, LimiterDegrades
<1>6. ASSUME NEW r \in Calls, UpstreamEnds(r) PROVE GatewayTypeOK'
  <2>1. /\ phase[r] = "upstream" /\ Finished(r)
        /\ \E fallback \in BOOLEAN : RecordUsage(r, fallback)
        /\ UNCHANGED <<kind, redis_healthy, environment>>
    BY <1>6 DEF UpstreamEnds, UpstreamReturns, UpstreamFails, Succeed, Fail
  <2>2. QED
    BY <2>1, RecordStep DEF Finished
<1>7. CASE ServeMetrics \/ TimePasses
  BY <1>7 DEF ServeMetrics, TimePasses, PollState, Tick, pending
<1>8. CASE EnvironmentChanges
  BY <1>8 DEF EnvironmentChanges, vars, pending
<1>9. CASE UNCHANGED gatewayVars
  BY <1>9 DEF gatewayVars, vars, pending
<1>10. QED
  BY <1>2, <1>3, <1>4, <1>5, <1>6, <1>7, <1>8, <1>9 DEF GatewayNext

\* The pipeline keeps its type, and the requests that wait for the upstream are
\* the calls the breaker has in flight.
THEOREM GatewayTypeCorrect == GatewaySpec => []GatewayTypeOK
<1>1. GatewayInit => GatewayTypeOK
  BY DEF GatewayInit, Init, GatewayTypeOK, StatusCodes, Routes, MaxRecords, MaxFallbacks
<1>2. QED
  BY <1>1, PipelineType, BreakerIsInside, TypeCorrect, PTL DEF GatewaySpec, BreakerInside

\* Whatever the upstream, the circuit and Redis do, a request that has got as
\* far as the limiter is answered 200 or 429 as long as the ledger can be
\* written.
THEOREM FailuresAlwaysDegrade == GatewaySpec => FailuresDegrade
<1>1. TypeOK /\ GatewayTypeOK /\ [GatewayNext]_gatewayVars =>
        [\A r \in Calls :
           phase[r] \in {"limiter", "upstream"} /\ phase'[r] = "idle" /\ disk_ok
             => answer' \in {200, 429}]_gatewayVars
  <2> SUFFICES ASSUME GatewayTypeOK, GatewayNext, disk_ok, NEW r \in Calls,
                      phase[r] \in {"limiter", "upstream"}, phase'[r] = "idle"
               PROVE  answer' \in {200, 429}
    OBVIOUS
  <2> USE DEF GatewayTypeOK
  <2>1. ASSUME NEW q \in Calls,
               Arrive(q) \/ Malformed(q) \/ GuardEnds(q) PROVE FALSE
    BY <2>1 DEF Arrive, Malformed, GuardEnds, GuardBlocks, GuardPasses, Answer, WaitsIn
  <2>2. ASSUME NEW q \in Calls, LimiterEnds(q) PROVE answer' \in {200, 429}
    <3>1. Decide(q)
      BY <2>2 DEF LimiterEnds, LimiterReplies, LimiterDegrades
    <3>2. ASSUME WaitsIn(q, "upstream") PROVE FALSE
      BY <3>2 DEF WaitsIn
    <3>3. QED
      BY <3>1, <3>2 DEF Decide, CallBreaker, Answer, RecordUsage
  <2>3. ASSUME NEW q \in Calls, UpstreamEnds(q) PROVE answer' \in {200, 429}
    BY <2>3 DEF UpstreamEnds, UpstreamReturns, UpstreamFails, RecordUsage, Answer
  <2>4. ASSUME ServeMetrics \/ TimePasses \/ EnvironmentChanges PROVE FALSE
    BY <2>4 DEF ServeMetrics, TimePasses, EnvironmentChanges
  <2>5. QED
    BY <2>1, <2>2, <2>3, <2>4 DEF GatewayNext
<1>2. QED
  BY <1>1, GatewayTypeCorrect, BreakerIsInside, TypeCorrect, PTL
     DEF GatewaySpec, BreakerInside, FailuresDegrade
-------------------------------------------------------------------------------
\* A usage record is one more record, and one more fallback if it is for one,
\* as long as the count has not reached its bound.
LEMMA OneMoreRecord ==
  ASSUME NEW r \in Calls, NEW fallback \in BOOLEAN, RecordUsage(r, fallback),
         recorded < MaxRecords
  PROVE  /\ recorded' = recorded + 1
         /\ recorded_fallbacks' = IF fallback THEN Capped(recorded_fallbacks, MaxFallbacks)
                                              ELSE recorded_fallbacks
  BY DEF RecordUsage, Capped

\* The fallbacks of the breaker and those in the records saturate together.
LEMMA OneMoreFallback ==
  ASSUME TypeOK, GatewayTypeOK,
         ReplayedFallbacks + total_fallbacks_served = recorded_fallbacks
  PROVE  ReplayedFallbacks + Capped(total_fallbacks_served, CountCap)
           = Capped(recorded_fallbacks, MaxFallbacks)
  BY DEF TypeOK, metrics, GatewayTypeOK, Capped, MaxFallbacks

\* What the replay found and what the breaker has counted since make up the
\* records and the calls in flight: no request is lost between the breaker and
\* the cost tracker, whatever fails and however many there are.
THEOREM BooksAlwaysBalance == GatewaySpec => []BooksBalance
<1>1. GatewayInit => BooksBalance
  BY FS_EmptySet DEF GatewayInit, Init, BooksBalance
<1>2. TypeOK /\ GatewayTypeOK /\ BooksBalance /\ [GatewayNext]_gatewayVars => BooksBalance'
  <2> SUFFICES ASSUME TypeOK, GatewayTypeOK, BooksBalance, [GatewayNext]_gatewayVars,
                      total_calls' < CountCap
               PROVE  BooksBalance'
    BY DEF BooksBalance
  <2> DEFINE n == Cardinality(inflight)
  <2>a. n \in Nat /\ total_calls \in Nat /\ recorded \in Nat
    BY InflightSize DEF TypeOK, GatewayTypeOK
  <2> USE DEF pending, metrics, books
  <2>1. ASSUME UNCHANGED <<metrics, inflight, books>> PROVE BooksBalance'
    BY <2>1 DEF BooksBalance
  <2>2. ASSUME NEW r \in Calls, CallAdmitted(r), UNCHANGED books PROVE BooksBalance'
    <3>1. Cardinality(inflight') = n + 1
      BY <2>2, InflightSize DEF CallAdmitted
    <3>2. total_calls' = total_calls + 1 /\ total_calls < CountCap
      BY <2>2, <2>a DEF CallAdmitted, Capped
    <3>3. QED
      BY <2>2, <2>a, <3>1, <3>2 DEF CallAdmitted, BooksBalance
  <2>b. total_calls < CountCap =>
          ReplayedFallbacks + Capped(total_fallbacks_served, CountCap)
            = Capped(recorded_fallbacks, MaxFallbacks)
    BY OneMoreFallback DEF BooksBalance
  <2>3. ASSUME NEW r \in Calls, ShortCircuit(TRUE), RecordUsage(r, TRUE) PROVE BooksBalance'
    <3>1. inflight' = inflight
      BY <2>3 DEF ShortCircuit
    <3>2. total_calls' = total_calls + 1 /\ total_calls < CountCap
      BY <2>3, <2>a DEF ShortCircuit, Capped
    <3>3. recorded < MaxRecords
      BY <2>a, <3>2 DEF BooksBalance, MaxRecords
    <3>4. /\ recorded' = recorded + 1
          /\ recorded_fallbacks' = Capped(recorded_fallbacks, MaxFallbacks)
      BY <2>3, <3>3, OneMoreRecord
    <3>5. total_fallbacks_served' = Capped(total_fallbacks_served, CountCap)
      BY <2>3 DEF ShortCircuit, ServeFallback
    <3>6. QED
      BY <2>a, <2>b, <3>1, <3>2, <3>4, <3>5 DEF BooksBalance
  <2>4. ASSUME NEW r \in Calls, UpstreamEnds(r) PROVE BooksBalance'
    <3>1. total_calls' = total_calls /\ Cardinality(inflight') = n - 1
      BY <2>4, InflightSize DEF UpstreamEnds, UpstreamReturns, UpstreamFails,
                                Succeed, Fail, Finished
    <3>2. recorded < MaxRecords
      BY <2>a, <3>1 DEF BooksBalance, MaxRecords
    <3>3. CASE UpstreamReturns(r)
      <4>1. recorded' = recorded + 1 /\ UNCHANGED recorded_fallbacks
        BY <3>2, <3>3, OneMoreRecord DEF UpstreamReturns
      <4>2. QED
        BY <2>a, <3>1, <3>3, <4>1 DEF UpstreamReturns, Succeed, BooksBalance
    <3>4. CASE UpstreamFails(r)
      <4>1. /\ recorded' = recorded + 1
            /\ recorded_fallbacks' = Capped(recorded_fallbacks, MaxFallbacks)
        BY <3>2, <3>4, OneMoreRecord DEF UpstreamFails
      <4>2. total_fallbacks_served' = Capped(total_fallbacks_served, CountCap)
        BY <3>4 DEF UpstreamFails, Fail, ServeFallback
      <4>3. QED
        BY <2>a, <2>b, <3>1, <4>1, <4>2 DEF BooksBalance
    <3>5. QED
      BY <2>4, <3>3, <3>4 DEF UpstreamEnds
  <2>5. ASSUME NEW r \in Calls, LimiterEnds(r) PROVE BooksBalance'
    <3>1. Decide(r)
      BY <2>5 DEF LimiterEnds, LimiterReplies, LimiterDegrades
    <3>2. QED
      BY <2>1, <2>2, <2>3, <3>1 DEF Decide, CallBreaker, vars
  <2>6. ASSUME NEW r \in Calls, Arrive(r) \/ Malformed(r) \/ GuardEnds(r)
        PROVE  BooksBalance'
    BY <2>1, <2>6 DEF Arrive, Malformed, GuardEnds, GuardBlocks, GuardPasses, vars
  <2>7. CASE ServeMetrics \/ TimePasses \/ EnvironmentChanges \/ UNCHANGED gatewayVars
    BY <2>1, <2>7 DEF ServeMetrics, PollState, TimePasses, Tick, EnvironmentChanges,
                      gatewayVars, vars
  <2>8. QED
    BY <2>4, <2>5, <2>6, <2>7 DEF GatewayNext
<1>3. QED
  BY <1>1, <1>2, GatewayTypeCorrect, BreakerIsInside, TypeCorrect, PTL
     DEF GatewaySpec, BreakerInside
================================================================================
