---------------------------- MODULE CircuitBreaker ----------------------------
(***************************************************************************)
(* services/circuit_breaker.py: one CircuitBreaker object, as the          *)
(* coroutines of one gateway worker process use it.                        *)
(*                                                                         *)
(* An action is what the event loop runs between two suspensions.  call()  *)
(* suspends once, at `await func(...)': what precedes it is CallAdmitted   *)
(* or ShortCircuit, what follows it is Succeed or Fail.  _record_success   *)
(* and _record_failure hold the asyncio lock over code that never          *)
(* suspends, and the fallback does not suspend either, so neither splits   *)
(* an action.                                                              *)
(*                                                                         *)
(* Time is a number of ticks.  The absolute _last_failure_time is kept as  *)
(* its age, saturating at RecoveryTimeout: `now - last >= timeout' is all  *)
(* that is ever asked of it.                                               *)
(***************************************************************************)
EXTENDS Naturals, FiniteSets

CONSTANTS
  Calls,             \* identities for calls to the upstream in flight at once
  FailureThreshold,  \* failure_threshold
  RecoveryTimeout,   \* recovery_timeout, in ticks
  HalfOpenMaxCalls,  \* half_open_max_calls
  UpstreamTimeout,   \* ticks after which func has returned or raised
  CountCap,          \* bound: the total_... metrics saturate here
  NoFailure          \* the None of _last_failure_time

ASSUME BreakerAssumption ==
  /\ IsFiniteSet(Calls)
  /\ FailureThreshold \in Nat \ {0}
  /\ RecoveryTimeout \in Nat \ {0}
  /\ HalfOpenMaxCalls \in Nat \ {0}
  /\ UpstreamTimeout \in Nat \ {0}
  /\ CountCap \in Nat
  /\ NoFailure \notin Nat

CircuitState == {"CLOSED", "OPEN", "HALF_OPEN"}

VARIABLES
  state,                    \* _state
  failure_count,            \* _failure_count, saturating at FailureThreshold
  success_count_half_open,  \* _success_count_half_open
  failure_age,              \* now - _last_failure_time, or NoFailure
  inflight,                 \* calls suspended at `await func'
  age,                      \* ticks since each of them was admitted
  admitted,                 \* the current_state local of each of them
  total_calls, total_failures, total_short_circuited, total_fallbacks_served

control == <<state, failure_count, success_count_half_open, failure_age>>
pending == <<inflight, age, admitted>>
metrics == <<total_calls, total_failures, total_short_circuited,
             total_fallbacks_served>>
vars == <<control, pending, metrics>>

Capped(n, cap) == IF n < cap THEN n + 1 ELSE n

-------------------------------------------------------------------------------
Init ==
  /\ state = "CLOSED"
  /\ failure_count = 0
  /\ success_count_half_open = 0
  /\ failure_age = NoFailure
  /\ inflight = {}
  /\ age = [c \in Calls |-> 0]
  /\ admitted = [c \in Calls |-> "CLOSED"]
  /\ total_calls = 0
  /\ total_failures = 0
  /\ total_short_circuited = 0
  /\ total_fallbacks_served = 0

\* A variant ends in Slip when it is a bug a run must catch: no specification
\* uses it.
ShouldAttemptResetSlip == failure_age # NoFailure   \* the timeout is not compared

ShouldAttemptReset == failure_age # NoFailure /\ failure_age >= RecoveryTimeout

\* The state property is about to leave OPEN.
Lapsed == state = "OPEN" /\ ShouldAttemptReset

\* The value the state property returns, and its side effect.
StateRead == IF Lapsed THEN "HALF_OPEN" ELSE state

StaleReadSlip ==   \* the trial count of the previous HALF_OPEN period survives
  /\ state' = StateRead
  /\ UNCHANGED <<success_count_half_open, failure_count, failure_age>>

EagerReadSlip ==   \* every read in HALF_OPEN restarts the trial count
  /\ state' = StateRead
  /\ success_count_half_open' = IF StateRead = "HALF_OPEN" THEN 0
                                ELSE success_count_half_open
  /\ UNCHANGED <<failure_count, failure_age>>

ReadState ==
  /\ state' = StateRead
  /\ success_count_half_open' = IF Lapsed THEN 0 ELSE success_count_half_open
  /\ UNCHANGED <<failure_count, failure_age>>

PollStateSlip == UNCHANGED vars   \* the transition is not evaluated on a read

\* GET /health and GET /metrics/dashboard read the state property.
PollState == ReadState /\ UNCHANGED <<pending, metrics>>

CallAdmittedSlip(c) ==   \* the OPEN check is missing
  /\ c \notin inflight
  /\ ReadState
  /\ inflight' = inflight \cup {c}
  /\ age' = [age EXCEPT ![c] = 0]
  /\ admitted' = [admitted EXCEPT ![c] = StateRead]
  /\ total_calls' = Capped(total_calls, CountCap)
  /\ UNCHANGED <<total_failures, total_short_circuited, total_fallbacks_served>>

\* call() up to `await func': the circuit is not OPEN.
CallAdmitted(c) ==
  /\ c \notin inflight
  /\ StateRead # "OPEN"
  /\ ReadState
  /\ inflight' = inflight \cup {c}
  /\ age' = [age EXCEPT ![c] = 0]
  /\ admitted' = [admitted EXCEPT ![c] = StateRead]
  /\ total_calls' = Capped(total_calls, CountCap)
  /\ UNCHANGED <<total_failures, total_short_circuited, total_fallbacks_served>>

\* A fallback, when the caller gave one, is served in the same step.
ServeFallback(given) ==
  total_fallbacks_served' = IF given THEN Capped(total_fallbacks_served, CountCap)
                                     ELSE total_fallbacks_served

ShortCircuitSlip(fallback) ==   \* a short-circuited call is not counted as a call
  /\ StateRead = "OPEN"
  /\ ReadState
  /\ total_short_circuited' = Capped(total_short_circuited, CountCap)
  /\ ServeFallback(fallback)
  /\ UNCHANGED <<pending, total_calls, total_failures>>

\* call() that never reaches the upstream: the circuit is OPEN.
ShortCircuit(fallback) ==
  /\ StateRead = "OPEN"
  /\ ReadState
  /\ total_calls' = Capped(total_calls, CountCap)
  /\ total_short_circuited' = Capped(total_short_circuited, CountCap)
  /\ ServeFallback(fallback)
  /\ UNCHANGED <<pending, total_failures>>

Finished(c) ==
  /\ c \in inflight
  /\ inflight' = inflight \ {c}
  /\ age' = [age EXCEPT ![c] = 0]
  /\ admitted' = [admitted EXCEPT ![c] = "CLOSED"]

OneMoreTrialSlip ==   \* > for >=
  /\ state = "HALF_OPEN"
  /\ success_count_half_open' = success_count_half_open + 1
  /\ IF success_count_half_open' > HalfOpenMaxCalls
     THEN state' = "CLOSED" /\ failure_count' = 0
     ELSE UNCHANGED <<state, failure_count>>

FirstTrialSlip ==   \* the first success closes
  /\ state = "HALF_OPEN"
  /\ success_count_half_open' = success_count_half_open + 1
  /\ state' = "CLOSED" /\ failure_count' = 0

\* _record_success in each of the three states
CountTrial ==
  /\ state = "HALF_OPEN"
  /\ success_count_half_open' = success_count_half_open + 1
  /\ IF success_count_half_open' >= HalfOpenMaxCalls
     THEN state' = "CLOSED" /\ failure_count' = 0
     ELSE UNCHANGED <<state, failure_count>>

DecaySlip ==   \* a success forgets every failure
  /\ state = "CLOSED"
  /\ failure_count' = 0
  /\ UNCHANGED <<state, success_count_half_open>>

Decay ==
  /\ state = "CLOSED"
  /\ failure_count' = IF failure_count > 0 THEN failure_count - 1 ELSE 0
  /\ UNCHANGED <<state, success_count_half_open>>

IgnoreSuccess ==
  /\ state = "OPEN"
  /\ UNCHANGED <<state, failure_count, success_count_half_open>>

\* func returned.
Succeed(c) ==
  /\ Finished(c)
  /\ CountTrial \/ Decay \/ IgnoreSuccess
  /\ UNCHANGED <<failure_age, metrics>>

\* _record_failure
Reopens ==
  /\ state = "HALF_OPEN"
  /\ state' = "OPEN"
  /\ UNCHANGED failure_count

CountFailureSlip ==   \* the count is compared before it is incremented
  /\ state # "HALF_OPEN"
  /\ failure_count' = Capped(failure_count, FailureThreshold)
  /\ state' = IF failure_count >= FailureThreshold THEN "OPEN" ELSE state

CountFailure ==
  /\ state # "HALF_OPEN"
  /\ failure_count' = Capped(failure_count, FailureThreshold)
  /\ state' = IF failure_count' >= FailureThreshold THEN "OPEN" ELSE state

FailSlip(c, fallback) ==   \* reopening returns before the failure is timed
  /\ Finished(c)
  /\ failure_age' = IF state = "HALF_OPEN" THEN failure_age ELSE 0
  /\ Reopens \/ CountFailure
  /\ total_failures' = Capped(total_failures, CountCap)
  /\ ServeFallback(fallback)
  /\ UNCHANGED <<success_count_half_open, total_calls, total_short_circuited>>

\* func raised, the timeout of asyncio.wait_for included.
Fail(c, fallback) ==
  /\ Finished(c)
  /\ failure_age' = 0
  /\ Reopens \/ CountFailure
  /\ total_failures' = Capped(total_failures, CountCap)
  /\ ServeFallback(fallback)
  /\ UNCHANGED <<success_count_half_open, total_calls, total_short_circuited>>

ResetSlip ==   \* the failures are not forgotten
  /\ state' = "CLOSED"
  /\ success_count_half_open' = 0
  /\ failure_age' = NoFailure
  /\ UNCHANGED <<failure_count, pending, metrics>>

\* reset(), the administrative override
Reset ==
  /\ state' = "CLOSED"
  /\ failure_count' = 0
  /\ success_count_half_open' = 0
  /\ failure_age' = NoFailure
  /\ UNCHANGED <<pending, metrics>>

\* Time passes; a call at its timeout is resumed before any more of it does.
Tick ==
  /\ \A c \in inflight : age[c] < UpstreamTimeout
  /\ age' = [c \in Calls |-> IF c \in inflight THEN age[c] + 1 ELSE 0]
  /\ failure_age' = IF failure_age = NoFailure THEN NoFailure
                    ELSE Capped(failure_age, RecoveryTimeout)
  /\ UNCHANGED <<state, failure_count, success_count_half_open,
                 inflight, admitted, metrics>>

Next ==
  \/ PollState
  \/ \E c \in Calls : CallAdmitted(c)
  \/ \E fallback \in BOOLEAN : ShortCircuit(fallback)
  \/ \E c \in Calls : Succeed(c)
  \/ \E c \in Calls, fallback \in BOOLEAN : Fail(c, fallback)
  \/ Reset
  \/ Tick

Spec == Init /\ [][Next]_vars
-------------------------------------------------------------------------------
\* Type invariant of the breaker and of the calls it has in flight.
TypeOK ==
  /\ state \in CircuitState
  /\ failure_count \in 0 .. FailureThreshold
  /\ success_count_half_open \in 0 .. HalfOpenMaxCalls
  /\ failure_age \in (0 .. RecoveryTimeout) \cup {NoFailure}
  /\ inflight \subseteq Calls
  /\ age \in [Calls -> 0 .. UpstreamTimeout]
  /\ admitted \in [Calls -> CircuitState]
  /\ total_calls \in 0 .. CountCap
  /\ total_failures \in 0 .. CountCap
  /\ total_short_circuited \in 0 .. CountCap
  /\ total_fallbacks_served \in 0 .. CountCap

\* The counters always explain the state: the breaker is CLOSED exactly while
\* the count is below the threshold, whatever calls finish late, and while it
\* is not CLOSED there is a failure time from which it will recover.
StateExplained ==
  /\ state = "CLOSED" <=> failure_count < FailureThreshold
  /\ state # "CLOSED" => failure_age # NoFailure
  /\ state = "HALF_OPEN" => success_count_half_open < HalfOpenMaxCalls

\* While the breaker is OPEN every call still in flight is older than the
\* latest failure: none was admitted after the trip.
NoneAdmittedWhileOpen ==
  state = "OPEN" => \A c \in inflight : age[c] >= failure_age

\* While HALF_OPEN, only trial calls are in flight, so that the verdict on the
\* upstream never comes from a call that was admitted before the trip.  Holds
\* because a call is over before the recovery timeout is.
TrialIsolation ==
  UpstreamTimeout < RecoveryTimeout =>
    (state = "HALF_OPEN" => \A c \in inflight : admitted[c] = "HALF_OPEN")

\* The probing starts on a quiet upstream: every call of the CLOSED period,
\* and every trial of an earlier HALF_OPEN period, is over by then.
TrialsStartAlone ==
  [][UpstreamTimeout < RecoveryTimeout /\ Lapsed /\ state' = "HALF_OPEN"
       => inflight = {}]_vars

\* What the dashboard shows adds up, as long as no counter is saturated: every
\* call is short-circuited, failed, in flight or succeeded, and a fallback is
\* served only for a short-circuited or a failed call.
MetricsAddUp ==
  total_calls < CountCap =>
    /\ total_short_circuited + total_failures + Cardinality(inflight) <= total_calls
    /\ total_fallbacks_served <= total_short_circuited + total_failures

\* The breaker never stays OPEN: it lets the upstream be tried again, even if
\* calls admitted before the trip keep failing and postpone it.
EventuallyTried == state = "OPEN" ~> state # "OPEN"

\* If calls keep coming and from some time on none fails, the breaker ends up
\* CLOSED for good.
Arrival == (\E c \in Calls : CallAdmitted(c)) \/ (\E fallback \in BOOLEAN : ShortCircuit(fallback))
Failure == \E c \in Calls, fallback \in BOOLEAN : Fail(c, fallback)

RecoversWithUpstream ==
  ([]<><<Arrival>>_vars /\ <>[][~Failure]_vars) => <>[](state = "CLOSED")

\* The half-open limit as the documentation words it (circuit_breaker.py:30-31,
\* "a small number of trial calls"): no more trials at a time than the
\* configured half_open_max_calls.
FewTrials ==
  state = "HALF_OPEN" =>
    Cardinality({c \in inflight : admitted[c] = "HALF_OPEN"}) <= HalfOpenMaxCalls
-------------------------------------------------------------------------------
\* The breaker implements its contract.
Contract == INSTANCE BreakerContract WITH
  Trials <- HalfOpenMaxCalls,
  mode <- state,
  known <- failure_age # NoFailure,
  ripe <- Lapsed,
  passed <- IF state = "HALF_OPEN" THEN success_count_half_open ELSE 0

ImplementsContract == Contract!ContractSpec
===============================================================================
