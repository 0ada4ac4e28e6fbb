---------------------------- MODULE BreakerHistory ----------------------------
(***************************************************************************)
(* The circuit breaker with a record of what it has been told, to relate   *)
(* its two counters to the outcomes they stand for: `outcomes' is the      *)
(* sequence of verdicts recorded since the breaker last became CLOSED, and *)
(* `trials_ok' the trial calls that succeeded since it last became         *)
(* HALF_OPEN.  Both are auxiliary: no guard reads them except the bound.   *)
(***************************************************************************)
EXTENDS CircuitBreaker, Integers, SequencesExt, FiniteSetsExt

CONSTANT MaxOutcomes   \* bound: verdicts recorded in one CLOSED period

VARIABLES outcomes, trials_ok

historyVars == <<vars, outcomes, trials_ok>>

HistoryInit == Init /\ outcomes = <<>> /\ trials_ok = 0

\* A verdict is remembered while CLOSED and forgotten when CLOSED is entered.
Remember(verdict) ==
  outcomes' = IF state # "CLOSED" THEN IF state' = "CLOSED" THEN <<>> ELSE outcomes
              ELSE Append(outcomes, verdict)

Bounded == state = "CLOSED" => Len(outcomes) < MaxOutcomes

HistorySucceed(c) ==
  /\ Bounded
  /\ Succeed(c)
  /\ Remember("success")
  /\ trials_ok' = IF state = "HALF_OPEN" /\ admitted[c] = "HALF_OPEN"
                  THEN trials_ok + 1 ELSE trials_ok

HistoryFail(c) ==
  /\ Bounded
  /\ \E fallback \in BOOLEAN : Fail(c, fallback)
  /\ Remember("failure")
  /\ trials_ok' = IF state = "HALF_OPEN" THEN 0 ELSE trials_ok

\* The steps in which nothing is recorded; the probing starts in some of them.
HistoryOther ==
  /\ \/ PollState
     \/ Arrival
     \/ Tick
  /\ trials_ok' = IF Lapsed /\ state' = "HALF_OPEN" THEN 0 ELSE trials_ok
  /\ UNCHANGED outcomes

HistoryReset == Reset /\ outcomes' = <<>> /\ trials_ok' = 0

HistoryNext ==
  \/ \E c \in Calls : HistorySucceed(c)
  \/ \E c \in Calls : HistoryFail(c)
  \/ HistoryOther
  \/ HistoryReset

HistorySpec == HistoryInit /\ [][HistoryNext]_historyVars
-------------------------------------------------------------------------------
FailuresIn(s) == Cardinality({i \in DOMAIN s : s[i] = "failure"})

\* The reference definition of the leaky counter: the largest surplus of
\* failures over successes in any run of verdicts that ends now.
Surplus(s) == Max({2 * FailuresIn(t) - Len(t) : t \in Suffixes(s)})

\* failure_count is the leaky count of the verdicts of the CLOSED period,
\* whatever calls overlapped and in whatever order they finished.
LeakyCounter ==
  state = "CLOSED" => failure_count = Surplus(outcomes)

\* The breaker trips exactly on the verdict that brings the surplus of
\* failures to the threshold.
TripEarned ==
  [][state = "CLOSED" /\ state' # "CLOSED"
       => /\ state' = "OPEN"
          /\ Last(outcomes') = "failure"
          /\ Surplus(outcomes') = FailureThreshold]_historyVars

\* The circuit closes, other than by reset(), only after half_open_max_calls
\* trial calls, all of the current HALF_OPEN period, have succeeded.
RecoveryEarned ==
  [][state # "CLOSED" /\ state' = "CLOSED" /\ failure_age' # NoFailure
       => /\ state = "HALF_OPEN"
          /\ UpstreamTimeout < RecoveryTimeout => trials_ok' = HalfOpenMaxCalls]_historyVars
===============================================================================
