------------------------- MODULE CircuitBreakerProofs -------------------------
(***************************************************************************)
(* What holds of the circuit breaker for every number of calls, threshold, *)
(* timeout and number of trials.                                           *)
(*                                                                         *)
(* The type invariant is not inductive by itself: that the trial count     *)
(* stays within half_open_max_calls needs StateExplained, and that the     *)
(* trials are alone needs to know how old the calls in flight are, which   *)
(* is NoneAdmittedWhileOpen.  Together the four are inductive.             *)
(*                                                                         *)
(* The second part is about BreakerHistory, the breaker with a record of   *)
(* what it has been told; the first does not speak of that record.         *)
(***************************************************************************)
EXTENDS BreakerHistory, FiniteSetTheorems, SequenceTheorems, TLAPS

Inductive == TypeOK /\ StateExplained /\ NoneAdmittedWhileOpen /\ TrialIsolation

USE BreakerAssumption

\* The initial state satisfies the inductive invariant.
LEMMA InitInductive == Init => Inductive
  BY DEF Init, Inductive, TypeOK, StateExplained, NoneAdmittedWhileOpen,
         TrialIsolation, CircuitState

\* When the state property leaves OPEN, no call is in flight: each would be
\* older than the recovery timeout, hence than its own timeout.
LEMMA QuietWhenLapsed ==
  ASSUME Inductive, Lapsed, UpstreamTimeout < RecoveryTimeout
  PROVE  inflight = {}
<1>1. failure_age \in Nat /\ failure_age >= RecoveryTimeout
  BY DEF Inductive, TypeOK, Lapsed, ShouldAttemptReset
<1>2. SUFFICES ASSUME NEW c \in inflight PROVE FALSE
  OBVIOUS
<1>3. age[c] >= failure_age /\ age[c] \in 0 .. UpstreamTimeout
  BY DEF Inductive, TypeOK, NoneAdmittedWhileOpen, Lapsed
<1>4. QED
  BY <1>1, <1>3

\* Reading the state keeps the control variables typed and explained.
LEMMA ReadStep ==
  ASSUME Inductive, ReadState
  PROVE  /\ state' \in CircuitState
         /\ success_count_half_open' \in 0 .. HalfOpenMaxCalls
         /\ UNCHANGED <<failure_count, failure_age>>
         /\ StateExplained'
         /\ state' = StateRead
         /\ state' = "OPEN" => state = "OPEN"
  BY DEF Inductive, TypeOK, StateExplained, ReadState, StateRead, Lapsed,
         ShouldAttemptReset, CircuitState

\* A capped counter stays within its cap.
LEMMA CappedType ==
  ASSUME NEW cap \in Nat, NEW n \in 0 .. cap
  PROVE  Capped(n, cap) \in 0 .. cap
  BY DEF Capped

\* No step breaks the type invariant.
LEMMA TypeStep == Inductive /\ [Next]_vars => TypeOK'
<1> SUFFICES ASSUME Inductive, [Next]_vars PROVE TypeOK'
  OBVIOUS
<1> USE DEF Inductive, TypeOK, pending, metrics
<1>1. CASE PollState
  BY <1>1, ReadStep DEF PollState
<1>2. ASSUME NEW c \in Calls, CallAdmitted(c) PROVE TypeOK'
  <2>1. total_calls' \in 0 .. CountCap
    BY <1>2, CappedType DEF CallAdmitted
  <2>2. age' \in [Calls -> 0 .. UpstreamTimeout]
    BY <1>2 DEF CallAdmitted
  <2>3. admitted' \in [Calls -> CircuitState]
    BY <1>2, ReadStep DEF CallAdmitted
  <2>4. QED
    BY <1>2, <2>1, <2>2, <2>3, ReadStep DEF CallAdmitted
<1>3. ASSUME NEW fallback \in BOOLEAN, ShortCircuit(fallback) PROVE TypeOK'
  <2>1. /\ total_calls' \in 0 .. CountCap
        /\ total_short_circuited' \in 0 .. CountCap
        /\ total_fallbacks_served' \in 0 .. CountCap
    BY <1>3, CappedType DEF ShortCircuit, ServeFallback
  <2>2. QED
    BY <1>3, <2>1, ReadStep DEF ShortCircuit
<1>4. ASSUME NEW c \in Calls, Succeed(c) PROVE TypeOK'
  <2>1. inflight' \subseteq Calls
    BY <1>4 DEF Succeed, Finished
  <2>2. /\ age' \in [Calls -> 0 .. UpstreamTimeout]
        /\ admitted' \in [Calls -> CircuitState]
    BY <1>4 DEF Succeed, Finished, CircuitState
  <2>3. /\ state' \in CircuitState
        /\ failure_count' \in 0 .. FailureThreshold
        /\ success_count_half_open' \in 0 .. HalfOpenMaxCalls
    BY <1>4 DEF Succeed, CountTrial, Decay, IgnoreSuccess, StateExplained, CircuitState
  <2>4. QED
    BY <1>4, <2>1, <2>2, <2>3 DEF Succeed
<1>5. ASSUME NEW c \in Calls, NEW fallback \in BOOLEAN, Fail(c, fallback)
      PROVE  TypeOK'
  <2>1. inflight' \subseteq Calls
    BY <1>5 DEF Fail, Finished
  <2>2. /\ age' \in [Calls -> 0 .. UpstreamTimeout]
        /\ admitted' \in [Calls -> CircuitState]
    BY <1>5 DEF Fail, Finished, CircuitState
  <2>3. /\ state' \in CircuitState
        /\ failure_count' \in 0 .. FailureThreshold
    BY <1>5, CappedType DEF Fail, Reopens, CountFailure, CircuitState
  <2>4. /\ total_failures' \in 0 .. CountCap
        /\ total_fallbacks_served' \in 0 .. CountCap
    BY <1>5, CappedType DEF Fail, ServeFallback
  <2>5. QED
    BY <1>5, <2>1, <2>2, <2>3, <2>4 DEF Fail
<1>6. CASE Reset
  BY <1>6 DEF Reset, CircuitState
<1>7. CASE Tick
  <2>1. age' \in [Calls -> 0 .. UpstreamTimeout]
    BY <1>7 DEF Tick
  <2>2. failure_age' \in (0 .. RecoveryTimeout) \cup {NoFailure}
    BY <1>7, CappedType DEF Tick
  <2>3. QED
    BY <1>7, <2>1, <2>2 DEF Tick
<1>8. CASE UNCHANGED vars
  BY <1>8 DEF vars, control
<1>9. QED
  BY <1>1, <1>2, <1>3, <1>4, <1>5, <1>6, <1>7, <1>8 DEF Next

\* No step leaves the state unexplained by the counters.
LEMMA ExplainedStep == Inductive /\ [Next]_vars => StateExplained'
<1> SUFFICES ASSUME Inductive, [Next]_vars PROVE StateExplained'
  OBVIOUS
<1> USE DEF Inductive, TypeOK, StateExplained
<1>1. CASE PollState
  BY <1>1, ReadStep DEF PollState
<1>2. ASSUME NEW c \in Calls, CallAdmitted(c) PROVE StateExplained'
  BY <1>2, ReadStep DEF CallAdmitted
<1>3. ASSUME NEW fallback \in BOOLEAN, ShortCircuit(fallback) PROVE StateExplained'
  BY <1>3, ReadStep DEF ShortCircuit
<1>4. ASSUME NEW c \in Calls, Succeed(c) PROVE StateExplained'
  BY <1>4 DEF Succeed, CountTrial, Decay, IgnoreSuccess
<1>5. ASSUME NEW c \in Calls, NEW fallback \in BOOLEAN, Fail(c, fallback)
      PROVE  StateExplained'
  BY <1>5 DEF Fail, Reopens, CountFailure, Capped, CircuitState
<1>6. CASE Reset
  BY <1>6 DEF Reset
<1>7. CASE Tick
  BY <1>7 DEF Tick, Capped
<1>8. CASE UNCHANGED vars
  BY <1>8 DEF vars, control
<1>9. QED
  BY <1>1, <1>2, <1>3, <1>4, <1>5, <1>6, <1>7, <1>8 DEF Next

\* No step leaves a call in flight that is younger than the failure that
\* opened the breaker.
LEMMA AgesStep == Inductive /\ [Next]_vars => NoneAdmittedWhileOpen'
<1> SUFFICES ASSUME Inductive, [Next]_vars, state' = "OPEN", NEW d \in inflight'
             PROVE  age'[d] >= failure_age'
  BY DEF NoneAdmittedWhileOpen
<1> USE DEF Inductive, TypeOK, NoneAdmittedWhileOpen, pending
<1>1. CASE PollState
  BY <1>1, ReadStep DEF PollState
<1>2. ASSUME NEW c \in Calls, CallAdmitted(c) PROVE FALSE
  BY <1>2, ReadStep DEF CallAdmitted
<1>3. ASSUME NEW fallback \in BOOLEAN, ShortCircuit(fallback)
      PROVE  age'[d] >= failure_age'
  BY <1>3, ReadStep DEF ShortCircuit
<1>4. ASSUME NEW c \in Calls, Succeed(c) PROVE age'[d] >= failure_age'
  BY <1>4 DEF Succeed, Finished, CountTrial, Decay, IgnoreSuccess
<1>5. ASSUME NEW c \in Calls, NEW fallback \in BOOLEAN, Fail(c, fallback)
      PROVE  age'[d] >= failure_age'
  BY <1>5 DEF Fail, Finished
<1>6. CASE Reset
  BY <1>6 DEF Reset
<1>7. CASE Tick
  <2>1. state = "OPEN" /\ d \in inflight /\ age'[d] = age[d] + 1
    BY <1>7 DEF Tick
  <2>2. age[d] >= failure_age /\ failure_age # NoFailure
    BY <2>1 DEF StateExplained
  <2>3. QED
    BY <1>7, <2>1, <2>2 DEF Tick, Capped
<1>8. CASE UNCHANGED vars
  BY <1>8 DEF vars, control
<1>9. QED
  BY <1>1, <1>2, <1>3, <1>4, <1>5, <1>6, <1>7, <1>8 DEF Next

\* No step mixes an earlier call with the trials.
LEMMA IsolationStep == Inductive /\ [Next]_vars => TrialIsolation'
<1> SUFFICES ASSUME Inductive, [Next]_vars, UpstreamTimeout < RecoveryTimeout,
                    state' = "HALF_OPEN", NEW d \in inflight'
             PROVE  admitted'[d] = "HALF_OPEN"
  BY DEF TrialIsolation
<1> USE DEF Inductive, TypeOK, TrialIsolation, pending
<1>1. CASE PollState
  BY <1>1, ReadStep, QuietWhenLapsed DEF PollState, StateRead
<1>2. ASSUME NEW c \in Calls, CallAdmitted(c) PROVE admitted'[d] = "HALF_OPEN"
  <2>1. CASE d = c
    BY <1>2, <2>1, ReadStep DEF CallAdmitted
  <2>2. CASE d # c
    BY <1>2, <2>2, ReadStep, QuietWhenLapsed DEF CallAdmitted, StateRead
  <2>3. QED
    BY <2>1, <2>2
<1>3. ASSUME NEW fallback \in BOOLEAN, ShortCircuit(fallback) PROVE FALSE
  BY <1>3, ReadStep DEF ShortCircuit
<1>4. ASSUME NEW c \in Calls, Succeed(c) PROVE admitted'[d] = "HALF_OPEN"
  BY <1>4 DEF Succeed, Finished, CountTrial, Decay, IgnoreSuccess
<1>5. ASSUME NEW c \in Calls, NEW fallback \in BOOLEAN, Fail(c, fallback) PROVE FALSE
  BY <1>5 DEF Fail, Reopens, CountFailure
<1>6. CASE Reset
  BY <1>6 DEF Reset
<1>7. CASE Tick
  BY <1>7 DEF Tick
<1>8. CASE UNCHANGED vars
  BY <1>8 DEF vars, control
<1>9. QED
  BY <1>1, <1>2, <1>3, <1>4, <1>5, <1>6, <1>7, <1>8 DEF Next
-------------------------------------------------------------------------------
\* The inductive invariant holds in every reachable state.
THEOREM InductiveHolds == Spec => []Inductive
<1>1. Inductive /\ [Next]_vars => Inductive'
  BY TypeStep, ExplainedStep, AgesStep, IsolationStep DEF Inductive
<1>2. QED
  BY InitInductive, <1>1, PTL DEF Spec

\* Type correctness of the breaker.
THEOREM TypeCorrect == Spec => []TypeOK
<1>1. Inductive => TypeOK
  BY DEF Inductive
<1>2. QED
  BY InductiveHolds, <1>1, PTL

\* CLOSED means below the threshold, and every other state has a failure time
\* from which the breaker recovers.
THEOREM StateAlwaysExplained == Spec => []StateExplained
<1>1. Inductive => StateExplained
  BY DEF Inductive
<1>2. QED
  BY InductiveHolds, <1>1, PTL

\* A call in flight while OPEN is one from before the latest failure.
THEOREM NoneAdmitted == Spec => []NoneAdmittedWhileOpen
<1>1. Inductive => NoneAdmittedWhileOpen
  BY DEF Inductive
<1>2. QED
  BY InductiveHolds, <1>1, PTL

\* If a call is over before the recovery timeout is, then only trial calls
\* decide whether a HALF_OPEN breaker closes or reopens.
THEOREM TrialsIsolated == Spec => []TrialIsolation
<1>1. Inductive => TrialIsolation
  BY DEF Inductive
<1>2. QED
  BY InductiveHolds, <1>1, PTL

\* ... and the probing starts with no call in flight at all.
THEOREM TrialsAlone == Spec => TrialsStartAlone
<1>1. Inductive /\ [Next]_vars =>
        [UpstreamTimeout < RecoveryTimeout /\ Lapsed /\ state' = "HALF_OPEN"
           => inflight = {}]_vars
  BY QuietWhenLapsed
<1>2. QED
  BY InductiveHolds, <1>1, PTL DEF Spec, TrialsStartAlone
-------------------------------------------------------------------------------
\* Every step of the breaker is a step of its contract, or changes nothing
\* that the contract speaks of.
LEMMA ContractStep ==
  Inductive /\ [Next]_vars => [Contract!ContractNext]_(Contract!contractVars)
<1> SUFFICES ASSUME Inductive, [Next]_vars
             PROVE  Contract!ContractNext \/ UNCHANGED Contract!contractVars
  OBVIOUS
<1> USE DEF Inductive, TypeOK, StateExplained, Contract!contractVars,
            Lapsed, ShouldAttemptReset, CircuitState
<1>1. ASSUME ReadState
      PROVE  Contract!Probe \/ UNCHANGED Contract!contractVars
  BY <1>1 DEF ReadState, StateRead, Contract!Probe
<1>2. CASE PollState
  BY <1>1, <1>2 DEF PollState, Contract!ContractNext
<1>3. ASSUME NEW c \in Calls, CallAdmitted(c)
      PROVE  Contract!ContractNext \/ UNCHANGED Contract!contractVars
  BY <1>1, <1>3 DEF CallAdmitted, Contract!ContractNext
<1>4. ASSUME NEW fallback \in BOOLEAN, ShortCircuit(fallback)
      PROVE  Contract!ContractNext \/ UNCHANGED Contract!contractVars
  BY <1>1, <1>4 DEF ShortCircuit, Contract!ContractNext
<1>5. ASSUME NEW c \in Calls, Succeed(c)
      PROVE  Contract!ContractNext \/ UNCHANGED Contract!contractVars
  <2>1. CASE CountTrial
    <3>1. Contract!TrialPasses \/ Contract!Recover
      BY <1>5, <2>1 DEF Succeed, CountTrial, Contract!TrialPasses, Contract!Recover
    <3>2. QED
      BY <3>1 DEF Contract!ContractNext
  <2>2. CASE Decay
    BY <1>5, <2>2 DEF Succeed, Decay
  <2>3. CASE IgnoreSuccess
    BY <1>5, <2>3 DEF Succeed, IgnoreSuccess
  <2>4. QED
    BY <1>5, <2>1, <2>2, <2>3 DEF Succeed
<1>6. ASSUME NEW c \in Calls, NEW fallback \in BOOLEAN, Fail(c, fallback)
      PROVE  Contract!ContractNext \/ UNCHANGED Contract!contractVars
  <2>1. CASE Reopens
    <3>1. Contract!Reopen
      BY <1>6, <2>1 DEF Fail, Reopens, Contract!Reopen
    <3>2. QED
      BY <3>1 DEF Contract!ContractNext
  <2>2. CASE CountFailure /\ state = "CLOSED"
    <3>1. Contract!Trip \/ Contract!Notice
      BY <1>6, <2>2 DEF Fail, CountFailure, Contract!Trip, Contract!Notice
    <3>2. QED
      BY <3>1 DEF Contract!ContractNext
  <2>3. CASE CountFailure /\ state = "OPEN"
    <3>1. Contract!Postpone
      BY <1>6, <2>3 DEF Fail, CountFailure, Capped, Contract!Postpone
    <3>2. QED
      BY <3>1 DEF Contract!ContractNext
  <2>4. QED
    BY <1>6, <2>1, <2>2, <2>3 DEF Fail, CountFailure
<1>7. CASE Reset
  <2>1. Contract!Override
    BY <1>7 DEF Reset, Contract!Override
  <2>2. QED
    BY <2>1 DEF Contract!ContractNext
<1>8. CASE Tick
  <2>1. Contract!Ripen \/ UNCHANGED Contract!contractVars
    BY <1>8 DEF Tick, Capped, Contract!Ripen
  <2>2. QED
    BY <2>1 DEF Contract!ContractNext
<1>9. CASE UNCHANGED vars
  BY <1>9 DEF vars, control
<1>10. QED
  BY <1>2, <1>3, <1>4, <1>5, <1>6, <1>7, <1>8, <1>9 DEF Next

\* The breaker implements the state machine its documentation draws.
THEOREM BreakerImplementsContract == Spec => ImplementsContract
<1>1. Init => Contract!ContractInit
  BY DEF Init, Contract!ContractInit, Lapsed
<1>2. QED
  BY InductiveHolds, ContractStep, <1>1, PTL
     DEF Spec, ImplementsContract, Contract!ContractSpec
-------------------------------------------------------------------------------
\* A call that enters or leaves the set in flight changes its size by one.
LEMMA InflightSize ==
  ASSUME TypeOK
  PROVE  /\ Cardinality(inflight) \in Nat
         /\ \A c \in Calls \ inflight :
              Cardinality(inflight \cup {c}) = Cardinality(inflight) + 1
         /\ \A c \in inflight :
              Cardinality(inflight \ {c}) = Cardinality(inflight) - 1
<1>1. IsFiniteSet(inflight)
  BY FS_Subset DEF TypeOK
<1>2. QED
  BY <1>1, FS_CardinalityType, FS_AddElement, FS_RemoveElement

\* The metrics are explained by what happened to the calls.
THEOREM MetricsAlwaysAddUp == Spec => []MetricsAddUp
<1>1. Init => MetricsAddUp
  BY FS_EmptySet DEF Init, MetricsAddUp
<1>2. TypeOK /\ MetricsAddUp /\ [Next]_vars => MetricsAddUp'
  <2> SUFFICES ASSUME TypeOK, MetricsAddUp, [Next]_vars, total_calls' < CountCap
               PROVE  /\ total_short_circuited' + total_failures'
                           + Cardinality(inflight') <= total_calls'
                      /\ total_fallbacks_served' <= total_short_circuited' + total_failures'
    BY DEF MetricsAddUp
  <2> DEFINE n == Cardinality(inflight)
  <2>a. n \in Nat
    BY InflightSize
  <2> USE DEF pending, metrics
  <2>1. CASE PollState \/ Reset \/ UNCHANGED vars
    BY <2>1 DEF PollState, Reset, vars, MetricsAddUp
  <2>2. ASSUME NEW c \in Calls, CallAdmitted(c) PROVE MetricsAddUp'
    <3>1. Cardinality(inflight') = n + 1
      BY <2>2, InflightSize DEF CallAdmitted
    <3>2. QED
      BY <2>2, <2>a, <3>1 DEF CallAdmitted, Capped, MetricsAddUp, TypeOK
  <2>3. ASSUME NEW fallback \in BOOLEAN, ShortCircuit(fallback) PROVE MetricsAddUp'
    <3>1. inflight' = inflight
      BY <2>3 DEF ShortCircuit
    <3>2. QED
      BY <2>3, <2>a, <3>1 DEF ShortCircuit, ServeFallback, Capped, MetricsAddUp, TypeOK
  <2>4. ASSUME NEW c \in Calls, Succeed(c) PROVE MetricsAddUp'
    <3>1. Cardinality(inflight') = n - 1
      BY <2>4, InflightSize DEF Succeed, Finished
    <3>2. QED
      BY <2>4, <2>a, <3>1 DEF Succeed, MetricsAddUp, TypeOK
  <2>5. ASSUME NEW c \in Calls, NEW fallback \in BOOLEAN, Fail(c, fallback)
        PROVE  MetricsAddUp'
    <3>1. Cardinality(inflight') = n - 1
      BY <2>5, InflightSize DEF Fail, Finished
    <3>2. QED
      BY <2>5, <2>a, <3>1 DEF Fail, ServeFallback, Capped, MetricsAddUp, TypeOK
  <2>6. CASE Tick
    BY <2>6 DEF Tick, MetricsAddUp
  <2>7. QED
    BY <2>1, <2>2, <2>3, <2>4, <2>5, <2>6 DEF Next, MetricsAddUp
<1>3. QED
  BY TypeCorrect, <1>1, <1>2, PTL DEF Spec
--------------------------------------------------------------------------------
(***************************************************************************)
(* The counters of the breaker mean what they are meant to, however long   *)
(* the history.  A verdict lengthens every suffix of the history by one    *)
(* and adds an empty one, so that the largest surplus moves as the leaky   *)
(* counter does.  The surplus is a maximum, which has to be known to       *)
(* exist: IsSurplus carries the suffix that has it along.                  *)
(***************************************************************************)
Verdicts == {"success", "failure"}

Score(t) == 2 * FailuresIn(t) - Len(t)

IsSurplus(n, s) ==
  /\ \E t \in Suffixes(s) : Score(t) = n
  /\ \A t \in Suffixes(s) : Score(t) <= n

\* A verdict at the end of a sequence counts as one.
LEMMA FailuresAppend ==
  ASSUME NEW t \in Seq(Verdicts), NEW v \in Verdicts
  PROVE  /\ FailuresIn(t) \in Nat
         /\ FailuresIn(Append(t, v)) = IF v = "failure" THEN FailuresIn(t) + 1 ELSE FailuresIn(t)
<1> DEFINE F == {i \in DOMAIN t : t[i] = "failure"}
<1> DEFINE G == {i \in DOMAIN Append(t, v) : Append(t, v)[i] = "failure"}
<1>1. IsFiniteSet(F) /\ Len(t) \in Nat /\ F \subseteq 1 .. Len(t)
  <2>1. F \subseteq 1 .. Len(t) /\ Len(t) \in Nat
    OBVIOUS
  <2>2. IsFiniteSet(1 .. Len(t))
    BY <2>1, FS_Interval
  <2>3. QED
    BY <2>1, <2>2, FS_Subset
<1>2. G = IF v = "failure" THEN F \cup {Len(t) + 1} ELSE F
  OBVIOUS
<1>3. Len(t) + 1 \notin F
  BY <1>1
<1>4. Cardinality(F) \in Nat /\ Cardinality(F \cup {Len(t) + 1}) = Cardinality(F) + 1
  BY <1>1, <1>3, FS_CardinalityType, FS_AddElement
<1>5. QED
  BY <1>2, <1>4 DEF FailuresIn

\* A failure adds one to the surplus of a run of verdicts, a success takes one.
LEMMA ScoreAppend ==
  ASSUME NEW t \in Seq(Verdicts), NEW v \in Verdicts
  PROVE  /\ Score(t) \in Int
         /\ Score(Append(t, v)) = IF v = "failure" THEN Score(t) + 1 ELSE Score(t) - 1
<1>1. Len(t) \in Nat /\ Len(Append(t, v)) = Len(t) + 1
  OBVIOUS
<1>2. QED
  BY <1>1, FailuresAppend DEF Score

\* No verdict, no surplus.
LEMMA ScoreEmpty == Score(<<>>) = 0
<1>1. {i \in DOMAIN <<>> : <<>>[i] = "failure"} = {}
  OBVIOUS
<1>2. QED
  BY <1>1, FS_EmptySet DEF Score, FailuresIn

\* The runs of verdicts that end now are sequences of verdicts, the empty one too.
LEMMA SuffixesType ==
  ASSUME NEW s \in Seq(Verdicts)
  PROVE  <<>> \in Suffixes(s) /\ Suffixes(s) \subseteq Seq(Verdicts)
<1>1. ASSUME NEW l \in 1 .. Len(s)
      PROVE  SubSeq(s, l, Len(s)) \in Seq(Verdicts)
  <2>1. Len(s) \in Int /\ \A i \in l .. Len(s) : s[i] \in Verdicts
    OBVIOUS
  <2>2. QED
    BY <2>1, SubSeqProperties
<1>2. <<>> \in Seq(Verdicts)
  OBVIOUS
<1>3. QED
  BY <1>1, <1>2 DEF Suffixes

\* A verdict lengthens every suffix and adds an empty one.
LEMMA SuffixesAppend ==
  ASSUME NEW s \in Seq(Verdicts), NEW v \in Verdicts
  PROVE  Suffixes(Append(s, v)) = {Append(t, v) : t \in Suffixes(s)} \cup {<<>>}
<1> DEFINE n == Len(s)
<1> DEFINE Cut(l) == SubSeq(s, l, n)
<1> DEFINE Longer(l) == SubSeq(Append(s, v), l, n + 1)
<1>1. n \in Nat /\ Append(s, v) \in Seq(Verdicts) /\ Len(Append(s, v)) = n + 1
  OBVIOUS
<1>2. ASSUME NEW l \in 1 .. n
      PROVE  Longer(l) = Append(Cut(l), v)
  <2>1. Append(s, v) = s \o <<v>> /\ <<v>> \in Seq(Verdicts)
    BY AppendIsConcat
  <2>2. SubSeq(Append(s, v), l, n) = Cut(l)
    BY <1>1, <2>1, SubSeqOfConcat1
  <2>3. Longer(l) = SubSeq(Append(s, v), l, n) \o <<v>>
    <3>1. l \in 1 .. n + 1 /\ n + 1 \in l .. n + 1 /\ (n + 1) - 1 = n
      BY <1>1
    <3>2. Append(s, v)[n + 1] = v
      BY <1>1
    <3>3. QED
      BY <1>1, <3>1, <3>2, SubSeqRecursiveSecond
  <2>4. Cut(l) \in Seq(Verdicts)
    BY SuffixesType DEF Suffixes
  <2>5. QED
    BY <2>2, <2>3, <2>4, AppendIsConcat
<1>3. Longer(n + 1) = Append(<<>>, v)
  <2>1. /\ n + 1 \in 1 .. Len(Append(s, v)) /\ n + 1 \in (n + 1) .. Len(Append(s, v))
        /\ Append(s, v)[n + 1] = v
    BY <1>1
  <2>2. Longer(n + 1) = SubSeq(Append(s, v), n + 1, (n + 1) - 1) \o <<Append(s, v)[n + 1]>>
    BY <1>1, <2>1, SubSeqRecursiveSecond
  <2>3. SubSeq(Append(s, v), n + 1, (n + 1) - 1) = <<>>
    BY <1>1, SubSeqEmpty
  <2>4. <<>> \in Seq(Verdicts)
    OBVIOUS
  <2>5. QED
    BY <2>1, <2>2, <2>3, <2>4, AppendIsConcat
<1>4. ASSUME NEW t \in Suffixes(Append(s, v))
      PROVE  t = <<>> \/ \E u \in Suffixes(s) : t = Append(u, v)
  <2>1. CASE t = <<>>
    BY <2>1
  <2>2. CASE \E l \in 1 .. n + 1 : t = Longer(l)
    <3>1. PICK l \in 1 .. n + 1 : t = Longer(l)
      BY <2>2
    <3>2. CASE l = n + 1
      BY <1>3, <3>1, <3>2, SuffixesType
    <3>3. CASE l \in 1 .. n
      <4>1. Cut(l) \in Suffixes(s)
        BY <3>3 DEF Suffixes
      <4>2. QED
        BY <1>2, <3>1, <3>3, <4>1
    <3>4. QED
      BY <1>1, <3>2, <3>3
  <2>3. QED
    BY <1>1, <1>4, <2>1, <2>2 DEF Suffixes
<1>5. ASSUME NEW u \in Suffixes(s)
      PROVE  Append(u, v) \in Suffixes(Append(s, v))
  <2>1. CASE u = <<>>
    BY <1>1, <1>3, <2>1 DEF Suffixes
  <2>2. ASSUME NEW l \in 1 .. n, u = Cut(l)
        PROVE  Append(u, v) \in Suffixes(Append(s, v))
    <3>1. Append(u, v) = Longer(l)
      BY <1>2, <2>2
    <3>2. l \in 1 .. n + 1
      BY <1>1
    <3>3. QED
      BY <1>1, <3>1, <3>2 DEF Suffixes
  <2>3. QED
    BY <1>5, <2>1, <2>2 DEF Suffixes
<1>6. <<>> \in Suffixes(Append(s, v))
  BY DEF Suffixes
<1>7. QED
  BY <1>4, <1>5, <1>6

\* A surplus that is attained is the surplus.
LEMMA SurplusIs ==
  ASSUME NEW s \in Seq(Verdicts), NEW n \in Int, IsSurplus(n, s)
  PROVE  Surplus(s) = n
<1> DEFINE S == {2 * FailuresIn(t) - Len(t) : t \in Suffixes(s)}
<1>1. S \subseteq Int
  BY SuffixesType, ScoreAppend DEF Score, Verdicts
<1>2. n \in S /\ \A y \in S : n >= y
  BY <1>1 DEF IsSurplus, Score
<1>3. \A x \in S : (\A y \in S : x >= y) => x = n
  <2> HIDE DEF S
  <2> QED
    BY <1>1, <1>2
<1>4. Surplus(s) = CHOOSE x \in S : \A y \in S : x >= y
  BY DEF Surplus, Max
<1>5. QED
  <2> HIDE DEF S
  <2> QED
    BY <1>2, <1>3, <1>4

\* No verdict, no surplus.
LEMMA SurplusEmpty == IsSurplus(0, <<>>)
  BY ScoreEmpty DEF IsSurplus, Suffixes

\* A failure adds one, and a success takes one away, down to none.
LEMMA SurplusAppend ==
  ASSUME NEW s \in Seq(Verdicts), NEW n \in Nat, IsSurplus(n, s)
  PROVE  /\ IsSurplus(n + 1, Append(s, "failure"))
         /\ IsSurplus(IF n > 0 THEN n - 1 ELSE 0, Append(s, "success"))
<1> DEFINE Longer(v) == {Append(t, v) : t \in Suffixes(s)} \cup {<<>>}
<1>1. \A v \in Verdicts : Suffixes(Append(s, v)) = Longer(v)
  BY SuffixesAppend
<1>2. \A t \in Suffixes(s) :
        /\ Score(t) \in Int /\ Score(t) <= n
        /\ Score(Append(t, "failure")) = Score(t) + 1
        /\ Score(Append(t, "success")) = Score(t) - 1
  BY SuffixesType, ScoreAppend DEF IsSurplus, Verdicts
<1>3. PICK t \in Suffixes(s) : Score(t) = n
  BY DEF IsSurplus
<1>4. IsSurplus(n + 1, Append(s, "failure"))
  <2>1. Append(t, "failure") \in Longer("failure") /\ Score(Append(t, "failure")) = n + 1
    BY <1>2, <1>3
  <2>2. ASSUME NEW u \in Longer("failure")
        PROVE  Score(u) <= n + 1
    <3>1. CASE u = <<>>
      BY <3>1, ScoreEmpty
    <3>2. CASE \E w \in Suffixes(s) : u = Append(w, "failure")
      BY <1>2, <3>2
    <3>3. QED
      BY <3>1, <3>2
  <2>3. QED
    BY <1>1, <2>1, <2>2 DEF IsSurplus, Verdicts
<1>5. IsSurplus(IF n > 0 THEN n - 1 ELSE 0, Append(s, "success"))
  <2> DEFINE m == IF n > 0 THEN n - 1 ELSE 0
  <2>1. Append(t, "success") \in Longer("success") /\ Score(Append(t, "success")) = n - 1
    BY <1>2, <1>3
  <2>2. ASSUME NEW u \in Longer("success")
        PROVE  Score(u) <= m
    <3>1. CASE u = <<>>
      BY <3>1, ScoreEmpty
    <3>2. CASE \E w \in Suffixes(s) : u = Append(w, "success")
      BY <1>2, <3>2
    <3>3. QED
      BY <3>1, <3>2
  <2>3. \E u \in Longer("success") : Score(u) = m
    BY <2>1, ScoreEmpty
  <2>4. QED
    BY <1>1, <2>2, <2>3 DEF IsSurplus, Verdicts
<1>6. QED
  BY <1>4, <1>5
-------------------------------------------------------------------------------
\* The history only watches the breaker.
LEMMA HistoryRefines == HistorySpec => Spec
<1>1. HistoryInit => Init
  BY DEF HistoryInit
<1>2. ASSUME [HistoryNext]_historyVars
      PROVE  [Next]_vars
  <2>1. CASE UNCHANGED historyVars
    BY <2>1 DEF historyVars
  <2>2. CASE HistoryNext
    BY <2>2 DEF HistoryNext, HistorySucceed, HistoryFail, HistoryOther, HistoryReset,
                Arrival, Next
  <2>3. QED
    BY <1>2, <2>1, <2>2
<1>3. QED
  BY <1>1, <1>2, PTL DEF HistorySpec, Spec

\* What the two counters stand for
Counted == state = "CLOSED" => IsSurplus(failure_count, outcomes)

TrialsCounted ==
  UpstreamTimeout < RecoveryTimeout /\ state = "HALF_OPEN"
    => trials_ok = success_count_half_open

HistoryInv ==
  /\ outcomes \in Seq(Verdicts)
  /\ Counted
  /\ TrialsCounted

\* No verdict breaks it: first a success,
LEMMA SucceedStep ==
  ASSUME Inductive, HistoryInv, NEW c \in Calls, HistorySucceed(c)
  PROVE  HistoryInv'
<1>1. CASE state = "CLOSED"
  <2>1. /\ outcomes' = Append(outcomes, "success") /\ state' = state
        /\ failure_count' = IF failure_count > 0 THEN failure_count - 1 ELSE 0
    BY <1>1 DEF HistorySucceed, Remember, Succeed, CountTrial, Decay, IgnoreSuccess
  <2>2. IsSurplus(failure_count', outcomes')
    BY <1>1, <2>1, SurplusAppend DEF HistoryInv, Counted, Inductive, TypeOK
  <2>3. outcomes' \in Seq(Verdicts)
    BY <2>1 DEF HistoryInv, Verdicts
  <2>4. QED
    BY <1>1, <2>1, <2>2, <2>3 DEF HistoryInv, Counted, TrialsCounted
<1>2. CASE state = "HALF_OPEN"
  <2>1. /\ success_count_half_open' = success_count_half_open + 1
        /\ state' = "CLOSED" => failure_count' = 0 /\ outcomes' = <<>>
        /\ state' # "CLOSED" => outcomes' = outcomes
        /\ c \in inflight
    BY <1>2 DEF HistorySucceed, Remember, Succeed, Finished, CountTrial, Decay, IgnoreSuccess
  <2>2. UpstreamTimeout < RecoveryTimeout => trials_ok' = trials_ok + 1
    BY <1>2, <2>1 DEF HistorySucceed, Inductive, TrialIsolation
  <2>3. outcomes' \in Seq(Verdicts)
    BY <2>1, EmptySeq DEF HistoryInv
  <2>4. Counted'
    BY <2>1, SurplusEmpty DEF Counted
  <2>5. TrialsCounted'
    BY <1>2, <2>1, <2>2 DEF HistoryInv, TrialsCounted
  <2>6. QED
    BY <2>3, <2>4, <2>5 DEF HistoryInv
<1>3. CASE state = "OPEN"
  BY <1>3 DEF HistorySucceed, Remember, Succeed, CountTrial, Decay, IgnoreSuccess,
              HistoryInv, Counted, TrialsCounted
<1>4. QED
  BY <1>1, <1>2, <1>3 DEF Inductive, TypeOK, CircuitState

\* then a failure. While CLOSED the count is below the threshold, and exact.
LEMMA FailStep ==
  ASSUME Inductive, HistoryInv, NEW c \in Calls, HistoryFail(c)
  PROVE  /\ HistoryInv'
         /\ state = "CLOSED" => /\ outcomes' = Append(outcomes, "failure")
                                /\ IsSurplus(failure_count', outcomes')
<1>1. CASE state = "CLOSED"
  <2>1. failure_count \in Nat /\ failure_count < FailureThreshold
    BY <1>1 DEF Inductive, TypeOK, StateExplained
  <2>2. /\ outcomes' = Append(outcomes, "failure") /\ state' # "HALF_OPEN"
        /\ failure_count' = failure_count + 1
    BY <1>1, <2>1 DEF HistoryFail, Remember, Fail, Reopens, CountFailure, Capped
  <2>3. IsSurplus(failure_count', outcomes')
    BY <1>1, <2>1, <2>2, SurplusAppend DEF HistoryInv, Counted
  <2>4. outcomes' \in Seq(Verdicts)
    BY <2>2 DEF HistoryInv, Verdicts
  <2>5. QED
    BY <2>2, <2>3, <2>4 DEF HistoryInv, Counted, TrialsCounted
<1>2. CASE state # "CLOSED"
  <2>1. state' = "OPEN"
    BY <1>2 DEF HistoryFail, Fail, Reopens, CountFailure, Capped, Inductive, TypeOK,
                CircuitState, StateExplained
  <2>2. outcomes' = outcomes
    BY <1>2, <2>1 DEF HistoryFail, Remember
  <2>3. QED
    BY <1>2, <2>1, <2>2 DEF HistoryInv, Counted, TrialsCounted
<1>3. QED
  BY <1>1, <1>2

\* and then a step without a verdict.
LEMMA OtherStep ==
  ASSUME Inductive, HistoryInv, HistoryOther
  PROVE  /\ HistoryInv'
         /\ state' = "CLOSED" <=> state = "CLOSED"
<1>1. /\ outcomes' = outcomes /\ failure_count' = failure_count
      /\ state' = "CLOSED" <=> state = "CLOSED"
      /\ \/ state' = state /\ success_count_half_open' = success_count_half_open
               /\ ~(Lapsed /\ state' = "HALF_OPEN")
         \/ Lapsed /\ state' = "HALF_OPEN" /\ success_count_half_open' = 0
  BY DEF HistoryOther, PollState, Arrival, CallAdmitted, ShortCircuit, Tick, ReadState,
         StateRead, Lapsed
<1>2. TrialsCounted'
  BY <1>1 DEF HistoryOther, HistoryInv, TrialsCounted
<1>3. QED
  BY <1>1, <1>2 DEF HistoryInv, Counted

\* reset() forgets the history with the counters.
LEMMA ResetStep ==
  ASSUME HistoryReset
  PROVE  HistoryInv'
<1>1. IsSurplus(failure_count', outcomes')
  BY SurplusEmpty DEF HistoryReset, Reset
<1>2. QED
  BY <1>1 DEF HistoryReset, Reset, HistoryInv, Counted, TrialsCounted

\* The counters mean what they are meant to in every reachable state.
THEOREM HistoryHolds == HistorySpec => [](Inductive /\ HistoryInv)
<1>1. HistoryInit => HistoryInv
  BY SurplusEmpty DEF HistoryInit, Init, HistoryInv, Counted, TrialsCounted
<1>2. Inductive /\ HistoryInv /\ [HistoryNext]_historyVars => HistoryInv'
  <2>1. CASE UNCHANGED historyVars
    BY <2>1 DEF historyVars, vars, control, HistoryInv, Counted, TrialsCounted
  <2>2. QED
    BY <2>1, SucceedStep, FailStep, OtherStep, ResetStep DEF HistoryNext
<1>3. QED
  BY HistoryRefines, InductiveHolds, <1>1, <1>2, PTL DEF HistorySpec

\* While CLOSED the failure count is the surplus of failures, over any number
\* of verdicts of overlapping calls.
THEOREM LeakyCounterExact == HistorySpec => []LeakyCounter
<1>1. Inductive /\ HistoryInv => LeakyCounter
  BY SurplusIs DEF Inductive, TypeOK, HistoryInv, Counted, LeakyCounter
<1>2. QED
  BY HistoryHolds, <1>1, PTL

\* The breaker trips on the failure that brings the surplus to the threshold.
THEOREM TripsEarned == HistorySpec => TripEarned
<1>1. ASSUME Inductive, HistoryInv, HistoryNext, state = "CLOSED", state' # "CLOSED"
      PROVE  /\ state' = "OPEN"
             /\ Last(outcomes') = "failure"
             /\ Surplus(outcomes') = FailureThreshold
  <2>1. PICK c \in Calls : HistoryFail(c)
    BY <1>1, OtherStep DEF HistoryNext, HistorySucceed, Succeed, CountTrial, Decay,
       IgnoreSuccess, HistoryReset, Reset
  <2>2. state' = "OPEN" /\ failure_count' = FailureThreshold
    <3>1. failure_count \in Nat /\ failure_count < FailureThreshold
      BY <1>1 DEF Inductive, TypeOK, StateExplained
    <3>2. CountFailure
      BY <1>1, <2>1 DEF HistoryFail, Fail, Reopens
    <3>3. failure_count' = failure_count + 1
      BY <3>1, <3>2 DEF CountFailure, Capped
    <3>4. state' = "OPEN" /\ failure_count' >= FailureThreshold
      BY <1>1, <3>2 DEF CountFailure
    <3>5. QED
      BY <3>1, <3>3, <3>4
  <2>3. outcomes' = Append(outcomes, "failure") /\ IsSurplus(failure_count', outcomes')
    BY <1>1, <2>1, FailStep
  <2>4. outcomes' \in Seq(Verdicts) /\ Last(outcomes') = "failure"
    BY <1>1, <2>3 DEF HistoryInv, Verdicts, Last
  <2>5. Surplus(outcomes') = FailureThreshold
    <3>1. IsSurplus(FailureThreshold, outcomes')
      BY <2>2, <2>3
    <3>2. QED
      BY <2>4, <3>1, SurplusIs
  <2>6. QED
    BY <2>2, <2>4, <2>5
<1>2. Inductive /\ HistoryInv /\ [HistoryNext]_historyVars =>
        [state = "CLOSED" /\ state' # "CLOSED"
           => /\ state' = "OPEN"
              /\ Last(outcomes') = "failure"
              /\ Surplus(outcomes') = FailureThreshold]_historyVars
  BY <1>1
<1>3. QED
  BY HistoryHolds, <1>2, PTL DEF HistorySpec, TripEarned

\* The circuit closes on its own only after half_open_max_calls trials of the
\* current HALF_OPEN period.
THEOREM RecoveriesEarned == HistorySpec => RecoveryEarned
<1>1. ASSUME Inductive, HistoryInv, HistoryNext, [Next]_vars,
             state # "CLOSED", state' = "CLOSED", failure_age' # NoFailure
      PROVE  /\ state = "HALF_OPEN"
             /\ UpstreamTimeout < RecoveryTimeout => trials_ok' = HalfOpenMaxCalls
  <2>1. PICK c \in Calls : HistorySucceed(c)
    <3>1. ~HistoryReset
      BY <1>1 DEF HistoryReset, Reset
    <3>2. ASSUME NEW c \in Calls PROVE ~HistoryFail(c)
      BY <1>1 DEF HistoryFail, Fail, Reopens, CountFailure, Capped, Inductive, TypeOK,
         StateExplained
    <3>3. QED
      BY <1>1, <3>1, <3>2, OtherStep DEF HistoryNext
  <2>2. /\ state = "HALF_OPEN"
        /\ success_count_half_open' = success_count_half_open + 1
        /\ success_count_half_open' >= HalfOpenMaxCalls
        /\ c \in inflight
    BY <1>1, <2>1 DEF HistorySucceed, Succeed, Finished, CountTrial, Decay, IgnoreSuccess
  <2>3. success_count_half_open' = HalfOpenMaxCalls
    <3>1. TypeOK'
      BY <1>1, TypeStep
    <3>2. QED
      BY <2>2, <3>1 DEF TypeOK
  <2>4. UpstreamTimeout < RecoveryTimeout => trials_ok' = trials_ok + 1
    BY <2>1, <2>2, <1>1 DEF HistorySucceed, Inductive, TrialIsolation
  <2>5. QED
    BY <1>1, <2>2, <2>3, <2>4 DEF HistoryInv, TrialsCounted
<1>2. Inductive /\ HistoryInv /\ [HistoryNext]_historyVars /\ [Next]_vars =>
        [state # "CLOSED" /\ state' = "CLOSED" /\ failure_age' # NoFailure
           => /\ state = "HALF_OPEN"
              /\ UpstreamTimeout < RecoveryTimeout
                   => trials_ok' = HalfOpenMaxCalls]_historyVars
  BY <1>1
<1>3. QED
  BY HistoryHolds, HistoryRefines, <1>2, PTL DEF HistorySpec, Spec, RecoveryEarned
================================================================================
