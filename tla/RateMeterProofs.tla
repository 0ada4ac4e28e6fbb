---------------------------- MODULE RateMeterProofs ----------------------------
(***************************************************************************)
(* What the token bucket admits and refuses, for every number of pods and  *)
(* checks, every capacity, price, delay and skew that LimiterAssumption    *)
(* allows.                                                                 *)
(*                                                                         *)
(* FleetBound counts admissions; the invariant that a step preserves       *)
(* counts grants, because a command that outlives its check spends tokens  *)
(* without admitting anything (Accounted).  That the expiry of the key     *)
(* creates no tokens needs to know how old the stored timestamp and how    *)
(* young a travelling stamp can be (Aged and Stamped).                     *)
(*                                                                         *)
(* That it refuses nobody for nothing has an invariant of its own, which   *)
(* looks back from the present to any time x: what is missing from the     *)
(* bucket was either spent by commands executed since Redis last saw a     *)
(* stamp of x or earlier, or not refilled yet since x (Explained).  A      *)
(* refusal reads it at x = the stamp minus the time of a whole refill.     *)
(***************************************************************************)
EXTENDS RateMeter, FiniteSetTheorems, SequenceTheorems, TLAPS

USE LimiterAssumption

MeterTypeOK ==
  /\ TypeOK
  /\ base \in Nat /\ regress \in Nat
  /\ local_grants \in [Pods -> Nat]
  /\ local_base \in [Pods -> Nat]

\* A travelling command bears the clock of its pod, and is not overdue.
Stamped ==
  \A r \in Checks : command[r] = "travelling" =>
    /\ sent_at[r] <= now /\ now <= sent_at[r] + MaxLag
    /\ sent_at[r] <= stamp[r] /\ stamp[r] <= sent_at[r] + MaxSkew

\* The stored timestamp is no later than the clock that last wrote it.
Aged == expires # 0 => timestamp + TTL <= expires + MaxSkew

\* What is granted was executed, after it was sent; what is admitted was granted.
Traced ==
  /\ IsFiniteSet(Granted)
  /\ \A r \in Checks : phase[r] = "idle" => command[r] = "none"
  /\ \A r \in Granted : command[r] = "executed"
  /\ Admitted \subseteq Granted

\* The tokens granted and the tokens left are within what was there.
Accounted ==
  IF expires = 0 THEN Granted = {}
  ELSE Cost * Cardinality(Granted) + tokens <= Capacity + (timestamp - base) + regress

LocalAccounted ==
  \A p \in Pods :
    /\ local_timestamp[p] <= Clock(p)
    /\ IF local_tokens[p] = Capacity THEN local_grants[p] = 0
       ELSE Cost * local_grants[p] + local_tokens[p]
              <= Capacity + (local_timestamp[p] - local_base[p])

Inductive ==
  MeterTypeOK /\ Stamped /\ Aged /\ Traced /\ Accounted /\ LocalAccounted
-------------------------------------------------------------------------------
\* The initial state satisfies the inductive invariant.
LEMMA InitInductive == MeterInit => Inductive
<1> SUFFICES ASSUME MeterInit PROVE Inductive
  OBVIOUS
<1> USE DEF MeterInit, Init
<1>1. MeterTypeOK
  BY DEF MeterTypeOK, TypeOK
<1>2. Granted = {} /\ Admitted = {}
  BY DEF Granted, Admitted
<1>3. Traced
  BY <1>2, FS_EmptySet DEF Traced
<1>4. LocalAccounted
  <2> SUFFICES ASSUME NEW p \in Pods
               PROVE  local_timestamp[p] <= Clock(p) /\ local_tokens[p] = Capacity
                        /\ local_grants[p] = 0
    BY DEF LocalAccounted
  <2>1. Skew[p] \in 0 .. MaxSkew
    OBVIOUS
  <2>2. QED
    BY <2>1 DEF Clock
<1>5. QED
  BY <1>1, <1>2, <1>3, <1>4 DEF Inductive, Stamped, Aged, Accounted

\* A refill stays within the capacity, and adds no more than the time between
\* the two stamps.
LEMMA FilledBound ==
  ASSUME NEW level \in 0 .. Capacity, NEW then \in Nat, NEW t \in Nat
  PROVE  /\ Filled(level, then, t) \in 0 .. Capacity
         /\ t >= then => Filled(level, then, t) <= level + (t - then)
         /\ t < then => Filled(level, then, t) <= level
         /\ t >= then + Capacity => Filled(level, then, t) = Capacity
         /\ level = Capacity => Filled(level, then, t) = Capacity
  BY DEF Filled

\* The level of a bucket at any later time is a number within the capacity.
LEMMA LevelType ==
  ASSUME TypeOK, NEW t \in Nat
  PROVE  Level(t) \in 0 .. Capacity
  BY FilledBound DEF Level, TypeOK

\* Granting one more token costs Cost more units.
LEMMA OneMore ==
  ASSUME NEW n \in Nat
  PROVE  Cost * n \in Nat /\ Cost * (n + 1) = Cost * n + Cost
  OBVIOUS

\* Fewer admissions than grants cost less.
LEMMA Monotone ==
  ASSUME NEW m \in Nat, NEW n \in Nat, m <= n
  PROVE  Cost * m <= Cost * n /\ Cost * m \in Nat /\ Cost * n \in Nat
  OBVIOUS
-------------------------------------------------------------------------------
\* No step breaks the types.
LEMMA TypeStep == Inductive /\ [MeteredNext]_meterVars => MeterTypeOK'
<1> SUFFICES ASSUME Inductive, [MeteredNext]_meterVars PROVE MeterTypeOK'
  OBVIOUS
<1> USE DEF Inductive, MeterTypeOK, TypeOK, bucket, local, redisMeter, localMeter
<1>1. ASSUME NEW r \in Checks, MeteredExecute(r) PROVE MeterTypeOK'
  <2>1. stamp[r] \in Nat /\ Level(stamp[r]) \in 0 .. Capacity
    BY LevelType
  <2>2. tokens' \in 0 .. Capacity /\ timestamp' \in Nat /\ expires' \in Nat
    BY <1>1, <2>1 DEF MeteredExecute, Execute
  <2>3. base' \in Nat /\ regress' \in Nat
    BY <1>1, <2>1 DEF MeteredExecute
  <2>4. granted' \in [Checks -> BOOLEAN]
    BY <1>1, <2>1 DEF MeteredExecute, Execute
  <2>5. /\ command' \in [Checks -> {"none", "travelling", "executed", "lost"}]
        /\ stamp' \in [Checks -> Nat]
    BY <1>1 DEF MeteredExecute, Execute
  <2>6. QED
    BY <1>1, <2>2, <2>3, <2>4, <2>5 DEF MeteredExecute, Execute
<1>2. ASSUME NEW r \in Checks, MeteredDegrade(r) PROVE MeterTypeOK'
  <2>1. at[r] \in Pods /\ Clock(at[r]) \in Nat
    BY DEF Clock
  <2>2. Filled(local_tokens[at[r]], local_timestamp[at[r]], Clock(at[r])) \in 0 .. Capacity
    BY <2>1, FilledBound
  <2>3. local_tokens' \in [Pods -> 0 .. Capacity]
    BY <1>2, <2>1, <2>2 DEF MeteredDegrade, Degrade
  <2>4. local_timestamp' \in [Pods -> Nat] /\ redis_healthy' \in [Pods -> BOOLEAN]
    BY <1>2, <2>1 DEF MeteredDegrade, Degrade
  <2>5. local_grants' \in [Pods -> Nat] /\ local_base' \in [Pods -> Nat]
    BY <1>2, <2>1 DEF MeteredDegrade
  <2>6. phase' \in [Checks -> {"idle", "waiting", "admitted", "admitted_locally",
                               "refused", "dropped"}]
    BY <1>2 DEF MeteredDegrade, Degrade
  <2>7. QED
    BY <1>2, <2>3, <2>4, <2>5, <2>6 DEF MeteredDegrade, Degrade
<1>3. ASSUME NEW p \in Pods, MeteredRestart(p) PROVE MeterTypeOK'
  BY <1>3 DEF MeteredRestart, Restart
<1>4. ASSUME NEW r \in Checks, Send(r), UNCHANGED <<redisMeter, localMeter>>
      PROVE  MeterTypeOK'
  <2>1. Clock(at[r]) \in Nat
    BY DEF Clock
  <2>2. QED
    BY <1>4, <2>1 DEF Send
<1>5. ASSUME NEW r \in Checks, Lose(r), UNCHANGED <<redisMeter, localMeter>>
      PROVE  MeterTypeOK'
  BY <1>5 DEF Lose
<1>6. ASSUME NEW r \in Checks, Receive(r), UNCHANGED <<redisMeter, localMeter>>
      PROVE  MeterTypeOK'
  BY <1>6 DEF Receive, Verdict
<1>7. ASSUME Tick, UNCHANGED <<redisMeter, localMeter>> PROVE MeterTypeOK'
  BY <1>7 DEF Tick
<1>8. CASE UNCHANGED meterVars
  BY <1>8 DEF meterVars, limiterVars
<1>9. QED
  BY <1>1, <1>2, <1>3, <1>4, <1>5, <1>6, <1>7, <1>8 DEF MeteredNext, Unmetered

\* No step leaves a travelling stamp out of its bounds, or ages the bucket's.
LEMMA TimingStep == Inductive /\ [MeteredNext]_meterVars => Stamped' /\ Aged'
<1> SUFFICES ASSUME Inductive, [MeteredNext]_meterVars PROVE Stamped' /\ Aged'
  OBVIOUS
<1> USE DEF Inductive, MeterTypeOK, TypeOK, Stamped, Aged, bucket, local
<1>1. ASSUME NEW r \in Checks, MeteredExecute(r) PROVE Stamped' /\ Aged'
  <2>1. Stamped'
    BY <1>1 DEF MeteredExecute, Execute
  <2>2. stamp[r] <= now + MaxSkew
    BY <1>1 DEF MeteredExecute, Execute
  <2>3. Aged'
    BY <1>1, <2>2 DEF MeteredExecute, Execute
  <2>4. QED
    BY <2>1, <2>3
<1>2. ASSUME NEW r \in Checks, MeteredDegrade(r) PROVE Stamped' /\ Aged'
  BY <1>2 DEF MeteredDegrade, Degrade
<1>3. ASSUME NEW p \in Pods, MeteredRestart(p) PROVE Stamped' /\ Aged'
  BY <1>3 DEF MeteredRestart, Restart
<1>4. ASSUME NEW r \in Checks, Send(r) PROVE Stamped' /\ Aged'
  <2>1. at[r] \in Pods /\ Skew[at[r]] \in 0 .. MaxSkew
    OBVIOUS
  <2>2. QED
    BY <1>4, <2>1 DEF Send, Clock
<1>5. ASSUME NEW r \in Checks, Lose(r) PROVE Stamped' /\ Aged'
  BY <1>5 DEF Lose
<1>6. ASSUME NEW r \in Checks, Receive(r) PROVE Stamped' /\ Aged'
  BY <1>6 DEF Receive
<1>7. CASE Tick
  BY <1>7 DEF Tick
<1>8. CASE UNCHANGED meterVars
  BY <1>8 DEF meterVars, limiterVars
<1>9. QED
  BY <1>1, <1>2, <1>3, <1>4, <1>5, <1>6, <1>7, <1>8 DEF MeteredNext, Unmetered

\* What Execute does to the set of grants.
LEMMA GrantedByExecute ==
  ASSUME Inductive, NEW r \in Checks, Execute(r)
  PROVE  /\ r \notin Granted
         /\ Granted' = IF Level(stamp[r]) >= Cost THEN Granted \cup {r} ELSE Granted
<1>1. r \notin Granted
  BY DEF Inductive, Traced, Execute
<1>2. QED
  BY <1>1 DEF Inductive, MeterTypeOK, TypeOK, Granted, Execute

\* No step admits what was not granted.
LEMMA TracedStep == Inductive /\ [MeteredNext]_meterVars => Traced'
<1> SUFFICES ASSUME Inductive, [MeteredNext]_meterVars PROVE Traced'
  OBVIOUS
<1> USE DEF Inductive, MeterTypeOK, TypeOK, Traced, bucket, local
<1>1. ASSUME NEW r \in Checks, MeteredExecute(r) PROVE Traced'
  <2>1. Execute(r)
    BY <1>1 DEF MeteredExecute
  <2>2. IsFiniteSet(Granted')
    BY <2>1, GrantedByExecute, FS_AddElement
  <2>3. \A q \in Granted' : command'[q] = "executed"
    BY <2>1, GrantedByExecute DEF Execute, Granted
  <2>4. Admitted' \subseteq Granted'
    BY <2>1, GrantedByExecute DEF Execute, Admitted
  <2>5. \A q \in Checks : phase'[q] = "idle" => command'[q] = "none"
    BY <2>1 DEF Execute
  <2>6. QED
    BY <2>2, <2>3, <2>4, <2>5
<1>2. ASSUME NEW r \in Checks, MeteredDegrade(r) PROVE Traced'
  BY <1>2 DEF MeteredDegrade, Degrade, Granted, Admitted
<1>3. ASSUME NEW p \in Pods, MeteredRestart(p) PROVE Traced'
  BY <1>3 DEF MeteredRestart, Restart, Granted, Admitted
<1>4. ASSUME NEW r \in Checks, Send(r) PROVE Traced'
  <2>1. Granted' = Granted /\ Admitted' \subseteq Admitted
    BY <1>4 DEF Send, Granted, Admitted
  <2>2. r \notin Granted
    BY <1>4 DEF Send
  <2>3. QED
    BY <1>4, <2>1, <2>2 DEF Send
<1>5. ASSUME NEW r \in Checks, Lose(r) PROVE Traced'
  BY <1>5 DEF Lose, Granted, Admitted
<1>6. ASSUME NEW r \in Checks, Receive(r) PROVE Traced'
  BY <1>6 DEF Receive, Verdict, Granted, Admitted
<1>7. CASE Tick
  BY <1>7 DEF Tick, Granted, Admitted
<1>8. CASE UNCHANGED meterVars
  BY <1>8 DEF meterVars, limiterVars, Granted, Admitted
<1>9. QED
  BY <1>1, <1>2, <1>3, <1>4, <1>5, <1>6, <1>7, <1>8 DEF MeteredNext, Unmetered

\* No step spends more of the shared bucket than its meter accounts for.
LEMMA AccountedStep == Inductive /\ [MeteredNext]_meterVars => Accounted'
<1> SUFFICES ASSUME Inductive, [MeteredNext]_meterVars PROVE Accounted'
  OBVIOUS
<1>1. ASSUME NEW r \in Checks, MeteredExecute(r) PROVE Accounted'
  <2> DEFINE s == stamp[r]
             level == Level(s)
             spent == Cost * Cardinality(Granted)
             spent2 == Cost * Cardinality(Granted')
  <2>1. Execute(r) /\ Inductive /\ TypeOK
    BY <1>1 DEF MeteredExecute, Inductive, MeterTypeOK
  <2>2. /\ s \in Nat /\ level \in 0 .. Capacity
        /\ now \in Nat /\ tokens \in 0 .. Capacity
        /\ timestamp \in Nat /\ base \in Nat /\ regress \in Nat /\ expires \in Nat
    BY LevelType DEF Inductive, MeterTypeOK, TypeOK
  <2>3. Cardinality(Granted) \in Nat /\ spent \in Nat
    BY FS_CardinalityType, OneMore DEF Inductive, Traced
  <2>4. IF level >= Cost THEN spent2 = spent + Cost ELSE spent2 = spent
    BY <2>1, <2>3, GrantedByExecute, FS_AddElement, OneMore DEF Inductive, Traced
  <2>5. spent2 + tokens' = spent + level
    BY <2>1, <2>2, <2>3, <2>4 DEF Execute
  <2>6. expires' # 0 /\ timestamp' = s
    BY <2>1, <2>2 DEF Execute
  <2>7. CASE expires = 0
    <3>1. spent = 0
      BY <2>7, FS_EmptySet DEF Inductive, Accounted
    <3>2. base' = s /\ regress' = regress
      BY <1>1, <2>7 DEF MeteredExecute
    <3>3. QED
      BY <2>2, <2>3, <2>5, <2>6, <3>1, <3>2 DEF Accounted
  <2>8. CASE expires # 0
    <3>1. spent + tokens <= Capacity + (timestamp - base) + regress
      BY <2>8 DEF Inductive, Accounted
    <3>2. base' = base
      BY <1>1, <2>8 DEF MeteredExecute
    <3>3. regress' = IF s < timestamp THEN regress + (timestamp - s) ELSE regress
      BY <1>1, <2>8 DEF MeteredExecute
    <3>4. CASE KeyExists
      <4>1. level = Filled(tokens, timestamp, s)
        BY <3>4 DEF Level
      <4>2. IF s >= timestamp THEN level <= tokens + (s - timestamp) ELSE level <= tokens
        <5>1. /\ s >= timestamp => Filled(tokens, timestamp, s) <= tokens + (s - timestamp)
              /\ s < timestamp => Filled(tokens, timestamp, s) <= tokens
          BY <2>2, FilledBound
        <5>2. QED
          BY <2>2, <4>1, <5>1
      <4>3. QED
        BY <2>2, <2>3, <2>5, <2>6, <3>1, <3>2, <3>3, <4>2 DEF Accounted
    <3>5. CASE ~KeyExists
      <4>1. level = Capacity /\ expires <= now
        BY <2>2, <3>5 DEF Level, KeyExists
      <4>2. now <= s + MaxLag
        BY <2>1, <2>2 DEF Inductive, Stamped, Execute, TypeOK
      <4>3. timestamp + TTL <= expires + MaxSkew
        BY <2>8 DEF Inductive, Aged
      <4>4. s >= timestamp + Capacity
        BY <2>2, <4>1, <4>2, <4>3
      <4>5. QED
        BY <2>2, <2>3, <2>5, <2>6, <3>1, <3>2, <3>3, <4>1, <4>4 DEF Accounted
    <3>6. QED
      BY <3>4, <3>5
  <2>9. QED
    BY <2>7, <2>8
<1> USE DEF Inductive, Accounted, bucket, local, redisMeter, Granted
<1>2. ASSUME NEW r \in Checks, MeteredDegrade(r) PROVE Accounted'
  BY <1>2 DEF MeteredDegrade, Degrade
<1>3. ASSUME NEW p \in Pods, MeteredRestart(p) PROVE Accounted'
  BY <1>3 DEF MeteredRestart, Restart
<1>4. ASSUME NEW r \in Checks, Unmetered(r), UNCHANGED <<redisMeter, localMeter>>
      PROVE  Accounted'
  BY <1>4 DEF Unmetered, Send, Lose, Receive
<1>5. ASSUME Tick, UNCHANGED <<redisMeter, localMeter>> PROVE Accounted'
  BY <1>5 DEF Tick
<1>6. CASE UNCHANGED meterVars
  BY <1>6 DEF meterVars, limiterVars
<1>7. QED
  BY <1>1, <1>2, <1>3, <1>4, <1>5, <1>6 DEF MeteredNext

\* No step spends more of a local bucket than its meter accounts for.
LEMMA LocalStep == Inductive /\ [MeteredNext]_meterVars => LocalAccounted'
<1> SUFFICES ASSUME Inductive, [MeteredNext]_meterVars PROVE LocalAccounted'
  OBVIOUS
<1> USE DEF Inductive, MeterTypeOK, TypeOK, LocalAccounted, Clock
<1>1. ASSUME NEW r \in Checks, MeteredDegrade(r) PROVE LocalAccounted'
  <2> SUFFICES ASSUME NEW p \in Pods
               PROVE  /\ local_timestamp'[p] <= (Clock(p))'
                      /\ IF local_tokens'[p] = Capacity THEN local_grants'[p] = 0
                         ELSE Cost * local_grants'[p] + local_tokens'[p]
                                <= Capacity + (local_timestamp'[p] - local_base'[p])
    OBVIOUS
  <2>1. CASE p # at[r]
    BY <1>1, <2>1 DEF MeteredDegrade, Degrade
  <2>2. CASE p = at[r]
    <3> DEFINE level == Filled(local_tokens[p], local_timestamp[p], Clock(p))
    <3>1. /\ local_tokens[p] \in 0 .. Capacity /\ local_timestamp[p] \in Nat
          /\ Clock(p) \in Nat /\ local_grants[p] \in Nat /\ local_base[p] \in Nat
          /\ local_timestamp[p] <= Clock(p)
      OBVIOUS
    <3>2. /\ level \in 0 .. Capacity
          /\ level <= local_tokens[p] + (Clock(p) - local_timestamp[p])
          /\ local_tokens[p] = Capacity => level = Capacity
      BY <3>1, FilledBound
    <3>3. /\ local_tokens'[p] = IF level >= Cost THEN level - Cost ELSE level
          /\ local_timestamp'[p] = Clock(p)
          /\ (Clock(p))' = Clock(p)
      BY <1>1, <2>2 DEF MeteredDegrade, Degrade
    <3>4. local_grants'[p] = IF level >= Cost THEN local_grants[p] + 1 ELSE local_grants[p]
      BY <1>1, <2>2 DEF MeteredDegrade, Degrade
    <3>5. local_base'[p] = IF local_tokens[p] = Capacity THEN Clock(p) ELSE local_base[p]
      BY <1>1, <2>2 DEF MeteredDegrade
    <3>6. /\ Cost * local_grants[p] \in Nat
          /\ Cost * (local_grants[p] + 1) = Cost * local_grants[p] + Cost
      BY <3>1, OneMore
    <3>7. local_tokens'[p] # Capacity
      BY <3>2, <3>3
    <3>8. CASE local_tokens[p] = Capacity
      <4>1. local_grants[p] = 0
        BY <3>8
      <4>2. QED
        BY <3>1, <3>2, <3>3, <3>4, <3>5, <3>6, <3>7, <3>8, <4>1
    <3>9. CASE local_tokens[p] # Capacity
      <4>1. Cost * local_grants[p] + local_tokens[p]
              <= Capacity + (local_timestamp[p] - local_base[p])
        BY <3>9
      <4>2. QED
        BY <3>1, <3>2, <3>3, <3>4, <3>5, <3>6, <3>7, <3>9, <4>1
    <3>10. QED
      BY <3>8, <3>9
  <2>3. QED
    BY <2>1, <2>2
<1>2. ASSUME NEW p \in Pods, MeteredRestart(p) PROVE LocalAccounted'
  <2>1. ASSUME NEW q \in Pods PROVE Clock(q) \in Nat
    OBVIOUS
  <2>2. QED
    BY <1>2, <2>1 DEF MeteredRestart, Restart
<1>3. ASSUME NEW r \in Checks, MeteredExecute(r) PROVE LocalAccounted'
  BY <1>3 DEF MeteredExecute, Execute, local, localMeter
<1>4. ASSUME NEW r \in Checks, Unmetered(r), UNCHANGED <<redisMeter, localMeter>>
      PROVE  LocalAccounted'
  BY <1>4 DEF Unmetered, Send, Lose, Receive, local, localMeter
<1>5. ASSUME Tick, UNCHANGED <<redisMeter, localMeter>> PROVE LocalAccounted'
  <2>1. ASSUME NEW q \in Pods PROVE Skew[q] \in Nat
    OBVIOUS
  <2>2. QED
    BY <1>5, <2>1 DEF Tick, local, localMeter
<1>6. CASE UNCHANGED meterVars
  BY <1>6 DEF meterVars, limiterVars, local, localMeter
<1>7. QED
  BY <1>1, <1>2, <1>3, <1>4, <1>5, <1>6 DEF MeteredNext
-------------------------------------------------------------------------------
\* The inductive invariant holds in every reachable state.
THEOREM InductiveHolds == MeteredSpec => []Inductive
<1>1. Inductive /\ [MeteredNext]_meterVars => Inductive'
  BY TypeStep, TimingStep, TracedStep, AccountedStep, LocalStep DEF Inductive
<1>2. QED
  BY InitInductive, <1>1, PTL DEF MeteredSpec

\* Type correctness of the limiter.
THEOREM TypeCorrect == MeteredSpec => []TypeOK
<1>1. Inductive => TypeOK
  BY DEF Inductive, MeterTypeOK
<1>2. QED
  BY InductiveHolds, <1>1, PTL

\* The fleet admits at most the capacity, the refill, and what out-of-order
\* stamps refill twice.
THEOREM FleetBounded == MeteredSpec => []FleetBound
<1>1. Inductive => FleetBound
  <2> SUFFICES ASSUME Inductive PROVE FleetBound
    OBVIOUS
  <2>1. IsFiniteSet(Granted) /\ Admitted \subseteq Granted
    BY DEF Inductive, Traced
  <2>2. /\ Cardinality(Admitted) \in Nat /\ Cardinality(Granted) \in Nat
        /\ Cardinality(Admitted) <= Cardinality(Granted)
    BY <2>1, FS_Subset, FS_CardinalityType
  <2>3. Cost * Cardinality(Admitted) <= Cost * Cardinality(Granted)
    BY <2>2, Monotone
  <2>4. Cost * Cardinality(Admitted) \in Nat /\ Cost * Cardinality(Granted) \in Nat
    BY <2>2, Monotone
  <2>5. QED
    BY <2>1, <2>3, <2>4
       DEF Inductive, Accounted, FleetBound, MeterTypeOK, TypeOK
<1>2. QED
  BY InductiveHolds, <1>1, PTL

\* No pod's local bucket admits more than its capacity and its refill.
THEOREM LocallyBounded == MeteredSpec => []LocalBound
<1>1. Inductive => LocalBound
  <2> SUFFICES ASSUME Inductive, NEW p \in Pods, local_tokens[p] # Capacity
               PROVE  Cost * local_grants[p] + local_tokens[p]
                        <= Capacity + (Clock(p) - local_base[p])
    BY DEF LocalBound, Inductive, LocalAccounted
  <2>1. Cost * local_grants[p] + local_tokens[p]
          <= Capacity + (local_timestamp[p] - local_base[p])
    BY DEF Inductive, LocalAccounted
  <2>2. local_timestamp[p] <= Clock(p)
    BY DEF Inductive, LocalAccounted
  <2>3. /\ Cost * local_grants[p] \in Nat /\ local_tokens[p] \in Nat
        /\ local_timestamp[p] \in Nat /\ local_base[p] \in Nat /\ Clock(p) \in Nat
    BY OneMore DEF Inductive, MeterTypeOK, TypeOK, Clock
  <2>4. QED
    BY <2>1, <2>2, <2>3
<1>2. QED
  BY InductiveHolds, <1>1, PTL
-------------------------------------------------------------------------------
\* The commands executed since Redis last saw a stamp no later than x, and
\* those of them that took a token.
After(x) == {k \in DOMAIN log : \A j \in k .. Len(log) : log[j].stamp > x}
Spent(x) == {k \in After(x) : log[k].granted}

Logged == log \in Seq([stamp : Nat, granted : BOOLEAN])

Explained ==
  expires # 0 =>
    \A x \in Int : \/ tokens + Cost * Cardinality(Spent(x)) >= Capacity
                   \/ tokens + Cost * Cardinality(Spent(x)) >= timestamp - x

Justified == Logged /\ Explained /\ NoFalseRefusal
-------------------------------------------------------------------------------
\* The log is finite, so what it counts is a number.
LEMMA SpentFinite ==
  ASSUME Logged, NEW x \in Int
  PROVE  /\ Spent(x) \subseteq 1 .. Len(log)
         /\ IsFiniteSet(Spent(x)) /\ Cardinality(Spent(x)) \in Nat
<1>1. Len(log) \in Nat /\ DOMAIN log = 1 .. Len(log)
  BY DEF Logged
<1>2. Spent(x) \subseteq 1 .. Len(log)
  BY <1>1 DEF Spent, After
<1>3. IsFiniteSet(1 .. Len(log))
  BY <1>1, FS_Interval
<1>4. IsFiniteSet(Spent(x))
  BY <1>2, <1>3, FS_Subset
<1>5. QED
  BY <1>2, <1>4, FS_CardinalityType

\* What one more command does to the tokens spent since x: if it is stamped x
\* or earlier the count starts again, else its own token is added.
LEMMA SpentStep ==
  ASSUME Logged, NEW s \in Nat, NEW g \in BOOLEAN, NEW x \in Int,
         log' = Append(log, [stamp |-> s, granted |-> g])
  PROVE  Spent(x)' = IF s <= x THEN {}
                     ELSE IF g THEN Spent(x) \cup {Len(log) + 1} ELSE Spent(x)
<1> DEFINE n == Len(log) + 1
<1>1. /\ Len(log) \in Nat /\ DOMAIN log = 1 .. Len(log)
      /\ Len(log') = n /\ DOMAIN log' = 1 .. n
      /\ \A k \in 1 .. Len(log) : log'[k] = log[k]
      /\ log'[n] = [stamp |-> s, granted |-> g]
  <2>1. [stamp |-> s, granted |-> g] \in [stamp : Nat, granted : BOOLEAN]
    OBVIOUS
  <2>2. QED
    BY <2>1, AppendProperties DEF Logged
<1>2. \A k \in 1 .. Len(log) : log[k].stamp \in Nat /\ log[k].granted \in BOOLEAN
  <2>1. \A k \in 1 .. Len(log) : log[k] \in [stamp : Nat, granted : BOOLEAN]
    BY ElementOfSeq DEF Logged
  <2>2. QED
    BY <2>1
<1>3. CASE s <= x
  <2>1. \A k \in DOMAIN log' : n \in k .. Len(log') /\ ~(log'[n].stamp > x)
    BY <1>1, <1>3
  <2>2. After(x)' = {}
    BY <2>1 DEF After
  <2>3. QED
    BY <1>3, <2>2 DEF Spent
<1>4. CASE s > x
  <2>1. ASSUME NEW k \in 1 .. Len(log)
        PROVE  (\A j \in k .. Len(log') : log'[j].stamp > x)
                 <=> (\A j \in k .. Len(log) : log[j].stamp > x)
    <3>1. k .. Len(log') = (k .. Len(log)) \cup {n}
      BY <1>1
    <3>2. \A j \in k .. Len(log) : log'[j] = log[j]
      BY <1>1
    <3>3. QED
      BY <1>1, <1>4, <3>1, <3>2
  <2>2. \A j \in n .. Len(log') : log'[j].stamp > x
    BY <1>1, <1>4
  <2>3. DOMAIN log' = DOMAIN log \cup {n}
    BY <1>1
  <2>4. After(x)' = After(x) \cup {n}
    BY <1>1, <2>1, <2>2, <2>3 DEF After
  <2>5. n \notin After(x) /\ \A k \in After(x) : log'[k] = log[k]
    BY <1>1 DEF After
  <2>6. log'[n].granted = g
    BY <1>1
  <2>7. Spent(x)' = {k \in After(x) \cup {n} : log'[k].granted}
    BY <2>4 DEF Spent
  <2>8. \A k : k \in Spent(x)' <=> k \in Spent(x) \/ (k = n /\ g)
    BY <2>5, <2>6, <2>7 DEF Spent
  <2>9. Spent(x)' = IF g THEN Spent(x) \cup {n} ELSE Spent(x)
    BY <2>8
  <2>10. QED
    BY <1>2, <1>4, <2>9
<1>5. QED
  BY <1>3, <1>4

\* A refill falls short of the capacity only by what was missing and was not
\* refilled by the later of the two stamps.
LEMMA FilledShort ==
  ASSUME NEW level \in 0 .. Capacity, NEW then \in Nat, NEW t \in Nat
  PROVE  /\ Filled(level, then, t) >= level
         /\ \/ Filled(level, then, t) = Capacity
            \/ Filled(level, then, t) >= level + (t - then)
  BY DEF Filled

\* Seen by the command being executed, the bucket lacks what Explained says.
LEMMA LevelExplained ==
  ASSUME TypeOK, Logged, Explained, NEW t \in Nat, NEW x \in Int
  PROVE  \/ Level(t) + Cost * Cardinality(Spent(x)) >= Capacity
         \/ Level(t) + Cost * Cardinality(Spent(x)) >= t - x
<1> DEFINE spent == Cost * Cardinality(Spent(x))
<1>1. spent \in Nat
  BY SpentFinite, OneMore
<1>2. /\ tokens \in 0 .. Capacity /\ timestamp \in Nat /\ expires \in Nat /\ now \in Nat
      /\ Level(t) \in 0 .. Capacity
  BY LevelType DEF TypeOK
<1>3. CASE ~KeyExists
  <2>1. Level(t) = Capacity
    BY <1>3 DEF Level
  <2>2. QED
    BY <1>1, <1>2, <2>1
<1>4. CASE KeyExists
  <2>1. expires # 0
    BY <1>2, <1>4 DEF KeyExists
  <2>2. tokens + spent >= Capacity \/ tokens + spent >= timestamp - x
    BY <2>1 DEF Explained
  <2>3. /\ Level(t) >= tokens
        /\ Level(t) = Capacity \/ Level(t) >= tokens + (t - timestamp)
    BY <1>2, <1>4, FilledShort DEF Level
  <2>4. QED
    BY <1>1, <1>2, <2>2, <2>3
<1>5. QED
  BY <1>3, <1>4

\* A command leaves every shortage explained: by the token it took, if it did.
LEMMA ExplainedByExecute ==
  ASSUME Inductive, Justified, NEW r \in Checks, MeteredExecute(r)
  PROVE  Logged' /\ Explained'
<1> DEFINE s == stamp[r]
           level == Level(s)
           g == level >= Cost
<1>1. TypeOK /\ Logged /\ Explained
  BY DEF Inductive, MeterTypeOK, Justified
<1>2. s \in Nat /\ level \in 0 .. Capacity /\ g \in BOOLEAN
  BY <1>1, LevelType DEF TypeOK
<1>3. granted'[r] = g
  BY <1>1 DEF MeteredExecute, Execute, TypeOK
<1>4. log' = Append(log, [stamp |-> s, granted |-> g])
  BY <1>3 DEF MeteredExecute
<1>5. tokens' = (IF g THEN level - Cost ELSE level) /\ timestamp' = s
  BY DEF MeteredExecute, Execute
<1>6. Logged'
  BY <1>1, <1>2, <1>4 DEF Logged
<1>7. ASSUME NEW x \in Int
      PROVE  \/ tokens' + Cost * Cardinality(Spent(x)') >= Capacity
             \/ tokens' + Cost * Cardinality(Spent(x)') >= timestamp' - x
  <2> DEFINE spent == Cost * Cardinality(Spent(x))
             spent2 == Cost * Cardinality(Spent(x)')
  <2>1. /\ Spent(x) \subseteq 1 .. Len(log) /\ IsFiniteSet(Spent(x))
        /\ Cardinality(Spent(x)) \in Nat /\ spent \in Nat
    BY <1>1, SpentFinite, OneMore
  <2>2. Spent(x)' = IF s <= x THEN {}
                    ELSE IF g THEN Spent(x) \cup {Len(log) + 1} ELSE Spent(x)
    BY <1>1, <1>2, <1>4, SpentStep
  <2>3. CASE s <= x
    <3>1. spent2 = 0
      BY <2>2, <2>3, FS_EmptySet
    <3>2. QED
      BY <1>2, <1>5, <2>3, <3>1
  <2>4. CASE s > x
    <3>1. level + spent >= Capacity \/ level + spent >= s - x
      BY <1>1, <1>2, LevelExplained
    <3>2. Len(log) + 1 \notin Spent(x)
      BY <1>1, <2>1 DEF Logged
    <3>3. Spent(x)' = IF g THEN Spent(x) \cup {Len(log) + 1} ELSE Spent(x)
      BY <1>2, <2>2, <2>4
    <3>4. Cardinality(Spent(x) \cup {Len(log) + 1}) = Cardinality(Spent(x)) + 1
      BY <2>1, <3>2, FS_AddElement
    <3>5. Cost * (Cardinality(Spent(x)) + 1) = spent + Cost
      BY <2>1, OneMore
    <3>6. spent2 = IF g THEN spent + Cost ELSE spent
      BY <3>3, <3>4, <3>5
    <3>7. tokens' + spent2 = level + spent
      BY <1>2, <1>5, <2>1, <3>6
    <3>8. QED
      BY <1>5, <3>1, <3>7
  <2>5. QED
    BY <1>2, <2>3, <2>4
<1>8. QED
  BY <1>6, <1>7 DEF Explained

\* The command being executed is refused with good reason, and the reasons for
\* the earlier refusals stand.
LEMMA RefusalByExecute ==
  ASSUME Inductive, Justified, NEW r \in Checks, MeteredExecute(r)
  PROVE  NoFalseRefusal'
<1> DEFINE s == stamp[r]
           level == Level(s)
           g == level >= Cost
           last == Len(log) + 1
<1>1. TypeOK /\ Logged /\ Explained /\ NoFalseRefusal
  BY DEF Inductive, MeterTypeOK, Justified
<1>2. s \in Nat /\ level \in 0 .. Capacity /\ g \in BOOLEAN
  BY <1>1, LevelType DEF TypeOK
<1>3. granted'[r] = g
  BY <1>1 DEF MeteredExecute, Execute, TypeOK
<1>4. log' = Append(log, [stamp |-> s, granted |-> g])
  BY <1>3 DEF MeteredExecute
<1>5. /\ Len(log) \in Nat /\ DOMAIN log = 1 .. Len(log)
      /\ Len(log') = last /\ DOMAIN log' = 1 .. last
      /\ \A k \in 1 .. Len(log) : log'[k] = log[k]
      /\ log'[last] = [stamp |-> s, granted |-> g]
  BY <1>1, <1>4 DEF Logged
<1> SUFFICES ASSUME NEW n \in 1 .. last, ~log'[n].granted
             PROVE  Cost * Cardinality({k \in Since(n)' : log'[k].granted})
                      > Capacity - Cost
  BY <1>5 DEF NoFalseRefusal
<1>6. CASE n \in 1 .. Len(log)
  <2>1. \A j \in 1 .. n : log'[j] = log[j]
    BY <1>5, <1>6
  <2>2. Since(n)' = Since(n)
    BY <1>5, <1>6, <2>1 DEF Since
  <2>3. {k \in Since(n)' : log'[k].granted} = {k \in Since(n) : log[k].granted}
    BY <1>5, <1>6, <2>1, <2>2 DEF Since
  <2>4. QED
    BY <1>1, <1>5, <1>6, <2>1, <2>3 DEF NoFalseRefusal
<1>7. CASE n = last
  <2> DEFINE x == s - Capacity
             spent == Cost * Cardinality(Spent(x))
  <2>1. x \in Int /\ log'[n].stamp = s /\ level < Cost
    <3>1. log'[n] = [stamp |-> s, granted |-> g]
      BY <1>5, <1>7
    <3>2. log'[n].stamp = s /\ log'[n].granted = g
      BY <3>1
    <3>3. ~g
      BY <3>2
    <3>4. QED
      BY <1>2, <3>2, <3>3
  <2>2. n - 1 = Len(log) /\ \A k \in 1 .. Len(log) : k .. n - 1 = k .. Len(log)
    BY <1>5, <1>7
  <2>3. \A k \in 1 .. Len(log) : \A j \in k .. Len(log) : log'[j] = log[j]
    BY <1>5
  <2>4. Since(n)' = After(x)
    BY <1>5, <2>1, <2>2, <2>3 DEF Since, After
  <2>5. {k \in Since(n)' : log'[k].granted} = Spent(x)
    BY <1>5, <2>4 DEF Spent, After
  <2>6. spent \in Nat
    BY <1>1, <2>1, SpentFinite, OneMore
  <2>7. level + spent >= Capacity \/ level + spent >= s - x
    BY <1>1, <1>2, <2>1, LevelExplained
  <2>8. spent > Capacity - Cost
    BY <1>2, <2>1, <2>6, <2>7
  <2>9. QED
    BY <2>5, <2>8
<1>8. QED
  BY <1>5, <1>6, <1>7
-------------------------------------------------------------------------------
\* Redis refuses no client for nothing: the tokens missing at a refusal were all
\* spent within the time of a whole refill.
THEOREM RefusalsJustified == MeteredSpec => []NoFalseRefusal
<1>1. MeterInit => Justified
  <2>1. <<>> \in Seq([stamp : Nat, granted : BOOLEAN]) /\ DOMAIN <<>> = {}
    OBVIOUS
  <2>2. QED
    BY <2>1 DEF MeterInit, Init, Justified, Logged, Explained, NoFalseRefusal
<1>2. Justified /\ Inductive /\ [MeteredNext]_meterVars => Justified'
  <2> SUFFICES ASSUME Justified, Inductive, [MeteredNext]_meterVars PROVE Justified'
    OBVIOUS
  <2>1. ASSUME NEW r \in Checks, MeteredExecute(r) PROVE Justified'
    BY <2>1, ExplainedByExecute, RefusalByExecute DEF Justified
  <2>2. ASSUME UNCHANGED <<bucket, log>> PROVE Justified'
    BY <2>2 DEF bucket, Justified, Logged, Explained, NoFalseRefusal, Since, Spent, After
  <2>3. ASSUME NEW r \in Checks, MeteredDegrade(r) PROVE UNCHANGED <<bucket, log>>
    BY <2>3 DEF MeteredDegrade, Degrade, redisMeter
  <2>4. ASSUME NEW p \in Pods, MeteredRestart(p) PROVE UNCHANGED <<bucket, log>>
    BY <2>4 DEF MeteredRestart, Restart, redisMeter
  <2>5. ASSUME NEW r \in Checks, Unmetered(r), UNCHANGED redisMeter
        PROVE  UNCHANGED <<bucket, log>>
    BY <2>5 DEF Unmetered, Send, Lose, Receive, redisMeter
  <2>6. ASSUME Tick, UNCHANGED redisMeter PROVE UNCHANGED <<bucket, log>>
    BY <2>6 DEF Tick, redisMeter
  <2>7. CASE UNCHANGED meterVars
    BY <2>2, <2>7 DEF meterVars, limiterVars, redisMeter
  <2>8. QED
    BY <2>1, <2>2, <2>3, <2>4, <2>5, <2>6, <2>7 DEF MeteredNext
<1>3. Justified => NoFalseRefusal
  BY DEF Justified
<1>4. QED
  BY InductiveHolds, <1>1, <1>2, <1>3, PTL DEF MeteredSpec
===============================================================================
