---------------------------- MODULE DdosGuardProofs ----------------------------
(***************************************************************************)
(* Theorems about DdosGuard, for every threshold, window, block and number *)
(* of requests at once.                                                    *)
(*                                                                         *)
(* That a block leaves no count behind rests on who can still count once   *)
(* it is set: requests that had read the block key before, whose last      *)
(* command comes within MaxDelay (Stragglers).  Each opens a window at     *)
(* most, which is over before the block is (Outlasted).                    *)
(*                                                                         *)
(* That no span of WindowSeconds sees more than two thresholds rests on    *)
(* its falling into two parts: the ticks of the current window, in which   *)
(* at most `count' requests passed, and the ticks before it, which one     *)
(* earlier window covers at the most (TwoWindows).                         *)
(***************************************************************************)
EXTENDS DdosGuard, TLAPS

USE GuardAssumption

\* Ticks since the block was set.
Blocked == BlockSeconds - block_ttl

Counting(r) == phase[r] = "counting" \/ late[r] = "counting"

\* No count outlives its window, and no window is without a count.
Windowed == counter_ttl = 0 <=> count = 0

\* Ticks since the current window was opened.
WindowAge == WindowSeconds - counter_ttl

\* What the current window and the ticks before it let through; a longer span
\* saw no less than a shorter one.
TwoWindows ==
  /\ \A a, b \in DOMAIN recent : a <= b => recent[a] <= recent[b]
  /\ IF counter_ttl = 0
     THEN recent[0] = 0 /\ recent[WindowSeconds - 1] <= MaxRequests
     ELSE /\ recent[WindowAge] <= count /\ recent[WindowAge] <= MaxRequests
          /\ recent[WindowSeconds - 1] - recent[WindowAge] <= MaxRequests

\* A request whose inspection is not over has left no command behind.
OneCommand == \A r \in Requests : phase[r] = "idle" \/ late[r] = "none"

Stragglers ==
  block_ttl > 0 => \A r \in Requests : Counting(r) => age[r] >= Blocked

Outlasted ==
  block_ttl > 0 => counter_ttl = 0 \/ counter_ttl + Blocked <= WindowSeconds + MaxDelay

Inductive ==
  TypeOK /\ Windowed /\ TwoWindows /\ OneCommand /\ Stragglers /\ Outlasted

\* The initial state satisfies the inductive invariant.
LEMMA InitInductive == Init => Inductive
  BY DEF Init, Inductive, TypeOK, Windowed, TwoWindows, OneCommand, Stragglers, Outlasted

\* The counting script keeps the counter in its range and in its window.
LEMMA IncrementStep ==
  ASSUME TypeOK, Windowed, Increment
  PROVE  /\ count' \in 1 .. CountCap /\ counter_ttl' \in 1 .. WindowSeconds
         /\ count' >= count
         /\ count' <= MaxRequests => count' = count + 1
         /\ counter_ttl' = IF count = 0 THEN WindowSeconds ELSE counter_ttl
  BY DEF TypeOK, Windowed, Increment, NewCount

\* A count that lets nothing through leaves the two windows as they are, or
\* makes the current one the earlier.
LEMMA CountedOnly ==
  ASSUME TypeOK, Windowed, TwoWindows, Increment, recent' = recent
  PROVE  TwoWindows'
<1>1. /\ counter_ttl' \in 1 .. WindowSeconds /\ count' \in Nat /\ count' >= count
      /\ counter_ttl' = IF count = 0 THEN WindowSeconds ELSE counter_ttl
  BY IncrementStep
<1>2. CASE count = 0
  <2>1. counter_ttl' = WindowSeconds /\ WindowAge' = 0
    BY <1>1, <1>2 DEF WindowAge
  <2>2. recent[0] = 0 /\ recent[WindowSeconds - 1] <= MaxRequests
    BY <1>2 DEF Windowed, TwoWindows
  <2>3. QED
    BY <1>1, <2>1, <2>2 DEF TwoWindows, TypeOK
<1>3. CASE count # 0
  <2>1. counter_ttl' = counter_ttl /\ counter_ttl # 0 /\ WindowAge' = WindowAge
    BY <1>1, <1>3 DEF WindowAge, Windowed
  <2>2. WindowAge \in DOMAIN recent /\ count \in Nat
    BY <2>1 DEF WindowAge, TypeOK
  <2>3. QED
    BY <1>1, <2>1, <2>2 DEF TwoWindows, TypeOK
<1>4. QED
  BY <1>2, <1>3

\* A request that passes is one of the current window.
LEMMA CountedAndPassed ==
  ASSUME TypeOK, Windowed, TwoWindows, Increment, count' <= MaxRequests,
         recent' = OneMore
  PROVE  recent' \in [0 .. WindowSeconds - 1 -> Nat] /\ TwoWindows'
<1>1. /\ counter_ttl' \in 1 .. WindowSeconds /\ count' = count + 1 /\ count \in Nat
      /\ counter_ttl' = IF count = 0 THEN WindowSeconds ELSE counter_ttl
  BY IncrementStep DEF TypeOK
<1>2. /\ recent \in [0 .. WindowSeconds - 1 -> Nat]
      /\ recent' \in [0 .. WindowSeconds - 1 -> Nat]
      /\ \A a \in 0 .. WindowSeconds - 1 : recent'[a] = recent[a] + 1
  BY DEF TypeOK, OneMore
<1>3. \A a, b \in 0 .. WindowSeconds - 1 : a <= b => recent'[a] <= recent'[b]
  BY <1>2 DEF TwoWindows
<1>4. CASE count = 0
  <2>1. counter_ttl' = WindowSeconds /\ WindowAge' = 0
    BY <1>1, <1>4 DEF WindowAge
  <2>2. recent[0] = 0 /\ recent[WindowSeconds - 1] <= MaxRequests
    BY <1>4 DEF Windowed, TwoWindows
  <2>3. recent'[0] = 1 /\ recent'[WindowSeconds - 1] = recent[WindowSeconds - 1] + 1
    BY <1>2, <2>2
  <2>4. QED
    BY <1>1, <1>2, <1>3, <1>4, <2>1, <2>2, <2>3 DEF TwoWindows
<1>5. CASE count # 0
  <2>1. counter_ttl' = counter_ttl /\ counter_ttl # 0 /\ WindowAge' = WindowAge
    BY <1>1, <1>5 DEF WindowAge, Windowed
  <2>2. WindowAge \in 0 .. WindowSeconds - 1
    BY <2>1 DEF WindowAge, TypeOK
  <2>3. /\ recent[WindowAge] <= count
        /\ recent[WindowSeconds - 1] - recent[WindowAge] <= MaxRequests
    BY <2>1 DEF TwoWindows
  <2>4. /\ recent'[WindowAge] = recent[WindowAge] + 1
        /\ recent'[WindowSeconds - 1] = recent[WindowSeconds - 1] + 1
    BY <1>2, <2>2
  <2>5. recent[WindowAge] \in Nat /\ recent[WindowSeconds - 1] \in Nat
    BY <1>2, <2>2
  <2>6. QED
    BY <1>1, <1>2, <1>3, <2>1, <2>3, <2>4, <2>5 DEF TwoWindows
<1>6. QED
  BY <1>2, <1>4, <1>5

\* A straggler that counts while the block is set leaves a window that ends
\* before it.
LEMMA StragglerCounts ==
  ASSUME Inductive, Increment, block_ttl' = block_ttl,
         NEW r \in Requests, Counting(r)
  PROVE  Outlasted'
<1> SUFFICES ASSUME block_ttl > 0
             PROVE  counter_ttl' + Blocked <= WindowSeconds + MaxDelay
  BY DEF Outlasted, Blocked
<1>1. Blocked <= MaxDelay /\ Blocked \in Int
  BY DEF Inductive, TypeOK, Stragglers, Blocked
<1>2. counter_ttl' \in {counter_ttl, WindowSeconds} /\ counter_ttl' \in 1 .. WindowSeconds
  BY IncrementStep DEF Inductive
<1>3. CASE counter_ttl' = WindowSeconds
  BY <1>1, <1>3
<1>4. CASE counter_ttl' = counter_ttl
  BY <1>2, <1>4 DEF Inductive, Outlasted
<1>5. QED
  BY <1>2, <1>3, <1>4

\* What a request does to itself keeps the type.
LEMMA OverStep ==
  ASSUME TypeOK, NEW r \in Requests, Over(r)
  PROVE  /\ phase' \in [Requests -> {"idle", "reading", "counting", "blocking"}]
         /\ age' \in [Requests -> 0 .. MaxDelay]
         /\ phase'[r] = "idle"
         /\ \A q \in Requests \ {r} : phase'[q] = phase[q] /\ age'[q] = age[q]
  BY DEF TypeOK, Over

\* The counting request passes, or goes on to set the block.
LEMMA CountStep ==
  ASSUME Inductive, NEW r \in Requests, Count(r)
  PROVE  Inductive'
<1>0. TypeOK /\ Windowed /\ TwoWindows
  BY DEF Inductive
<1> USE DEF Inductive, TypeOK, Windowed, OneCommand
<1>1. Increment /\ block_ttl' = block_ttl /\ late' = late /\ phase[r] = "counting"
  BY DEF Count
<1>a. /\ count' \in 1 .. CountCap /\ counter_ttl' \in 1 .. WindowSeconds
      /\ count' >= count
      /\ count' <= MaxRequests => count' = count + 1
  BY <1>1, IncrementStep
<1>2. Outlasted'
  BY <1>1, StragglerCounts DEF Counting
<1>3. ASSUME count' > MaxRequests
      PROVE  Inductive'
  <2>1. phase' = [phase EXCEPT ![r] = "blocking"] /\ age' = age /\ recent' = recent
    BY <1>3 DEF Count
  <2>2. Stragglers'
    BY <1>1, <2>1 DEF Stragglers, Counting, Blocked
  <2>3. TwoWindows'
    BY <1>0, <1>1, <2>1, CountedOnly
  <2>4. QED
    BY <1>1, <1>2, <2>1, <2>2, <2>3, <1>a
<1>4. ASSUME count' <= MaxRequests
      PROVE  Inductive'
  <2>1. Over(r) /\ recent' = OneMore
    BY <1>4, <1>1, <1>a DEF Count
  <2>o. /\ phase' \in [Requests -> {"idle", "reading", "counting", "blocking"}]
        /\ age' \in [Requests -> 0 .. MaxDelay]
        /\ phase'[r] = "idle"
        /\ \A q \in Requests \ {r} : phase'[q] = phase[q] /\ age'[q] = age[q]
    BY <2>1, OverStep
  <2>2. recent' \in [0 .. WindowSeconds - 1 -> Nat] /\ TwoWindows'
    BY <1>0, <1>1, <1>4, <2>1, CountedAndPassed
  <2>3. Stragglers'
    BY <1>1, <2>o DEF Stragglers, Counting, Blocked
  <2>4. TypeOK'
    BY <1>1, <1>a, <2>1, <2>2, <2>o
  <2>5. Windowed' /\ OneCommand'
    BY <1>1, <1>a, <2>1, <2>o
  <2>6. QED
    BY <1>2, <2>2, <2>3, <2>4, <2>5
<1>5. count' > MaxRequests \/ count' <= MaxRequests
  BY <1>1, <1>a
<1>6. QED
  BY <1>3, <1>4, <1>5

\* No step of a request breaks the invariant.
LEMMA RequestStep ==
  ASSUME Inductive, NEW r \in Requests, Arrive(r) \/ Proceed(r)
  PROVE  Inductive'
<1>0. TypeOK /\ Windowed /\ TwoWindows
  BY DEF Inductive
<1>w. UNCHANGED <<count, counter_ttl, recent>> => TwoWindows'
  BY <1>0 DEF TwoWindows, WindowAge
<1> USE DEF Inductive, TypeOK, Windowed, OneCommand, Stragglers, Outlasted, Counting, Blocked
<1>1. CASE Arrive(r)
  BY <1>1, <1>w DEF Arrive
<1>2. CASE ReadBlock(r)
  <2>1. CASE block_ttl > 0
    BY <1>2, <1>w, <2>1, OverStep DEF ReadBlock, Over
  <2>2. CASE ~(block_ttl > 0)
    BY <1>2, <1>w, <2>2 DEF ReadBlock
  <2>3. QED
    BY <2>1, <2>2
<1>3. CASE Count(r)
  BY <1>3, CountStep
<1>4. CASE SetBlock(r)
  BY <1>4, <1>w, OverStep DEF SetBlock, Over
<1>5. CASE FailOpen(r)
  <2>1. CASE Over(r) /\ late' = late
    BY <1>5, <1>w, <2>1, OverStep DEF FailOpen, Over
  <2>2. CASE /\ phase[r] \in {"counting", "blocking"}
             /\ late' = [late EXCEPT ![r] = phase[r]]
             /\ age' = age
    BY <1>5, <1>w, <2>2 DEF FailOpen
  <2>3. QED
    BY <1>5, <2>1, <2>2 DEF FailOpen
<1>6. CASE LateCommand(r)
  <2>1. /\ late' \in [Requests -> {"none", "counting", "blocking"}]
        /\ age' \in [Requests -> 0 .. MaxDelay]
        /\ phase' = phase /\ recent' = recent
    BY <1>6 DEF LateCommand
  <2>2. CASE late[r] = "counting"
    <3>1. Increment /\ block_ttl' = block_ttl
      BY <1>6, <2>2 DEF LateCommand
    <3>a. /\ count' \in 1 .. CountCap /\ counter_ttl' \in 1 .. WindowSeconds
      BY <3>1, IncrementStep
    <3>2. Outlasted'
      BY <2>2, <3>1, StragglerCounts
    <3>3. Stragglers'
      BY <1>6, <3>1 DEF LateCommand
    <3>4. OneCommand'
      BY <1>6 DEF LateCommand
    <3>5. TypeOK' /\ Windowed'
      BY <2>1, <3>1, <3>a
    <3>6. TwoWindows'
      BY <1>0, <2>1, <3>1, CountedOnly
    <3>7. QED
      BY <3>2, <3>3, <3>4, <3>5, <3>6
  <2>3. CASE late[r] # "counting"
    BY <1>6, <1>w, <2>1, <2>3 DEF LateCommand
  <2>4. QED
    BY <2>2, <2>3
<1>7. QED
  BY <1>1, <1>2, <1>3, <1>4, <1>5, <1>6 DEF Proceed

\* Nor does the passing of time.
LEMMA TickStep ==
  ASSUME Inductive, Tick
  PROVE  Inductive'
<1> USE DEF Inductive, TypeOK, Windowed, OneCommand, CountDown
<1>1. TypeOK'
  <2>1. age' \in [Requests -> 0 .. MaxDelay]
    BY DEF Tick
  <2>2. recent' \in [0 .. WindowSeconds - 1 -> Nat]
    BY DEF Tick
  <2>3. QED
    BY <2>1, <2>2 DEF Tick
<1>2. Windowed'
  BY DEF Tick
<1>w. TwoWindows'
  <2> DEFINE last == WindowSeconds - 1
             d == WindowAge
  <2>1. /\ recent \in [0 .. last -> Nat] /\ recent' \in [0 .. last -> Nat]
        /\ recent'[0] = 0
        /\ \A a \in 1 .. last : recent'[a] = recent[a - 1]
        /\ \A a, b \in 0 .. last : a <= b => recent[a] <= recent[b]
    BY DEF Tick, TwoWindows
  <2>2. \A a, b \in 0 .. last : a <= b => recent'[a] <= recent'[b]
    BY <2>1
  <2>3. recent'[last] <= recent[last]
    BY <2>1
  <2>4. CASE counter_ttl = 0
    BY <2>1, <2>2, <2>3, <2>4 DEF Tick, TwoWindows
  <2>5. CASE counter_ttl = 1
    <3>1. recent[last] <= MaxRequests
      BY <2>5 DEF TwoWindows, WindowAge
    <3>2. counter_ttl' = 0
      BY <2>5 DEF Tick
    <3>3. QED
      BY <2>1, <2>2, <2>3, <3>1, <3>2 DEF TwoWindows
  <2>6. CASE counter_ttl > 1
    <3>1. /\ counter_ttl' = counter_ttl - 1 /\ counter_ttl' # 0 /\ count' = count
          /\ WindowAge' = d + 1 /\ d \in 0 .. last /\ d + 1 \in 1 .. last
      BY <2>6 DEF Tick, WindowAge
    <3>2. recent'[d + 1] = recent[d]
      BY <2>1, <3>1
    <3>3. /\ recent[d] <= count /\ recent[d] <= MaxRequests
          /\ recent[last] - recent[d] <= MaxRequests
      BY <2>6 DEF TwoWindows
    <3>4. recent[d] \in Nat /\ recent[last] \in Nat /\ recent'[last] \in Nat
      BY <2>1, <3>1
    <3>5. QED
      BY <2>1, <2>2, <2>3, <3>1, <3>2, <3>3, <3>4 DEF TwoWindows
  <2>7. QED
    BY <2>4, <2>5, <2>6
<1>3. Stragglers'
  BY DEF Tick, Busy, Stragglers, Counting, Blocked
<1>4. Outlasted'
  BY DEF Tick, Outlasted, Blocked
<1>5. OneCommand'
  BY DEF Tick
<1>6. QED
  BY <1>1, <1>2, <1>w, <1>3, <1>4, <1>5

\* The invariant holds in every reachable state.
THEOREM InductiveHolds == Spec => []Inductive
<1>1. Inductive /\ [Next]_vars => Inductive'
  <2>1. CASE UNCHANGED vars
    BY <2>1 DEF vars, Inductive, TypeOK, Windowed, TwoWindows, WindowAge, OneCommand,
                    Stragglers, Outlasted, Counting, Blocked
  <2>2. QED
    BY <2>1, RequestStep, TickStep DEF Next
<1>2. QED
  BY InitInductive, <1>1, PTL DEF Spec

\* The guard keeps its type; in particular no counting window and no block ever
\* has longer to live than its period, whichever commands come late.
THEOREM TypeCorrect == Spec => []TypeOK
<1>1. Inductive => TypeOK
  BY DEF Inductive
<1>2. QED
  BY InductiveHolds, <1>1, PTL

\* No span of WindowSeconds lets more than two thresholds of requests through.
THEOREM BurstsBounded == Spec => []BurstBounded
<1>1. Inductive => BurstBounded
  <2> SUFFICES ASSUME Inductive PROVE BurstBounded
    OBVIOUS
  <2> USE DEF Inductive, TypeOK, TwoWindows, BurstBounded
  <2>1. CASE counter_ttl = 0
    BY <2>1
  <2>2. CASE counter_ttl # 0
    <3>1. WindowAge \in 0 .. WindowSeconds - 1
      BY <2>2 DEF WindowAge
    <3>2. QED
      BY <2>2, <3>1
  <2>3. QED
    BY <2>1, <2>2
<1>2. QED
  BY InductiveHolds, <1>1, PTL

\* When a block ends no count is left, neither from before the block nor of a
\* request that raced with it.
THEOREM BlockedStartAfresh == Spec => FreshStart
<1>1. Inductive /\ [Next]_vars => [block_ttl > 0 /\ block_ttl' = 0 => count' = 0]_vars
  <2> SUFFICES ASSUME Inductive, Next, block_ttl > 0, block_ttl' = 0
               PROVE  count' = 0
    OBVIOUS
  <2> USE DEF Inductive, TypeOK
  <2>1. ASSUME NEW r \in Requests, Arrive(r) \/ Proceed(r) PROVE block_ttl' > 0
    BY <2>1 DEF Arrive, Proceed, ReadBlock, Count, SetBlock, FailOpen, LateCommand
  <2>2. CASE Tick
    <3>1. block_ttl = 1
      BY <2>2 DEF Tick, CountDown
    <3>2. counter_ttl = 0
      BY <3>1 DEF Outlasted, Blocked
    <3>3. QED
      BY <2>2, <3>2 DEF Tick, CountDown
  <2>3. QED
    BY <2>1, <2>2 DEF Next
<1>2. QED
  BY InductiveHolds, <1>1, PTL DEF Spec, FreshStart
================================================================================
