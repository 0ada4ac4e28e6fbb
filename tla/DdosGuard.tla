------------------------------- MODULE DdosGuard -------------------------------
(***************************************************************************)
(* middleware/rate_limiter.py, class DdosGuard: the volumetric guard of    *)
(* one client IP, as any number of gateway processes run it against the    *)
(* two Redis keys of that IP.                                              *)
(*                                                                         *)
(* inspect() awaits Redis three times: it reads the block key, counts the  *)
(* request, and, over the threshold, sets the block key.  An action is one *)
(* of these commands as Redis executes it, with what inspect() does about  *)
(* the reply.  A command whose caller has given up may still be executed   *)
(* later.  The keys' times to live are counted down, 0 meaning no key.     *)
(***************************************************************************)
EXTENDS Integers

CONSTANTS
  Requests,      \* identities for requests of the IP under inspection at once
  MaxRequests,   \* DDOS_IP_MAX_REQUESTS
  WindowSeconds, \* DDOS_IP_WINDOW_SECONDS
  BlockSeconds,  \* DDOS_IP_BLOCK_SECONDS
  MaxDelay,      \* ticks after which inspect() and its last command are over
  CountCap       \* bound: how far the model counts

ASSUME GuardAssumption ==
  /\ MaxRequests \in Nat \ {0}
  /\ WindowSeconds \in Nat \ {0}
  /\ MaxDelay \in Nat
  /\ BlockSeconds \in Nat /\ BlockSeconds > WindowSeconds + MaxDelay
  /\ CountCap \in Nat /\ CountCap > MaxRequests

VARIABLES
  count,       \* the counter key
  counter_ttl, \* ticks until it expires
  block_ttl,   \* ticks until the block key expires
  phase,       \* the await at which each inspection is, or "idle"
  late,        \* the command that an abandoned inspection left behind
  age,         \* ticks since each inspection began
  recent       \* auxiliary: how many requests the counter let through in the
               \* present tick and the a ticks before it, for each a

vars == <<count, counter_ttl, block_ttl, phase, late, age, recent>>

Init ==
  /\ count = 0 /\ counter_ttl = 0 /\ block_ttl = 0
  /\ phase = [r \in Requests |-> "idle"]
  /\ late = [r \in Requests |-> "none"]
  /\ age = [r \in Requests |-> 0]
  /\ recent = [a \in 0 .. WindowSeconds - 1 |-> 0]

\* A request arrives; the GET of the block key is sent.
Arrive(r) ==
  /\ phase[r] = "idle" /\ late[r] = "none"
  /\ phase' = [phase EXCEPT ![r] = "reading"]
  /\ UNCHANGED <<count, counter_ttl, block_ttl, late, age, recent>>

Over(r) ==
  /\ phase' = [phase EXCEPT ![r] = "idle"]
  /\ age' = [age EXCEPT ![r] = 0]

\* INCR has no limit.  The model stops counting at CountCap, above MaxRequests,
\* where a further increment changes nothing that inspect() can tell.
NewCount == IF count < CountCap THEN count + 1 ELSE count

\* A variant ends in Slip when it is a bug a run must catch: no specification
\* uses it.
ReadBlockSlip(r) ==   \* a blocked client's request renews the block
  /\ phase[r] = "reading"
  /\ IF block_ttl > 0 THEN Over(r) /\ block_ttl' = BlockSeconds
     ELSE phase' = [phase EXCEPT ![r] = "counting"] /\ UNCHANGED <<age, block_ttl>>
  /\ UNCHANGED <<count, counter_ttl, late, recent>>

CountBlockedSlip(r) ==   \* a blocked client's request is counted
  /\ phase[r] = "reading"
  /\ IF block_ttl > 0 THEN Over(r) /\ count' = NewCount /\ counter_ttl' = WindowSeconds
     ELSE phase' = [phase EXCEPT ![r] = "counting"] /\ UNCHANGED <<age, count, counter_ttl>>
  /\ UNCHANGED <<block_ttl, late, recent>>

\* GET: a blocked client is rejected, and nothing is counted.
ReadBlock(r) ==
  /\ phase[r] = "reading"
  /\ IF block_ttl > 0 THEN Over(r)
     ELSE phase' = [phase EXCEPT ![r] = "counting"] /\ UNCHANGED age
  /\ UNCHANGED <<count, counter_ttl, block_ttl, late, recent>>

RenewWindowSlip ==   \* every request renews the window
  /\ count' = NewCount
  /\ counter_ttl' = WindowSeconds

ExtendWindowSlip ==   \* every request extends the window
  /\ count' = NewCount
  /\ counter_ttl' = counter_ttl + WindowSeconds

\* _IP_COUNTER_LUA
Increment ==
  /\ count' = NewCount
  /\ counter_ttl' = IF count' = 1 THEN WindowSeconds ELSE counter_ttl

OneMore == [a \in DOMAIN recent |-> recent[a] + 1]

CountSlip(r) ==   \* the request itself is not counted
  /\ phase[r] = "counting"
  /\ Increment
  /\ IF count > MaxRequests
     THEN phase' = [phase EXCEPT ![r] = "blocking"] /\ UNCHANGED <<age, recent>>
     ELSE Over(r) /\ recent' = OneMore
  /\ UNCHANGED <<block_ttl, late>>

\* EVAL: over the threshold the block is set next, below it the request passes.
Count(r) ==
  /\ phase[r] = "counting"
  /\ Increment
  /\ IF count' > MaxRequests
     THEN phase' = [phase EXCEPT ![r] = "blocking"] /\ UNCHANGED <<age, recent>>
     ELSE Over(r) /\ recent' = OneMore
  /\ UNCHANGED <<block_ttl, late>>

\* SETEX: the client is blocked, the request rejected.
SetBlock(r) ==
  /\ phase[r] = "blocking"
  /\ block_ttl' = BlockSeconds
  /\ Over(r)
  /\ UNCHANGED <<count, counter_ttl, late, recent>>

\* A Redis error or timeout at any of the three: _blocked_locally is never
\* written, so the request always passes.  The command may be on its way.
FailOpen(r) ==
  /\ phase[r] # "idle"
  /\ phase' = [phase EXCEPT ![r] = "idle"]
  /\ \/ /\ Over(r)
        /\ UNCHANGED late
     \/ /\ phase[r] \in {"counting", "blocking"}
        /\ late' = [late EXCEPT ![r] = phase[r]]
        /\ UNCHANGED age
  /\ UNCHANGED <<count, counter_ttl, block_ttl, recent>>

\* The abandoned command is executed after all; nobody reads its reply.
LateCommand(r) ==
  /\ late[r] # "none"
  /\ late' = [late EXCEPT ![r] = "none"]
  /\ age' = [age EXCEPT ![r] = 0]
  /\ IF late[r] = "counting" THEN Increment /\ UNCHANGED block_ttl
     ELSE block_ttl' = BlockSeconds /\ UNCHANGED <<count, counter_ttl>>
  /\ UNCHANGED <<phase, recent>>

Busy(r) == phase[r] # "idle" \/ late[r] # "none"

CountDown(ttl) == IF ttl > 0 THEN ttl - 1 ELSE 0

\* Time passes, but nothing outlives its timeout.
Tick ==
  /\ \A r \in Requests : Busy(r) => age[r] < MaxDelay
  /\ age' = [r \in Requests |-> IF Busy(r) THEN age[r] + 1 ELSE 0]
  /\ counter_ttl' = CountDown(counter_ttl)
  /\ count' = IF counter_ttl' = 0 THEN 0 ELSE count
  /\ block_ttl' = CountDown(block_ttl)
  /\ recent' = [a \in 0 .. WindowSeconds - 1 |-> IF a = 0 THEN 0 ELSE recent[a - 1]]
  /\ UNCHANGED <<phase, late>>

Proceed(r) ==
  ReadBlock(r) \/ Count(r) \/ SetBlock(r) \/ FailOpen(r) \/ LateCommand(r)

Next ==
  \/ \E r \in Requests : Arrive(r) \/ Proceed(r)
  \/ Tick

\* Time passes, and every await ends, with a reply or with a timeout.
Fairness == WF_vars(Tick) /\ \A r \in Requests : WF_vars(Proceed(r))

Spec == Init /\ [][Next]_vars

LiveSpec == Spec /\ Fairness
--------------------------------------------------------------------------------
\* Type invariant of the guard: no window and no block outlasts its period.
TypeOK ==
  /\ count \in 0 .. CountCap
  /\ counter_ttl \in 0 .. WindowSeconds
  /\ block_ttl \in 0 .. BlockSeconds
  /\ phase \in [Requests -> {"idle", "reading", "counting", "blocking"}]
  /\ late \in [Requests -> {"none", "counting", "blocking"}]
  /\ age \in [Requests -> 0 .. MaxDelay]
  /\ recent \in [0 .. WindowSeconds - 1 -> Nat]

\* The burst the fixed window allows at its boundary is the only one: while
\* Redis answers, no span of WindowSeconds sees more than twice the threshold.
BurstBounded == recent[WindowSeconds - 1] <= 2 * MaxRequests

\* A client whose block ends starts afresh: no count from before the block, nor
\* of a request that raced with it, is left to block it again.
FreshStart ==
  [][block_ttl > 0 /\ block_ttl' = 0 => count' = 0]_vars

\* A block ends, however many requests the blocked client keeps sending and
\* however late the commands of earlier ones arrive.
BlockEnds == block_ttl > 0 ~> block_ttl = 0

\* Every counting window ends, so that a slow client is never blocked for what
\* it sent long ago.
WindowEnds == count > 0 ~> count = 0
================================================================================
