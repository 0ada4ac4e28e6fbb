---------------------------- MODULE BreakerContract ----------------------------
(***************************************************************************)
(* What services/circuit_breaker.py promises to the code that uses it: its *)
(* state machine without calls, counters or clocks.                        *)
(*                                                                         *)
(* `known' says that a failure is remembered: only the override forgets    *)
(* it, which tells an override from a recovery.  `ripe' says that the      *)
(* recovery timeout has elapsed since the latest failure; `passed' counts  *)
(* the trials that have succeeded since the breaker became HALF_OPEN.      *)
(***************************************************************************)
EXTENDS Naturals

CONSTANT Trials    \* trial successes that close the circuit

VARIABLES mode, known, ripe, passed

contractVars == <<mode, known, ripe, passed>>

ContractInit == mode = "CLOSED" /\ known = FALSE /\ ripe = FALSE /\ passed = 0

\* A failure below the threshold is remembered.
Notice ==
  /\ mode = "CLOSED"
  /\ known' = TRUE
  /\ UNCHANGED <<mode, ripe, passed>>

\* CLOSED --(failures >= threshold)--> OPEN
Trip ==
  /\ mode = "CLOSED"
  /\ mode' = "OPEN" /\ known' = TRUE /\ ripe' = FALSE
  /\ UNCHANGED passed

\* The recovery timeout elapses.
Ripen ==
  /\ mode = "OPEN" /\ ~ripe
  /\ ripe' = TRUE
  /\ UNCHANGED <<mode, known, passed>>

\* A failure of a call admitted before the trip restarts the recovery timeout.
Postpone ==
  /\ mode = "OPEN"
  /\ ripe' = FALSE
  /\ UNCHANGED <<mode, known, passed>>

\* OPEN --(recovery_timeout elapses)--> HALF_OPEN, on the first read after it
Probe ==
  /\ mode = "OPEN" /\ ripe
  /\ mode' = "HALF_OPEN" /\ ripe' = FALSE
  /\ UNCHANGED <<known, passed>>

\* A trial succeeds and more are needed.
TrialPasses ==
  /\ mode = "HALF_OPEN" /\ passed + 1 < Trials
  /\ passed' = passed + 1
  /\ UNCHANGED <<mode, known, ripe>>

\* HALF_OPEN --(trial call succeeds)--> CLOSED, at the last of Trials successes
Recover ==
  /\ mode = "HALF_OPEN" /\ passed + 1 >= Trials
  /\ mode' = "CLOSED" /\ passed' = 0
  /\ UNCHANGED <<known, ripe>>

\* HALF_OPEN --(trial call fails)--> OPEN, with the timeout restarted
Reopen ==
  /\ mode = "HALF_OPEN"
  /\ mode' = "OPEN" /\ ripe' = FALSE /\ passed' = 0
  /\ UNCHANGED known

\* Administrative override.
Override == mode' = "CLOSED" /\ known' = FALSE /\ ripe' = FALSE /\ passed' = 0

ContractNext ==
  \/ Notice \/ Trip \/ Ripen \/ Postpone \/ Probe
  \/ TrialPasses \/ Recover \/ Reopen \/ Override

ContractSpec == ContractInit /\ [][ContractNext]_contractVars
================================================================================
