------------------------------- MODULE MCBreaker -------------------------------
(***************************************************************************)
(* Model checking of the circuit breaker and its history.                  *)
(***************************************************************************)
EXTENDS BreakerHistory, TLC

\* Calls are interchangeable in the safety properties.
CallSymmetry == Permutations(Calls)
================================================================================
