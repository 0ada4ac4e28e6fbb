------------------------------ MODULE MCRateMeter ------------------------------
(***************************************************************************)
(* Model checking of the metered rate limiter.                             *)
(***************************************************************************)
EXTENDS RateMeter, TLC

\* One pod's clock is a tick ahead of all the others'.
MCSkew == [p \in Pods |-> IF p = CHOOSE q \in Pods : TRUE THEN 1 ELSE 0]

\* All clocks agree.
MCNoSkew == [p \in Pods |-> 0]

\* Checks are interchangeable.
CheckSymmetry == Permutations(Checks)
================================================================================
