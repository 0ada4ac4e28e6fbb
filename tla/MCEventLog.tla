-------------------------------- MODULE MCEventLog -------------------------------
(***************************************************************************)
(* EventLog for TLC.                                                       *)
(***************************************************************************)
EXTENDS EventLog

\* The workers are alike.
Symmetry == Permutations(Workers)
================================================================================
