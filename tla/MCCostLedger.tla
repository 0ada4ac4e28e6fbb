------------------------------ MODULE MCCostLedger ------------------------------
(***************************************************************************)
(* Model checking of the cost ledger and of the dashboard that shows it.   *)
(***************************************************************************)
EXTENDS Dashboard, TLC

CONSTANTS r1, r2, r3

\* Two requests of one user for two models, one of them of a cost that rounds
\* both ways, and a free fallback answer to another user.
MCUsage ==
  r1 :> [username |-> "alice", model |-> "akash-llm-pro-1",
         input_tokens |-> 20, output_tokens |-> 10] @@
  r2 :> [username |-> "alice", model |-> "akash-llm-lite",
         input_tokens |-> 40, output_tokens |-> 31] @@
  r3 :> [username |-> "bob", model |-> "akash-llm-pro-1-fallback",
         input_tokens |-> 20, output_tokens |-> 0]

MCRequests == {r1, r2, r3}

\* Workers are interchangeable.
WorkerSymmetry == Permutations(Workers)
=================================================================================
