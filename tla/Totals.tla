--------------------------------- MODULE Totals --------------------------------
(***************************************************************************)
(* Sums, as the ledger's summary and the dashboard form them.              *)
(***************************************************************************)
EXTENDS FiniteSetsExt

\* The sum of the values of a function with a finite domain
Total(f) == MapThenSumSet(LAMBDA x : f[x], DOMAIN f)
================================================================================
