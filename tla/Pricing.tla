-------------------------------- MODULE Pricing --------------------------------
(***************************************************************************)
(* services/cost_tracker.py: the price of a completed request.             *)
(*                                                                         *)
(* Prices are in half-micro-dollars per token, the largest unit in which   *)
(* every entry of PRICING_TABLE is whole; a cost is in micro-dollars, the  *)
(* sixth decimal to which calculate_cost rounds.                           *)
(***************************************************************************)
EXTENDS Integers

PRICING_TABLE ==
  [m \in {"akash-llm-pro-1", "akash-llm-pro-1-fallback", "akash-llm-lite"} |->
     CASE m = "akash-llm-pro-1"          -> [input |-> 6, output |-> 12]
       [] m = "akash-llm-pro-1-fallback" -> [input |-> 0, output |-> 0]
       [] m = "akash-llm-lite"           -> [input |-> 1, output |-> 3]]

DEFAULT_PRICING == [input |-> 6, output |-> 12]

PriceOf(model) ==
  IF model \in DOMAIN PRICING_TABLE THEN PRICING_TABLE[model] ELSE DEFAULT_PRICING

\* The costs calculate_cost can return: a tie falls either way, because the
\* binary value that is rounded lies on either side of it.
CalculateCost(model, input_tokens, output_tokens) ==
  LET exact == input_tokens * PriceOf(model).input + output_tokens * PriceOf(model).output
  IN  {exact \div 2, (exact + 1) \div 2}
================================================================================
