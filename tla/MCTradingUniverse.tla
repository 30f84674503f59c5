------------------------- MODULE MCTradingUniverse -------------------------
(* Constants of TradingUniverse for TLC: requests and lists are model      *)
(* values without further structure.                                       *)
EXTENDS TradingUniverse, TLC

Symmetry == Permutations(Saves) \cup Permutations(Deletes) \cup Permutations(Lists)
=============================================================================
