------------------------------- MODULE MCPrMerge --------------------------------
(* PrMerge for TLC: symmetric session ids.                                         *)
EXTENDS PrMerge, TLC

SessionSymmetry == Permutations(Sessions)
================================================================================
