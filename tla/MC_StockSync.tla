---------------------------- MODULE MC_StockSync ----------------------------
(* Small instances of StockSync: orders and runs are interchangeable.      *)
EXTENDS StockSync, TLC

Symmetry == Permutations(Orders) \cup Permutations(Runs)
=============================================================================
