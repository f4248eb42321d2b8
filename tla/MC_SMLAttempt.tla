--------------------------- MODULE MC_SMLAttempt ---------------------------
(* Small instances of SMLAttempt: calls and bills are interchangeable.     *)
EXTENDS SMLAttempt, TLC

Symmetry == Permutations(Bills) \cup Permutations(Calls)
=============================================================================
