------------------------- MODULE MCNestedStrategies -------------------------
(* NestedStrategies on a few calls, which are interchangeable. *)
EXTENDS NestedStrategies, TLC

CallSymmetry == Permutations(Goroutines)
=============================================================================
