----------------------------- MODULE MCBulkhead -----------------------------
(* Bulkhead on a few goroutines, which are interchangeable. *)
EXTENDS Bulkhead, TLC

GoroutineSymmetry == Permutations(Goroutines)
=============================================================================
