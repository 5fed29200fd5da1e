------------------------------ MODULE MCClient ------------------------------
(* Client shared by a few goroutines, which are interchangeable. *)
EXTENDS Client, TLC

ProcSymmetry == Permutations(Procs)
SomeTimeouts == {-1, 0, 2}
=============================================================================
