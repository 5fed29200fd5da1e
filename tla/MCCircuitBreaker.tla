-------------------------- MODULE MCCircuitBreaker --------------------------
(* CircuitBreaker on a few callers; symmetry serves the runs without liveness. *)
EXTENDS CircuitBreaker, TLC

CallerSymmetry == Permutations(Callers)
=============================================================================
