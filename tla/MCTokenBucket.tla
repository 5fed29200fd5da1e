--------------------------- MODULE MCTokenBucket ---------------------------
(* TokenBucket with small buckets; reservers are interchangeable. *)
EXTENDS TokenBucket, TLC

ReserverSymmetry == Permutations(Reservers)
=============================================================================
