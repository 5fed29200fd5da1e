---------------------------- MODULE MCGoalLedger ----------------------------
(***************************************************************************)
(* GoalLedger with two prerequisites and goals, and a ledger that is empty *)
(* at first, or holds an entry that is incomplete or was made earlier.     *)
(***************************************************************************)
EXTENDS GoalLedger, TLC

CONSTANTS g1, g2, accept, certify

Earlier == [goal |-> g1, command |-> accept, complete |-> TRUE]
Incomplete == [goal |-> g2, command |-> accept, complete |-> FALSE]

FoundLedgers == {<<>>, <<Earlier>>, <<Incomplete>>}

ProcSymmetry == Permutations(Procs)
=============================================================================
