---------------------------- MODULE IdealBucket ----------------------------
(***************************************************************************)
(* The token bucket that Limiter stands for: it fills by Rate every tick,  *)
(* up to Max; a request is granted exactly when its tokens are there, and  *)
(* a reservation takes what is there.                                      *)
(***************************************************************************)
EXTENDS Naturals

CONSTANTS
  Max,        \* tokens the bucket holds
  Rate,       \* tokens per tick
  Requests    \* numbers of tokens asked for

VARIABLES
  level,      \* tokens in the bucket
  granted     \* the last answer to a request

Min2(a, b) == IF a <= b THEN a ELSE b

Init == level = Max /\ granted = TRUE

Fill == level' = Min2(Max, level + Rate) /\ UNCHANGED granted

Ask(n) ==
  /\ granted' = (n <= level)
  /\ level' = IF n <= level THEN level - n ELSE level

Take(n) ==
  /\ level' = level - Min2(n, level)
  /\ UNCHANGED granted

Next == Fill \/ \E n \in Requests : Ask(n) \/ Take(n)

Spec == Init /\ [][Next]_<<level, granted>>
=============================================================================
