-------------------------- MODULE ConcurrencyLimit --------------------------
(***************************************************************************)
(* What a bulkhead promises: at most MaxConcurrent calls are inside at a   *)
(* time.  A call may enter at the very moment another one leaves.          *)
(***************************************************************************)
EXTENDS Naturals, FiniteSets

CONSTANTS
  Calls,          \* whoever may be inside
  MaxConcurrent   \* how many may be inside together

VARIABLE inside

Init == inside = {}

Enter(c) ==
  /\ c \notin inside
  /\ Cardinality(inside) < MaxConcurrent
  /\ inside' = inside \cup {c}

Leave(c) ==
  /\ c \in inside
  /\ inside' = inside \ {c}

TakeOver(c, d) ==
  /\ c \in inside
  /\ d \notin inside
  /\ inside' = (inside \ {c}) \cup {d}

Next ==
  \/ \E c \in Calls : Enter(c) \/ Leave(c)
  \/ \E c, d \in Calls : TakeOver(c, d)

Spec == Init /\ [][Next]_inside

Limit == Cardinality(inside) <= MaxConcurrent
=============================================================================
