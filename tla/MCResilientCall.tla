--------------------------- MODULE MCResilientCall ---------------------------
(***************************************************************************)
(* ResilientCall with the policies that differ in kind: no attempt, one,   *)
(* several; no wait, no cap, a cap below, at and above the first wait; a   *)
(* Multiplier to be defaulted, 1, 1.5, and 3, whose products are exact     *)
(* (1, 3, 9), rounded (27 to 28), or overflow at either end.  Floats have  *)
(* four binary digits and Durations seven bits.                            *)
(***************************************************************************)
EXTENDS ResilientCall

PolicyOf(n, i, m, x) == [MaxAttempts |-> n, InitialWait |-> i, MaxWait |-> m, Multiplier |-> x]

SomePolicies ==
  {PolicyOf(4, i, m, x) : i \in {1, 3}, m \in {0, 1, 5}, x \in {0, 3, 6}}
    \cup {PolicyOf(n, 1, 5, 2) : n \in {-1, 0, 1}}
    \cup {PolicyOf(4, 0, 5, 6), PolicyOf(4, 3, 3, 2)}
    \cup {PolicyOf(4, 9, 0, 6), PolicyOf(4, -25, 7, 6)}
=============================================================================
