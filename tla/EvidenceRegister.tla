-------------------------- MODULE EvidenceRegister --------------------------
(***************************************************************************)
(* What the evidence ledger promises: a register of the commands that      *)
(* passed for a goal, with one entry for each, changed in one step.  The   *)
(* final command is recorded where all its prerequisites are, unless the   *)
(* register has been lost as a whole, and nothing is promised from when    *)
(* two processes have been in each other's way.                            *)
(***************************************************************************)
CONSTANTS
  Goals,           \* goal ids
  Prerequisites,   \* commands that must have passed before the final one
  Final            \* the final command

VARIABLES
  entries,   \* what is recorded
  lost,      \* a process stopped where that loses the register
  shared     \* two processes have changed the register together

registerVars == <<entries, lost, shared>>

Entry == [goal : Goals, command : Prerequisites \cup {Final}, complete : BOOLEAN]

Replaces(e, d) == e.goal = d.goal /\ e.command = d.command

Passed(g, c) == [goal |-> g, command |-> c, complete |-> TRUE]

Init ==
  /\ entries \in SUBSET Entry
  /\ \A d, e \in entries : Replaces(d, e) => d = e
  /\ \A e \in entries : e.command # Final
  /\ lost = FALSE /\ shared = FALSE

Record(e) ==
  /\ ~shared
  /\ e.complete
  /\ e.command = Final => lost \/ \A c \in Prerequisites : Passed(e.goal, c) \in entries
  /\ entries' = {d \in entries : ~Replaces(e, d)} \cup {e}
  /\ UNCHANGED <<lost, shared>>

Lose ==
  /\ ~shared
  /\ entries' = {}
  /\ lost' = TRUE
  /\ UNCHANGED shared

Collide == shared' = TRUE

Next == (\E e \in Entry : Record(e)) \/ Lose \/ Collide

Spec == Init /\ [][Next]_registerVars
=============================================================================
