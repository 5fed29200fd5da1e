----------------------------- MODULE GoalLedger -----------------------------
(***************************************************************************)
(* internal/goalruntime/goalruntime.go: goalcli processes record that a    *)
(* command passed for a goal, as a line of a ledger file they share.  The  *)
(* final command also writes an evidence pack, once the ledger shows that  *)
(* every prerequisite command passed for the same goal.                    *)
(*                                                                         *)
(* The file is read, changed in memory and rewritten, without a lock.      *)
(* os.WriteFile truncates the file before it writes, so a process that     *)
(* stops in between leaves it empty, and one that reads in between finds   *)
(* it empty; an absent file reads as an empty one, too.  Each process has  *)
(* a file offset of its own: what two of them write overlaps.              *)
(***************************************************************************)
EXTENDS Sequences, SequencesExt

CONSTANTS
  Procs,           \* processes, each of which runs one command for one goal
  Goals,           \* goal ids
  Prerequisites,   \* finalPrerequisiteCommands
  Final,           \* finalRuntimeCommand
  Torn,            \* a line of the file that is not JSON
  OldLedgers       \* what the file may hold at first

Commands == Prerequisites \cup {Final}
Entry == [goal : Goals, command : Commands, complete : BOOLEAN]

Same(a, b) == a.goal = b.goal /\ a.command = b.command

(* A ledger found without any pack: nobody tore it, and no final command has *)
(* passed.                                                                   *)
ASSUME LedgerAssumption ==
  /\ Goals # {}
  /\ Final \notin Prerequisites
  /\ Torn \notin Entry
  /\ OldLedgers \subseteq Seq(Entry)
  /\ \A old \in OldLedgers :
       /\ \A i, j \in DOMAIN old : Same(old[i], old[j]) => i = j
       /\ \A i \in DOMAIN old : old[i].command # Final

VARIABLES
  pc,         \* where each process is
  job,        \* the entry it is to record
  next,       \* the new contents of the ledger it has computed
  ledger,     \* the lines of the ledger
  pack,       \* the evidence pack of each goal: "absent", "empty" or "complete"
  recorded,   \* history: complete entries that have been in the ledger
  overlap,    \* history: two processes were between reading and writing at once
  cut         \* history: a process stopped between truncating and writing

vars == <<pc, job, next, ledger, pack, recorded, overlap, cut>>

Complete(lines) == {e \in ToSet(lines) : e \in Entry /\ e.complete}
AnEntry == CHOOSE e \in Entry : TRUE

Init ==
  /\ pc = [p \in Procs |-> "start"]
  /\ job = [p \in Procs |-> AnEntry]
  /\ next = [p \in Procs |-> <<>>]
  /\ ledger \in OldLedgers
  /\ pack = [g \in Goals |-> "absent"]
  /\ recorded = Complete(ledger)
  /\ overlap = FALSE
  /\ cut = FALSE
-----------------------------------------------------------------------------
(* validateFinalPrerequisites finds no gap: the ledger can be read, and the  *)
(* last entry of each prerequisite is complete.                              *)
ReconciledForAny(lines, g) ==    \* slip: entries of other goals count
  /\ Torn \notin ToSet(lines)
  /\ \A c \in Prerequisites : \E e \in Complete(lines) : e.command = c

Reconciled(lines, g) ==
  /\ Torn \notin ToSet(lines)
  /\ \A c \in Prerequisites :
       \E i \in DOMAIN lines :
         /\ lines[i] = [goal |-> g, command |-> c, complete |-> TRUE]
         /\ \A j \in (i + 1)..Len(lines) : ~Same(lines[j], lines[i])

UpsertedByGoal(lines, entry) ==    \* slip: the command is not compared
  Append(SelectSeq(lines, LAMBDA l : l = Torn \/ l.goal # entry.goal), entry)

UpsertedBlindly(lines, entry) == Append(lines, entry)    \* slip: nothing is dropped

(* upsertLedgerEntry: drop what the entry replaces, keep all else, append.   *)
Replaced(line, entry) == line # Torn /\ Same(line, entry)

Upserted(lines, entry) ==
  LET kept[i \in 0..Len(lines)] ==
        IF i = 0 THEN <<>>
        ELSE IF Replaced(lines[i], entry) THEN kept[i - 1]
        ELSE Append(kept[i - 1], lines[i])
  IN  Append(kept[Len(lines)], entry)

(* The file after new is written over old from the start.  Lines differ in   *)
(* length, by less than a line in all: the first line left of old is whole,  *)
(* or torn, or preceded by the end of another.                               *)
Overwritten(old, new) ==
  IF Len(old) < Len(new) \/ old = <<>> THEN {new}
  ELSE LET rest == SubSeq(old, Len(new) + 1, Len(old))
       IN  {new \o rest, new \o <<Torn>> \o rest}
             \cup (IF rest = <<>> THEN {} ELSE {new \o <<Torn>> \o Tail(rest)})
-----------------------------------------------------------------------------
Goto(p, where) == pc' = [pc EXCEPT ![p] = where]

(* Evaluate: authority paths may be missing; a final report needs the        *)
(* prerequisites.  WriteEvidence refuses a report that did not pass.         *)
Evaluate(p) ==
  /\ pc[p] = "start"
  /\ \E g \in Goals, c \in Commands :
       /\ job' = [job EXCEPT ![p] = [goal |-> g, command |-> c, complete |-> TRUE]]
       /\ \/ Goto(p, "refused")
          \/ (c = Final => Reconciled(ledger, g)) /\ Goto(p, "passed")
  /\ UNCHANGED <<next, ledger, pack, recorded, overlap, cut>>

(* WriteEvidence looks at the prerequisites of a final report once more.     *)
RecheckReported(p) ==    \* slip: the gaps are put into the report
  /\ pc[p] = "passed" /\ job[p].command = Final
  /\ Goto(p, IF Reconciled(ledger, job[p].goal) THEN "checked" ELSE "failed")
  /\ UNCHANGED <<job, next, ledger, pack, recorded, overlap, cut>>

Recheck(p) ==
  /\ pc[p] = "passed" /\ job[p].command = Final
  /\ Goto(p, IF Reconciled(ledger, job[p].goal) THEN "checked" ELSE "refused")
  /\ UNCHANGED <<job, next, ledger, pack, recorded, overlap, cut>>

OpenPack(p) ==
  /\ pc[p] = "checked"
  /\ Goto(p, "packing")
  /\ pack' = [pack EXCEPT ![job[p].goal] = "empty"]
  /\ UNCHANGED <<job, next, ledger, recorded, overlap, cut>>

WritePack(p) ==
  /\ pc[p] = "packing"
  /\ Goto(p, "packed")
  /\ pack' = [pack EXCEPT ![job[p].goal] = "complete"]
  /\ UNCHANGED <<job, next, ledger, recorded, overlap, cut>>

Ready(p) == pc[p] = "packed" \/ (pc[p] = "passed" /\ job[p].command # Final)
Others(p, places) == \E q \in Procs \ {p} : pc[q] \in places

ReadLedgerUnpacked(p) ==    \* slip: the pack is left to a later run
  /\ pc[p] \in {"packed", "checked"} \/ Ready(p)
  /\ Goto(p, "read")
  /\ next' = [next EXCEPT ![p] = Upserted(ledger, job[p])]
  /\ overlap' = (overlap \/ Others(p, {"writing"}))
  /\ UNCHANGED <<job, ledger, pack, recorded, cut>>

ReadLedger(p) ==
  /\ Ready(p)
  /\ Goto(p, "read")
  /\ next' = [next EXCEPT ![p] = Upserted(ledger, job[p])]
  /\ overlap' = (overlap \/ Others(p, {"writing"}))
  /\ UNCHANGED <<job, ledger, pack, recorded, cut>>

OpenLedger(p) ==
  /\ pc[p] = "read"
  /\ Goto(p, "writing")
  /\ ledger' = <<>>
  /\ overlap' = (overlap \/ Others(p, {"read", "writing"}))
  /\ UNCHANGED <<job, next, pack, recorded, cut>>

WriteLedger(p) ==
  /\ pc[p] = "writing"
  /\ Goto(p, "done")
  /\ ledger' \in Overwritten(ledger, next[p])
  /\ recorded' = recorded \cup {job[p]}
  /\ UNCHANGED <<job, next, pack, overlap, cut>>

(* The process is killed, or an I/O error makes WriteEvidence return.        *)
Stop(p) ==
  /\ pc[p] \notin {"start", "refused", "done", "stopped"}
  /\ Goto(p, "stopped")
  /\ cut' = (cut \/ pc[p] = "writing")
  /\ UNCHANGED <<job, next, ledger, pack, recorded, overlap>>

Ended == \A p \in Procs : pc[p] \in {"refused", "done", "stopped"}

Next ==
  \/ \E p \in Procs :
       \/ Evaluate(p)
       \/ Recheck(p)
       \/ OpenPack(p)
       \/ WritePack(p)
       \/ ReadLedger(p)
       \/ OpenLedger(p)
       \/ WriteLedger(p)
       \/ Stop(p)
  \/ Ended /\ UNCHANGED vars

Spec == Init /\ [][Next]_vars
-----------------------------------------------------------------------------
Places == {"start", "passed", "checked", "packing", "packed", "read", "writing",
           "refused", "done", "stopped"}

TypeOK ==
  /\ pc \in [Procs -> Places]
  /\ job \in [Procs -> Entry]
  /\ next \in [Procs -> Seq(Entry \cup {Torn})]
  /\ ledger \in Seq(Entry \cup {Torn})
  /\ pack \in [Goals -> {"absent", "empty", "complete"}]
  /\ recorded \in SUBSET Entry
  /\ overlap \in BOOLEAN /\ cut \in BOOLEAN

(* A pack exists only for a goal all of whose prerequisites passed and were  *)
(* recorded, whatever other processes write, lose or tear meanwhile.         *)
PackJustified ==
  \A g \in Goals : pack[g] # "absent" =>
    \A c \in Prerequisites : [goal |-> g, command |-> c, complete |-> TRUE] \in recorded

(* A goal recorded as final has its pack, unless a process that was to       *)
(* rewrite the pack still is at it or stopped there.                         *)
FinalHasPack ==
  \A g \in Goals, e \in recorded : e.goal = g /\ e.command = Final =>
    \/ pack[g] = "complete"
    \/ \E p \in Procs : Same(job[p], e) /\ pc[p] \in {"packing", "stopped"}

Settled == ~overlap /\ \A p \in Procs : pc[p] # "writing"

(* Stopping alone tears no line and leaves no entry twice.                   *)
EntriesUnique ==
  /\ Torn \notin ToSet(ledger)
  /\ \A i, j \in DOMAIN ledger : Same(ledger[i], ledger[j]) => i = j

(* As long as the processes keep out of each other's way the ledger stays    *)
(* well formed, and what has been recorded stays recorded, unless one stops  *)
(* after truncating the file.                                                *)
EvidenceKept == Settled => EntriesUnique /\ (~cut => recorded \subseteq ToSet(ledger))

(* The file as the processes mean it: while one has it open, what it is      *)
(* about to write there.                                                     *)
Shown ==
  IF \E p \in Procs : pc[p] = "writing"
  THEN UNION {ToSet(next[p]) : p \in {q \in Procs : pc[q] = "writing"}}
  ELSE ToSet(ledger)

(* To processes that do not overlap, reading, truncating and writing the     *)
(* file is one step that records one entry and keeps the others; a final one *)
(* is recorded beside its prerequisites unless a stop has emptied the file.  *)
Register == INSTANCE EvidenceRegister WITH entries <- Shown, lost <- cut, shared <- overlap
RegisterSpec == Register!Spec
=============================================================================
