------------------------ MODULE BulkheadOverTimeout ------------------------
(***************************************************************************)
(* The strategies nested one way: b.Do(ctx, func() error { return          *)
(* timeout.Do(ctx, d, fn) }).  The slot is taken before the worker starts  *)
(* and given back when timeout.Do returns, whatever the worker does then.  *)
(***************************************************************************)
EXTENDS Naturals, FiniteSets

CONSTANTS
  Calls,            \* calls of the nested Do, each made once
  MaxConcurrent     \* slots of the bulkhead

VARIABLES
  sem, sendq, recvq, call, strays,                      \* Bulkhead
  caller, result, worker, fnResult, ch, ctx       \* Timeout

B == INSTANCE Bulkhead WITH Goroutines <- Calls, MaxStrays <- 0
T == INSTANCE Timeout

bulkheadVars == <<sem, sendq, recvq, call, strays>>
timeoutVars == <<caller, result, worker, fnResult, ch, ctx>>
vars == <<bulkheadVars, timeoutVars>>

Init == B!Init /\ T!Init

Enter(c) ==
  /\ call[c] = "none"
  /\ B!Acquire(c) \/ B!AcquireDone(c)
  /\ UNCHANGED timeoutVars

Cancelled(c) == B!Cancelled(c) /\ UNCHANGED timeoutVars

Run(c) ==
  /\ call[c] = "inside"
  /\ T!Step(c)
  /\ UNCHANGED bulkheadVars

(* The worker goes on by itself once its caller has left the bulkhead.       *)
Abandoned(c) ==
  /\ call[c] = "released"
  /\ T!Step(c)
  /\ UNCHANGED bulkheadVars

LeaveAfterWorker(c) ==    \* slip: the slot goes back when fn has ended
  /\ caller[c] = "returned" /\ worker[c] = "done"
  /\ B!Release(c)
  /\ UNCHANGED timeoutVars

Leave(c) ==
  /\ caller[c] = "returned"
  /\ B!Release(c)
  /\ UNCHANGED timeoutVars

Finished == \A c \in Calls : call[c] \in {"ctxErr", "released"} /\ worker[c] \in {"none", "done"}

Next ==
  \/ \E c \in Calls : Enter(c) \/ Cancelled(c) \/ Run(c) \/ Abandoned(c) \/ Leave(c)
  \/ Finished /\ UNCHANGED vars

Spec == Init /\ [][Next]_vars

(* Callers are scheduled and deadlines pass; nothing is assumed of fn.       *)
Fairness == \A c \in Calls :
  /\ WF_vars(Enter(c)) /\ WF_vars(Leave(c))
  /\ WF_vars(Run(c) /\ (T!Start(c) \/ T!Expire(c) \/ T!Select(c) \/ T!Return(c)))
-----------------------------------------------------------------------------
(* A fn that never returns costs the bulkhead nothing: every call gets its   *)
(* answer and every slot comes back.                                         *)
SlotsComeBack == Fairness => <>[](\A c \in Calls : call[c] \in {"ctxErr", "released"} /\ sem = 0)

(* bulkhead.go:11: "limits concurrent executions to maxConcurrent".          *)
ExecutionsLimited == Cardinality({c \in Calls : worker[c] = "running"}) <= MaxConcurrent
=============================================================================
