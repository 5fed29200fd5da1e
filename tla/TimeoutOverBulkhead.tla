------------------------ MODULE TimeoutOverBulkhead ------------------------
(***************************************************************************)
(* The strategies nested the other way: timeout.Do(ctx, d, func(ctx)       *)
(* error { return b.Do(ctx, fn) }).  The worker takes the slot, runs fn    *)
(* and gives the slot back, after its caller has gone if need be.          *)
(***************************************************************************)
EXTENDS Naturals, FiniteSets

CONSTANTS
  Calls,            \* calls of the nested Do, each made once
  MaxConcurrent     \* slots of the bulkhead

VARIABLES
  sem, sendq, recvq, call, strays,                      \* Bulkhead, of the workers
  caller, result, worker, fnResult, ch, ctx,      \* Timeout
  fn    \* the function inside b.Do: "before", "running" or "after"

B == INSTANCE Bulkhead WITH Goroutines <- Calls, MaxStrays <- 0
T == INSTANCE Timeout

bulkheadVars == <<sem, sendq, recvq, call, strays>>
timeoutVars == <<caller, result, worker, fnResult, ch, ctx>>
vars == <<bulkheadVars, timeoutVars, fn>>

Init == B!Init /\ T!Init /\ fn = [c \in Calls |-> "before"]

(* The worker reaches b.Do with its context live or already done.            *)
Enter(c) ==
  /\ worker[c] = "running" /\ call[c] = "none"
  /\ \/ ctx[c] = "live" /\ B!Acquire(c)
     \/ ctx[c] # "live" /\ (B!Send(c) \/ B!AcquireDone(c))
  /\ UNCHANGED <<timeoutVars, fn>>

(* The end of the context also takes a blocked worker out of the queue.      *)
CtxEnds(c) ==
  /\ T!Expire(c) \/ T!ParentCancels(c)
  /\ IF call[c] = "acquiring" THEN B!Cancelled(c) ELSE UNCHANGED bulkheadVars
  /\ UNCHANGED fn

FnBegins(c) ==
  /\ call[c] = "inside" /\ fn[c] = "before"
  /\ fn' = [fn EXCEPT ![c] = "running"]
  /\ UNCHANGED <<bulkheadVars, timeoutVars>>

FnEnds(c) ==
  /\ fn[c] = "running"
  /\ fn' = [fn EXCEPT ![c] = "after"]
  /\ UNCHANGED <<bulkheadVars, timeoutVars>>

(* The deferred Release of b.Do, then the worker's result.                   *)
LeaveWithCaller(c) ==    \* slip: the slot goes back as soon as the caller gives up
  /\ fn[c] = "after" \/ caller[c] = "returned"
  /\ B!Release(c)
  /\ UNCHANGED <<timeoutVars, fn>>

Leave(c) ==
  /\ fn[c] = "after"
  /\ B!Release(c)
  /\ UNCHANGED <<timeoutVars, fn>>

FnReturns(c) ==
  /\ call[c] \in {"released", "ctxErr"}
  /\ T!FnReturns(c)
  /\ call[c] = "ctxErr" => fnResult'[c] = ctx[c]
  /\ UNCHANGED <<bulkheadVars, fn>>

CallerSteps(c) ==
  /\ T!Start(c) \/ T!Send(c) \/ T!Select(c) \/ T!Return(c)
  /\ UNCHANGED <<bulkheadVars, fn>>

Next ==
  \/ \E c \in Calls : Enter(c) \/ CtxEnds(c) \/ FnBegins(c) \/ FnEnds(c)
                     \/ Leave(c) \/ FnReturns(c) \/ CallerSteps(c)
  \/ T!Finished /\ UNCHANGED vars

Spec == Init /\ [][Next]_vars

(* Goroutines run, deadlines pass, and fn ends once its context has.         *)
Fairness == \A c \in Calls :
  /\ WF_vars(Enter(c)) /\ WF_vars(CtxEnds(c)) /\ WF_vars(FnReturns(c)) /\ WF_vars(CallerSteps(c))
  /\ WF_vars(FnBegins(c)) /\ WF_vars(Leave(c))
  /\ WF_vars(ctx[c] # "live" /\ FnEnds(c))
-----------------------------------------------------------------------------
(* A call that times out goes on holding its slot until its fn ends, so the  *)
(* limit is one on what really executes.                                     *)
ExecutionsLimited == Cardinality({c \in Calls : fn[c] = "running"}) <= MaxConcurrent

(* With a fn that heeds its context no slot and no goroutine is lost.        *)
AllComesBack == Fairness => <>[](sem = 0 /\ \A c \in Calls : worker[c] = "done" /\ caller[c] = "returned")
=============================================================================
