------------------------------- MODULE Timeout -------------------------------
(***************************************************************************)
(* pkg/resiliencx/timeout/timeout.go: Do runs fn in a goroutine of its own *)
(* and waits, in a select, for its result or for the end of the context.   *)
(*                                                                         *)
(* The calling goroutine and the one that runs fn (the worker) are         *)
(* independent.  The caller may reach the select after both events have    *)
(* happened, and then either may win; once it is parked there the first    *)
(* event decides.  The worker survives its caller.                         *)
(***************************************************************************)
CONSTANT Calls    \* calls of Do, each made once

VARIABLES
  caller,     \* where the calling goroutine is in Do
  result,     \* what Do returns
  worker,     \* where the goroutine that runs fn is
  fnResult,   \* what fn returned
  ch,         \* the buffered channel between them: "empty" or "full"
  ctx         \* the derived context: "live", or its Err()

vars == <<caller, result, worker, fnResult, ch, ctx>>

CtxErrs == {"Canceled", "DeadlineExceeded"}
Results == {"nil", "fnErr"} \cup CtxErrs

Init ==
  /\ caller = [c \in Calls |-> "idle"]
  /\ result = [c \in Calls |-> "none"]
  /\ worker = [c \in Calls |-> "none"]
  /\ fnResult = [c \in Calls |-> "none"]
  /\ ch = [c \in Calls |-> "empty"]
  /\ ctx = [c \in Calls |-> "live"]
-----------------------------------------------------------------------------
(* WithTimeout, make(chan error, 1), go.                                     *)
Start(c) ==
  /\ caller[c] = "idle"
  /\ caller' = [caller EXCEPT ![c] = "entering"]
  /\ worker' = [worker EXCEPT ![c] = "running"]
  /\ UNCHANGED <<result, fnResult, ch, ctx>>

Decide(c, r) ==
  /\ caller' = [caller EXCEPT ![c] = "leaving"]
  /\ result' = [result EXCEPT ![c] = r]

(* The context ends, by its deadline or with its parent; a parked caller is  *)
(* woken by it.                                                              *)
CtxEndsUnheard(c, err) ==    \* slip: the caller waits for ch alone
  /\ caller[c] # "idle"
  /\ ctx[c] = "live"
  /\ ctx' = [ctx EXCEPT ![c] = err]
  /\ UNCHANGED <<caller, result, worker, fnResult, ch>>

CtxEnds(c, err) ==
  /\ caller[c] # "idle"
  /\ ctx[c] = "live"
  /\ ctx' = [ctx EXCEPT ![c] = err]
  /\ IF caller[c] = "parked" THEN Decide(c, err) ELSE UNCHANGED <<caller, result>>
  /\ UNCHANGED <<worker, fnResult, ch>>

Expire(c) == CtxEnds(c, "DeadlineExceeded")
ParentCancels(c) == CtxEnds(c, "Canceled")

(* fn ends, with a result of its own or with ctx.Err().                      *)
FnReturns(c) ==
  /\ worker[c] = "running"
  /\ worker' = [worker EXCEPT ![c] = "sending"]
  /\ \E r \in {"nil", "fnErr"} \cup ({ctx[c]} \cap CtxErrs) :
       fnResult' = [fnResult EXCEPT ![c] = r]
  /\ UNCHANGED <<caller, result, ch, ctx>>

(* ch <- result: to a parked caller directly, else into the buffer; nobody   *)
(* else sends, so the worker never blocks here.                              *)
SendUnbuffered(c) ==    \* slip: make(chan error)
  /\ worker[c] = "sending"
  /\ caller[c] = "parked"
  /\ worker' = [worker EXCEPT ![c] = "done"]
  /\ Decide(c, fnResult[c])
  /\ UNCHANGED <<ch, fnResult, ctx>>

Send(c) ==
  /\ worker[c] = "sending"
  /\ worker' = [worker EXCEPT ![c] = "done"]
  /\ IF caller[c] = "parked"
     THEN Decide(c, fnResult[c]) /\ UNCHANGED ch
     ELSE ch' = [ch EXCEPT ![c] = "full"] /\ UNCHANGED <<caller, result>>
  /\ UNCHANGED <<fnResult, ctx>>

(* The select: a case that is ready, or park.                                *)
SelectSwallowing(c) ==    \* slip: the end of the context is not an error
  /\ caller[c] = "entering"
  /\ \/ ch[c] = "full" /\ Decide(c, fnResult[c]) /\ ch' = [ch EXCEPT ![c] = "empty"]
     \/ ctx[c] # "live" /\ Decide(c, "nil") /\ UNCHANGED ch
     \/ /\ ch[c] = "empty" /\ ctx[c] = "live"
        /\ caller' = [caller EXCEPT ![c] = "parked"]
        /\ UNCHANGED <<result, ch>>
  /\ UNCHANGED <<worker, fnResult, ctx>>

Select(c) ==
  /\ caller[c] = "entering"
  /\ \/ ch[c] = "full" /\ Decide(c, fnResult[c]) /\ ch' = [ch EXCEPT ![c] = "empty"]
     \/ ctx[c] # "live" /\ Decide(c, ctx[c]) /\ UNCHANGED ch
     \/ /\ ch[c] = "empty" /\ ctx[c] = "live"
        /\ caller' = [caller EXCEPT ![c] = "parked"]
        /\ UNCHANGED <<result, ch>>
  /\ UNCHANGED <<worker, fnResult, ctx>>

(* The deferred cancel(), and the return.                                    *)
Return(c) ==
  /\ caller[c] = "leaving"
  /\ caller' = [caller EXCEPT ![c] = "returned"]
  /\ ctx' = [ctx EXCEPT ![c] = IF @ = "live" THEN "Canceled" ELSE @]
  /\ UNCHANGED <<result, worker, fnResult, ch>>

Step(c) ==
  \/ Start(c)
  \/ Expire(c)
  \/ ParentCancels(c)
  \/ FnReturns(c)
  \/ Send(c)
  \/ Select(c)
  \/ Return(c)

Finished == \A c \in Calls : caller[c] = "returned" /\ worker[c] = "done"

Next == (\E c \in Calls : Step(c)) \/ (Finished /\ UNCHANGED vars)

Spec == Init /\ [][Next]_vars

(* Deadlines pass and goroutines run; nothing is assumed of fn.              *)
Scheduling == \A c \in Calls :
  WF_vars(Expire(c)) /\ WF_vars(Send(c)) /\ WF_vars(Select(c)) /\ WF_vars(Return(c))

(* fn returns once its context has ended.                                    *)
FnHeedsCtx == \A c \in Calls : WF_vars(ctx[c] # "live" /\ FnReturns(c))

FairSpec == Spec /\ Scheduling
-----------------------------------------------------------------------------
TypeOK ==
  /\ caller \in [Calls -> {"idle", "entering", "parked", "leaving", "returned"}]
  /\ result \in [Calls -> Results \cup {"none"}]
  /\ worker \in [Calls -> {"none", "running", "sending", "done"}]
  /\ fnResult \in [Calls -> Results \cup {"none"}]
  /\ ch \in [Calls -> {"empty", "full"}]
  /\ ctx \in [Calls -> CtxErrs \cup {"live"}]

(* Do reports what happened: nil or fn's error only if fn ended that way, a  *)
(* context error only if the context ended so or fn said so.                 *)
ResultGenuine == \A c \in Calls : result[c] # "none" => result[c] \in {fnResult[c], ctx[c]}

(* Do returns although fn may run for ever.                                  *)
CallerReturns == \A c \in Calls : caller[c] = "entering" ~> caller[c] = "returned"

(* No goroutine is left behind by a fn that heeds its context: the buffer of *)
(* one lets the worker finish after its caller has gone.                     *)
WorkerEnds ==
  FnHeedsCtx => \A c \in Calls : worker[c] = "running" ~> worker[c] = "done"
=============================================================================
