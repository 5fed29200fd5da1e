-------------------------- MODULE NestedStrategies --------------------------
(***************************************************************************)
(* A program that nests the bulkhead and the timeout (README.md:43), one   *)
(* way or the other: outer says whose Do is called first.  It is chosen    *)
(* when the program is written, so it never changes.  Each goroutine makes *)
(* one nested call; the bulkhead's module has its state and operations.    *)
(***************************************************************************)
EXTENDS Bulkhead

VARIABLES
  outer,                                          \* "bulkhead" or "timeout"
  caller, result, worker, fnResult, ch, ctx,      \* Timeout, of the calls
  fn                                              \* TimeoutOverBulkhead

BT == INSTANCE BulkheadOverTimeout WITH Calls <- Goroutines
TB == INSTANCE TimeoutOverBulkhead WITH Calls <- Goroutines

nestedVars == <<vars, outer, caller, result, worker, fnResult, ch, ctx, fn>>

NestedInit ==
  /\ outer \in {"bulkhead", "timeout"}
  /\ TB!Init

NestedNext ==
  /\ UNCHANGED outer
  /\ \/ outer = "bulkhead" /\ BT!Next /\ UNCHANGED fn
     \/ outer = "timeout" /\ TB!Next

NestedSpec == NestedInit /\ [][NestedNext]_nestedVars
-----------------------------------------------------------------------------
(* timeout.Do reports what happened, whatever it is nested with: fn's result *)
(* or the end of the context; and with b.Do inside it is nil only if fn has  *)
(* run, not when the worker was turned away from the bulkhead.               *)
ResultGenuine ==
  /\ BT!T!ResultGenuine
  /\ outer = "timeout" => \A c \in Goroutines : result[c] = "nil" => fn[c] = "after"

(* timeout.Do returns although fn, or the wait for a slot, may last for ever. *)
CallerReturns == BT!T!Scheduling => BT!T!CallerReturns

(* timeout.Do outside: a call that times out goes on holding its slot until  *)
(* its fn ends, so the limit is one on what really executes.                 *)
TimeoutOutsideLimits == outer = "timeout" => TB!ExecutionsLimited

(* With a fn that heeds its context no goroutine is left behind, for the     *)
(* buffer of one lets the worker finish after its caller has gone; and with  *)
(* timeout.Do outside no slot is lost with it.                               *)
AllComesBack ==
  /\ BT!T!Scheduling => BT!T!WorkerEnds
  /\ outer = "timeout" => TB!AllComesBack

(* b.Do outside: a fn that never returns costs the bulkhead nothing; every   *)
(* call gets its answer and every slot comes back.                           *)
SlotsComeBack == outer = "bulkhead" => BT!SlotsComeBack

(* bulkhead.go:11, whichever way the strategies are nested: "limits          *)
(* concurrent executions to maxConcurrent".                                  *)
ExecutionsLimited ==
  IF outer = "bulkhead" THEN BT!ExecutionsLimited ELSE TB!ExecutionsLimited
=============================================================================
