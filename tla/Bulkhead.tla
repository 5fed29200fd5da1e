------------------------------ MODULE Bulkhead ------------------------------
(***************************************************************************)
(* pkg/resiliencx/bulkhead/bulkhead.go: a concurrency limit kept in a      *)
(* buffered channel b.sem.  Acquire sends, Release receives.               *)
(*                                                                         *)
(* The Go runtime decides what a channel operation does: a receive from a  *)
(* full channel hands the slot over to the first goroutine blocked in a    *)
(* send, a send to a channel with a blocked receiver goes to that          *)
(* receiver, and queues are FIFO.  A channel operation is atomic, so each  *)
(* method is one action, plus one for what happens while it is blocked.    *)
(*                                                                         *)
(* Do is Acquire, then fn, then the deferred Release, which also runs when *)
(* fn panics: a goroutine is "inside" from its Acquire to its Release,     *)
(* whether Do or the program itself calls them.                            *)
(***************************************************************************)
EXTENDS Naturals, Sequences, SequencesExt

CONSTANTS
  Goroutines,      \* goroutines that share the bulkhead
  MaxConcurrent,   \* cap(b.sem); New panics below 0, and 0 lets nobody in
  MaxStrays        \* bound: Release calls that no Acquire precedes

ASSUME BulkheadAssumption ==
  /\ IsFiniteSet(Goroutines)
  /\ MaxConcurrent \in Nat
  /\ MaxStrays \in Nat

VARIABLES
  sem,      \* len(b.sem)
  sendq,    \* goroutines blocked in Acquire, in order of arrival
  recvq,    \* goroutines blocked in Release, in order of arrival
  call,     \* what each goroutine is doing, or what it got back last
  strays    \* history: receives so far that returned a slot nobody held

vars == <<sem, sendq, recvq, call, strays>>

Idle    == {"none", "released", "ErrFull", "ctxErr"}
Blocked == {"acquiring", "releasing", "straying"}
Holders == {g \in Goroutines : call[g] \in {"inside", "releasing"}}
Strayed == {g \in Goroutines : call[g] = "straying"}

Init ==
  /\ sem = 0
  /\ sendq = <<>>
  /\ recvq = <<>>
  /\ call = [g \in Goroutines |-> "none"]
  /\ strays = 0
-----------------------------------------------------------------------------
(* b.sem <- struct{}{}, when it does not block.                              *)
SlotFree == recvq # <<>> \/ sem < MaxConcurrent

Send(g) ==
  \/ /\ recvq # <<>>
     /\ call' = [call EXCEPT ![g] = "inside", ![Head(recvq)] = "released"]
     /\ recvq' = Tail(recvq)
     /\ strays' = IF Head(recvq) \in Strayed THEN strays + 1 ELSE strays
     /\ UNCHANGED <<sem, sendq>>
  \/ /\ recvq = <<>> /\ sem < MaxConcurrent
     /\ call' = [call EXCEPT ![g] = "inside"]
     /\ sem' = sem + 1
     /\ UNCHANGED <<sendq, recvq, strays>>

(* <-b.sem; "from" says whether r gives back its own slot or nobody's.       *)
ReceiveDropping(r, from) ==    \* slip: the waiting sender is not woken
  \/ /\ sem > 0
     /\ call' = [call EXCEPT ![r] = "released"]
     /\ sem' = sem - 1
     /\ strays' = IF from = "straying" THEN strays + 1 ELSE strays
     /\ UNCHANGED <<sendq, recvq>>
  \/ /\ sem = 0
     /\ call' = [call EXCEPT ![r] = from]
     /\ recvq' = Append(recvq, r)
     /\ UNCHANGED <<sem, sendq, strays>>

ReceiveUnderflow(r, from) ==    \* slip: the count goes below zero
  /\ call' = [call EXCEPT ![r] = "released"]
  /\ sem' = sem - 1
  /\ strays' = IF from = "straying" THEN strays + 1 ELSE strays
  /\ UNCHANGED <<sendq, recvq>>

Receive(r, from) ==
  \/ /\ sendq # <<>>
     /\ call' = [call EXCEPT ![r] = "released", ![Head(sendq)] = "inside"]
     /\ sendq' = Tail(sendq)
     /\ strays' = IF from = "straying" THEN strays + 1 ELSE strays
     /\ UNCHANGED <<sem, recvq>>
  \/ /\ sendq = <<>> /\ sem > 0
     /\ call' = [call EXCEPT ![r] = "released"]
     /\ sem' = sem - 1
     /\ strays' = IF from = "straying" THEN strays + 1 ELSE strays
     /\ UNCHANGED <<sendq, recvq>>
  \/ /\ sendq = <<>> /\ sem = 0
     /\ call' = [call EXCEPT ![r] = from]
     /\ recvq' = Append(recvq, r)
     /\ UNCHANGED <<sem, sendq, strays>>

AcquireBarging(g) ==    \* slip: the last to come waits at the front
  /\ call[g] \in Idle
  /\ \/ Send(g)
     \/ /\ ~SlotFree
        /\ call' = [call EXCEPT ![g] = "acquiring"]
        /\ sendq' = <<g>> \o sendq
        /\ UNCHANGED <<sem, recvq, strays>>

(* The select of Acquire blocks only when there is no slot and ctx is live.  *)
Acquire(g) ==
  /\ call[g] \in Idle
  /\ \/ Send(g)
     \/ /\ ~SlotFree
        /\ call' = [call EXCEPT ![g] = "acquiring"]
        /\ sendq' = Append(sendq, g)
        /\ UNCHANGED <<sem, recvq, strays>>

(* With ctx already done the select may pick ctx.Done() even if a slot is    *)
(* free, and picks it for sure if none is.                                   *)
AcquireDone(g) ==
  /\ call[g] \in Idle
  /\ call' = [call EXCEPT ![g] = "ctxErr"]
  /\ UNCHANGED <<sem, sendq, recvq, strays>>

(* ctx ends while g is blocked: g leaves the queue, wherever it stands.      *)
CancelledKeepingPlace(g) ==    \* slip: g is left in the queue
  /\ call[g] = "acquiring"
  /\ call' = [call EXCEPT ![g] = "ctxErr"]
  /\ UNCHANGED <<sem, sendq, recvq, strays>>

Cancelled(g) ==
  \E i \in DOMAIN sendq :
    /\ sendq[i] = g
    /\ sendq' = RemoveAt(sendq, i)
    /\ call' = [call EXCEPT ![g] = "ctxErr"]
    /\ UNCHANGED <<sem, recvq, strays>>

TryAcquireUncounted(g) ==    \* slip: a call is let in without taking a slot
  /\ call[g] \in Idle
  /\ IF SlotFree
     THEN call' = [call EXCEPT ![g] = "inside"]
     ELSE call' = [call EXCEPT ![g] = "ErrFull"]
  /\ UNCHANGED <<sem, sendq, recvq, strays>>

TryAcquire(g) ==
  /\ call[g] \in Idle
  /\ \/ Send(g)
     \/ /\ ~SlotFree
        /\ call' = [call EXCEPT ![g] = "ErrFull"]
        /\ UNCHANGED <<sem, sendq, recvq, strays>>

(* Release of a slot g holds: Do's deferred call, or the program's own.      *)
Release(g) ==
  /\ call[g] = "inside"
  /\ Receive(g, "releasing")

(* Release without a slot: nothing in the code stops it.                     *)
StrayRelease(g) ==
  /\ call[g] \in Idle
  /\ strays + Cardinality(Strayed) < MaxStrays
  /\ Receive(g, "straying")

Available == MaxConcurrent - sem

Next == \E g \in Goroutines :
  \/ Acquire(g)
  \/ AcquireDone(g)
  \/ Cancelled(g)
  \/ TryAcquire(g)
  \/ Release(g)
  \/ StrayRelease(g)

Spec == Init /\ [][Next]_vars

(* Every function inside ends, and Release follows. *)
FairSpec == Spec /\ \A g \in Goroutines : WF_vars(Release(g))
-----------------------------------------------------------------------------
TypeOK ==
  /\ sem \in 0..MaxConcurrent
  /\ sendq \in Seq(Goroutines)
  /\ recvq \in Seq(Goroutines)
  /\ call \in [Goroutines -> Idle \cup Blocked \cup {"inside"}]
  /\ strays \in 0..MaxStrays

(* The channel's length is the number of slots held, short by the strays:    *)
(* no interleaving of handovers, cancellations and panics loses a slot, and  *)
(* Available() is exact when every Release pairs with an Acquire.            *)
SlotsAccounted == Available + Cardinality(Holders) = MaxConcurrent + strays

(* The queues hold exactly the blocked goroutines, each once; until a stray  *)
(* call Release never blocks.                                                *)
QueuesExact ==
  /\ ToSet(sendq) = {g \in Goroutines : call[g] = "acquiring"}
  /\ ToSet(recvq) = {g \in Goroutines : call[g] \in {"releasing", "straying"}}
  /\ IsInjective(sendq) /\ IsInjective(recvq)
  /\ strays = 0 /\ Strayed = {} => recvq = <<>>

(* No lost wake-up: who is blocked is queued to be woken, nobody waits for a *)
(* slot while one is free, and nobody waits to return one while one is taken *)
(* or wanted.                                                                *)
NoLostWakeup ==
  /\ QueuesExact
  /\ sendq # <<>> => sem = MaxConcurrent
  /\ recvq # <<>> => sem = 0 /\ sendq = <<>>

(* A slot goes to the longest waiter: neither Acquire nor TryAcquire barges, *)
(* who comes later waits behind, and a cancellation reorders nobody.         *)
Ahead(g, h) == \E i, j \in DOMAIN sendq : sendq[i] = g /\ sendq[j] = h /\ i < j
FirstComeFirstServed ==
  [][\A g, h \in Goroutines :
       g # h /\ call[g] = "acquiring" /\ call'[g] = "acquiring" =>
         /\ call[h] # "inside" /\ call'[h] = "inside" => Ahead(h, g)
         /\ call'[h] = "acquiring" => (Ahead(g, h)' <=> ~Ahead(h, g))]_vars

(* A blocked Acquire ends: with a slot, or with the context's error.         *)
AcquireEnds == \A g \in Goroutines : call[g] = "acquiring" ~> call[g] # "acquiring"

(* The bulkhead implements the limit; stray Release calls raise it by one    *)
(* each, and by no more, whoever comes, waits or gives up meanwhile.         *)
Slots == INSTANCE ConcurrencyLimit
           WITH Calls <- Goroutines, inside <- Holders, MaxConcurrent <- MaxConcurrent + MaxStrays
SlotsSpec == Slots!Spec
=============================================================================
