------------------------------- MODULE Client -------------------------------
(***************************************************************************)
(* pkg/resiliencx/client.go and health.go: a client shared by goroutines   *)
(* that close it and ask for its health.                                   *)
(*                                                                         *)
(* c.mu protects the closed flag and nothing else.  Close counts after it  *)
(* has released the lock; HealthCheck copies the client's fields under the *)
(* lock and then looks at the context and the clock, which go on meanwhile. *)
(* The client starts as a nil pointer or as a zero value, which every      *)
(* method accepts.  Counters of errors and of latencies are left out.      *)
(***************************************************************************)
EXTENDS Integers, FiniteSets

CONSTANTS
  Procs,      \* goroutines that share the client
  Timeouts,   \* Config.Timeout, in ticks, as callers may set it
  MaxLeft,    \* bound: the longest time to a deadline
  MaxCalls    \* bound: calls of Close and HealthCheck

ASSUME ClientAssumption ==
  /\ IsFiniteSet(Procs)
  /\ Timeouts \subseteq Int
  /\ MaxLeft \in Nat /\ MaxCalls \in Nat

VARIABLES
  client,       \* "nil", "zero", or "open": made by New
  timeout,      \* c.cfg.Timeout
  closed,       \* c.closed
  createdTotal, closedTotal,    \* counters
  gauge,        \* client_health_status, per value of its label; -1 when unset
  pc,           \* where each goroutine is
  ctx,          \* the context of its call
  snapshot,     \* HealthCheck's copy of initialized, closed and timeout
  status,       \* the status it has arrived at
  calls,        \* calls made so far
  seen          \* history: the statuses that were true since its check began

vars == <<client, timeout, closed, createdTotal, closedTotal, gauge, pc, ctx, snapshot, status, calls, seen>>

Statuses == {"healthy", "degraded", "unhealthy"}
Never == MaxLeft + 1    \* no deadline
Contexts == [state : {"live", "done"}, left : 0..Never] \cup [state : {"nil"}, left : {0}]
Snapshots == [initialized : BOOLEAN, closed : BOOLEAN, timeout : Int]
NoSnapshot == [initialized |-> FALSE, closed |-> TRUE, timeout |-> 0]

(* What HealthCheck would say if it took no time.                            *)
StatusOf(x, snap) ==
  IF x.state # "live" \/ ~snap.initialized \/ snap.closed THEN "unhealthy"
  ELSE IF snap.timeout <= 0 \/ x.left = Never \/ (x.left > 0 /\ x.left >= snap.timeout) THEN "healthy"
  ELSE IF x.left <= 0 THEN "unhealthy"
  ELSE "degraded"

Now == IF client = "nil" THEN NoSnapshot
       ELSE [initialized |-> client = "open", closed |-> closed, timeout |-> timeout]

Init ==
  /\ client \in {"nil", "zero"}
  /\ timeout = 0 /\ closed = FALSE
  /\ createdTotal = 0 /\ closedTotal = 0
  /\ gauge = [s \in Statuses |-> -1]
  /\ pc = [q \in Procs |-> "idle"]
  /\ ctx = [q \in Procs |-> [state |-> "nil", left |-> 0]]
  /\ snapshot = [q \in Procs |-> NoSnapshot]
  /\ status = [q \in Procs |-> "unhealthy"]
  /\ calls = 0
  /\ seen = [q \in Procs |-> {}]
-----------------------------------------------------------------------------
(* New, before the pointer it returns is shared; it fails and leaves nil     *)
(* when Config.Validate or its context does.                                 *)
New ==
  /\ client = "nil" /\ \A q \in Procs : pc[q] = "idle"
  /\ \E t \in Timeouts : t >= 0 /\ timeout' = t
  /\ client' = "open"
  /\ createdTotal' = createdTotal + 1
  /\ UNCHANGED <<closed, closedTotal, gauge, pc, ctx, snapshot, status, calls>>

Begin(p, x, place) ==
  /\ pc[p] = "idle" /\ calls < MaxCalls
  /\ calls' = calls + 1
  /\ pc' = [pc EXCEPT ![p] = place]
  /\ ctx' = [ctx EXCEPT ![p] = x]

(* Close up to the lock: a nil client or context, or one that is done, ends it. *)
CloseBegins(p) ==
  /\ \E x \in Contexts :
       Begin(p, x, IF client # "nil" /\ x.state = "live" THEN "closing" ELSE "idle")
  /\ UNCHANGED <<client, timeout, closed, createdTotal, closedTotal, gauge, snapshot, status>>

CloseLockedLate(p) ==    \* slip: the flag is looked at and not set
  /\ pc[p] = "closing"
  /\ pc' = [pc EXCEPT ![p] = IF client = "open" /\ ~closed THEN "counting" ELSE "idle"]
  /\ UNCHANGED <<client, timeout, closed, createdTotal, closedTotal, gauge, ctx, snapshot, status, calls>>

(* Its critical section: not initialized, closed before, or closed by this.  *)
CloseLocked(p) ==
  /\ pc[p] = "closing"
  /\ IF client = "open" /\ ~closed
     THEN closed' = TRUE /\ pc' = [pc EXCEPT ![p] = "counting"]
     ELSE pc' = [pc EXCEPT ![p] = "idle"] /\ UNCHANGED closed
  /\ UNCHANGED <<client, timeout, createdTotal, closedTotal, gauge, ctx, snapshot, status, calls>>

CloseCounts(p) ==
  /\ pc[p] = "counting"
  /\ closedTotal' = closedTotal + 1
  /\ pc' = [pc EXCEPT ![p] = "idle"]
  /\ UNCHANGED <<client, timeout, closed, createdTotal, gauge, ctx, snapshot, status, calls>>

HealthBegins(p) ==
  /\ \E x \in Contexts : Begin(p, x, "copying")
  /\ UNCHANGED <<client, timeout, closed, createdTotal, closedTotal, gauge, snapshot, status>>

(* The critical section of HealthCheck; a nil client has none.               *)
Copy(p) ==
  /\ pc[p] = "copying"
  /\ snapshot' = [snapshot EXCEPT ![p] = Now]
  /\ pc' = [pc EXCEPT ![p] = "checking"]
  /\ UNCHANGED <<client, timeout, closed, createdTotal, closedTotal, gauge, ctx, status, calls>>

(* The context, initialized, closed; the deadline only when there are both   *)
(* it and a timeout.                                                         *)
Check(p) ==
  /\ pc[p] = "checking"
  /\ LET s == snapshot[p]
         x == ctx[p]
     IN  IF x.state = "live" /\ s.initialized /\ ~s.closed
         THEN IF s.timeout > 0 /\ x.left # Never
              THEN pc' = [pc EXCEPT ![p] = "measuring"] /\ UNCHANGED status
              ELSE pc' = [pc EXCEPT ![p] = "reporting"] /\ status' = [status EXCEPT ![p] = "healthy"]
         ELSE pc' = [pc EXCEPT ![p] = "reporting"] /\ status' = [status EXCEPT ![p] = "unhealthy"]
  /\ UNCHANGED <<client, timeout, closed, createdTotal, closedTotal, gauge, ctx, snapshot, calls>>

MeasureUnexpired(p) ==    \* slip: remaining <= 0 is left to ctx.Err()
  /\ pc[p] = "measuring"
  /\ pc' = [pc EXCEPT ![p] = "reporting"]
  /\ status' = [status EXCEPT ![p] = IF ctx[p].left < snapshot[p].timeout THEN "degraded" ELSE "healthy"]
  /\ UNCHANGED <<client, timeout, closed, createdTotal, closedTotal, gauge, ctx, snapshot, calls>>

(* time.Until(deadline) against zero and the timeout.                        *)
Measure(p) ==
  /\ pc[p] = "measuring"
  /\ pc' = [pc EXCEPT ![p] = "reporting"]
  /\ status' = [status EXCEPT ![p] =
       IF ctx[p].left <= 0 THEN "unhealthy"
       ELSE IF ctx[p].left < snapshot[p].timeout THEN "degraded"
       ELSE "healthy"]
  /\ UNCHANGED <<client, timeout, closed, createdTotal, closedTotal, gauge, ctx, snapshot, calls>>

healthGaugeValueGraded(s) ==    \* slip: one value per status
  CASE s = "healthy" -> 2 [] s = "degraded" -> 1 [] OTHER -> 0

healthGaugeValue(s) == IF s = "healthy" THEN 1 ELSE 0

(* recordHealthMetric, unless the client has no metrics, and the return.     *)
Report(p) ==
  /\ pc[p] = "reporting"
  /\ pc' = [pc EXCEPT ![p] = "idle"]
  /\ gauge' = IF snapshot[p].initialized
              THEN [gauge EXCEPT ![status[p]] = healthGaugeValue(status[p])]
              ELSE gauge
  /\ UNCHANGED <<client, timeout, closed, createdTotal, closedTotal, ctx, snapshot, status, calls>>

(* Time passes for every context, done or not.                               *)
Tick ==
  /\ \E q \in Procs : pc[q] # "idle" /\ ctx[q].left \in 1..MaxLeft
  /\ ctx' = [q \in Procs |-> IF ctx[q].left \in 1..MaxLeft THEN [ctx[q] EXCEPT !.left = @ - 1] ELSE ctx[q]]
  /\ UNCHANGED <<client, timeout, closed, createdTotal, closedTotal, gauge, pc, snapshot, status, calls>>

(* It is cancelled, or its timer fires some time after the deadline; neither *)
(* moves the deadline that Measure looks at.                                 *)
CtxEnds(p) ==
  /\ pc[p] # "idle" /\ ctx[p].state = "live"
  /\ ctx' = [ctx EXCEPT ![p].state = "done"]
  /\ UNCHANGED <<client, timeout, closed, createdTotal, closedTotal, gauge, pc, snapshot, status, calls>>

(* seen gathers what is true while a check runs.                             *)
Observe ==
  seen' = [q \in Procs |->
    IF pc'[q] \in {"idle", "closing", "counting"} THEN {}
    ELSE seen[q] \cup {StatusOf(ctx'[q], Now')}]

Step(p) ==
  \/ CloseBegins(p)
  \/ CloseLocked(p)
  \/ CloseCounts(p)
  \/ HealthBegins(p)
  \/ Copy(p)
  \/ Check(p)
  \/ Measure(p)
  \/ Report(p)
  \/ CtxEnds(p)

Next == (New \/ Tick \/ \E p \in Procs : Step(p)) /\ Observe

Spec == Init /\ [][Next]_vars
-----------------------------------------------------------------------------
TypeOK ==
  /\ client \in {"nil", "zero", "open"}
  /\ timeout \in Nat
  /\ closed \in BOOLEAN
  /\ createdTotal \in Nat /\ closedTotal \in Nat
  /\ gauge \in [Statuses -> {-1, 0, 1}]
  /\ pc \in [Procs -> {"idle", "closing", "counting", "copying", "checking", "measuring", "reporting"}]
  /\ ctx \in [Procs -> Contexts]
  /\ snapshot \in [Procs -> Snapshots]
  /\ status \in [Procs -> Statuses]
  /\ calls \in 0..MaxCalls
  /\ seen \in [Procs -> SUBSET Statuses]

(* contracts/metrics.md:8, however many goroutines close at once: a client   *)
(* is counted as closed once, by the Close that closed it, though counting   *)
(* comes after the lock has been released.                                   *)
ClosedOnce ==
  closedTotal + Cardinality({q \in Procs : pc[q] = "counting"}) = IF closed THEN createdTotal ELSE 0

(* What HealthCheck reports was true while it ran, although it looks at the  *)
(* client, the context and the clock one after the other: after a Close has  *)
(* returned no check that begins says healthy or degraded.  The exception is *)
(* "degraded", which may come of a client that was healthy first and then    *)
(* unhealthy, having been closed or its context cancelled, while the         *)
(* deadline, which neither moves, drew near.                                 *)
HealthWasTrue ==
  \A p \in Procs : pc[p] = "reporting" =>
    status[p] \in seen[p] \/ (status[p] = "degraded" /\ {"healthy", "unhealthy"} \subseteq seen[p])
=============================================================================
