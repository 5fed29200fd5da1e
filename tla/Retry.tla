-------------------------------- MODULE Retry --------------------------------
(***************************************************************************)
(* pkg/resiliencx/retry/retry.go: Do calls fn until it succeeds, at most   *)
(* MaxAttempts times, with a growing wait in a select between attempts.    *)
(*                                                                         *)
(* The wait is an int64 Duration.  It is rounded to a float64, multiplied, *)
(* rounded again and truncated.  Multiplier counts halves here, so that    *)
(* 1.5 can be written; a number has as many digits as its half, so halves  *)
(* are rounded as whole numbers are.  What does not fit a Duration         *)
(* converts to the least int64 on amd64, to the nearest int64 on arm64.    *)
(***************************************************************************)
EXTENDS Integers, Sequences

CONSTANTS
  Policies,      \* policies Do may be called with
  MaxDuration,   \* the longest Duration
  Exact,         \* a float64 has every integer up to it: 2^53
  Units          \* powers of two: up to u * Exact it has the multiples of u

Policy == [MaxAttempts : Int, InitialWait : Int, MaxWait : Int, Multiplier : Int]

VARIABLES
  p,         \* the policy, with its Multiplier defaulted
  pc,        \* where Do is
  attempt,   \* the loop variable
  wait,      \* the next backoff
  lastErr,   \* the attempt whose error it holds; 0 is nil
  ctx,       \* "live" or "done"
  result,    \* <<"err", a>> for the error of attempt a, <<"nil">> or <<"ctxErr">>
  outcomes,  \* history: how each attempt made so far ended, TRUE for nil
  waits      \* history: the backoffs waited for, in order

vars == <<p, pc, attempt, wait, lastErr, ctx, result, outcomes, waits>>

Half == 2

DefaultedNever(q) == q    \* slip: Multiplier <= 0 is left alone

(* Do's copy of the policy. *)
Defaulted(q) == IF q.Multiplier <= 0 THEN [q EXCEPT !.Multiplier = 2 * Half] ELSE q

Init ==
  /\ \E q \in Policies : p = Defaulted(q) /\ wait = q.InitialWait
  /\ pc = "loop"
  /\ attempt = 0
  /\ lastErr = 0
  /\ ctx = "live"
  /\ result = <<>>
  /\ outcomes = <<>>
  /\ waits = <<>>
-----------------------------------------------------------------------------
Err(a) == IF a = 0 THEN <<"nil">> ELSE <<"err", a>>

Return(r) == pc' = "returned" /\ result' = r

(* The loop condition.                                                       *)
Loop ==
  /\ pc = "loop"
  /\ IF attempt < p.MaxAttempts
     THEN pc' = "calling" /\ UNCHANGED result
     ELSE Return(Err(lastErr))
  /\ UNCHANGED <<p, attempt, wait, lastErr, ctx, outcomes, waits>>

FnSucceeds ==
  /\ pc = "calling"
  /\ outcomes' = Append(outcomes, TRUE)
  /\ Return(<<"nil">>)
  /\ UNCHANGED <<p, attempt, wait, lastErr, ctx, waits>>

(* The last attempt breaks out of the loop; any other goes to the select.    *)
FnFailsForgotten ==    \* slip: attempt == p.MaxAttempts is compared
  /\ pc = "calling"
  /\ outcomes' = Append(outcomes, FALSE)
  /\ lastErr' = attempt + 1
  /\ IF attempt = p.MaxAttempts
     THEN Return(Err(lastErr')) /\ UNCHANGED waits
     ELSE pc' = "selecting" /\ waits' = Append(waits, wait) /\ UNCHANGED result
  /\ UNCHANGED <<p, attempt, wait, ctx>>

FnFails ==
  /\ pc = "calling"
  /\ outcomes' = Append(outcomes, FALSE)
  /\ lastErr' = attempt + 1
  /\ IF attempt = p.MaxAttempts - 1
     THEN Return(Err(lastErr')) /\ UNCHANGED waits
     ELSE pc' = "selecting" /\ waits' = Append(waits, wait) /\ UNCHANGED result
  /\ UNCHANGED <<p, attempt, wait, ctx>>

(* ctx ends at any time; a Do parked in its select returns at once.          *)
CtxEnds ==
  /\ ctx = "live" /\ pc # "returned"
  /\ ctx' = "done"
  /\ IF pc = "parked" THEN Return(<<"ctxErr">>) ELSE UNCHANGED <<pc, result>>
  /\ UNCHANGED <<p, attempt, wait, lastErr, outcomes, waits>>

SelectDone ==
  /\ pc = "selecting" /\ ctx = "done"
  /\ Return(<<"ctxErr">>)
  /\ UNCHANGED <<p, attempt, wait, lastErr, ctx, outcomes, waits>>

Park ==
  /\ pc = "selecting" /\ ctx = "live"
  /\ pc' = "parked"
  /\ UNCHANGED <<p, attempt, wait, lastErr, ctx, result, outcomes, waits>>

Reach(u) == -(u * Exact)..(u * Exact)

(* n as a float64: the nearest, of two the one whose last digit is even.     *)
Rounded(n) ==
  {LET lower == u * (n \div u)
       up == 2 * (n - lower) - u
   IN  IF up < 0 \/ (up = 0 /\ (n \div u) % 2 = 0) THEN lower ELSE lower + u :
     u \in {w \in Units : n \in Reach(w) /\ \A v \in Units : n \in Reach(v) => w <= v}}

(* A number of halves as a Duration: what either build makes of it.          *)
Truncated(h) ==
  LET d == IF h >= 0 THEN h \div Half ELSE -((-h) \div Half)
  IN  CASE d > MaxDuration      -> {-MaxDuration - 1, MaxDuration}
        [] d < -MaxDuration - 1 -> {-MaxDuration - 1}
        [] OTHER                -> {d}

Products(d, multiplier) ==
  UNION {Truncated(h) : h \in UNION {Rounded(f * multiplier) : f \in Rounded(d)}}

CappedOnWait(d) == IF p.MaxWait > 0 /\ wait > p.MaxWait THEN wait ELSE d    \* slip: wait for d

Capped(d) == IF p.MaxWait > 0 /\ d > p.MaxWait THEN p.MaxWait ELSE d

(* The timer fires, parked or before the select is reached, ctx done or not: *)
(* the rest of the loop body and attempt++.                                  *)
TimerFires ==
  /\ pc \in {"selecting", "parked"}
  /\ pc' = "loop"
  /\ attempt' = attempt + 1
  /\ \E d \in Products(wait, p.Multiplier) : wait' = Capped(d)
  /\ UNCHANGED <<p, lastErr, ctx, result, outcomes, waits>>

Next ==
  \/ Loop
  \/ FnSucceeds
  \/ FnFails
  \/ CtxEnds
  \/ SelectDone
  \/ Park
  \/ TimerFires
  \/ pc = "returned" /\ UNCHANGED vars

Spec == Init /\ [][Next]_vars
-----------------------------------------------------------------------------
TypeOK ==
  /\ p \in Policy /\ p.Multiplier > 0
  /\ pc \in {"loop", "calling", "selecting", "parked", "returned"}
  /\ attempt \in Nat
  /\ wait \in Int
  /\ lastErr \in Nat
  /\ ctx \in {"live", "done"}
  /\ outcomes \in Seq(BOOLEAN)
  /\ waits \in Seq(Int)

(* What Do returns says what happened to fn: nil after a success that ended  *)
(* it, an error only when all attempts failed, a context error only when the *)
(* context ended between two attempts.  Without an attempt to make it is nil. *)
ResultExplained ==
  /\ \A i \in DOMAIN outcomes : outcomes[i] => i = Len(outcomes) /\ pc = "returned"
  /\ Len(outcomes) <= attempt + 1
  /\ p.MaxAttempts <= 0 /\ pc = "returned" => result = <<"nil">> /\ outcomes = <<>>
  /\ p.MaxAttempts > 0 /\ pc = "returned" =>
       \/ result = <<"nil">> /\ outcomes[Len(outcomes)]
       \/ result = <<"err", p.MaxAttempts>> /\ Len(outcomes) = p.MaxAttempts
       \/ result = <<"ctxErr">> /\ ctx = "done" /\ Len(outcomes) \in 1..(p.MaxAttempts - 1)

(* The loop's repeated multiply and cap gives the closed form                *)
(* min(MaxWait, InitialWait * Multiplier^k), but for the first wait, when    *)
(* the multiplier is whole: as long as that power is small enough to be      *)
(* exact, and for ever if a cap keeps every product on the way that small.   *)
Factor == p.Multiplier \div Half
Geometric[k \in Nat] == IF k = 0 THEN p.InitialWait ELSE Geometric[k - 1] * Factor
Expected(k) == IF k = 0 THEN Geometric[0] ELSE Capped(Geometric[k])
Fits(d) == d \in -Exact..Exact
CapHolds ==
  /\ p.MaxWait > 0 /\ Fits(p.MaxWait * Factor)
  /\ p.InitialWait >= 0 /\ Fits(p.InitialWait * Factor)
BackoffIsGeometric ==
  p.Multiplier % Half = 0 =>
    \A k \in DOMAIN waits : Fits(Geometric[k - 1]) \/ CapHolds => waits[k] = Expected(k - 1)
=============================================================================
