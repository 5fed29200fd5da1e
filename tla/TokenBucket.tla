---------------------------- MODULE TokenBucket ----------------------------
(***************************************************************************)
(* pkg/resiliencx/ratelimit/ratelimit.go: a token bucket filled lazily, by *)
(* the time that has passed since the last call.                           *)
(*                                                                         *)
(* Every method holds l.mu throughout, so each is one action, and refill   *)
(* is part of it.  A tick is the least time the model tells apart; Rate    *)
(* tokens arrive per tick, and a millisecond, the unit Reserve rounds its  *)
(* wait down to, is Milli ticks.  Tokens are exact here, float64 there.    *)
(***************************************************************************)
EXTENDS Integers

CONSTANTS
  Max,        \* l.max
  Rate,       \* l.rate, in tokens per tick
  Milli,      \* ticks in a millisecond
  Requests,   \* the values of n that callers pass
  Reservers,  \* callers of Reserve that then wait and go on; each does so once
  Horizon     \* bound: ticks counted from the last call, or the window's start

ASSUME BucketAssumption ==
  /\ Max \in Nat
  /\ Rate \in Nat
  /\ Milli \in Nat \ {0}
  /\ Requests \in SUBSET Nat
  /\ Horizon \in Nat

VARIABLES
  tokens,    \* l.tokens
  elapsed,   \* time since l.lastTime
  granted,   \* the last answer of AllowN
  need,      \* what each reserver was promised after a wait
  wait,      \* how long it still has to wait; -1 when it does not
  spent,     \* history: tokens taken out of the bucket in the current window
  age        \* history: time since that window began

vars == <<tokens, elapsed, granted, need, wait, spent, age>>

AtMost(a, b) == IF a <= b THEN a ELSE b

Init ==
  /\ tokens = Max
  /\ elapsed = 0
  /\ granted = TRUE
  /\ need = [c \in Reservers |-> 0]
  /\ wait = [c \in Reservers |-> -1]
  /\ spent = 0
  /\ age = 0
-----------------------------------------------------------------------------
(* refill: what l.tokens becomes before a request is looked at.              *)
RefilledUncapped == tokens + elapsed * Rate    \* slip: the cap is forgotten

Refilled == AtMost(Max, tokens + elapsed * Rate)

AllowNUnclocked(n) ==    \* slip: a refusal does not move lastTime
  /\ granted' = (n <= Refilled)
  /\ IF n <= Refilled
     THEN tokens' = Refilled - n /\ spent' = spent + n /\ elapsed' = 0
     ELSE tokens' = Refilled /\ UNCHANGED <<spent, elapsed>>
  /\ UNCHANGED <<need, wait, age>>

AllowN(n) ==
  /\ elapsed' = 0
  /\ granted' = (n <= Refilled)
  /\ IF n <= Refilled
     THEN tokens' = Refilled - n /\ spent' = spent + n
     ELSE tokens' = Refilled /\ UNCHANGED spent
  /\ UNCHANGED <<need, wait, age>>

(* The wait is rounded down to a millisecond.  At rate 0 the deficit takes   *)
(* +Inf, whose conversion to a Duration is the platform's choice; times      *)
(* time.Millisecond, 0 or -1ms is left of it, and nobody waits for either.   *)
Wait(deficit) == IF Rate = 0 THEN 0 ELSE (deficit \div (Rate * Milli)) * Milli

Reserve(c, n) ==
  /\ need[c] = 0
  /\ elapsed' = 0
  /\ IF n <= Refilled
     THEN /\ tokens' = Refilled - n
          /\ spent' = spent + n
          /\ UNCHANGED <<need, wait>>
     ELSE /\ tokens' = 0
          /\ spent' = spent + Refilled
          /\ need' = [need EXCEPT ![c] = n - Refilled]
          /\ wait' = [wait EXCEPT ![c] = Wait(n - Refilled)]
  /\ UNCHANGED <<granted, age>>

(* The caller of Reserve goes on when its wait is over.                      *)
GoOn(c) ==
  /\ wait[c] = 0
  /\ wait' = [wait EXCEPT ![c] = -1]
  /\ UNCHANGED <<tokens, elapsed, granted, need, spent, age>>

Tick ==
  /\ age < Horizon /\ elapsed < Horizon
  /\ age' = age + 1
  /\ elapsed' = elapsed + 1
  /\ wait' = [c \in Reservers |-> IF wait[c] > 0 THEN wait[c] - 1 ELSE wait[c]]
  /\ UNCHANGED <<tokens, granted, need, spent>>

(* A window over which the rate is measured may begin at any time.           *)
BeginWindow ==
  /\ spent' = 0
  /\ age' = 0
  /\ UNCHANGED <<tokens, elapsed, granted, need, wait>>

Step ==
  \/ \E n \in Requests : AllowN(n) \/ \E c \in Reservers : Reserve(c, n)
  \/ \E c \in Reservers : GoOn(c)
  \/ Tick

Next == Step \/ BeginWindow

Spec == Init /\ [][Next]_vars

(* The window that begins with New alone. *)
SinceNewSpec == Init /\ [][Step]_vars
-----------------------------------------------------------------------------
TypeOK ==
  /\ tokens \in 0..Max
  /\ elapsed \in 0..Horizon
  /\ granted \in BOOLEAN
  /\ need \in [Reservers -> Nat]
  /\ wait \in [Reservers -> Nat \cup {-1}]
  /\ spent \in Nat
  /\ age \in 0..Horizon

(* In every window of time no more tokens leave the bucket than it holds     *)
(* plus what arrives in the window; what is left over counts as well.        *)
WithinRate == spent + Refilled <= Max + Rate * age

(* Lazy filling is not seen from outside: each answer is the one a bucket    *)
(* filled at every tick would give, whatever calls came in between.          *)
Ideal == INSTANCE IdealBucket WITH level <- Refilled
IdealSpec == Ideal!Spec

(* ratelimit.go:38 "Reserve blocks until n tokens are available": counting   *)
(* those that have gone on, the rate is kept.                                *)
Sets == INSTANCE FiniteSetsExt
GoneOn == {c \in Reservers : need[c] > 0 /\ wait[c] = -1}
ReserveWithinRate == spent + Sets!MapThenSumSet(LAMBDA c : need[c], GoneOn) <= Max + Rate * age
=============================================================================
