---------------------------- MODULE ResilientCall ----------------------------
(***************************************************************************)
(* fallback.Do around retry.Do around breaker.Do around an operation that  *)
(* must not be repeated (README.md:43, docs/identity.md:34).               *)
(*                                                                         *)
(* Me makes one such call.  Others share the breaker and the idempotency   *)
(* guard; they call breaker.Do directly, as often as they like.  The       *)
(* operation asks guard.Check first and calls guard.Mark when it has been  *)
(* executed, however that ended.  The guard's map has no lock, so a        *)
(* program that shares it must hold one of its own around each of the two. *)
(***************************************************************************)
EXTENDS Integers, FiniteSets, Sequences

CONSTANTS
  Me, Others,             \* the goroutines
  Policies, MaxDuration, Exact, Units,    \* Retry
  Threshold, Cooldown,    \* CircuitBreaker
  MaxFallbacks            \* bound: the longest list of fallbacks

VARIABLES
  p, pc, attempt, wait, lastErr, ctx, result, outcomes, waits,    \* Retry
  state, failures, probeInFlight, sinceFail, call, period,        \* CircuitBreaker
  seen,    \* guard.seen of the operation's key
  op,      \* the operation as each goroutine executes it
  fb,      \* fallbacks called
  answer,  \* what fallback.Do returns, <<>> before
  ran      \* history: how the operation ended for those who executed it

Callers == {Me} \cup Others
R == INSTANCE Retry
C == INSTANCE CircuitBreaker WITH MayPanic <- FALSE

ASSUME ResilientAssumption ==
  /\ IsFiniteSet(Others) /\ Me \notin Others
  /\ Policies \subseteq R!Policy
  /\ MaxDuration \in Nat /\ MaxFallbacks \in Nat
  /\ Exact \in 0..MaxDuration
  /\ Units \subseteq Nat \ {0} /\ {1, 2} \subseteq Units
  /\ Threshold \in Int /\ Cooldown \in Nat

retryVars == <<p, pc, attempt, wait, lastErr, ctx, result, outcomes, waits>>
breakerVars == <<state, failures, probeInFlight, sinceFail, call, period>>
vars == <<retryVars, breakerVars, seen, op, fb, answer, ran>>

Init ==
  /\ R!Init /\ C!Init
  /\ seen = FALSE
  /\ op = [c \in Callers |-> "none"]
  /\ fb = 0
  /\ answer = <<>>
  /\ ran = [c \in Callers |-> "not"]
-----------------------------------------------------------------------------
(* breaker.Do turns the call away, which is a failed attempt of Me's.        *)
RejectWaiting(c) ==    \* slip: a rejection is no attempt
  /\ C!DoOpen(c) \/ C!DoBusy(c)
  /\ c = Me => pc = "calling"
  /\ UNCHANGED <<retryVars, seen, op, fb, answer, ran>>

Reject(c) ==
  /\ C!DoOpen(c) \/ C!DoBusy(c)
  /\ IF c = Me THEN R!FnFails ELSE UNCHANGED retryVars
  /\ UNCHANGED <<seen, op, fb, answer, ran>>

Admit(c) ==
  /\ c = Me => pc = "calling"
  /\ C!DoProbe(c) \/ C!DoClosed(c)
  /\ op' = [op EXCEPT ![c] = "checking"]
  /\ UNCHANGED <<retryVars, seen, fb, answer, ran>>

Check(c) ==
  /\ op[c] = "checking"
  /\ op' = [op EXCEPT ![c] = IF seen THEN "refused" ELSE "running"]
  /\ UNCHANGED <<retryVars, breakerVars, seen, fb, answer, ran>>

(* The operation ends, and Mark.                                             *)
ExecutedUnmarked(c) ==    \* slip: only a success is marked
  /\ op[c] = "running"
  /\ \E r \in {"nil", "fnErr"} :
       /\ op' = [op EXCEPT ![c] = r] /\ ran' = [ran EXCEPT ![c] = r]
       /\ seen' = (seen \/ r = "nil")
  /\ UNCHANGED <<retryVars, breakerVars, fb, answer>>

Executed(c) ==
  /\ op[c] = "running"
  /\ \E r \in {"nil", "fnErr"} : op' = [op EXCEPT ![c] = r] /\ ran' = [ran EXCEPT ![c] = r]
  /\ seen' = TRUE
  /\ UNCHANGED <<retryVars, breakerVars, fb, answer>>

(* breaker.Do records how it ended and returns it: ErrAlreadyExecuted is a   *)
(* failure like any other, for the breaker and for retry.                    *)
ReturnLenient(c) ==    \* slip: ErrAlreadyExecuted is taken for a success
  /\ op[c] \in {"nil", "refused", "fnErr"}
  /\ LET r == IF op[c] = "fnErr" THEN "fnErr" ELSE "nil"
     IN  /\ C!ProbeReturns(c, r) \/ C!ClosedReturns(c, r)
         /\ \/ c # Me /\ UNCHANGED retryVars
            \/ c = Me /\ r = "nil" /\ R!FnSucceeds
            \/ c = Me /\ r = "fnErr" /\ R!FnFails
  /\ op' = [op EXCEPT ![c] = "none"]
  /\ UNCHANGED <<seen, fb, answer, ran>>

Return(c) ==
  /\ op[c] \in {"nil", "refused", "fnErr"}
  /\ LET r == IF op[c] = "nil" THEN "nil" ELSE "fnErr"
     IN  /\ C!ProbeReturns(c, r) \/ C!ClosedReturns(c, r)
         /\ \/ c # Me /\ UNCHANGED retryVars
            \/ c = Me /\ r = "nil" /\ R!FnSucceeds
            \/ c = Me /\ r = "fnErr" /\ R!FnFails
  /\ op' = [op EXCEPT ![c] = "none"]
  /\ UNCHANGED <<seen, fb, answer, ran>>

Retries ==
  /\ R!Loop \/ R!CtxEnds \/ R!SelectDone \/ R!Park \/ R!TimerFires
  /\ UNCHANGED <<breakerVars, seen, op, fb, answer, ran>>

Environment ==
  /\ C!QueryState \/ C!Reset \/ C!Tick
  /\ UNCHANGED <<retryVars, seen, op, fb, answer, ran>>

(* fallback.Do once retry.Do has returned: its nil, or the fallbacks in      *)
(* order until one succeeds, or the last error there was.                    *)
Fallback ==
  /\ pc = "returned" /\ answer = <<>>
  /\ \/ result = <<"nil">> /\ answer' = result /\ UNCHANGED fb
     \/ /\ result # <<"nil">> /\ fb < MaxFallbacks
        /\ fb' = fb + 1
        /\ answer' \in {<<>>, <<"nil">>}
     \/ /\ result # <<"nil">>
        /\ answer' = IF fb = 0 THEN result ELSE <<"fallbackErr", fb>>
        /\ UNCHANGED fb
  /\ UNCHANGED <<retryVars, breakerVars, seen, op, ran>>

Operation(c) == Reject(c) \/ Admit(c) \/ Check(c) \/ Executed(c) \/ Return(c)

Next == (\E c \in Callers : Operation(c)) \/ Retries \/ Environment \/ Fallback

Spec == Init /\ [][Next]_vars

(* Me's goroutine runs, its timers fire and the operation ends.              *)
RetryGoesOn == (R!Loop \/ R!TimerFires) /\ Retries
Fairness == WF_vars(Operation(Me)) /\ WF_vars(RetryGoesOn) /\ WF_vars(Fallback)

FairSpec == Spec /\ Fairness
-----------------------------------------------------------------------------
TypeOK ==
  /\ R!TypeOK /\ C!TypeOK
  /\ seen \in BOOLEAN
  /\ op \in [Callers -> {"none", "checking", "running", "refused", "nil", "fnErr"}]
  /\ fb \in 0..MaxFallbacks
  /\ answer \in {<<>>, <<"nil">>, <<"ctxErr">>} \cup ({"err", "fallbackErr"} \X Nat)
  /\ ran \in [Callers -> {"not", "nil", "fnErr"}]

(* idempotency.go:8: the operation is not retried.  Whatever it returned and *)
(* however the breaker, the other callers and Me's retries go on, it is not  *)
(* begun again once an execution has ended; only callers that were all past  *)
(* Check before that execute it besides.                                     *)
AtMostOnce ==
  [][\A c \in Callers :
       op[c] # "running" /\ op'[c] = "running" => \A d \in Callers : ran[d] = "not"]_vars

(* The answer says what happened to Me's own execution of the operation,     *)
(* whichever of the attempts that was and whatever the breaker and the guard *)
(* made of the others: retry.Do returns nil exactly if it succeeded, and a   *)
(* fallback never runs after a success nor hides one.  A policy without      *)
(* attempts succeeds with nothing done.                                      *)
AnswerExplained ==
  /\ R!ResultExplained
  /\ pc = "returned" /\ p.MaxAttempts > 0 => (result = <<"nil">> <=> ran[Me] = "nil")
  /\ fb > 0 => pc = "returned" /\ result # <<"nil">>
  /\ answer = <<"nil">> => result = <<"nil">> \/ fb > 0
  /\ answer # <<>> /\ fb = 0 => answer = result

(* retry's waits in closed form, whatever kind of failure they follow.       *)
BackoffIsGeometric == R!BackoffIsGeometric

(* The call ends, even if the breaker never closes again.                    *)
CallEnds == <>(answer # <<>>)
=============================================================================
