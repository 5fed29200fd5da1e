------------------------ MODULE ResilientCallProofs ------------------------
(***************************************************************************)
(* What holds of ResilientCall for every set of callers, every policy,     *)
(* threshold and cooldown, and any number of fallbacks.                    *)
(***************************************************************************)
EXTENDS ResilientCall, WellFoundedInduction, TLAPS

RetryResults == {<<>>, <<"nil">>, <<"ctxErr">>} \cup ({"err"} \X Nat)

TypeInv == TypeOK /\ result \in RetryResults

(* A step of the parts, from what it is of each of them.                     *)
RetryStep ==
  \/ R!Loop \/ R!FnSucceeds \/ R!FnFails \/ R!CtxEnds
  \/ R!SelectDone \/ R!Park \/ R!TimerFires \/ UNCHANGED retryVars

BreakerStep ==
  \/ \E c \in Callers :
       \/ C!DoOpen(c) \/ C!DoBusy(c) \/ C!DoProbe(c) \/ C!DoClosed(c)
       \/ \E r \in {"nil", "fnErr"} : C!ProbeReturns(c, r) \/ C!ClosedReturns(c, r)
  \/ C!QueryState \/ C!Reset \/ C!Tick \/ UNCHANGED breakerVars

(* The number of attempts begun, for each place of the loop; no attempt but  *)
(* the last can have succeeded.                                              *)
AttemptsCounted ==
  /\ pc = "loop" => /\ Len(outcomes) = attempt /\ lastErr = attempt
                    /\ attempt = 0 \/ attempt < p.MaxAttempts
  /\ pc = "calling" => Len(outcomes) = attempt /\ attempt < p.MaxAttempts
  /\ pc \in {"selecting", "parked"} =>
       Len(outcomes) = attempt + 1 /\ lastErr = attempt + 1 /\ attempt + 1 < p.MaxAttempts
  /\ pc # "returned" => \A i \in DOMAIN outcomes : ~outcomes[i]
  /\ pc = "parked" => ctx = "live"

(* Me's operation is executed within an attempt of retry's and an admission  *)
(* of the breaker's, and a success ends all attempts.                        *)
WithinAttempt ==
  /\ op[Me] # "none" => pc = "calling"
  /\ \A c \in Callers : op[c] # "none" <=> call[c] \in {"closed", "probe"}
  /\ pc # "returned" => (ran[Me] = "nil" <=> op[Me] = "nil")

(* What has been executed has been marked.                                   *)
Marked == \A c \in Callers : ran[c] # "not" => seen
-----------------------------------------------------------------------------
(* A step of the whole is a step, or none, of retry and of the breaker.      *)
LEMMA Parts == ASSUME [Next]_vars PROVE RetryStep /\ BreakerStep
<1>1. ASSUME NEW c \in Callers, Reject(c) PROVE RetryStep /\ BreakerStep
  BY <1>1 DEF Reject, RetryStep, BreakerStep
<1>2. ASSUME NEW c \in Callers, Admit(c) PROVE RetryStep /\ BreakerStep
  BY <1>2 DEF Admit, RetryStep, BreakerStep
<1>3. ASSUME NEW c \in Callers, Check(c) \/ Executed(c) PROVE RetryStep /\ BreakerStep
  BY <1>3 DEF Check, Executed, RetryStep, BreakerStep
<1>4. ASSUME NEW c \in Callers, Return(c) PROVE RetryStep /\ BreakerStep
  <2> DEFINE r == IF op[c] = "nil" THEN "nil" ELSE "fnErr"
  <2>1. r \in {"nil", "fnErr"} /\ (C!ProbeReturns(c, r) \/ C!ClosedReturns(c, r))
    BY <1>4 DEF Return
  <2>2. UNCHANGED retryVars \/ R!FnSucceeds \/ R!FnFails
    BY <1>4 DEF Return
  <2> HIDE DEF r
  <2>3. QED
    BY <2>1, <2>2 DEF RetryStep, BreakerStep
<1>5. CASE Retries
  BY <1>5 DEF Retries, RetryStep, BreakerStep
<1>6. CASE Environment
  BY <1>6 DEF Environment, RetryStep, BreakerStep
<1>7. CASE Fallback
  BY <1>7 DEF Fallback, RetryStep, BreakerStep
<1>8. CASE UNCHANGED vars
  BY <1>8 DEF vars, RetryStep, BreakerStep
<1>9. QED
  BY <1>1, <1>2, <1>3, <1>4, <1>5, <1>6, <1>7, <1>8 DEF Next, Operation

LEMMA RetryFirst == Init => R!TypeOK /\ result \in RetryResults
<1> SUFFICES ASSUME Init PROVE R!TypeOK /\ result \in RetryResults
  OBVIOUS
<1>1. R!Init
  BY DEF Init
<1>2. PICK q \in Policies : p = R!Defaulted(q) /\ wait = q.InitialWait
  BY <1>1 DEF R!Init
<1>3. q \in R!Policy
  BY <1>2, ResilientAssumption
<1>4. p \in R!Policy /\ p.Multiplier > 0 /\ wait \in Int
  BY <1>2, <1>3 DEF R!Defaulted, R!Half, R!Policy
<1>5. <<>> \in Seq(BOOLEAN) /\ <<>> \in Seq(Int)
  OBVIOUS
<1>6. QED
  BY <1>1, <1>4, <1>5 DEF R!Init, R!TypeOK, RetryResults

LEMMA Digits == Exact \in Nat /\ MaxDuration \in Nat /\ Exact <= MaxDuration
BY ResilientAssumption

LEMMA RoundedIsInt == ASSUME NEW n \in Int, NEW f \in R!Rounded(n) PROVE f \in Int
<1>1. PICK u \in Units : f = u * (n \div u) \/ f = u * (n \div u) + u
  BY DEF R!Rounded
<1>2. u \in Int /\ u > 0
  BY ResilientAssumption
<1>3. n \div u \in Int
  BY <1>2
<1> DEFINE q == n \div u
<1>4. q \in Int
  BY <1>3
<1> HIDE DEF q
<1>5. u * q \in Int
  BY <1>2, <1>4
<1>6. QED
  BY <1>1, <1>2, <1>5 DEF q

LEMMA BackoffIsInt ==
  ASSUME R!TypeOK, NEW d \in R!Products(wait, p.Multiplier) PROVE R!Capped(d) \in Int
<1>1. p.Multiplier \in Int /\ p.MaxWait \in Int /\ wait \in Int
  BY DEF R!TypeOK, R!Policy
<1>2. PICK f \in R!Rounded(wait) : \E h \in R!Rounded(f * p.Multiplier) : d \in R!Truncated(h)
  BY DEF R!Products
<1>3. f \in Int
  BY <1>1, RoundedIsInt
<1>4. f * p.Multiplier \in Int
  BY <1>1, <1>3
<1>5. PICK h \in R!Rounded(f * p.Multiplier) : d \in R!Truncated(h)
  BY <1>2
<1>6. h \in Int
  BY <1>4, RoundedIsInt
<1>7. d \in Int
  <2> DEFINE t == IF h >= 0 THEN h \div 2 ELSE -((-h) \div 2)
  <2>1. t \in Int
    BY <1>6
  <2>2. d = t \/ d = MaxDuration \/ d = -MaxDuration - 1
    BY <1>5 DEF R!Truncated, R!Half
  <2> HIDE DEF t
  <2>3. QED
    BY <2>1, <2>2, Digits
<1>8. QED
  BY <1>1, <1>7 DEF R!Capped

LEMMA RetryTypes ==
  ASSUME R!TypeOK, result \in RetryResults, RetryStep
  PROVE  R!TypeOK' /\ result' \in RetryResults
<1>1. CASE R!Loop
  BY <1>1 DEF R!TypeOK, R!Loop, R!Return, R!Err, RetryResults
<1>2. CASE R!FnSucceeds
  <2>1. outcomes' \in Seq(BOOLEAN)
    BY <1>2 DEF R!TypeOK, R!FnSucceeds
  <2>2. QED
    BY <1>2, <2>1 DEF R!TypeOK, R!FnSucceeds, R!Return, RetryResults
<1>3. CASE R!FnFails
  <2>1. outcomes' = Append(outcomes, FALSE) /\ (waits' = waits \/ waits' = Append(waits, wait))
    BY <1>3 DEF R!FnFails
  <2>2. Append(outcomes, FALSE) \in Seq(BOOLEAN) /\ Append(waits, wait) \in Seq(Int)
    BY DEF R!TypeOK
  <2>3. outcomes' \in Seq(BOOLEAN) /\ waits' \in Seq(Int)
    BY <2>1, <2>2 DEF R!TypeOK
  <2>4. QED
    BY <1>3, <2>3 DEF R!TypeOK, R!FnFails, R!Return, R!Err, RetryResults
<1>4. CASE R!CtxEnds
  BY <1>4 DEF R!TypeOK, R!CtxEnds, R!Return, RetryResults
<1>5. CASE R!SelectDone
  BY <1>5 DEF R!TypeOK, R!SelectDone, R!Return, RetryResults
<1>6. CASE R!Park
  BY <1>6 DEF R!TypeOK, R!Park
<1>7. CASE R!TimerFires
  <2>1. wait' \in Int
    BY <1>7, BackoffIsInt DEF R!TimerFires
  <2>2. QED
    BY <1>7, <2>1 DEF R!TypeOK, R!TimerFires
<1>8. CASE UNCHANGED retryVars
  BY <1>8 DEF R!TypeOK, retryVars
<1>9. QED
  BY <1>1, <1>2, <1>3, <1>4, <1>5, <1>6, <1>7, <1>8 DEF RetryStep

LEMMA BreakerFirst == Init => C!TypeOK
<1> SUFFICES ASSUME C!Init PROVE C!TypeOK
  BY DEF Init
<1>1. sinceFail \in 0..Cooldown
  BY ResilientAssumption DEF C!Init
<1>2. call \in [Callers -> C!Running \cup C!Returned]
  BY DEF C!Init, C!Running, C!Returned
<1>3. QED
  BY <1>1, <1>2 DEF C!Init, C!TypeOK, C!States

LEMMA BreakerTypes == ASSUME C!TypeOK, BreakerStep PROVE C!TypeOK'
<1> USE ResilientAssumption DEF C!TypeOK, C!States, C!Running, C!Returned
<1>1. ASSUME NEW c \in Callers, C!DoOpen(c) \/ C!DoBusy(c) \/ C!DoProbe(c) \/ C!DoClosed(c)
      PROVE  C!TypeOK'
  BY <1>1 DEF C!DoOpen, C!DoBusy, C!DoProbe, C!DoClosed, C!Return
<1>2. ASSUME NEW c \in Callers, NEW r \in {"nil", "fnErr"},
             C!ProbeReturns(c, r) \/ C!ClosedReturns(c, r)
      PROVE  C!TypeOK'
  <2>1. call' \in [Callers -> C!Running \cup C!Returned]
    BY <1>2 DEF C!ProbeReturns, C!ClosedReturns, C!Return
  <2>2. sinceFail' \in 0..Cooldown
    BY <1>2 DEF C!ProbeReturns, C!ClosedReturns, C!Trip
  <2>3. probeInFlight' \in BOOLEAN
    BY <1>2 DEF C!ProbeReturns, C!ClosedReturns
  <2>4. state' \in C!States /\ failures' \in Nat /\ period' \in SUBSET Callers
    BY <1>2 DEF C!ProbeReturns, C!ClosedReturns, C!Trip
  <2>5. QED
    BY <2>1, <2>2, <2>3, <2>4
<1>3. CASE C!QueryState \/ C!Reset \/ C!Tick
  <2>1. sinceFail' \in 0..Cooldown
    BY <1>3 DEF C!QueryState, C!Reset, C!Tick
  <2>2. call' = call
    BY <1>3 DEF C!QueryState, C!Reset, C!Tick
  <2>3. probeInFlight' \in BOOLEAN
    BY <1>3 DEF C!QueryState, C!Reset, C!Tick
  <2>4. state' \in C!States /\ failures' \in Nat /\ period' \in SUBSET Callers
    BY <1>3 DEF C!QueryState, C!Reset, C!Tick
  <2>5. QED
    BY <2>1, <2>2, <2>3, <2>4
<1>4. CASE UNCHANGED breakerVars
  BY <1>4 DEF breakerVars
<1>5. QED
  BY <1>1, <1>2, <1>3, <1>4 DEF BreakerStep
-----------------------------------------------------------------------------
Ops == {"none", "checking", "running", "refused", "nil", "fnErr"}
Answers == {<<>>, <<"nil">>, <<"ctxErr">>} \cup ({"err", "fallbackErr"} \X Nat)
Outcomes == {"not", "nil", "fnErr"}

LEMMA TypeStep == TypeInv /\ [Next]_vars => TypeInv'
<1> SUFFICES ASSUME TypeInv, [Next]_vars PROVE TypeInv'
  OBVIOUS
<1>1. R!TypeOK' /\ result' \in RetryResults
  BY Parts, RetryTypes DEF TypeInv, TypeOK
<1>2. C!TypeOK'
  BY Parts, BreakerTypes DEF TypeInv, TypeOK
<1>3. /\ seen \in BOOLEAN /\ op \in [Callers -> Ops] /\ fb \in 0..MaxFallbacks
      /\ answer \in Answers /\ ran \in [Callers -> Outcomes]
  BY DEF TypeInv, TypeOK, Ops, Answers, Outcomes
<1>4. seen' \in BOOLEAN
  BY <1>3 DEF Next, Operation, Reject, Admit, Check, Executed, Return, Retries, Environment,
              Fallback, vars
<1>5. op' \in [Callers -> Ops]
  <2>1. ASSUME NEW c \in Callers, Operation(c) PROVE op' \in [Callers -> Ops]
    BY <1>3, <2>1 DEF Operation, Reject, Admit, Check, Executed, Return, Ops
  <2>2. QED
    BY <1>3, <2>1 DEF Next, Retries, Environment, Fallback, vars
<1>6. fb' \in 0..MaxFallbacks /\ answer' \in Answers
  <2>1. CASE Fallback
    <3>1. CASE result = <<"nil">> /\ answer' = result /\ UNCHANGED fb
      BY <1>3, <3>1 DEF Answers
    <3>2. CASE fb < MaxFallbacks /\ fb' = fb + 1 /\ answer' \in {<<>>, <<"nil">>}
      BY <1>3, <3>2, ResilientAssumption DEF Answers
    <3>3. CASE answer' = (IF fb = 0 THEN result ELSE <<"fallbackErr", fb>>) /\ UNCHANGED fb
      <4>1. fb \in Nat /\ result \in RetryResults
        BY <1>3, ResilientAssumption DEF TypeInv
      <4>2. QED
        BY <1>3, <3>3, <4>1 DEF Answers, RetryResults
    <3>4. QED
      BY <2>1, <3>1, <3>2, <3>3 DEF Fallback
  <2>2. CASE ~Fallback
    BY <1>3, <2>2 DEF Next, Operation, Reject, Admit, Check, Executed, Return, Retries,
                      Environment, vars
  <2>3. QED
    BY <2>1, <2>2
<1>7. ran' \in [Callers -> Outcomes]
  <2>1. ASSUME NEW c \in Callers, Executed(c) PROVE ran' \in [Callers -> Outcomes]
    BY <1>3, <2>1 DEF Executed, Outcomes
  <2>2. QED
    BY <1>3, <2>1 DEF Next, Operation, Reject, Admit, Check, Return, Retries, Environment,
                      Fallback, vars
<1>8. QED
  BY <1>1, <1>2, <1>4, <1>5, <1>6, <1>7 DEF TypeInv, TypeOK, Ops, Answers, Outcomes

LEMMA TypeFirst == Init => TypeInv
<1> SUFFICES ASSUME Init PROVE TypeInv
  OBVIOUS
<1>1. fb \in 0..MaxFallbacks
  BY ResilientAssumption DEF Init
<1>2. QED
  BY <1>1, RetryFirst, BreakerFirst DEF Init, TypeInv, TypeOK

(* TypeOK, of the whole and of its parts.                                    *)
THEOREM TypeCorrect == Spec => []TypeOK
<1>1. TypeInv => TypeOK
  BY DEF TypeInv
<1>2. QED
  BY <1>1, TypeFirst, TypeStep, PTL DEF Spec

LEMMA MarkedStep == TypeInv /\ Marked /\ [Next]_vars => Marked'
BY DEF TypeInv, TypeOK, Marked, Next, Operation, Reject, Admit, Check, Executed, Return,
       Retries, Environment, Fallback, vars

(* AtMostOnce: an execution that has ended, in whatever way and of whichever *)
(* caller, has been marked, and a marked operation is never begun.           *)
THEOREM NeverBegunAgain == Spec => AtMostOnce
<1> DEFINE Again == \A c \in Callers :
             op[c] # "running" /\ op'[c] = "running" => \A d \in Callers : ran[d] = "not"
<1>1. Init => Marked
  BY DEF Init, Marked
<1>2. TypeInv /\ Marked /\ [Next]_vars => Marked'
  BY MarkedStep
<1>3. TypeInv /\ Marked /\ [Next]_vars => [Again]_vars
  <2> SUFFICES ASSUME TypeInv, Marked, Next PROVE Again
    OBVIOUS
  <2>1. op \in [Callers -> Ops]
    BY DEF TypeInv, TypeOK, Ops
  <2>2. ASSUME NEW c \in Callers, Check(c) PROVE Again
    BY <2>1, <2>2 DEF Check, Marked
  <2>3. ASSUME NEW c \in Callers, Reject(c) \/ Admit(c) \/ Executed(c) \/ Return(c) PROVE Again
    BY <2>1, <2>3 DEF Reject, Admit, Executed, Return
  <2>4. CASE Retries \/ Environment \/ Fallback
    BY <2>4 DEF Retries, Environment, Fallback
  <2>5. QED
    BY <2>2, <2>3, <2>4 DEF Next, Operation
<1>4. QED
  BY <1>1, <1>2, <1>3, TypeFirst, TypeStep, PTL DEF Spec, AtMostOnce
-----------------------------------------------------------------------------
(* retry.Do alone.                                                           *)
LEMMA Outcome ==
  ASSUME NEW q \in Seq(BOOLEAN), NEW b \in BOOLEAN
  PROVE  /\ Append(q, b) \in Seq(BOOLEAN) /\ Len(Append(q, b)) = Len(q) + 1
         /\ DOMAIN Append(q, b) = 1..(Len(q) + 1) /\ DOMAIN q = 1..Len(q) /\ Len(q) \in Nat
         /\ \A i \in 1..Len(q) : Append(q, b)[i] = q[i]
         /\ Append(q, b)[Len(q) + 1] = b
OBVIOUS

LEMMA AttemptFirst == Init => AttemptsCounted /\ R!ResultExplained
<1> SUFFICES ASSUME R!Init PROVE AttemptsCounted /\ R!ResultExplained
  BY DEF Init
<1>1. Len(<<>>) = 0 /\ \A i \in DOMAIN <<>> : FALSE
  OBVIOUS
<1>2. QED
  BY <1>1 DEF R!Init, AttemptsCounted, R!ResultExplained

LEMMA AttemptStep ==
  ASSUME R!TypeOK, AttemptsCounted, R!ResultExplained, RetryStep
  PROVE  AttemptsCounted' /\ R!ResultExplained'
<1> USE DEF R!Return
<1>1. /\ attempt \in Nat /\ lastErr \in Nat /\ p.MaxAttempts \in Int
      /\ outcomes \in Seq(BOOLEAN) /\ Len(outcomes) \in Nat /\ DOMAIN outcomes = 1..Len(outcomes)
  BY DEF R!TypeOK, R!Policy
<1>2. CASE R!Loop
  <2>1. /\ pc = "loop" /\ UNCHANGED <<p, attempt, lastErr, ctx, outcomes>>
        /\ Len(outcomes) = attempt /\ lastErr = attempt
        /\ \A i \in DOMAIN outcomes : ~outcomes[i]
        /\ attempt = 0 \/ attempt < p.MaxAttempts
    BY <1>2 DEF R!Loop, AttemptsCounted
  <2>2. CASE attempt < p.MaxAttempts
    BY <1>1, <1>2, <2>1, <2>2 DEF R!Loop, AttemptsCounted, R!ResultExplained
  <2>3. CASE ~(attempt < p.MaxAttempts)
    <3>1. attempt = 0 /\ p.MaxAttempts <= 0 /\ pc' = "returned" /\ result' = <<"nil">>
      BY <1>1, <1>2, <2>1, <2>3 DEF R!Loop, R!Err
    <3>2. outcomes = <<>>
      BY <1>1, <2>1, <3>1
    <3>3. QED
      BY <1>1, <2>1, <3>1, <3>2 DEF AttemptsCounted, R!ResultExplained
  <2>4. QED
    BY <2>2, <2>3
<1>3. CASE R!FnSucceeds
  <2>1. /\ pc = "calling" /\ pc' = "returned" /\ result' = <<"nil">>
        /\ outcomes' = Append(outcomes, TRUE) /\ UNCHANGED <<p, attempt, ctx>>
        /\ Len(outcomes) = attempt /\ attempt < p.MaxAttempts
        /\ \A i \in DOMAIN outcomes : ~outcomes[i]
    BY <1>3 DEF R!FnSucceeds, AttemptsCounted
  <2>2. /\ Len(outcomes') = attempt + 1 /\ DOMAIN outcomes' = 1..(attempt + 1)
        /\ \A i \in 1..attempt : ~outcomes'[i]
        /\ outcomes'[attempt + 1]
    BY <1>1, <2>1, Outcome
  <2>3. \A i \in DOMAIN outcomes' : outcomes'[i] => i = Len(outcomes')
    BY <1>1, <2>2
  <2>4. AttemptsCounted'
    BY <2>1 DEF AttemptsCounted
  <2>5. Len(outcomes') <= attempt' + 1 /\ ~(p'.MaxAttempts <= 0)
    BY <1>1, <2>1, <2>2
  <2>6. outcomes'[Len(outcomes')]
    BY <2>2
  <2>7. pc' = "returned" /\ result' = <<"nil">>
    BY <2>1
  <2>8. QED
    BY <2>3, <2>4, <2>5, <2>6, <2>7, Zenon DEF R!ResultExplained
<1>4. CASE R!FnFails
  <2>1. /\ pc = "calling" /\ outcomes' = Append(outcomes, FALSE)
        /\ UNCHANGED <<p, attempt, ctx>> /\ lastErr' = attempt + 1
        /\ Len(outcomes) = attempt /\ attempt < p.MaxAttempts
        /\ \A i \in DOMAIN outcomes : ~outcomes[i]
    BY <1>4 DEF R!FnFails, AttemptsCounted
  <2>2. /\ Len(outcomes') = attempt + 1 /\ DOMAIN outcomes' = 1..(attempt + 1)
        /\ \A i \in 1..attempt : ~outcomes'[i]
        /\ ~outcomes'[attempt + 1]
    BY <1>1, <2>1, Outcome
  <2>3. \A i \in DOMAIN outcomes' : ~outcomes'[i]
    BY <1>1, <2>2
  <2>4. CASE attempt = p.MaxAttempts - 1
    <3>1. pc' = "returned" /\ result' = <<"err", p.MaxAttempts>>
      BY <1>1, <1>4, <2>1, <2>4 DEF R!FnFails, R!Err
    <3>2. QED
      BY <1>1, <2>1, <2>2, <2>3, <2>4, <3>1 DEF AttemptsCounted, R!ResultExplained
  <2>5. CASE attempt # p.MaxAttempts - 1
    <3>1. pc' = "selecting" /\ attempt + 1 < p.MaxAttempts /\ lastErr' = attempt + 1
      BY <1>1, <1>4, <2>1, <2>5 DEF R!FnFails
    <3>2. QED
      BY <1>1, <2>1, <2>2, <2>3, <3>1 DEF AttemptsCounted, R!ResultExplained
  <2>6. QED
    BY <2>4, <2>5
<1>5. CASE R!CtxEnds \/ R!SelectDone
  <2>1. /\ pc # "returned" /\ ctx' = "done" /\ UNCHANGED <<p, attempt, lastErr, outcomes>>
        /\ \/ pc' = pc /\ result' = result /\ pc # "parked"
           \/ pc \in {"selecting", "parked"} /\ pc' = "returned" /\ result' = <<"ctxErr">>
    BY <1>5 DEF R!CtxEnds, R!SelectDone
  <2>2. CASE pc' = pc /\ result' = result /\ pc # "parked"
    BY <1>1, <2>1, <2>2 DEF AttemptsCounted, R!ResultExplained
  <2>3. CASE /\ pc \in {"selecting", "parked"} /\ pc' = "returned" /\ result' = <<"ctxErr">>
    <3>1. /\ Len(outcomes) = attempt + 1 /\ attempt + 1 < p.MaxAttempts
          /\ \A i \in DOMAIN outcomes : ~outcomes[i]
      BY <2>1, <2>3 DEF AttemptsCounted
    <3>2. Len(outcomes) \in 1..(p.MaxAttempts - 1) /\ Len(outcomes) <= attempt + 1
      BY <1>1, <3>1
    <3>3. AttemptsCounted'
      BY <2>3 DEF AttemptsCounted
    <3>4. p.MaxAttempts > 0 /\ ~(p.MaxAttempts <= 0)
      BY <1>1, <3>1
    <3>5. QED
      BY <2>1, <2>3, <3>1, <3>2, <3>3, <3>4 DEF R!ResultExplained
  <2>4. QED
    BY <2>1, <2>2, <2>3
<1>6. CASE R!Park
  BY <1>1, <1>6 DEF R!Park, AttemptsCounted, R!ResultExplained
<1>7. CASE R!TimerFires
  <2>1. /\ pc \in {"selecting", "parked"} /\ pc' = "loop" /\ attempt' = attempt + 1
        /\ UNCHANGED <<p, lastErr, ctx, result, outcomes>>
        /\ Len(outcomes) = attempt + 1 /\ lastErr = attempt + 1 /\ attempt + 1 < p.MaxAttempts
        /\ \A i \in DOMAIN outcomes : ~outcomes[i]
    BY <1>7 DEF R!TimerFires, AttemptsCounted
  <2>2. QED
    BY <1>1, <2>1 DEF AttemptsCounted, R!ResultExplained
<1>8. CASE UNCHANGED retryVars
  BY <1>8 DEF retryVars, AttemptsCounted, R!ResultExplained
<1>9. QED
  BY <1>2, <1>3, <1>4, <1>5, <1>6, <1>7, <1>8 DEF RetryStep

(* A retry that has returned stays as it is, and a policy never changes.     *)
LEMMA ReturnedStays ==
  ASSUME RetryStep
  PROVE  p' = p /\ (pc = "returned" => UNCHANGED <<pc, result>>)
BY DEF RetryStep, R!Loop, R!FnSucceeds, R!FnFails, R!CtxEnds, R!SelectDone, R!Park,
       R!TimerFires, retryVars

(* WithinAttempt, one step per action of the operation.                      *)
LEMMA WithinStep ==
  ASSUME TypeInv, WithinAttempt, [Next]_vars PROVE WithinAttempt'
<1>1. /\ op \in [Callers -> Ops] /\ ran \in [Callers -> Outcomes] /\ Me \in Callers
      /\ call \in [Callers -> C!Running \cup C!Returned]
      /\ pc \in {"loop", "calling", "selecting", "parked", "returned"}
  BY DEF TypeInv, TypeOK, R!TypeOK, C!TypeOK, Ops, Outcomes, Callers
<1>2. ASSUME NEW c \in Callers, Reject(c) PROVE WithinAttempt'
  <2>1. /\ UNCHANGED <<op, ran>> /\ call[c] \notin {"closed", "probe"}
        /\ \E r \in {"ErrOpen", "ErrHalfOpen"} : call' = [call EXCEPT ![c] = r]
    BY <1>2 DEF Reject, C!DoOpen, C!DoBusy, C!Return, C!InFlight, C!Running
  <2>2. c # Me => pc' = pc
    BY <1>2 DEF Reject, retryVars
  <2>3. c = Me => pc = "calling" /\ op[Me] = "none"
    BY <1>1, <1>2, <2>1 DEF Reject, R!FnFails, WithinAttempt
  <2>4. QED
    BY <1>1, <2>1, <2>2, <2>3 DEF WithinAttempt
<1>3. ASSUME NEW c \in Callers, Admit(c) PROVE WithinAttempt'
  <2>1. /\ op' = [op EXCEPT ![c] = "checking"] /\ UNCHANGED <<pc, ran>>
        /\ c = Me => pc = "calling"
        /\ call[c] \notin {"closed", "probe"}
        /\ \E r \in {"closed", "probe"} : call' = [call EXCEPT ![c] = r]
    BY <1>3 DEF Admit, C!DoProbe, C!DoClosed, C!InFlight, C!Running, retryVars
  <2>2. op[c] = "none"
    BY <2>1 DEF WithinAttempt
  <2>3. QED
    BY <1>1, <2>1, <2>2 DEF WithinAttempt
<1>4. ASSUME NEW c \in Callers, Check(c) PROVE WithinAttempt'
  <2>1. /\ op[c] = "checking" /\ UNCHANGED <<pc, ran, call>>
        /\ \E w \in {"refused", "running"} : op' = [op EXCEPT ![c] = w]
    BY <1>4 DEF Check, retryVars, breakerVars
  <2>2. QED
    BY <1>1, <2>1 DEF WithinAttempt
<1>5. ASSUME NEW c \in Callers, Executed(c) PROVE WithinAttempt'
  <2>1. /\ op[c] = "running" /\ UNCHANGED <<pc, call>>
        /\ \E r \in {"nil", "fnErr"} :
             op' = [op EXCEPT ![c] = r] /\ ran' = [ran EXCEPT ![c] = r]
    BY <1>5 DEF Executed, retryVars, breakerVars
  <2>2. QED
    BY <1>1, <2>1 DEF WithinAttempt
<1>6. ASSUME NEW c \in Callers, Return(c) PROVE WithinAttempt'
  <2>1. /\ op[c] \in {"nil", "refused", "fnErr"} /\ op' = [op EXCEPT ![c] = "none"]
        /\ ran' = ran
        /\ \E r \in {"nil", "fnErr"} : call' = [call EXCEPT ![c] = r]
    BY <1>6 DEF Return, C!ProbeReturns, C!ClosedReturns, C!Return
  <2>2. CASE c # Me
    <3>1. pc' = pc
      BY <1>6, <2>2 DEF Return, retryVars
    <3>2. QED
      BY <1>1, <2>1, <2>2, <3>1 DEF WithinAttempt
  <2>3. CASE c = Me /\ op[Me] = "nil"
    <3>1. pc' = "returned"
      BY <1>6, <2>3 DEF Return, R!FnSucceeds, R!Return
    <3>2. QED
      BY <1>1, <2>1, <2>3, <3>1 DEF WithinAttempt
  <2>4. CASE c = Me /\ op[Me] # "nil"
    <3>1. pc = "calling"
      BY <1>6, <2>4 DEF Return, R!FnFails
    <3>2. ran[Me] # "nil"
      BY <2>4, <3>1 DEF WithinAttempt
    <3>3. QED
      BY <1>1, <2>1, <2>4, <3>2 DEF WithinAttempt
  <2>5. QED
    BY <2>2, <2>3, <2>4
<1>7. CASE Retries
  <2>1. UNCHANGED <<op, ran, call>> /\ (op[Me] # "none" => pc' = pc)
    BY <1>7 DEF Retries, breakerVars, WithinAttempt, R!Loop, R!CtxEnds, R!SelectDone, R!Park,
                R!TimerFires
  <2>2. pc # "returned" \/ pc' = pc
    BY <1>7 DEF Retries, R!Loop, R!CtxEnds, R!SelectDone, R!Park, R!TimerFires
  <2>3. QED
    BY <1>1, <2>1, <2>2 DEF WithinAttempt
<1>8. CASE Environment \/ Fallback \/ UNCHANGED vars
  <2>1. UNCHANGED <<op, ran, call, pc>>
    BY <1>8 DEF Environment, Fallback, vars, retryVars, breakerVars, C!QueryState, C!Reset, C!Tick
  <2>2. QED
    BY <2>1 DEF WithinAttempt
<1>9. QED
  BY <1>2, <1>3, <1>4, <1>5, <1>6, <1>7, <1>8 DEF Next, Operation

(* A retry with an attempt to make returns nil exactly if Me executed the    *)
(* operation with success.                                                   *)
SuccessIsMine ==
  pc = "returned" /\ p.MaxAttempts > 0 => (result = <<"nil">> <=> ran[Me] = "nil")

LEMMA SuccessStep ==
  ASSUME TypeInv, AttemptsCounted, WithinAttempt, SuccessIsMine, [Next]_vars
  PROVE  SuccessIsMine'
<1>1. /\ ran \in [Callers -> Outcomes] /\ Me \in Callers
      /\ attempt \in Nat /\ p.MaxAttempts \in Int /\ p' = p
      /\ pc = "returned" => UNCHANGED <<pc, result>>
  BY Parts, ReturnedStays DEF TypeInv, TypeOK, R!TypeOK, R!Policy, Outcomes, Callers
\* the execution of another caller, or none: only retry's return matters
<1>2. ASSUME pc' = pc, result' = result, ran'[Me] = ran[Me] PROVE SuccessIsMine'
  BY <1>1, <1>2 DEF SuccessIsMine
<1>3. ASSUME ran' = ran, ran[Me] # "nil", pc' = "returned" => result' # <<"nil">>
      PROVE  SuccessIsMine'
  BY <1>3 DEF SuccessIsMine
<1>4. ASSUME R!FnFails PROVE pc = "calling" /\ (pc' = "returned" => result' # <<"nil">>)
  <2>1. pc = "calling" /\ (pc' = "returned" => result' = R!Err(attempt + 1))
    BY <1>4 DEF R!FnFails, R!Return
  <2>2. R!Err(attempt + 1) # <<"nil">>
    BY <1>1 DEF R!Err
  <2>3. QED
    BY <2>1, <2>2
<1>5. ASSUME NEW c \in Callers, Reject(c) PROVE SuccessIsMine'
  <2>1. ran' = ran
    BY <1>5 DEF Reject
  <2>2. CASE c # Me
    BY <1>2, <1>5, <2>1, <2>2 DEF Reject, retryVars
  <2>3. CASE c = Me
    <3>1. R!FnFails /\ call[Me] \notin {"closed", "probe"}
      BY <1>5, <2>3 DEF Reject, C!DoOpen, C!DoBusy, C!InFlight, C!Running
    <3>2. pc = "calling" /\ op[Me] = "none"
      BY <1>1, <1>4, <3>1 DEF WithinAttempt
    <3>3. ran[Me] # "nil"
      BY <3>2 DEF WithinAttempt
    <3>4. QED
      BY <1>3, <1>4, <2>1, <3>1, <3>3
  <2>4. QED
    BY <2>2, <2>3
<1>6. ASSUME NEW c \in Callers, Admit(c) \/ Check(c) PROVE SuccessIsMine'
  BY <1>2, <1>6 DEF Admit, Check, retryVars
<1>7. ASSUME NEW c \in Callers, Executed(c) PROVE SuccessIsMine'
  <2>1. UNCHANGED <<pc, result>> /\ op[c] = "running"
    BY <1>7 DEF Executed, retryVars
  <2>2. CASE c # Me
    <3>1. ran'[Me] = ran[Me]
      BY <1>1, <1>7, <2>2 DEF Executed
    <3>2. QED
      BY <1>2, <2>1, <3>1
  <2>3. CASE c = Me
    <3>1. pc = "calling"
      BY <2>1, <2>3 DEF WithinAttempt
    <3>2. QED
      BY <2>1, <3>1 DEF SuccessIsMine
  <2>4. QED
    BY <2>2, <2>3
<1>8. ASSUME NEW c \in Callers, Return(c) PROVE SuccessIsMine'
  <2>1. ran' = ran /\ op[c] \in {"nil", "refused", "fnErr"}
    BY <1>8 DEF Return
  <2>2. CASE c # Me
    BY <1>2, <1>8, <2>1, <2>2 DEF Return, retryVars
  <2>3. CASE c = Me /\ op[Me] = "nil"
    <3>1. pc = "calling" /\ pc' = "returned" /\ result' = <<"nil">>
      BY <1>8, <2>3 DEF Return, R!FnSucceeds, R!Return
    <3>2. ran[Me] = "nil"
      BY <2>3, <3>1 DEF WithinAttempt
    <3>3. QED
      BY <2>1, <3>1, <3>2 DEF SuccessIsMine
  <2>4. CASE c = Me /\ op[Me] # "nil"
    <3>1. R!FnFails
      BY <1>8, <2>4 DEF Return
    <3>2. ran[Me] # "nil"
      BY <1>4, <2>4, <3>1 DEF WithinAttempt
    <3>3. QED
      BY <1>3, <1>4, <2>1, <3>1, <3>2
  <2>5. QED
    BY <2>2, <2>3, <2>4
<1>9. CASE Retries
  <2>1. ran' = ran
    BY <1>9 DEF Retries
  <2>2. CASE R!Loop
    <3>1. pc = "loop" /\ (attempt = 0 \/ attempt < p.MaxAttempts)
      BY <2>2 DEF R!Loop, AttemptsCounted
    <3>2. pc' = "returned" => ~(attempt < p.MaxAttempts)
      BY <2>2 DEF R!Loop
    <3>3. pc' = "returned" => ~(p.MaxAttempts > 0)
      BY <1>1, <3>1, <3>2
    <3>4. QED
      BY <1>1, <3>3 DEF SuccessIsMine
  <2>3. CASE R!CtxEnds \/ R!SelectDone
    <3>1. CASE UNCHANGED <<pc, result>>
      BY <1>2, <2>1, <3>1
    <3>2. CASE ~UNCHANGED <<pc, result>>
      <4>1. pc \in {"selecting", "parked"} /\ result' = <<"ctxErr">>
        BY <2>3, <3>2 DEF R!CtxEnds, R!SelectDone, R!Return
      <4>2. ran[Me] # "nil"
        BY <4>1 DEF WithinAttempt
      <4>3. QED
        BY <1>3, <2>1, <4>1, <4>2
    <3>3. QED
      BY <3>1, <3>2
  <2>4. CASE R!Park \/ R!TimerFires
    BY <2>4 DEF R!Park, R!TimerFires, SuccessIsMine
  <2>5. QED
    BY <1>9, <2>2, <2>3, <2>4 DEF Retries
<1>10. CASE Environment \/ Fallback \/ UNCHANGED vars
  BY <1>2, <1>10 DEF Environment, Fallback, vars, retryVars
<1>11. QED
  BY <1>5, <1>6, <1>7, <1>8, <1>9, <1>10 DEF Next, Operation

(* What fallback.Do has, or is to have, its answer from.                     *)
FallbackInv ==
  /\ fb > 0 => pc = "returned" /\ result # <<"nil">>
  /\ answer = <<"nil">> => result = <<"nil">> \/ fb > 0
  /\ answer # <<>> /\ fb = 0 => answer = result
  /\ answer # <<>> => pc = "returned"

LEMMA FallbackStep == ASSUME TypeInv, FallbackInv, [Next]_vars PROVE FallbackInv'
<1>1. fb \in Nat
  BY ResilientAssumption DEF TypeInv, TypeOK
<1>2. pc = "returned" => UNCHANGED <<pc, result>>
  BY Parts, ReturnedStays
<1>3. CASE Fallback
  <2>1. pc = "returned" /\ answer = <<>> /\ UNCHANGED <<pc, result>>
    BY <1>2, <1>3 DEF Fallback
  <2>2. CASE result = <<"nil">> /\ answer' = result /\ UNCHANGED fb
    BY <2>1, <2>2 DEF FallbackInv
  <2>3. CASE result # <<"nil">> /\ fb' = fb + 1
    <3>1. fb' > 0 /\ fb' # 0
      BY <1>1, <2>3
    <3>2. QED
      BY <2>1, <2>3, <3>1 DEF FallbackInv
  <2>4. CASE /\ result # <<"nil">> /\ UNCHANGED fb
             /\ answer' = (IF fb = 0 THEN result ELSE <<"fallbackErr", fb>>)
    <3>1. answer' # <<"nil">> \/ fb > 0
      BY <1>1, <2>4
    <3>2. QED
      BY <1>1, <2>1, <2>4, <3>1 DEF FallbackInv
  <2>5. QED
    BY <1>3, <2>2, <2>3, <2>4 DEF Fallback
<1>4. CASE ~Fallback
  <2>1. UNCHANGED <<fb, answer>>
    BY <1>4 DEF Next, Operation, Reject, Admit, Check, Executed, Return, Retries, Environment, vars
  <2>2. QED
    BY <1>2, <2>1 DEF FallbackInv
<1>5. QED
  BY <1>3, <1>4

(* AnswerExplained: Me's operation is executed inside an attempt that has    *)
(* not returned, once at most with success, and a fallback's answer comes    *)
(* after retry's, which no longer changes.                                   *)
THEOREM AnswersAreExplained == Spec => []AnswerExplained
<1> DEFINE Explained == /\ AttemptsCounted /\ R!ResultExplained
                        /\ WithinAttempt /\ SuccessIsMine /\ FallbackInv
<1>1. Init => Explained
  <2> SUFFICES ASSUME Init PROVE Explained
    OBVIOUS
  <2>1. WithinAttempt
    BY DEF Init, R!Init, C!Init, WithinAttempt, Callers
  <2>2. FallbackInv /\ SuccessIsMine
    BY DEF Init, R!Init, FallbackInv, SuccessIsMine
  <2>3. QED
    BY <2>1, <2>2, AttemptFirst
<1>2. TypeInv /\ Explained /\ [Next]_vars => Explained'
  <2> SUFFICES ASSUME TypeInv, Explained, [Next]_vars PROVE Explained'
    OBVIOUS
  <2>1. AttemptsCounted' /\ R!ResultExplained'
    BY Parts, AttemptStep DEF TypeInv, TypeOK
  <2>2. WithinAttempt'
    BY WithinStep
  <2>3. FallbackInv'
    BY FallbackStep
  <2>4. SuccessIsMine'
    BY SuccessStep
  <2>5. QED
    BY <2>1, <2>2, <2>3, <2>4
<1>3. Explained => AnswerExplained
  BY DEF AnswerExplained, FallbackInv, SuccessIsMine
<1>4. QED
  BY <1>1, <1>2, <1>3, TypeFirst, TypeStep, PTL DEF Spec
-----------------------------------------------------------------------------
(* The closed form of the waits is well defined: what it multiplies out to   *)
(* over the first n numbers exists, one such function extends another, and   *)
(* their ends make the function over all numbers.                            *)
Power(f, a, m, i) == IF i = 0 THEN a ELSE f[i - 1] * m
Powers(a, m) == CHOOSE f : f = [i \in Nat |-> Power(f, a, m, i)]

LEMMA LeastNumber ==
  ASSUME NEW T \in SUBSET Nat, T # {} PROVE \E n \in T : \A m \in T : n <= m
<1>1. IsWellFoundedOn(OpToRel(<, Nat), Nat)
  BY NatLessThanWellFounded
<1>2. PICK n \in T : \A m \in T : <<m, n>> \notin OpToRel(<, Nat)
  BY <1>1, WFMin
<1>3. \A m \in T : <<m, n>> \notin {r \in Nat \X Nat : r[1] < r[2]}
  BY <1>2 DEF OpToRel
<1>4. \A m \in T : ~(m < n)
  BY <1>3
<1>5. QED
  BY <1>4

LEMMA Induction ==
  ASSUME NEW T \in SUBSET Nat, 0 \in T, \A n \in T : n + 1 \in T PROVE T = Nat
<1> SUFFICES ASSUME Nat \ T # {} PROVE FALSE
  OBVIOUS
<1>1. PICK n \in Nat \ T : \A m \in Nat \ T : n <= m
  BY LeastNumber
<1>2. n - 1 \in Nat /\ ~(n <= n - 1)
  BY <1>1
<1>3. n - 1 \in T
  BY <1>1, <1>2
<1>4. (n - 1) + 1 = n
  BY <1>1
<1>5. QED
  BY <1>1, <1>3, <1>4

LEMMA PowersUpTo ==
  ASSUME NEW a, NEW m, NEW n \in Nat
  PROVE  \E f : f = [i \in 0..n |-> Power(f, a, m, i)]
<1> DEFINE Good(k) == \E f : f = [i \in 0..k |-> Power(f, a, m, i)]
           T == {k \in Nat : Good(k)}
<1>1. Good(0)
  <2> DEFINE f == [i \in 0..0 |-> a]
  <2>1. \A i \in 0..0 : Power(f, a, m, i) = a
    BY DEF Power
  <2>2. f = [i \in 0..0 |-> Power(f, a, m, i)]
    BY <2>1
  <2>3. QED
    BY <2>2
<1>2. ASSUME NEW k \in Nat, Good(k) PROVE Good(k + 1)
  <2>1. PICK f : f = [i \in 0..k |-> Power(f, a, m, i)]
    BY <1>2
  <2> DEFINE g == [i \in 0..(k + 1) |-> Power(f, a, m, i)]
  <2>2. \A i \in 0..k : g[i] = f[i]
    <3>1. \A i \in 0..k : f[i] = Power(f, a, m, i)
      BY <2>1
    <3>2. QED
      BY <3>1
  <2>3. ASSUME NEW i \in 0..(k + 1) PROVE Power(g, a, m, i) = Power(f, a, m, i)
    <3>1. i # 0 => i - 1 \in 0..k
      OBVIOUS
    <3>2. i # 0 => g[i - 1] = f[i - 1]
      BY <2>2, <3>1
    <3> HIDE DEF g
    <3>3. QED
      BY <3>2 DEF Power
  <2>4. g = [i \in 0..(k + 1) |-> Power(g, a, m, i)]
    BY <2>3
  <2>5. QED
    BY <2>4
<1> HIDE DEF Good
<1>3. T = Nat
  <2>1. T \in SUBSET Nat /\ 0 \in T /\ \A k \in T : k + 1 \in T
    BY <1>1, <1>2
  <2> HIDE DEF T
  <2>2. QED
    BY <2>1, Induction
<1>4. QED
  BY <1>3 DEF Good

LEMMA PowersAgree ==
  ASSUME NEW a, NEW m, NEW j \in Nat, NEW k \in Nat, j <= k, NEW f, NEW g,
         \A i \in 0..j : f[i] = Power(f, a, m, i),
         \A i \in 0..k : g[i] = Power(g, a, m, i)
  PROVE  f[j] = g[j]
<1> DEFINE T == {i \in Nat : i <= j => f[i] = g[i]}
<1>1. 0 \in T
  BY DEF Power
<1>2. ASSUME NEW i \in T PROVE i + 1 \in T
  <2> SUFFICES ASSUME i + 1 <= j PROVE f[i + 1] = g[i + 1]
    OBVIOUS
  <2>1. i \in Nat /\ i <= j /\ i + 1 \in 0..j /\ i + 1 \in 0..k /\ i + 1 # 0 /\ (i + 1) - 1 = i
    OBVIOUS
  <2>2. f[i] = g[i]
    BY <2>1
  <2>3. f[i + 1] = f[i] * m /\ g[i + 1] = g[i] * m
    BY <2>1 DEF Power
  <2>4. QED
    BY <2>2, <2>3
<1>3. T = Nat
  <2>1. T \in SUBSET Nat
    OBVIOUS
  <2> HIDE DEF T
  <2>2. QED
    BY <1>1, <1>2, <2>1, Induction
<1>4. QED
  BY <1>3

LEMMA PowersDefined ==
  ASSUME NEW a \in Int, NEW m \in Int
  PROVE  /\ \A i \in Nat : Powers(a, m)[i] \in Int
         /\ Powers(a, m)[0] = a
         /\ \A i \in Nat : Powers(a, m)[i + 1] = Powers(a, m)[i] * m
<1> DEFINE F(n) == CHOOSE f : f = [i \in 0..n |-> Power(f, a, m, i)]
           g == [n \in Nat |-> F(n)[n]]
<1>1. ASSUME NEW n \in Nat PROVE F(n) = [i \in 0..n |-> Power(F(n), a, m, i)]
  BY PowersUpTo
<1> HIDE DEF F
<1>2. ASSUME NEW n \in Nat, NEW i \in 0..n PROVE F(n)[i] = Power(F(n), a, m, i)
  BY <1>1
<1>3. ASSUME NEW n \in Nat PROVE g[n] = Power(g, a, m, n)
  <2>1. g[n] = Power(F(n), a, m, n)
    BY <1>2
  <2>2. CASE n = 0
    BY <2>1, <2>2 DEF Power
  <2>3. CASE n # 0
    <3>1. n - 1 \in Nat /\ n - 1 <= n
      BY <2>3
    <3>2. F(n - 1)[n - 1] = F(n)[n - 1]
      <4>1. /\ \A i \in 0..(n - 1) : F(n - 1)[i] = Power(F(n - 1), a, m, i)
            /\ \A i \in 0..n : F(n)[i] = Power(F(n), a, m, i)
        BY <1>2, <3>1
      <4>2. QED
        BY <3>1, <4>1, PowersAgree
    <3>3. g[n - 1] = F(n)[n - 1]
      BY <3>1, <3>2
    <3> HIDE DEF g
    <3>4. QED
      BY <2>1, <2>3, <3>3 DEF Power
  <2>4. QED
    BY <2>2, <2>3
<1>4. g = [n \in Nat |-> Power(g, a, m, n)]
  BY <1>3
<1> HIDE DEF g
<1>5. Powers(a, m) = [n \in Nat |-> Power(Powers(a, m), a, m, n)]
  BY <1>4 DEF Powers
<1> DEFINE P == Powers(a, m)
<1>6. \A n \in Nat : P[n] = Power(P, a, m, n)
  BY <1>5
<1> HIDE DEF P
<1>7. P[0] = a /\ \A i \in Nat : P[i + 1] = P[i] * m
  <2>1. \A i \in Nat : i + 1 \in Nat /\ i + 1 # 0 /\ (i + 1) - 1 = i
    OBVIOUS
  <2>2. QED
    BY <1>6, <2>1 DEF Power
<1>8. \A i \in Nat : P[i] \in Int
  <2> DEFINE T == {i \in Nat : P[i] \in Int}
  <2>1. T \in SUBSET Nat /\ 0 \in T /\ \A i \in T : i + 1 \in T
    <3>1. \A x \in Int : x * m \in Int
      OBVIOUS
    <3>2. QED
      BY <1>7, <3>1
  <2> HIDE DEF T
  <2>2. T = Nat
    BY <2>1, Induction
  <2>3. QED
    BY <2>2 DEF T
<1>9. QED
  BY <1>7, <1>8 DEF P

(* What is small enough to be exact is not rounded, nor is its double.       *)
LEMMA SmallIsExact ==
  ASSUME NEW n \in Int, R!Fits(n) PROVE R!Rounded(n) = {n} /\ R!Rounded(2 * n) = {2 * n}
<1>1. Units \subseteq Nat \ {0} /\ 1 \in Units /\ 2 \in Units /\ Exact \in Nat
  BY ResilientAssumption, Digits
<1> DEFINE Unit(i) == {w \in Units : i \in R!Reach(w) /\ \A v \in Units : i \in R!Reach(v) => w <= v}
           Near(i, u) == LET lower == u * (i \div u)
                             up == 2 * (i - lower) - u
                         IN  IF up < 0 \/ (up = 0 /\ (i \div u) % 2 = 0) THEN lower ELSE lower + u
<1>2. \A i : R!Rounded(i) = {Near(i, u) : u \in Unit(i)}
  BY DEF R!Rounded
<1>3. R!Reach(1) = -Exact..Exact /\ R!Reach(2) = -(2 * Exact)..(2 * Exact)
  BY <1>1 DEF R!Reach
<1>4. \A i \in Int : Near(i, 1) = i
  OBVIOUS
<1>5. Near(2 * n, 2) = 2 * n
  OBVIOUS
<1> HIDE DEF Near
<1>6. ASSUME NEW i, NEW u \in Units, i \in R!Reach(u), \A v \in Units : i \in R!Reach(v) => u <= v
      PROVE  Unit(i) = {u}
  <2>1. u \in Unit(i)
    BY <1>6
  <2>2. \A w \in Unit(i) : w \in Int /\ u \in Int /\ w <= u /\ u <= w
    BY <1>1, <1>6
  <2>3. \A w \in Unit(i) : w = u
    BY <2>2
  <2> HIDE DEF Unit
  <2>4. QED
    BY <2>1, <2>3
<1> HIDE DEF Unit
<1>7. ASSUME NEW i \in -Exact..Exact PROVE Unit(i) = {1}
  <2>1. \A v \in Units : 1 <= v
    BY <1>1
  <2>2. QED
    BY <1>1, <1>3, <1>6, <2>1
<1>8. Unit(2 * n) = {1} \/ Unit(2 * n) = {2}
  <2>1. CASE 2 * n \in -Exact..Exact
    BY <1>7, <2>1
  <2>2. CASE 2 * n \notin -Exact..Exact
    <3>1. 2 * n \in R!Reach(2) /\ 2 * n \notin R!Reach(1)
      BY <1>1, <1>3, <2>2 DEF R!Fits
    <3>2. ASSUME NEW v \in Units, 2 * n \in R!Reach(v) PROVE 2 <= v
      <4>1. v \in Nat /\ v # 0 /\ v # 1
        BY <1>1, <3>1, <3>2
      <4>2. QED
        BY <4>1
    <3>3. QED
      BY <1>1, <1>6, <3>1, <3>2
  <2>3. QED
    BY <2>1, <2>2
<1>9. R!Rounded(n) = {n}
  BY <1>2, <1>4, <1>7 DEF R!Fits
<1>10. R!Rounded(2 * n) = {2 * n}
  BY <1>2, <1>4, <1>5, <1>8
<1>11. QED
  BY <1>9, <1>10

LEMMA Smaller ==
  ASSUME NEW x \in Int, NEW m \in Int, m >= 1, R!Fits(x * m) PROVE R!Fits(x)
<1>1. Exact \in Nat
  BY Digits
<1>2. CASE x >= 0
  <2>1. x * m >= x
    BY <1>2
  <2>2. QED
    BY <1>1, <1>2, <2>1 DEF R!Fits
<1>3. CASE x < 0
  <2>1. x * m <= x
    BY <1>3
  <2>2. QED
    BY <1>1, <1>3, <2>1 DEF R!Fits
<1>4. QED
  BY <1>2, <1>3

LEMMA Twice == \A x, m \in Int : x * (2 * m) = 2 * (x * m) /\ x * m \in Int
OBVIOUS

LEMMA WholeFactor ==
  ASSUME R!TypeOK, p.Multiplier % 2 = 0
  PROVE  R!Factor \in Int /\ R!Factor >= 1 /\ p.Multiplier = 2 * R!Factor
<1>1. p.Multiplier \in Int /\ p.Multiplier > 0
  BY DEF R!TypeOK, R!Policy
<1>2. \A i \in Int : i > 0 /\ i % 2 = 0 => i \div 2 \in Int /\ i = 2 * (i \div 2) /\ i \div 2 >= 1
  OBVIOUS
<1>3. QED
  BY <1>1, <1>2 DEF R!Factor, R!Half

(* A small product is neither rounded nor truncated, nor does it overflow.   *)
LEMMA SmallProduct ==
  ASSUME R!TypeOK, p.Multiplier % 2 = 0, R!Fits(wait * R!Factor)
  PROVE  R!Products(wait, p.Multiplier) = {wait * R!Factor}
<1> DEFINE m == R!Factor
           y == wait * m
<1>1. m \in Int /\ m >= 1 /\ p.Multiplier = 2 * m /\ wait \in Int
  BY WholeFactor DEF R!TypeOK
<1> HIDE DEF m
<1>2. y \in Int /\ wait * p.Multiplier = 2 * y
  BY <1>1, Twice
<1>3. R!Fits(wait) /\ R!Fits(y)
  BY <1>1, Smaller DEF m
<1> HIDE DEF y
<1>4. R!Rounded(wait) = {wait} /\ R!Rounded(wait * p.Multiplier) = {2 * y}
  BY <1>1, <1>2, <1>3, SmallIsExact
<1>5. R!Truncated(2 * y) = {y}
  <2>1. (IF 2 * y >= 0 THEN (2 * y) \div 2 ELSE -((-(2 * y)) \div 2)) = y
    BY <1>2
  <2>2. ~(y > MaxDuration) /\ ~(y < -MaxDuration - 1)
    BY <1>2, <1>3, Digits DEF R!Fits
  <2>3. QED
    BY <2>1, <2>2 DEF R!Truncated, R!Half
<1>6. QED
  BY <1>4, <1>5 DEF R!Products, y, m

(* What has been capped and is multiplied and capped again is what would     *)
(* have been capped once.                                                    *)
LEMMA OneTurn ==
  ASSUME R!TypeOK, NEW x \in Int, NEW m \in Int, m >= 1, wait = x \/ wait = R!Capped(x)
  PROVE  /\ R!Capped(wait * m) = R!Capped(x * m)
         /\ R!Fits(x * m) => R!Fits(wait * m)
<1> DEFINE M == p.MaxWait
<1>1. M \in Int /\ wait \in Int /\ Exact \in Nat
  BY Digits DEF R!TypeOK, R!Policy
<1>2. wait = x \/ (M > 0 /\ x > M /\ wait = M)
  BY DEF R!Capped
<1>3. CASE wait = x
  BY <1>3
<1>4. CASE M > 0 /\ x > M /\ wait = M
  <2> HIDE DEF M
  <2>1. M * m >= M /\ M * m <= x * m /\ x * m >= x /\ x * m \in Int /\ M * m \in Int
    BY <1>1, <1>4
  <2>2. M * m >= M /\ x * m > M
    BY <1>1, <1>4, <2>1
  <2>3. R!Capped(M * m) = M /\ R!Capped(x * m) = M
    BY <1>1, <1>4, <2>1, <2>2 DEF R!Capped, M
  <2>4. R!Fits(x * m) => R!Fits(M * m)
    BY <1>1, <1>4, <2>1 DEF R!Fits
  <2>5. QED
    BY <1>4, <2>3, <2>4
<1>5. QED
  BY <1>2, <1>3, <1>4

(* A wait that is capped, or the first one, has a small product.             *)
LEMMA UnderTheCap ==
  ASSUME R!TypeOK, p.Multiplier % 2 = 0, R!CapHolds,
         wait >= 0, wait <= p.MaxWait \/ wait = p.InitialWait
  PROVE  R!Fits(wait * R!Factor) /\ wait * R!Factor >= 0
<1> DEFINE m == R!Factor
<1>1. m \in Int /\ m >= 1 /\ wait \in Int /\ p.MaxWait \in Int /\ p.InitialWait \in Int /\ Exact \in Nat
  BY WholeFactor, Digits DEF R!TypeOK, R!Policy
<1>2. R!Fits(p.MaxWait * m) /\ R!Fits(p.InitialWait * m)
  BY DEF R!CapHolds
<1> HIDE DEF m
<1>3. wait * m \in Int /\ wait * m >= 0
  BY <1>1
<1>4. CASE wait = p.InitialWait
  BY <1>2, <1>3, <1>4 DEF m
<1>5. CASE wait <= p.MaxWait
  <2>1. wait * m <= p.MaxWait * m /\ p.MaxWait * m \in Int
    BY <1>1, <1>5
  <2>2. QED
    BY <1>1, <1>2, <1>3, <2>1 DEF R!Fits, m
<1>6. QED
  BY <1>4, <1>5

(* Between attempts wait holds the next of the waits, so each wait that is   *)
(* recorded is the one the closed form gives for its place.                  *)
WaitInv ==
  p.Multiplier % 2 = 0 =>
    /\ R!Fits(R!Geometric[attempt]) \/ R!CapHolds => wait = R!Expected(attempt)
    /\ R!CapHolds => wait >= 0 /\ (wait <= p.MaxWait \/ wait = p.InitialWait)
    /\ pc \in {"loop", "calling"} => Len(waits) = attempt
    /\ pc \in {"selecting", "parked"} => Len(waits) = attempt + 1

BackoffInv == WaitInv /\ R!BackoffIsGeometric

LEMMA GeometricDefined ==
  ASSUME R!TypeOK
  PROVE  /\ \A i \in Nat : R!Geometric[i] \in Int
         /\ R!Geometric[0] = p.InitialWait
         /\ \A i \in Nat : R!Geometric[i + 1] = R!Geometric[i] * R!Factor
<1>1. p.InitialWait \in Int /\ R!Factor \in Int
  BY DEF R!TypeOK, R!Policy, R!Factor, R!Half
<1>2. R!Geometric = Powers(p.InitialWait, R!Factor)
  BY DEF R!Geometric, Powers, Power
<1>3. QED
  BY <1>1, <1>2, PowersDefined

LEMMA WaitStep ==
  ASSUME R!TypeOK, R!TypeOK', BackoffInv, RetryStep PROVE BackoffInv'
<1> SUFFICES ASSUME p'.Multiplier % 2 = 0 PROVE BackoffInv'
  BY DEF BackoffInv, WaitInv, R!BackoffIsGeometric, R!Half
<1> DEFINE G == R!Geometric
           Held(k) == R!Fits(G[k]) \/ R!CapHolds
           Low(w) == w >= 0 /\ (w <= p.MaxWait \/ w = p.InitialWait)
<1>1. /\ p' = p /\ G' = G /\ p.Multiplier % 2 = 0 /\ (\A k : R!Expected(k)' = R!Expected(k))
      /\ R!CapHolds' = R!CapHolds /\ R!Factor' = R!Factor
  <2>1. p' = p
    BY DEF RetryStep, R!Loop, R!FnSucceeds, R!FnFails, R!CtxEnds, R!SelectDone, R!Park,
           R!TimerFires, retryVars
  <2>2. QED
    BY <2>1 DEF R!Geometric, R!Expected, R!Capped, R!CapHolds, R!Factor, R!Fits
<1>2. /\ Held(attempt) => wait = R!Expected(attempt)
      /\ R!CapHolds => Low(wait)
      /\ pc \in {"loop", "calling"} => Len(waits) = attempt
      /\ pc \in {"selecting", "parked"} => Len(waits) = attempt + 1
      /\ \A k \in DOMAIN waits : Held(k - 1) => waits[k] = R!Expected(k - 1)
  BY <1>1 DEF BackoffInv, WaitInv, R!BackoffIsGeometric, R!Half
<1> SUFFICES /\ Held(attempt') => wait' = R!Expected(attempt')
             /\ R!CapHolds => Low(wait')
             /\ pc' \in {"loop", "calling"} => Len(waits') = attempt'
             /\ pc' \in {"selecting", "parked"} => Len(waits') = attempt' + 1
             /\ \A k \in DOMAIN waits' : Held(k - 1) => waits'[k] = R!Expected(k - 1)
  BY <1>1 DEF BackoffInv, WaitInv, R!BackoffIsGeometric, R!Half, R!Fits
<1>3. attempt \in Nat /\ waits \in Seq(Int) /\ wait \in Int
  BY DEF R!TypeOK
<1> HIDE DEF Held, Low
<1>4. CASE R!Loop \/ R!Park \/ R!SelectDone \/ R!FnSucceeds \/ R!CtxEnds \/ UNCHANGED retryVars
  <2>1. UNCHANGED <<attempt, wait, waits>>
    BY <1>4 DEF R!Loop, R!Park, R!SelectDone, R!FnSucceeds, R!CtxEnds, retryVars
  <2>2. \/ pc' \notin {"loop", "calling", "selecting", "parked"}
        \/ pc' \in {"loop", "calling"} /\ pc \in {"loop", "calling"}
        \/ pc' \in {"selecting", "parked"} /\ pc \in {"selecting", "parked"}
    <3>1. pc \in {"loop", "calling", "selecting", "parked", "returned"}
      BY DEF R!TypeOK
    <3>2. QED
      BY <1>4, <3>1 DEF R!Loop, R!Park, R!SelectDone, R!FnSucceeds, R!CtxEnds, R!Return, retryVars
  <2>3. QED
    BY <1>2, <2>1, <2>2
<1>5. CASE R!FnFails
  <2>1. pc = "calling" /\ UNCHANGED <<attempt, wait>> /\ Len(waits) = attempt
    BY <1>2, <1>5 DEF R!FnFails
  <2>2. CASE pc' = "returned" /\ waits' = waits
    BY <1>2, <2>1, <2>2
  <2>3. CASE pc' = "selecting" /\ waits' = Append(waits, wait)
    <3>1. /\ Len(waits') = attempt + 1 /\ DOMAIN waits' = 1..(attempt + 1)
          /\ DOMAIN waits = 1..attempt
          /\ waits'[attempt + 1] = wait
          /\ \A k \in 1..attempt : waits'[k] = waits[k]
      BY <1>3, <2>1, <2>3
    <3>2. ASSUME NEW k \in DOMAIN waits', Held(k - 1) PROVE waits'[k] = R!Expected(k - 1)
      <4>1. CASE k \in 1..attempt
        BY <1>2, <3>1, <3>2, <4>1
      <4>2. CASE k = attempt + 1
        <5>1. k - 1 = attempt
          BY <1>3, <4>2
        <5>2. QED
          BY <1>2, <3>1, <3>2, <4>2, <5>1
      <4>3. QED
        BY <1>3, <3>1, <4>1, <4>2
    <3>3. QED
      BY <1>2, <2>1, <2>3, <3>1, <3>2
  <2>4. QED
    BY <1>5, <2>2, <2>3 DEF R!FnFails, R!Return
<1>6. CASE R!TimerFires
  <2>1. /\ pc \in {"selecting", "parked"} /\ pc' = "loop" /\ attempt' = attempt + 1
        /\ waits' = waits /\ Len(waits) = attempt + 1
    BY <1>2, <1>6 DEF R!TimerFires
  <2>2. PICK d \in R!Products(wait, p.Multiplier) : wait' = R!Capped(d)
    BY <1>6 DEF R!TimerFires
  <2> DEFINE x == G[attempt]
             m == R!Factor
  <2>3. x \in Int /\ G[attempt + 1] = x * m
    BY <1>3, GeometricDefined
  <2>4. m \in Int /\ m >= 1
    BY <1>1, WholeFactor
  <2> HIDE DEF x, m, G
  <2>5. R!CapHolds => R!Fits(wait * m) /\ wait * m >= 0 /\ p.MaxWait > 0
    BY <1>1, <1>2, UnderTheCap DEF Low, m, R!CapHolds
  <2>6. R!Fits(wait * m) => wait' = R!Capped(wait * m)
    BY <1>1, <2>2, SmallProduct DEF m
  <2>7. ASSUME Held(attempt + 1) PROVE wait' = R!Expected(attempt + 1)
    <3>1. Held(attempt)
      BY <2>3, <2>4, <2>7, Smaller DEF Held, x
    <3>2. wait = x \/ wait = R!Capped(x)
      BY <1>2, <3>1 DEF R!Expected, x, G
    <3>3. R!Capped(wait * m) = R!Capped(x * m) /\ (R!Fits(x * m) => R!Fits(wait * m))
      BY <2>3, <2>4, <3>2, OneTurn
    <3>4. wait' = R!Capped(x * m)
      BY <2>3, <2>5, <2>6, <2>7, <3>3 DEF Held
    <3>5. attempt + 1 # 0
      BY <1>3
    <3>6. QED
      BY <2>3, <3>4, <3>5 DEF R!Expected, G
  <2>8. ASSUME R!CapHolds PROVE Low(wait')
    <3>1. p.MaxWait \in Int /\ wait * m \in Int
      BY <1>3, <2>4 DEF R!TypeOK, R!Policy
    <3>2. QED
      BY <2>5, <2>6, <2>8, <3>1 DEF Low, R!Capped
  <2>9. QED
    BY <1>2, <2>1, <2>7, <2>8
<1>7. QED
  BY <1>4, <1>5, <1>6 DEF RetryStep

(* retry's waits follow the closed form, for every policy with a whole       *)
(* multiplier: as long as the form is exact in a float64, and with a cap     *)
(* that keeps the products exact, however long it goes on.                   *)
THEOREM WaitsAreGeometric == Spec => []BackoffIsGeometric
<1>1. Init => BackoffInv
  <2> SUFFICES ASSUME Init PROVE BackoffInv
    OBVIOUS
  <2>1. /\ attempt = 0 /\ pc = "loop" /\ waits = <<>>
        /\ \E q \in Policies : p = R!Defaulted(q) /\ wait = q.InitialWait
    BY DEF Init, R!Init
  <2>2. wait = p.InitialWait
    BY <2>1, ResilientAssumption DEF R!Defaulted, R!Policy
  <2>3. wait = R!Expected(0)
    BY <2>2, RetryFirst, GeometricDefined DEF R!Expected, Init
  <2>4. R!CapHolds => wait >= 0
    BY <2>2 DEF R!CapHolds
  <2>5. QED
    BY <2>1, <2>2, <2>3, <2>4 DEF BackoffInv, WaitInv, R!BackoffIsGeometric
<1>2. TypeInv /\ TypeInv' /\ BackoffInv /\ [Next]_vars => BackoffInv'
  BY Parts, WaitStep DEF TypeInv, TypeOK
<1>3. BackoffInv => BackoffIsGeometric
  BY DEF BackoffInv, BackoffIsGeometric
<1>4. QED
  BY <1>1, <1>2, <1>3, TypeFirst, TypeStep, PTL DEF Spec
=============================================================================
