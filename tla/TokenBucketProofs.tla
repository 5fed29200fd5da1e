------------------------- MODULE TokenBucketProofs -------------------------
(***************************************************************************)
(* What holds of TokenBucket for every bucket, rate, set of requests and   *)
(* reservers: no window of time gives out more than burst plus rate, and   *)
(* the lazy bucket cannot be told from one filled at every tick.  Both     *)
(* rest on how the level, Refilled, moves with each step.                  *)
(***************************************************************************)
EXTENDS TokenBucket, TLAPS

(* The level is a number of tokens the bucket can hold, and waits last a     *)
(* number of ticks.                                                          *)
LEMMA Product == \A a, b \in Nat : a * b \in Nat
OBVIOUS

LEMMA Next1 == \A a, b \in Nat : (a + 1) * b = a * b + b /\ b * (a + 1) = b * a + b
OBVIOUS

LEMMA RefilledType == TypeOK => Refilled \in 0..Max
<1> SUFFICES ASSUME TypeOK PROVE Refilled \in 0..Max
  OBVIOUS
<1>1. elapsed * Rate \in Nat
  BY BucketAssumption, Product DEF TypeOK
<1>2. QED
  BY <1>1, BucketAssumption DEF Refilled, AtMost, TypeOK

LEMMA WaitType == ASSUME NEW d \in Nat PROVE Wait(d) \in Nat
<1>1. CASE Rate = 0
  BY <1>1 DEF Wait
<1>2. CASE Rate # 0
  <2>1. Rate * Milli \in Nat \ {0}
    BY <1>2, BucketAssumption
  <2>2. d \div (Rate * Milli) \in Nat
    BY <2>1
  <2>3. QED
    BY <1>2, <2>2, Product, BucketAssumption DEF Wait
<1>3. QED
  BY <1>1, <1>2

(* A level after a step that refills: elapsed is 0.                          *)
LEMMA NothingAdded == \A t, x \in Int : x = 0 => t + x = t
OBVIOUS

LEMMA RefilledNow ==
  ASSUME tokens' \in 0..Max, elapsed' = 0 PROVE Refilled' = tokens'
<1>1. elapsed' * Rate = 0
  BY BucketAssumption
<1>2. tokens' \in Int
  BY BucketAssumption
<1> DEFINE added == elapsed' * Rate
<1>3. tokens' + added = tokens'
  <2> HIDE DEF added
  <2>1. added = 0
    BY <1>1 DEF added
  <2>2. added \in Int
    BY <2>1
  <2>3. QED
    BY ONLY <1>2, <2>1, <2>2, NothingAdded
<1>4. Refilled' = AtMost(Max, tokens')
  BY <1>3 DEF Refilled
<1>5. QED
  BY <1>4, BucketAssumption DEF AtMost

(* A request takes its tokens out of the level, if they are there.           *)
LEMMA AskedLevel ==
  ASSUME TypeOK, NEW n \in Requests, AllowN(n)
  PROVE  /\ granted' = (n <= Refilled)
         /\ tokens' \in 0..Max
         /\ Refilled' = IF n <= Refilled THEN Refilled - n ELSE Refilled
         /\ spent' = IF n <= Refilled THEN spent + n ELSE spent
<1>1. n \in Nat /\ Refilled \in 0..Max
  BY RefilledType, BucketAssumption
<1>2. tokens' \in 0..Max
  BY <1>1, BucketAssumption DEF AllowN
<1>3. QED
  BY <1>2, RefilledNow DEF AllowN

(* A reservation takes what there is of them.                                *)
LEMMA ReservedLevel ==
  ASSUME TypeOK, NEW c \in Reservers, NEW n \in Requests, Reserve(c, n)
  PROVE  /\ tokens' \in 0..Max
         /\ Refilled' = Refilled - AtMost(n, Refilled)
         /\ spent' = spent + AtMost(n, Refilled)
<1>1. n \in Nat /\ Refilled \in 0..Max
  BY RefilledType, BucketAssumption
<1>2. tokens' = Refilled - AtMost(n, Refilled) /\ spent' = spent + AtMost(n, Refilled)
  BY <1>1 DEF Reserve, AtMost
<1>3. tokens' \in 0..Max
  BY <1>1, <1>2, BucketAssumption DEF AtMost
<1>4. QED
  BY <1>2, <1>3, RefilledNow DEF Reserve

(* A tick adds Rate to it, up to Max, though nothing is computed.            *)
LEMMA TickedLevel ==
  ASSUME TypeOK, Tick
  PROVE  Refilled' = AtMost(Max, Refilled + Rate)
<1>1. elapsed * Rate \in Nat /\ elapsed' * Rate = elapsed * Rate + Rate
  BY BucketAssumption, Product, Next1 DEF TypeOK, Tick
<1>2. QED
  BY <1>1, BucketAssumption DEF Refilled, AtMost, TypeOK, Tick
-----------------------------------------------------------------------------
(* Type correctness, by one step per action. *)
THEOREM TypeCorrect == Spec => []TypeOK
<1> USE BucketAssumption
<1>1. Init => TypeOK
  BY DEF Init, TypeOK
<1>2. TypeOK /\ [Next]_vars => TypeOK'
  <2> SUFFICES ASSUME TypeOK, [Next]_vars PROVE TypeOK'
    OBVIOUS
  <2>1. ASSUME NEW n \in Requests, AllowN(n) PROVE TypeOK'
    <3>1. spent' \in Nat /\ tokens' \in 0..Max
      BY <2>1, AskedLevel DEF TypeOK
    <3>2. granted' \in BOOLEAN
      BY <2>1 DEF AllowN
    <3>3. QED
      BY <2>1, <3>1, <3>2 DEF AllowN, TypeOK
  <2>2. ASSUME NEW c \in Reservers, NEW n \in Requests, Reserve(c, n) PROVE TypeOK'
    <3>1. n \in Nat /\ Refilled \in 0..Max
      BY RefilledType
    <3>2. spent' \in Nat /\ tokens' \in 0..Max
      BY <2>2, <3>1, ReservedLevel DEF TypeOK, AtMost
    <3>3. need' \in [Reservers -> Nat] /\ wait' \in [Reservers -> Nat \cup {-1}]
      <4>1. CASE n <= Refilled
        BY <2>2, <4>1 DEF Reserve, TypeOK
      <4>2. CASE ~(n <= Refilled)
        <5>1. n - Refilled \in Nat
          BY <3>1, <4>2
        <5>2. Wait(n - Refilled) \in Nat
          BY <5>1, WaitType
        <5>3. QED
          BY <2>2, <4>2, <5>1, <5>2 DEF Reserve, TypeOK
      <4>3. QED
        BY <4>1, <4>2
    <3>4. QED
      BY <2>2, <3>2, <3>3 DEF Reserve, TypeOK
  <2>3. ASSUME NEW c \in Reservers, GoOn(c) PROVE TypeOK'
    BY <2>3 DEF GoOn, TypeOK
  <2>4. CASE Tick
    <3>1. wait' \in [Reservers -> Nat \cup {-1}]
      BY <2>4 DEF Tick, TypeOK
    <3>2. QED
      BY <2>4, <3>1 DEF Tick, TypeOK
  <2>5. CASE BeginWindow
    BY <2>5 DEF BeginWindow, TypeOK
  <2>6. CASE UNCHANGED vars
    BY <2>6 DEF vars, TypeOK
  <2>7. QED
    BY <2>1, <2>2, <2>3, <2>4, <2>5, <2>6 DEF Next, Step
<1>3. QED
  BY <1>1, <1>2, PTL DEF Spec

(* In every window no more tokens leave the bucket than it holds plus what   *)
(* arrives: a request moves tokens from the level to spent, and a tick adds  *)
(* no more to the level than to the allowance.                               *)
THEOREM RateIsKept == Spec => []WithinRate
<1> USE BucketAssumption
<1>1. Init => WithinRate
  BY DEF Init, WithinRate, Refilled, AtMost
<1>2. TypeOK /\ WithinRate /\ [Next]_vars => WithinRate'
  <2> SUFFICES ASSUME TypeOK, WithinRate, [Next]_vars PROVE WithinRate'
    OBVIOUS
  <2>1. Refilled \in 0..Max /\ Rate * age \in Nat /\ spent \in Nat
    BY RefilledType, Product DEF TypeOK
  <2>2. ASSUME NEW n \in Requests, AllowN(n) PROVE WithinRate'
    BY <2>1, <2>2, AskedLevel DEF AllowN, WithinRate
  <2>3. ASSUME NEW c \in Reservers, NEW n \in Requests, Reserve(c, n) PROVE WithinRate'
    <3>1. Refilled' + spent' = Refilled + spent
      BY <2>1, <2>3, ReservedLevel DEF AtMost
    <3>2. QED
      BY <2>1, <2>3, <3>1, ReservedLevel DEF Reserve, WithinRate, AtMost
  <2>4. CASE Tick
    <3>1. Rate * age' = Rate * age + Rate
      BY <2>4, Next1 DEF Tick, TypeOK
    <3>2. QED
      BY <2>1, <2>4, <3>1, TickedLevel DEF Tick, WithinRate, AtMost
  <2>5. CASE BeginWindow
    <3>1. Refilled' = Refilled
      BY <2>5 DEF BeginWindow, Refilled
    <3>2. QED
      BY <2>1, <2>5, <3>1 DEF BeginWindow, WithinRate
  <2>6. CASE (\E c \in Reservers : GoOn(c)) \/ UNCHANGED vars
    BY <2>6 DEF GoOn, vars, WithinRate, Refilled
  <2>7. QED
    BY <2>2, <2>3, <2>4, <2>5, <2>6 DEF Next, Step
<1>3. QED
  BY <1>1, <1>2, TypeCorrect, PTL DEF Spec
-----------------------------------------------------------------------------
(* A step of the bucket is a step of the ideal one, or leaves its level and  *)
(* its last answer alone.                                                    *)
LEMMA IdealStep == TypeOK /\ [Next]_vars => [Ideal!Next]_<<Refilled, granted>>
<1> SUFFICES ASSUME TypeOK, [Next]_vars PROVE [Ideal!Next]_<<Refilled, granted>>
  OBVIOUS
<1> USE BucketAssumption
<1>1. Refilled \in 0..Max
  BY RefilledType
<1>2. ASSUME NEW n \in Requests, AllowN(n) PROVE Ideal!Ask(n)
  BY <1>2, AskedLevel DEF Ideal!Ask
<1>3. ASSUME NEW c \in Reservers, NEW n \in Requests, Reserve(c, n) PROVE Ideal!Take(n)
  BY <1>1, <1>3, ReservedLevel DEF Reserve, Ideal!Take, Ideal!Min2, AtMost
<1>4. CASE Tick
  BY <1>4, TickedLevel DEF Tick, Ideal!Next, Ideal!Fill, Ideal!Min2, AtMost
<1>5. CASE (\E c \in Reservers : GoOn(c)) \/ BeginWindow \/ UNCHANGED vars
  BY <1>5 DEF GoOn, BeginWindow, vars, Refilled
<1>6. QED
  BY <1>2, <1>3, <1>4, <1>5 DEF Next, Step, Ideal!Next

(* Lazy filling is not seen from outside: every answer is one the bucket     *)
(* filled at every tick would give.                                          *)
THEOREM LazyFillingIsIdeal == Spec => IdealSpec
<1>1. Init => Ideal!Init
  BY BucketAssumption DEF Init, Ideal!Init, Refilled, AtMost
<1>2. TypeOK /\ [Next]_vars => [Ideal!Next]_<<Refilled, granted>>
  BY IdealStep
<1>3. QED
  BY <1>1, <1>2, TypeCorrect, PTL DEF Spec, IdealSpec, Ideal!Spec
=============================================================================
