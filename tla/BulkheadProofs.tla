--------------------------- MODULE BulkheadProofs ---------------------------
(***************************************************************************)
(* What holds of Bulkhead for every set of goroutines, every capacity and  *)
(* every number of stray Release calls.  The inductive invariant ties each *)
(* queue to the calls that are blocked, and the channel's length to the    *)
(* slots that are held; first come what a queue and a count do when one    *)
(* goroutine joins or leaves.  Last come the two nestings with timeout.Do, *)
(* which use the bulkhead as it allows and inherit what is proved of it.   *)
(***************************************************************************)
EXTENDS NestedStrategies, FiniteSetTheorems, TLAPS

(* Joining a queue at its end.                                               *)
LEMMA Joined ==
  ASSUME NEW S, NEW q \in Seq(S), NEW x \in S
  PROVE  /\ Append(q, x) \in Seq(S)
         /\ Append(q, x) # <<>>
         /\ ToSet(Append(q, x)) = ToSet(q) \cup {x}
         /\ IsInjective(q) /\ x \notin ToSet(q) => IsInjective(Append(q, x))
<1>1. /\ Append(q, x) \in Seq(S)
      /\ DOMAIN Append(q, x) = 1..(Len(q) + 1)
      /\ DOMAIN q = 1..Len(q)
      /\ Len(q) \in Nat
  OBVIOUS
<1>2. \A i \in 1..(Len(q) + 1) :
        Append(q, x)[i] = IF i = Len(q) + 1 THEN x ELSE q[i]
  OBVIOUS
<1>3. ToSet(Append(q, x)) \subseteq ToSet(q) \cup {x}
  BY <1>1, <1>2 DEF ToSet
<1>4. ToSet(q) \cup {x} \subseteq ToSet(Append(q, x))
  <2>1. ASSUME NEW y \in ToSet(q) PROVE y \in ToSet(Append(q, x))
    <3>1. PICK i \in 1..Len(q) : q[i] = y
      BY <1>1, <2>1 DEF ToSet
    <3>2. i \in 1..(Len(q) + 1) /\ Append(q, x)[i] = y
      BY <1>1, <1>2, <3>1
    <3>3. QED
      BY <1>1, <3>2 DEF ToSet
  <2>2. Len(q) + 1 \in 1..(Len(q) + 1) /\ Append(q, x)[Len(q) + 1] = x
    BY <1>1, <1>2
  <2>3. QED
    BY <1>1, <2>1, <2>2 DEF ToSet
<1>5. ASSUME IsInjective(q), x \notin ToSet(q) PROVE IsInjective(Append(q, x))
  BY <1>1, <1>2, <1>5 DEF IsInjective, ToSet
<1>6. QED
  BY <1>1, <1>3, <1>4, <1>5

(* Leaving it at its front.                                                  *)
LEMMA Served ==
  ASSUME NEW S, NEW q \in Seq(S), q # <<>>, IsInjective(q)
  PROVE  /\ Head(q) \in S
         /\ Head(q) \in ToSet(q)
         /\ Tail(q) \in Seq(S)
         /\ ToSet(Tail(q)) = ToSet(q) \ {Head(q)}
         /\ IsInjective(Tail(q))
<1>1. /\ Head(q) = q[1] /\ Head(q) \in S
      /\ Tail(q) \in Seq(S)
      /\ Len(q) \in Nat \ {0}
      /\ DOMAIN q = 1..Len(q)
      /\ DOMAIN Tail(q) = 1..(Len(q) - 1)
  OBVIOUS
<1>2. \A i \in 1..(Len(q) - 1) : Tail(q)[i] = q[i + 1]
  OBVIOUS
<1>3. \A i, j \in 1..Len(q) : q[i] = q[j] => i = j
  BY <1>1 DEF IsInjective
<1>4. ToSet(Tail(q)) \subseteq ToSet(q) \ {Head(q)}
  <2>1. ASSUME NEW i \in 1..(Len(q) - 1)
        PROVE  i + 1 \in 1..Len(q) /\ Tail(q)[i] = q[i + 1] /\ q[i + 1] # q[1]
    BY <1>1, <1>2, <1>3
  <2>2. QED
    BY <1>1, <2>1 DEF ToSet
<1>5. ToSet(q) \ {Head(q)} \subseteq ToSet(Tail(q))
  <2>1. ASSUME NEW y \in ToSet(q), y # Head(q) PROVE y \in ToSet(Tail(q))
    <3>1. PICK i \in 1..Len(q) : q[i] = y
      BY <1>1, <2>1 DEF ToSet
    <3>2. i - 1 \in 1..(Len(q) - 1) /\ Tail(q)[i - 1] = y
      BY <1>1, <1>2, <2>1, <3>1
    <3>3. QED
      BY <1>1, <3>2 DEF ToSet
  <2>2. QED
    BY <2>1
<1>6. IsInjective(Tail(q))
  <2> SUFFICES ASSUME NEW i \in 1..(Len(q) - 1), NEW j \in 1..(Len(q) - 1),
                      Tail(q)[i] = Tail(q)[j]
               PROVE  i = j
    BY <1>1 DEF IsInjective
  <2>1. i + 1 \in 1..Len(q) /\ j + 1 \in 1..Len(q) /\ q[i + 1] = q[j + 1]
    BY <1>1, <1>2
  <2>2. QED
    BY <1>3, <2>1
<1>7. Head(q) \in ToSet(q)
  BY <1>1 DEF ToSet
<1>8. QED
  BY <1>1, <1>4, <1>5, <1>6, <1>7

(* Leaving it from wherever one stands: those behind move up by one.         *)
LEMMA Removed ==
  ASSUME NEW S, NEW q \in Seq(S), NEW i \in DOMAIN q
  PROVE  /\ RemoveAt(q, i) \in Seq(S)
         /\ DOMAIN q = 1..Len(q)
         /\ Len(q) \in Nat \ {0}
         /\ DOMAIN RemoveAt(q, i) = 1..(Len(q) - 1)
         /\ \A k \in 1..(Len(q) - 1) :
              RemoveAt(q, i)[k] = IF k < i THEN q[k] ELSE q[k + 1]
<1> DEFINE front == SubSeq(q, 1, i - 1)
           back  == SubSeq(q, i + 1, Len(q))
<1>1. Len(q) \in Nat \ {0} /\ DOMAIN q = 1..Len(q) /\ i \in 1..Len(q)
  OBVIOUS
<1>2. /\ front \in Seq(S) /\ Len(front) = i - 1
      /\ \A k \in 1..(i - 1) : front[k] = q[k]
  BY <1>1
<1>3. /\ back \in Seq(S) /\ Len(back) = Len(q) - i
      /\ \A k \in 1..(Len(q) - i) : back[k] = q[i + k]
  BY <1>1
<1>4. RemoveAt(q, i) = front \o back
  BY DEF RemoveAt
<1> HIDE DEF front, back
<1>5. /\ front \o back \in Seq(S)
      /\ DOMAIN (front \o back) = 1..(Len(q) - 1)
  <2>1. front \in Seq(S) /\ back \in Seq(S)
    BY <1>2, <1>3
  <2>2. front \o back \in Seq(S) /\ Len(front \o back) = Len(front) + Len(back)
    BY <2>1
  <2>3. Len(front) + Len(back) = Len(q) - 1
    BY <1>1, <1>2, <1>3
  <2>4. QED
    BY <2>2, <2>3
<1>6. ASSUME NEW k \in 1..(Len(q) - 1)
      PROVE  (front \o back)[k] = IF k < i THEN q[k] ELSE q[k + 1]
  <2>1. CASE k < i
    BY <1>1, <1>2, <1>3, <2>1
  <2>2. CASE ~(k < i)
    <3>1. (front \o back)[k] = back[k - (i - 1)]
      BY <1>1, <1>2, <1>3, <2>2
    <3>2. k - (i - 1) \in 1..(Len(q) - i) /\ i + (k - (i - 1)) = k + 1
      BY <1>1, <2>2
    <3>3. QED
      BY <1>3, <2>2, <3>1, <3>2
  <2>3. QED
    BY <2>1, <2>2
<1>7. /\ front \o back \in Seq(S)
      /\ DOMAIN (front \o back) = 1..(Len(q) - 1)
      /\ \A k \in 1..(Len(q) - 1) :
           (front \o back)[k] = IF k < i THEN q[k] ELSE q[k + 1]
  BY <1>5, <1>6
<1>8. QED
  BY <1>1, <1>4, <1>7, Zenon

LEMMA GivenUp ==
  ASSUME NEW S, NEW q \in Seq(S), NEW i \in DOMAIN q, IsInjective(q)
  PROVE  /\ ToSet(RemoveAt(q, i)) = ToSet(q) \ {q[i]}
         /\ IsInjective(RemoveAt(q, i))
<1> DEFINE rest == RemoveAt(q, i)
<1>1. /\ Len(q) \in Nat \ {0} /\ DOMAIN q = 1..Len(q) /\ i \in 1..Len(q)
      /\ DOMAIN rest = 1..(Len(q) - 1)
      /\ \A k \in 1..(Len(q) - 1) : rest[k] = IF k < i THEN q[k] ELSE q[k + 1]
  BY Removed
<1> HIDE DEF rest
<1>2. \A j, k \in 1..Len(q) : q[j] = q[k] => j = k
  BY <1>1 DEF IsInjective
<1>3. ASSUME NEW k \in 1..(Len(q) - 1) PROVE rest[k] \in ToSet(q) \ {q[i]}
  <2>1. CASE k < i
    <3>1. k \in 1..Len(q) /\ rest[k] = q[k] /\ k # i
      BY <1>1, <2>1
    <3>2. QED
      BY <1>1, <1>2, <3>1 DEF ToSet
  <2>2. CASE ~(k < i)
    <3>1. k + 1 \in 1..Len(q) /\ rest[k] = q[k + 1] /\ k + 1 # i
      BY <1>1, <2>2
    <3>2. QED
      BY <1>1, <1>2, <3>1 DEF ToSet
  <2>3. QED
    BY <2>1, <2>2
<1>4. ASSUME NEW y \in ToSet(q), y # q[i] PROVE y \in ToSet(rest)
  <2>1. PICK k \in 1..Len(q) : q[k] = y
    BY <1>1 DEF ToSet
  <2>2. CASE k < i
    <3>1. k \in 1..(Len(q) - 1) /\ rest[k] = y
      BY <1>1, <2>1, <2>2
    <3>2. QED
      BY <1>1, <3>1 DEF ToSet
  <2>3. CASE ~(k < i)
    <3>1. k # i
      BY <1>4, <2>1
    <3>2. k - 1 \in 1..(Len(q) - 1) /\ ~(k - 1 < i) /\ (k - 1) + 1 = k
      BY <1>1, <2>3, <3>1
    <3>3. rest[k - 1] = y
      BY <1>1, <2>1, <3>2
    <3>4. QED
      BY <1>1, <3>2, <3>3 DEF ToSet
  <2>4. QED
    BY <2>2, <2>3
<1>5. ToSet(rest) = ToSet(q) \ {q[i]}
  BY <1>1, <1>3, <1>4 DEF ToSet
<1>6. IsInjective(rest)
  <2> SUFFICES ASSUME NEW j \in 1..(Len(q) - 1), NEW k \in 1..(Len(q) - 1),
                      rest[j] = rest[k]
               PROVE  j = k
    BY <1>1 DEF IsInjective
  <2> DEFINE old(n) == IF n < i THEN n ELSE n + 1
  <2>1. old(j) \in 1..Len(q) /\ old(k) \in 1..Len(q)
    BY <1>1
  <2>2. rest[j] = q[old(j)] /\ rest[k] = q[old(k)]
    BY <1>1
  <2>3. old(j) = old(k)
    BY <1>2, <2>1, <2>2
  <2>4. QED
    BY <1>1, <2>3
<1>7. QED
  BY <1>5, <1>6 DEF rest
-----------------------------------------------------------------------------
(* Counting goroutines.                                                      *)
LEMMA Counted ==
  ASSUME NEW S \in SUBSET Goroutines, NEW x \in Goroutines
  PROVE  /\ Cardinality(S) \in Nat
         /\ x \in S => Cardinality(S) >= 1
         /\ Cardinality(S \cup {x}) = IF x \in S THEN Cardinality(S) ELSE Cardinality(S) + 1
         /\ Cardinality(S \ {x}) = IF x \in S THEN Cardinality(S) - 1 ELSE Cardinality(S)
<1>1. IsFiniteSet(S) /\ IsFiniteSet(S \ {x})
  BY BulkheadAssumption, FS_Subset
<1>2. Cardinality(S) \in Nat /\ Cardinality(S \ {x}) \in Nat
  BY <1>1, FS_CardinalityType
<1>3. /\ Cardinality(S \cup {x}) = IF x \in S THEN Cardinality(S) ELSE Cardinality(S) + 1
      /\ Cardinality(S \ {x}) = IF x \in S THEN Cardinality(S) - 1 ELSE Cardinality(S)
  BY <1>1, FS_AddElement, FS_RemoveElement
<1>4. QED
  BY <1>2, <1>3

Senders   == {g \in Goroutines : call[g] = "acquiring"}
Receivers == {g \in Goroutines : call[g] \in {"releasing", "straying"}}

(* A stray Release counts from when it is made until it has received.        *)
StraysBounded == strays + Cardinality(Strayed) <= MaxStrays

BulkheadInv == TypeOK /\ StraysBounded /\ SlotsAccounted /\ NoLostWakeup

LEMMA Groups ==
  /\ Holders \in SUBSET Goroutines
  /\ Strayed \in SUBSET Goroutines
  /\ Strayed \subseteq Receivers
BY DEF Holders, Strayed, Receivers

LEMMA Queues ==
  ASSUME BulkheadInv
  PROVE  /\ sendq \in Seq(Goroutines) /\ recvq \in Seq(Goroutines)
         /\ IsInjective(sendq) /\ IsInjective(recvq)
         /\ ToSet(sendq) = Senders /\ ToSet(recvq) = Receivers
         /\ strays = 0 /\ Strayed = {} => recvq = <<>>
         /\ sendq # <<>> => sem = MaxConcurrent
         /\ recvq # <<>> => sem = 0 /\ sendq = <<>>
         /\ sem \in 0..MaxConcurrent /\ strays \in 0..MaxStrays
         /\ MaxConcurrent \in Nat /\ MaxStrays \in Nat
         /\ Cardinality(Holders) \in Nat /\ Cardinality(Strayed) \in Nat
         /\ Cardinality(Holders) = sem + strays
         /\ strays + Cardinality(Strayed) <= MaxStrays
<1>1. Cardinality(Holders) \in Nat /\ Cardinality(Strayed) \in Nat
  <2>1. IsFiniteSet(Holders) /\ IsFiniteSet(Strayed)
    BY Groups, BulkheadAssumption, FS_Subset
  <2>2. QED
    BY <2>1, FS_CardinalityType
<1>2. Cardinality(Holders) = sem + strays
  BY <1>1, BulkheadAssumption DEF BulkheadInv, TypeOK, SlotsAccounted, Available
<1>3. QED
  BY <1>1, <1>2, BulkheadAssumption
  DEF BulkheadInv, TypeOK, StraysBounded, NoLostWakeup, QueuesExact, Senders, Receivers

(* The same facts of the next state give the invariant back.                 *)
LEMMA InvAgain ==
  ASSUME TypeOK',
         ToSet(sendq') = Senders', ToSet(recvq') = Receivers',
         IsInjective(sendq'), IsInjective(recvq'),
         strays' = 0 /\ Strayed' = {} => recvq' = <<>>,
         sendq' # <<>> => sem' = MaxConcurrent,
         recvq' # <<>> => sem' = 0 /\ sendq' = <<>>,
         Cardinality(Holders') = sem' + strays',
         strays' + Cardinality(Strayed') <= MaxStrays
  PROVE  BulkheadInv'
<1>1. SlotsAccounted'
  BY BulkheadAssumption DEF TypeOK, SlotsAccounted, Available
<1>2. QED
  BY <1>1 DEF BulkheadInv, StraysBounded, NoLostWakeup, QueuesExact, Senders, Receivers

LEMMA SameCount == \A S : Slots!Cardinality(S) = Cardinality(S)
BY DEF Slots!Cardinality, Cardinality

LimitStep == [Slots!Next]_Holders

(* b.sem <- struct{}{} fills the buffer: g holds one slot more.              *)
LEMMA Filled ==
  ASSUME BulkheadInv, NEW g \in Goroutines, call[g] \in Idle,
         recvq = <<>>, sem < MaxConcurrent,
         call' = [call EXCEPT ![g] = "inside"],
         sem' = sem + 1,
         UNCHANGED <<sendq, recvq, strays>>
  PROVE  BulkheadInv' /\ LimitStep
<1>1. sendq = <<>>
  BY Queues
<1>2. call \in [Goroutines -> Idle \cup Blocked \cup {"inside"}]
  BY DEF BulkheadInv, TypeOK
<1>3. /\ g \notin Holders /\ Holders' = Holders \cup {g}
      /\ Strayed' = Strayed /\ Senders' = Senders /\ Receivers' = Receivers
  BY <1>2 DEF Idle, Holders, Strayed, Senders, Receivers
<1>4. TypeOK'
  BY <1>2, Queues DEF TypeOK
<1>5. Cardinality(Holders') = sem' + strays'
  <2>1. Cardinality(Holders \cup {g}) = Cardinality(Holders) + 1
    BY <1>3, Groups, Counted
  <2>2. QED
    BY <1>3, <2>1, Queues
<1>6. BulkheadInv'
  BY <1>1, <1>3, <1>4, <1>5, Queues, InvAgain
<1>7. Slots!Enter(g)
  BY <1>3, Queues, SameCount DEF Slots!Enter
<1>8. QED
  BY <1>6, <1>7 DEF LimitStep, Slots!Next

(* b.sem <- struct{}{} serves the first blocked receiver.                    *)
LEMMA SentToReceiver ==
  ASSUME BulkheadInv, NEW g \in Goroutines, call[g] \in Idle, recvq # <<>>,
         call' = [call EXCEPT ![g] = "inside", ![Head(recvq)] = "released"],
         recvq' = Tail(recvq),
         strays' = IF Head(recvq) \in Strayed THEN strays + 1 ELSE strays,
         UNCHANGED <<sem, sendq>>
  PROVE  BulkheadInv' /\ LimitStep
<1> DEFINE r == Head(recvq)
<1>1. /\ r \in Goroutines /\ r \in Receivers
      /\ recvq' \in Seq(Goroutines) /\ IsInjective(recvq')
      /\ ToSet(recvq') = Receivers \ {r}
  BY Queues, Served
<1> HIDE DEF r
<1>2. call \in [Goroutines -> Idle \cup Blocked \cup {"inside"}]
  BY DEF BulkheadInv, TypeOK
<1>3. g # r /\ call' = [call EXCEPT ![g] = "inside", ![r] = "released"]
  BY <1>1 DEF r, Idle, Receivers
<1>4. call' \in [Goroutines -> Idle \cup Blocked \cup {"inside"}]
  BY <1>2, <1>3 DEF Idle
<1>5. /\ g \notin Holders /\ Holders' = (Holders \ {r}) \cup {g}
      /\ Strayed' = Strayed \ {r}
      /\ Senders' = Senders /\ Receivers' = Receivers \ {r}
      /\ r \in Holders <=> r \notin Strayed
  BY <1>1, <1>2, <1>3 DEF Idle, Holders, Strayed, Senders, Receivers
<1>6. strays' = IF r \in Strayed THEN strays + 1 ELSE strays
  BY DEF r
<1>7. /\ Cardinality(Holders') = sem' + strays'
      /\ strays' + Cardinality(Strayed') = strays + Cardinality(Strayed)
  <2>1. Cardinality(Strayed') = IF r \in Strayed THEN Cardinality(Strayed) - 1
                                                ELSE Cardinality(Strayed)
    BY <1>1, <1>5, Groups, Counted
  <2>2. Cardinality(Holders \ {r}) = IF r \in Holders THEN Cardinality(Holders) - 1
                                                      ELSE Cardinality(Holders)
    BY <1>1, Groups, Counted
  <2>3. Cardinality(Holders') = Cardinality(Holders \ {r}) + 1
    BY <1>5, Groups, Counted
  <2>4. QED
    BY <1>5, <1>6, <2>1, <2>2, <2>3, Queues
<1>8. r \in Strayed => strays < MaxStrays
  <2>1. r \in Strayed => Cardinality(Strayed) >= 1
    BY <1>1, Groups, Counted
  <2>2. QED
    BY <2>1, Queues
<1>9. strays' \in 0..MaxStrays /\ (strays' = 0 => strays = 0 /\ r \notin Strayed)
  BY <1>6, <1>8, Queues
<1>10. strays' = 0 /\ Strayed' = {} => recvq' = <<>>
  <2> SUFFICES ASSUME strays' = 0, Strayed' = {} PROVE FALSE
    OBVIOUS
  <2>1. strays = 0 /\ Strayed = {}
    BY <1>5, <1>9
  <2>2. QED
    BY <2>1, Queues
<1>11. TypeOK'
  BY <1>1, <1>4, <1>9, Queues DEF TypeOK
<1>12. BulkheadInv'
  BY <1>1, <1>5, <1>7, <1>10, <1>11, Queues, InvAgain
<1>13. CASE r \in Holders
  BY <1>1, <1>5, <1>12, <1>13 DEF LimitStep, Slots!Next, Slots!TakeOver
<1>14. CASE r \notin Holders
  <2>1. Cardinality(Holders) < MaxConcurrent + MaxStrays
    BY <1>5, <1>8, <1>14, Queues
  <2>2. Slots!Enter(g)
    BY <1>5, <1>14, <2>1, SameCount DEF Slots!Enter
  <2>3. QED
    BY <1>12, <2>2 DEF LimitStep, Slots!Next
<1>15. QED
  BY <1>13, <1>14

LEMMA SendStep ==
  ASSUME BulkheadInv, NEW g \in Goroutines, call[g] \in Idle, Send(g)
  PROVE  BulkheadInv' /\ LimitStep
BY Filled, SentToReceiver DEF Send

(* Who receives: a goroutine that gives its slot back, or a stray one.       *)
MayReceive(r, from) ==
  \/ call[r] = "inside" /\ from = "releasing"
  \/ /\ call[r] \in Idle /\ from = "straying"
     /\ strays + Cardinality(Strayed) < MaxStrays

(* <-b.sem hands the slot over to the first blocked sender.                  *)
LEMMA ReceivedFromSender ==
  ASSUME BulkheadInv, NEW r \in Goroutines, NEW from, MayReceive(r, from),
         sendq # <<>>,
         call' = [call EXCEPT ![r] = "released", ![Head(sendq)] = "inside"],
         sendq' = Tail(sendq),
         strays' = IF from = "straying" THEN strays + 1 ELSE strays,
         UNCHANGED <<sem, recvq>>
  PROVE  BulkheadInv' /\ LimitStep
<1> DEFINE g == Head(sendq)
<1>1. /\ g \in Goroutines /\ g \in Senders
      /\ sendq' \in Seq(Goroutines) /\ IsInjective(sendq')
      /\ ToSet(sendq') = Senders \ {g}
      /\ recvq = <<>> /\ sem = MaxConcurrent
  BY Queues, Served
<1> HIDE DEF g
<1>2. call \in [Goroutines -> Idle \cup Blocked \cup {"inside"}]
  BY DEF BulkheadInv, TypeOK
<1>3. g # r /\ call' = [call EXCEPT ![r] = "released", ![g] = "inside"]
  BY <1>1 DEF g, MayReceive, Idle, Senders
<1>4. call' \in [Goroutines -> Idle \cup Blocked \cup {"inside"}]
  BY <1>2, <1>3 DEF Idle
<1>5. /\ g \notin Holders /\ Holders' = (Holders \ {r}) \cup {g}
      /\ Strayed' = Strayed
      /\ Senders' = Senders \ {g} /\ Receivers' = Receivers
  BY <1>1, <1>2, <1>3 DEF MayReceive, Idle, Holders, Strayed, Senders, Receivers
<1>6. /\ r \in Holders <=> from # "straying"
      /\ from = "straying" => strays + Cardinality(Strayed) < MaxStrays
  BY <1>2 DEF MayReceive, Idle, Holders
<1>7. Cardinality(Holders') = sem' + strays'
  <2>1. Cardinality(Holders \ {r}) = IF r \in Holders THEN Cardinality(Holders) - 1
                                                      ELSE Cardinality(Holders)
    BY Groups, Counted
  <2>2. Cardinality(Holders') = Cardinality(Holders \ {r}) + 1
    BY <1>1, <1>5, Groups, Counted
  <2>3. QED
    BY <1>6, <2>1, <2>2, Queues
<1>8. strays' \in 0..MaxStrays /\ strays' + Cardinality(Strayed') <= MaxStrays
  BY <1>5, <1>6, Queues
<1>9. TypeOK'
  BY <1>1, <1>4, <1>8, Queues DEF TypeOK
<1>10. BulkheadInv'
  BY <1>1, <1>5, <1>7, <1>8, <1>9, Queues, InvAgain
<1>11. CASE from # "straying"
  BY <1>1, <1>5, <1>6, <1>10, <1>11 DEF LimitStep, Slots!Next, Slots!TakeOver
<1>12. CASE from = "straying"
  <2>1. Cardinality(Holders) < MaxConcurrent + MaxStrays
    BY <1>1, <1>6, <1>12, Queues
  <2>2. Slots!Enter(g)
    BY <1>5, <1>6, <1>12, <2>1, SameCount DEF Slots!Enter
  <2>3. QED
    BY <1>1, <1>10, <2>2 DEF LimitStep, Slots!Next
<1>13. QED
  BY <1>11, <1>12

(* <-b.sem takes one out of the buffer.                                      *)
LEMMA Emptied ==
  ASSUME BulkheadInv, NEW r \in Goroutines, NEW from, MayReceive(r, from),
         sendq = <<>>, sem > 0,
         call' = [call EXCEPT ![r] = "released"],
         sem' = sem - 1,
         strays' = IF from = "straying" THEN strays + 1 ELSE strays,
         UNCHANGED <<sendq, recvq>>
  PROVE  BulkheadInv' /\ LimitStep
<1>1. recvq = <<>>
  BY Queues
<1>2. call \in [Goroutines -> Idle \cup Blocked \cup {"inside"}]
  BY DEF BulkheadInv, TypeOK
<1>3. call' \in [Goroutines -> Idle \cup Blocked \cup {"inside"}]
  BY <1>2 DEF Idle
<1>4. /\ Holders' = Holders \ {r}
      /\ Strayed' = Strayed /\ Senders' = Senders /\ Receivers' = Receivers
  BY <1>2 DEF MayReceive, Idle, Holders, Strayed, Senders, Receivers
<1>5. /\ r \in Holders <=> from # "straying"
      /\ from = "straying" => strays + Cardinality(Strayed) < MaxStrays
  BY <1>2 DEF MayReceive, Idle, Holders
<1>6. Cardinality(Holders') = sem' + strays'
  <2>1. Cardinality(Holders \ {r}) = IF r \in Holders THEN Cardinality(Holders) - 1
                                                      ELSE Cardinality(Holders)
    BY Groups, Counted
  <2>2. QED
    BY <1>4, <1>5, <2>1, Queues
<1>7. strays' \in 0..MaxStrays /\ strays' + Cardinality(Strayed') <= MaxStrays
  BY <1>4, <1>5, Queues
<1>8. TypeOK'
  BY <1>1, <1>3, <1>7, Queues DEF TypeOK
<1>9. BulkheadInv'
  BY <1>1, <1>4, <1>6, <1>7, <1>8, Queues, InvAgain
<1>10. CASE from # "straying"
  BY <1>4, <1>5, <1>9, <1>10 DEF LimitStep, Slots!Next, Slots!Leave
<1>11. CASE from = "straying"
  BY <1>4, <1>5, <1>9, <1>11 DEF LimitStep
<1>12. QED
  BY <1>10, <1>11

(* <-b.sem blocks: only when more slots were returned than taken.            *)
LEMMA ReceiverBlocks ==
  ASSUME BulkheadInv, NEW r \in Goroutines, NEW from, MayReceive(r, from),
         sendq = <<>>, sem = 0,
         call' = [call EXCEPT ![r] = from],
         recvq' = Append(recvq, r),
         UNCHANGED <<sem, sendq, strays>>
  PROVE  BulkheadInv' /\ LimitStep
<1>1. call \in [Goroutines -> Idle \cup Blocked \cup {"inside"}]
  BY DEF BulkheadInv, TypeOK
<1>2. call' \in [Goroutines -> Idle \cup Blocked \cup {"inside"}]
  BY <1>1 DEF MayReceive, Blocked
<1>3. /\ Holders' = Holders
      /\ Strayed' = IF from = "straying" THEN Strayed \cup {r} ELSE Strayed
      /\ Senders' = Senders
      /\ r \notin Receivers /\ Receivers' = Receivers \cup {r}
  BY <1>1 DEF MayReceive, Idle, Holders, Strayed, Senders, Receivers
<1>4. /\ recvq' \in Seq(Goroutines) /\ IsInjective(recvq')
      /\ ToSet(recvq') = Receivers'
  BY <1>3, Joined, Queues
<1>5. /\ from = "straying" => strays + Cardinality(Strayed) < MaxStrays
      /\ from # "straying" => r \in Holders
  BY <1>1 DEF MayReceive, Holders
<1>6. strays' + Cardinality(Strayed') <= MaxStrays
  <2>1. r \notin Strayed
    BY <1>3, Groups
  <2>2. Cardinality(Strayed \cup {r}) = Cardinality(Strayed) + 1
    BY <2>1, Groups, Counted
  <2>3. QED
    BY <1>3, <1>5, <2>2, Queues
<1>7. strays' # 0 \/ Strayed' # {}
  <2>1. CASE from = "straying"
    BY <1>3, <2>1
  <2>2. CASE from # "straying"
    <3>1. Cardinality(Holders) >= 1
      BY <1>5, <2>2, Groups, Counted
    <3>2. QED
      BY <3>1, Queues
  <2>3. QED
    BY <2>1, <2>2
<1>8. TypeOK'
  BY <1>2, <1>4, Queues DEF TypeOK
<1>9. BulkheadInv'
  BY <1>3, <1>4, <1>6, <1>7, <1>8, Queues, InvAgain
<1>10. QED
  BY <1>3, <1>9 DEF LimitStep

LEMMA ReceiveStep ==
  ASSUME BulkheadInv, NEW r \in Goroutines, NEW from, MayReceive(r, from),
         Receive(r, from)
  PROVE  BulkheadInv' /\ LimitStep
BY ReceivedFromSender, Emptied, ReceiverBlocks DEF Receive

(* The select of Acquire blocks: every slot is taken.                        *)
LEMMA SenderBlocks ==
  ASSUME BulkheadInv, NEW g \in Goroutines, call[g] \in Idle, ~SlotFree,
         call' = [call EXCEPT ![g] = "acquiring"],
         sendq' = Append(sendq, g),
         UNCHANGED <<sem, recvq, strays>>
  PROVE  BulkheadInv' /\ LimitStep
<1>1. call \in [Goroutines -> Idle \cup Blocked \cup {"inside"}]
  BY DEF BulkheadInv, TypeOK
<1>2. call' \in [Goroutines -> Idle \cup Blocked \cup {"inside"}]
  BY <1>1 DEF Blocked
<1>3. /\ Holders' = Holders /\ Strayed' = Strayed /\ Receivers' = Receivers
      /\ g \notin Senders /\ Senders' = Senders \cup {g}
  BY <1>1 DEF Idle, Holders, Strayed, Senders, Receivers
<1>4. /\ sendq' \in Seq(Goroutines) /\ IsInjective(sendq')
      /\ ToSet(sendq') = Senders'
  BY <1>3, Joined, Queues
<1>5. recvq = <<>> /\ sem = MaxConcurrent
  BY Queues DEF SlotFree
<1>6. TypeOK'
  BY <1>2, <1>4, Queues DEF TypeOK
<1>7. BulkheadInv'
  BY <1>3, <1>4, <1>5, <1>6, Queues, InvAgain
<1>8. QED
  BY <1>3, <1>7 DEF LimitStep

(* A call ends where it began: without a slot, and without having waited.    *)
LEMMA TurnedAway ==
  ASSUME BulkheadInv, NEW g \in Goroutines, call[g] \in Idle,
         NEW err \in Idle, call' = [call EXCEPT ![g] = err],
         UNCHANGED <<sem, sendq, recvq, strays>>
  PROVE  BulkheadInv' /\ LimitStep
<1>1. call \in [Goroutines -> Idle \cup Blocked \cup {"inside"}]
  BY DEF BulkheadInv, TypeOK
<1>2. call' \in [Goroutines -> Idle \cup Blocked \cup {"inside"}]
  BY <1>1
<1>3. /\ Holders' = Holders /\ Strayed' = Strayed
      /\ Senders' = Senders /\ Receivers' = Receivers
  BY <1>1 DEF Idle, Holders, Strayed, Senders, Receivers
<1>4. TypeOK'
  BY <1>2, Queues DEF TypeOK
<1>5. BulkheadInv'
  BY <1>3, <1>4, Queues, InvAgain
<1>6. QED
  BY <1>3, <1>5 DEF LimitStep

(* ctx ends in the queue: the place is given up, the others keep theirs.     *)
LEMMA SenderGivesUp ==
  ASSUME BulkheadInv, NEW g \in Goroutines, Cancelled(g)
  PROVE  BulkheadInv' /\ LimitStep
<1>1. PICK i \in DOMAIN sendq :
        /\ sendq[i] = g
        /\ sendq' = RemoveAt(sendq, i)
        /\ call' = [call EXCEPT ![g] = "ctxErr"]
        /\ UNCHANGED <<sem, recvq, strays>>
  BY DEF Cancelled
<1>2. /\ sendq' \in Seq(Goroutines) /\ IsInjective(sendq')
      /\ ToSet(sendq') = Senders \ {g}
  BY <1>1, Queues, Removed, GivenUp
<1>3. g \in Senders /\ sendq # <<>>
  BY <1>1, Queues DEF ToSet
<1>4. call \in [Goroutines -> Idle \cup Blocked \cup {"inside"}]
  BY DEF BulkheadInv, TypeOK
<1>5. call' \in [Goroutines -> Idle \cup Blocked \cup {"inside"}]
  BY <1>1, <1>4 DEF Idle
<1>6. /\ Holders' = Holders /\ Strayed' = Strayed
      /\ Senders' = Senders \ {g} /\ Receivers' = Receivers
  BY <1>1, <1>3, <1>4 DEF Holders, Strayed, Senders, Receivers
<1>7. TypeOK'
  BY <1>1, <1>2, <1>5, Queues DEF TypeOK
<1>8. BulkheadInv'
  BY <1>1, <1>2, <1>3, <1>6, <1>7, Queues, InvAgain
<1>9. QED
  BY <1>6, <1>8 DEF LimitStep
-----------------------------------------------------------------------------
LEMMA BulkheadStep ==
  ASSUME BulkheadInv, [Next]_vars PROVE BulkheadInv' /\ LimitStep
<1>1. ASSUME NEW g \in Goroutines, Acquire(g) PROVE BulkheadInv' /\ LimitStep
  BY <1>1, SendStep, SenderBlocks DEF Acquire
<1>2. ASSUME NEW g \in Goroutines, AcquireDone(g) PROVE BulkheadInv' /\ LimitStep
  <2>1. "ctxErr" \in Idle
    BY DEF Idle
  <2>2. QED
    BY <1>2, <2>1, TurnedAway DEF AcquireDone
<1>3. ASSUME NEW g \in Goroutines, Cancelled(g) PROVE BulkheadInv' /\ LimitStep
  BY <1>3, SenderGivesUp
<1>4. ASSUME NEW g \in Goroutines, TryAcquire(g) PROVE BulkheadInv' /\ LimitStep
  <2>1. "ErrFull" \in Idle
    BY DEF Idle
  <2>2. QED
    BY <1>4, <2>1, SendStep, TurnedAway DEF TryAcquire
<1>5. ASSUME NEW g \in Goroutines, Release(g) PROVE BulkheadInv' /\ LimitStep
  <2>1. MayReceive(g, "releasing") /\ Receive(g, "releasing")
    BY <1>5 DEF Release, MayReceive
  <2>2. QED
    BY <2>1, ReceiveStep
<1>6. ASSUME NEW g \in Goroutines, StrayRelease(g) PROVE BulkheadInv' /\ LimitStep
  <2>1. MayReceive(g, "straying") /\ Receive(g, "straying")
    BY <1>6 DEF StrayRelease, MayReceive
  <2>2. QED
    BY <2>1, ReceiveStep
<1>7. CASE UNCHANGED vars
  <2>1. /\ Holders' = Holders /\ Strayed' = Strayed
        /\ Senders' = Senders /\ Receivers' = Receivers
    BY <1>7 DEF vars, Holders, Strayed, Senders, Receivers
  <2>2. TypeOK'
    BY <1>7 DEF vars, BulkheadInv, TypeOK
  <2>3. BulkheadInv'
    BY <1>7, <2>1, <2>2, Queues, InvAgain DEF vars
  <2>4. QED
    BY <2>1, <2>3 DEF LimitStep
<1>8. QED
  BY <1>1, <1>2, <1>3, <1>4, <1>5, <1>6, <1>7 DEF Next

LEMMA BulkheadInit == Init => BulkheadInv /\ Slots!Init
<1> SUFFICES ASSUME Init PROVE BulkheadInv /\ Slots!Init
  OBVIOUS
<1>1. /\ <<>> \in Seq(Goroutines) /\ ToSet(<<>>) = {} /\ IsInjective(<<>>)
  BY DEF ToSet, IsInjective
<1>2. Holders = {} /\ Strayed = {} /\ Senders = {} /\ Receivers = {}
  BY DEF Init, Holders, Strayed, Senders, Receivers
<1>3. Cardinality({}) = 0
  BY FS_EmptySet
<1>4. TypeOK
  BY <1>1, BulkheadAssumption DEF Init, TypeOK, Idle
<1>5. StraysBounded /\ SlotsAccounted
  BY <1>2, <1>3, BulkheadAssumption
  DEF Init, StraysBounded, SlotsAccounted, Available
<1>6. NoLostWakeup
  BY <1>1, <1>2 DEF Init, NoLostWakeup, QueuesExact, Senders, Receivers
<1>7. QED
  BY <1>2, <1>4, <1>5, <1>6 DEF BulkheadInv, Slots!Init

LEMMA BulkheadInductive == BulkheadInv /\ [Next]_vars => BulkheadInv'
BY BulkheadStep

LEMMA BulkheadInvariant == Spec => []BulkheadInv
BY BulkheadInductive, BulkheadInit, PTL DEF Spec

(* The variables keep their types: the buffer's length stays within its      *)
(* capacity, and the queues hold goroutines.                                 *)
THEOREM TypeCorrect == Spec => []TypeOK
<1>1. BulkheadInv => TypeOK
  BY DEF BulkheadInv
<1>2. QED
  BY <1>1, BulkheadInvariant, PTL

(* No interleaving of handovers, cancellations and panics loses a slot.      *)
THEOREM NoSlotIsLost == Spec => []SlotsAccounted
<1>1. BulkheadInv => SlotsAccounted
  BY DEF BulkheadInv
<1>2. QED
  BY <1>1, BulkheadInvariant, PTL

(* Nobody waits beside what it waits for, and nobody waits unqueued.         *)
THEOREM NobodyIsForgotten == Spec => []NoLostWakeup
<1>1. BulkheadInv => NoLostWakeup
  BY DEF BulkheadInv
<1>2. QED
  BY <1>1, BulkheadInvariant, PTL

(* The bulkhead is a concurrency limit, raised by one for each stray         *)
(* Release: whatever the buffer and the queues do, the goroutines inside     *)
(* come and go as calls under such a limit may.                              *)
THEOREM ImplementsLimit == Spec => SlotsSpec
<1>1. BulkheadInv /\ [Next]_vars => [Slots!Next]_Holders
  BY BulkheadStep DEF LimitStep
<1>2. QED
  BY <1>1, BulkheadInit, BulkheadInvariant, PTL DEF Spec, SlotsSpec, Slots!Spec
-----------------------------------------------------------------------------
(* Who stands before whom in a queue without repetitions.                    *)
Before(q, a, b) == \E i, j \in DOMAIN q : q[i] = a /\ q[j] = b /\ i < j

LEMMA OneIsFirst ==
  ASSUME NEW S, NEW q \in Seq(S), IsInjective(q),
         NEW a \in ToSet(q), NEW b \in ToSet(q), a # b
  PROVE  Before(q, a, b) <=> ~Before(q, b, a)
<1>1. DOMAIN q = 1..Len(q) /\ Len(q) \in Nat
  OBVIOUS
<1>2. PICK i, j \in 1..Len(q) : q[i] = a /\ q[j] = b
  BY <1>1 DEF ToSet
<1>3. /\ \A k \in 1..Len(q) : q[k] = a => k = i
      /\ \A k \in 1..Len(q) : q[k] = b => k = j
  BY <1>1, <1>2 DEF IsInjective
<1>4. Before(q, a, b) <=> i < j
  BY <1>1, <1>2, <1>3 DEF Before
<1>5. Before(q, b, a) <=> j < i
  BY <1>1, <1>2, <1>3 DEF Before
<1>6. i # j
  BY <1>2
<1>7. QED
  BY <1>4, <1>5, <1>6

LEMMA JoinedBehind ==
  ASSUME NEW S, NEW q \in Seq(S), NEW x \in S, NEW a \in ToSet(q)
  PROVE  /\ Before(Append(q, x), a, x)
         /\ \A b : Before(q, a, b) => Before(Append(q, x), a, b)
<1>1. /\ DOMAIN Append(q, x) = 1..(Len(q) + 1)
      /\ DOMAIN q = 1..Len(q)
      /\ Len(q) \in Nat
  OBVIOUS
<1>2. /\ \A i \in 1..Len(q) : i \in 1..(Len(q) + 1) /\ Append(q, x)[i] = q[i]
      /\ Len(q) + 1 \in 1..(Len(q) + 1) /\ Append(q, x)[Len(q) + 1] = x
  OBVIOUS
<1>3. PICK i \in 1..Len(q) : q[i] = a
  BY <1>1 DEF ToSet
<1>4. i < Len(q) + 1
  BY <1>1
<1>5. Before(Append(q, x), a, x)
  BY <1>1, <1>2, <1>3, <1>4 DEF Before
<1>6. ASSUME NEW b, Before(q, a, b) PROVE Before(Append(q, x), a, b)
  BY <1>1, <1>2, <1>6 DEF Before
<1>7. QED
  BY <1>5, <1>6

LEMMA ServedKeepsOrder ==
  ASSUME NEW S, NEW q \in Seq(S), q # <<>>, IsInjective(q)
  PROVE  /\ \A b \in ToSet(q) : b # Head(q) => Before(q, Head(q), b)
         /\ \A a, b \in ToSet(Tail(q)) : Before(q, a, b) => Before(Tail(q), a, b)
<1>1. /\ Head(q) = q[1]
      /\ Len(q) \in Nat \ {0}
      /\ DOMAIN q = 1..Len(q)
      /\ DOMAIN Tail(q) = 1..(Len(q) - 1)
      /\ 1 \in 1..Len(q)
  OBVIOUS
<1>2. \A i \in 1..(Len(q) - 1) : Tail(q)[i] = q[i + 1]
  OBVIOUS
<1>3. ASSUME NEW b \in ToSet(q), b # Head(q) PROVE Before(q, Head(q), b)
  <2>1. PICK j \in 1..Len(q) : q[j] = b
    BY <1>1 DEF ToSet
  <2>2. 1 < j
    BY <1>1, <1>3, <2>1
  <2>3. QED
    BY <1>1, <2>1, <2>2 DEF Before
<1>4. ASSUME NEW a \in ToSet(Tail(q)), NEW b \in ToSet(Tail(q)), Before(q, a, b)
      PROVE  Before(Tail(q), a, b)
  <2>1. PICK i, j \in 1..Len(q) : q[i] = a /\ q[j] = b /\ i < j
    BY <1>1, <1>4 DEF Before
  <2>2. a # Head(q)
    BY Served
  <2>3. i # 1
    BY <1>1, <2>1, <2>2
  <2>4. /\ i - 1 \in 1..(Len(q) - 1) /\ j - 1 \in 1..(Len(q) - 1)
        /\ i - 1 < j - 1 /\ (i - 1) + 1 = i /\ (j - 1) + 1 = j
    BY <1>1, <2>1, <2>3
  <2>5. Tail(q)[i - 1] = a /\ Tail(q)[j - 1] = b
    BY <1>2, <2>1, <2>4
  <2>6. QED
    BY <1>1, <2>4, <2>5 DEF Before
<1>5. QED
  BY <1>3, <1>4

LEMMA GivenUpKeepsOrder ==
  ASSUME NEW S, NEW q \in Seq(S), NEW k \in DOMAIN q,
         NEW a, NEW b, a # q[k], b # q[k], Before(q, a, b)
  PROVE  Before(RemoveAt(q, k), a, b)
<1> DEFINE rest == RemoveAt(q, k)
<1>1. /\ Len(q) \in Nat \ {0} /\ DOMAIN q = 1..Len(q) /\ k \in 1..Len(q)
      /\ DOMAIN rest = 1..(Len(q) - 1)
      /\ \A n \in 1..(Len(q) - 1) : rest[n] = IF n < k THEN q[n] ELSE q[n + 1]
  BY Removed
<1> HIDE DEF rest
<1> DEFINE new(n) == IF n < k THEN n ELSE n - 1
<1>2. PICK i, j \in 1..Len(q) : q[i] = a /\ q[j] = b /\ i < j
  BY <1>1 DEF Before
<1>3. i # k /\ j # k
  BY <1>2
<1>4. ASSUME NEW n \in 1..Len(q), n # k
      PROVE  new(n) \in 1..(Len(q) - 1) /\ rest[new(n)] = q[n]
  <2>1. CASE n < k
    BY <1>1, <2>1
  <2>2. CASE ~(n < k)
    <3>1. n - 1 \in 1..(Len(q) - 1) /\ ~(n - 1 < k) /\ (n - 1) + 1 = n
      BY <1>1, <1>4, <2>2
    <3>2. QED
      BY <1>1, <2>2, <3>1
  <2>3. QED
    BY <2>1, <2>2
<1>5. new(i) < new(j)
  BY <1>1, <1>2, <1>3
<1>6. /\ new(i) \in 1..(Len(q) - 1) /\ new(j) \in 1..(Len(q) - 1)
      /\ rest[new(i)] = a /\ rest[new(j)] = b
  BY <1>2, <1>3, <1>4
<1> HIDE DEF new
<1>7. Before(rest, a, b)
  BY <1>1, <1>5, <1>6 DEF Before
<1>8. QED
  BY <1>7 DEF rest

(* What a step does while somebody waits for a slot.                         *)
NobodyEnters == \A h \in Goroutines : call'[h] = "inside" => call[h] = "inside"

WaitingStep ==
  \/ sendq' = sendq /\ NobodyEnters
  \/ /\ \E x \in Goroutines \ ToSet(sendq) : sendq' = Append(sendq, x)
     /\ NobodyEnters
  \/ /\ sendq' = Tail(sendq)
     /\ \A h \in Goroutines :
          call[h] # "inside" /\ call'[h] = "inside" => h = Head(sendq)
  \/ /\ \E i \in DOMAIN sendq : sendq' = RemoveAt(sendq, i)
     /\ NobodyEnters

LEMMA WhileWaiting ==
  ASSUME BulkheadInv, sendq # <<>>, [Next]_vars PROVE WaitingStep
<1>1. sem = MaxConcurrent /\ recvq = <<>> /\ MaxConcurrent \in Nat
  BY Queues
<1>2. call \in [Goroutines -> Idle \cup Blocked \cup {"inside"}]
  BY DEF BulkheadInv, TypeOK
<1>3. ASSUME NEW g \in Goroutines PROVE ~Send(g)
  BY <1>1 DEF Send
<1>4. ASSUME NEW r \in Goroutines, NEW from, from # "inside", Receive(r, from)
      PROVE  WaitingStep
  <2>1. /\ call' = [call EXCEPT ![r] = "released", ![Head(sendq)] = "inside"]
        /\ sendq' = Tail(sendq)
    BY <1>4 DEF Receive
  <2>2. QED
    BY <1>2, <2>1 DEF WaitingStep
<1>5. ASSUME NEW g \in Goroutines, Acquire(g) PROVE WaitingStep
  <2>1. call[g] \in Idle /\ call' = [call EXCEPT ![g] = "acquiring"] /\ sendq' = Append(sendq, g)
    BY <1>3, <1>5 DEF Acquire
  <2>2. g \notin ToSet(sendq)
    BY <2>1, Queues DEF Senders, Idle
  <2>3. NobodyEnters
    BY <1>2, <2>1 DEF NobodyEnters
  <2>4. QED
    BY <2>1, <2>2, <2>3 DEF WaitingStep
<1>6. ASSUME NEW g \in Goroutines, AcquireDone(g) \/ TryAcquire(g) PROVE WaitingStep
  <2>1. /\ \/ call' = [call EXCEPT ![g] = "ctxErr"]
           \/ call' = [call EXCEPT ![g] = "ErrFull"]
        /\ sendq' = sendq
    BY <1>3, <1>6 DEF AcquireDone, TryAcquire
  <2>2. NobodyEnters
    BY <1>2, <2>1 DEF NobodyEnters
  <2>3. QED
    BY <2>1, <2>2 DEF WaitingStep
<1>7. ASSUME NEW g \in Goroutines, Cancelled(g) PROVE WaitingStep
  <2>1. /\ call' = [call EXCEPT ![g] = "ctxErr"]
        /\ \E i \in DOMAIN sendq : sendq' = RemoveAt(sendq, i)
    BY <1>7 DEF Cancelled
  <2>2. NobodyEnters
    BY <1>2, <2>1 DEF NobodyEnters
  <2>3. QED
    BY <2>1, <2>2 DEF WaitingStep
<1>8. ASSUME NEW g \in Goroutines, Release(g) \/ StrayRelease(g) PROVE WaitingStep
  BY <1>4, <1>8 DEF Release, StrayRelease
<1>9. CASE UNCHANGED vars
  BY <1>9 DEF vars, WaitingStep, NobodyEnters
<1>10. QED
  BY <1>5, <1>6, <1>7, <1>8, <1>9 DEF Next

Fair ==
  \A g, h \in Goroutines :
    g # h /\ call[g] = "acquiring" /\ call'[g] = "acquiring" =>
      /\ call[h] # "inside" /\ call'[h] = "inside" => Ahead(h, g)
      /\ call'[h] = "acquiring" => (Ahead(g, h)' <=> ~Ahead(h, g))

LEMMA FairStep ==
  ASSUME BulkheadInv, BulkheadInv', [Next]_vars PROVE Fair
<1> SUFFICES ASSUME NEW g \in Goroutines, NEW h \in Goroutines,
                    g # h, call[g] = "acquiring", call'[g] = "acquiring"
             PROVE  /\ call[h] # "inside" /\ call'[h] = "inside" => Ahead(h, g)
                    /\ call'[h] = "acquiring" => (Ahead(g, h)' <=> ~Ahead(h, g))
  BY DEF Fair
<1> DEFINE q == sendq
           p == sendq'
<1>1. /\ q \in Seq(Goroutines) /\ IsInjective(q) /\ ToSet(q) = Senders
      /\ p \in Seq(Goroutines) /\ IsInjective(p) /\ ToSet(p) = Senders'
  <2>1. BulkheadInv' => /\ sendq' \in Seq(Goroutines) /\ IsInjective(sendq')
                        /\ ToSet(sendq') = Senders'
    BY DEF BulkheadInv, TypeOK, NoLostWakeup, QueuesExact, Senders
  <2>2. QED
    BY <2>1, Queues
<1>2. g \in ToSet(q) /\ g \in ToSet(p)
  BY <1>1 DEF Senders
<1>3. /\ h \in ToSet(p) <=> call'[h] = "acquiring"
      /\ h \in ToSet(q) <=> call[h] = "acquiring"
  BY <1>1 DEF Senders
<1>4. WaitingStep
  <2>1. sendq # <<>>
    BY <1>2 DEF ToSet
  <2>2. QED
    BY <2>1, WhileWaiting
<1>5. /\ Ahead(h, g) <=> Before(q, h, g)
      /\ Ahead(g, h) <=> Before(q, g, h)
      /\ Ahead(g, h)' <=> Before(p, g, h)
      /\ Ahead(h, g)' <=> Before(p, h, g)
  BY DEF Ahead, Before
<1>6. ASSUME h \in ToSet(q), h \in ToSet(p),
             Before(q, g, h) => Before(p, g, h),
             Before(q, h, g) => Before(p, h, g)
      PROVE  Ahead(g, h)' <=> ~Ahead(h, g)
  <2>1. Before(q, g, h) <=> ~Before(q, h, g)
    BY <1>1, <1>2, <1>6, OneIsFirst
  <2>2. Before(p, g, h) <=> ~Before(p, h, g)
    BY <1>1, <1>2, <1>6, OneIsFirst
  <2>3. QED
    BY <1>5, <1>6, <2>1, <2>2
<1>7. CASE sendq' = sendq /\ NobodyEnters
  BY <1>3, <1>6, <1>7 DEF NobodyEnters
<1>8. CASE NobodyEnters /\ \E x \in Goroutines \ ToSet(sendq) : sendq' = Append(sendq, x)
  <2>1. PICK x \in Goroutines \ ToSet(q) : p = Append(q, x)
    BY <1>8
  <2>2. Before(q, g, h) => Before(p, g, h)
    BY <1>1, <1>2, <2>1, JoinedBehind
  <2>3. CASE h \in ToSet(q)
    <3>1. Before(q, h, g) => Before(p, h, g)
      BY <1>1, <2>1, <2>3, JoinedBehind
    <3>2. QED
      BY <1>3, <1>6, <1>8, <2>2, <2>3, <3>1 DEF NobodyEnters
  <2>4. CASE h \notin ToSet(q)
    <3>1. ~Before(q, h, g)
      BY <2>4 DEF Before, ToSet
    <3>2. h \in ToSet(p) => h = x
      BY <1>1, <2>1, <2>4, Joined
    <3>3. Before(p, g, x)
      BY <1>1, <1>2, <2>1, JoinedBehind
    <3>4. QED
      BY <1>3, <1>5, <1>8, <3>1, <3>2, <3>3 DEF NobodyEnters
  <2>5. QED
    BY <2>3, <2>4
<1>9. CASE /\ sendq' = Tail(sendq)
           /\ \A x \in Goroutines :
                call[x] # "inside" /\ call'[x] = "inside" => x = Head(sendq)
  <2>1. q # <<>> /\ ToSet(p) \subseteq ToSet(q)
    <3>1. q # <<>>
      BY <1>2 DEF ToSet
    <3>2. QED
      BY <1>1, <1>9, <3>1, Served
  <2>2. /\ Before(q, g, h) /\ h \in ToSet(p) => Before(p, g, h)
        /\ Before(q, h, g) /\ h \in ToSet(p) => Before(p, h, g)
    BY <1>1, <1>2, <1>9, <2>1, ServedKeepsOrder
  <2>3. h = Head(q) => Before(q, h, g)
    BY <1>1, <1>2, <2>1, ServedKeepsOrder
  <2>4. QED
    BY <1>3, <1>5, <1>6, <1>9, <2>1, <2>2, <2>3
<1>10. CASE NobodyEnters /\ \E i \in DOMAIN sendq : sendq' = RemoveAt(sendq, i)
  <2>1. PICK i \in DOMAIN q : p = RemoveAt(q, i)
    BY <1>10
  <2>2. ToSet(p) = ToSet(q) \ {q[i]}
    BY <1>1, <2>1, GivenUp
  <2>3. g # q[i] /\ (h \in ToSet(p) => h # q[i])
    BY <1>2, <2>2
  <2>4. /\ Before(q, g, h) /\ h \in ToSet(p) => Before(p, g, h)
        /\ Before(q, h, g) /\ h \in ToSet(p) => Before(p, h, g)
    BY <1>1, <2>1, <2>3, GivenUpKeepsOrder
  <2>5. QED
    BY <1>3, <1>6, <1>10, <2>2, <2>4 DEF NobodyEnters
<1>11. QED
  BY <1>4, <1>7, <1>8, <1>9, <1>10 DEF WaitingStep

(* A slot goes to the longest waiter.                                        *)
THEOREM LongestWaiterFirst == Spec => FirstComeFirstServed
<1>1. BulkheadInv /\ BulkheadInv' /\ [Next]_vars => [Fair]_vars
  BY FairStep
<1>2. Spec => [][Fair]_vars
  BY <1>1, BulkheadInvariant, PTL DEF Spec
<1>3. QED
  BY <1>2 DEF FirstComeFirstServed, Fair
-----------------------------------------------------------------------------
(* The bulkhead within a nesting with timeout.Do, for any set of calls.      *)
T == INSTANCE Timeout WITH Calls <- Goroutines

(* The bulkhead's operations are the same within a nesting.                  *)
LEMMA SameOperations ==
  ASSUME NEW c \in Goroutines
  PROVE  /\ BT!B!Acquire(c) \/ TB!B!Acquire(c) => Acquire(c)
         /\ TB!B!Send(c) => Send(c)
         /\ BT!B!AcquireDone(c) \/ TB!B!AcquireDone(c) => AcquireDone(c)
         /\ BT!B!Cancelled(c) \/ TB!B!Cancelled(c) => Cancelled(c)
         /\ BT!B!Release(c) \/ TB!B!Release(c) => Release(c)
<1>1. /\ BT!B!Idle = Idle /\ TB!B!Idle = Idle
      /\ BT!B!Strayed = Strayed /\ TB!B!Strayed = Strayed
      /\ (BT!B!SlotFree <=> SlotFree) /\ (TB!B!SlotFree <=> SlotFree)
  BY DEF Idle, BT!B!Idle, TB!B!Idle, Strayed, BT!B!Strayed, TB!B!Strayed,
     SlotFree, BT!B!SlotFree, TB!B!SlotFree
<1>2. (BT!B!Send(c) <=> Send(c)) /\ (TB!B!Send(c) <=> Send(c))
  BY <1>1 DEF Send, BT!B!Send, TB!B!Send
<1>3. BT!B!Acquire(c) \/ TB!B!Acquire(c) => Acquire(c)
  BY <1>1, <1>2 DEF Acquire, BT!B!Acquire, TB!B!Acquire
<1>4. BT!B!AcquireDone(c) \/ TB!B!AcquireDone(c) => AcquireDone(c)
  BY <1>1 DEF AcquireDone, BT!B!AcquireDone, TB!B!AcquireDone
<1>5. BT!B!Cancelled(c) \/ TB!B!Cancelled(c) => Cancelled(c)
  BY DEF Cancelled, RemoveAt, BT!B!Cancelled, BT!B!RemoveAt, TB!B!Cancelled, TB!B!RemoveAt
<1>6. BT!B!Release(c) \/ TB!B!Release(c) => Release(c)
  BY DEF Release, Receive, BT!B!Release, BT!B!Receive, TB!B!Release, TB!B!Receive
<1>7. QED
  BY <1>2, <1>3, <1>4, <1>5, <1>6

(* What a nesting does to the bulkhead is one of these, or nothing.          *)
PairedOperation ==
  \E c \in Goroutines : Acquire(c) \/ AcquireDone(c) \/ Cancelled(c) \/ Release(c)

LEMMA StepOfBulkhead ==
  ASSUME NestedNext \/ UNCHANGED nestedVars PROVE PairedOperation \/ UNCHANGED vars
<1>1. CASE UNCHANGED nestedVars
  BY <1>1 DEF nestedVars, vars
<1>2. CASE BT!Next
  <2>1. ASSUME NEW c \in Goroutines, BT!Enter(c) \/ BT!Cancelled(c) \/ BT!Leave(c)
        PROVE  PairedOperation
    BY <2>1, SameOperations DEF BT!Enter, BT!Cancelled, BT!Leave, PairedOperation
  <2>2. ASSUME NEW c \in Goroutines, BT!Run(c) \/ BT!Abandoned(c) PROVE UNCHANGED vars
    BY <2>2 DEF BT!Run, BT!Abandoned, BT!bulkheadVars, vars
  <2>3. CASE UNCHANGED BT!vars
    BY <2>3 DEF BT!vars, BT!bulkheadVars, vars
  <2>4. QED
    BY <1>2, <2>1, <2>2, <2>3 DEF BT!Next
<1>3. CASE TB!Next
  <2>1. ASSUME NEW c \in Goroutines, TB!Enter(c) PROVE PairedOperation
    BY <2>1, SameOperations DEF TB!Enter, PairedOperation, Acquire, Idle
  <2>2. ASSUME NEW c \in Goroutines, TB!CtxEnds(c) PROVE PairedOperation \/ UNCHANGED vars
    BY <2>2, SameOperations DEF TB!CtxEnds, TB!bulkheadVars, PairedOperation, vars
  <2>3. ASSUME NEW c \in Goroutines, TB!Leave(c) PROVE PairedOperation
    BY <2>3, SameOperations DEF TB!Leave, PairedOperation
  <2>4. ASSUME NEW c \in Goroutines,
               TB!FnBegins(c) \/ TB!FnEnds(c) \/ TB!FnReturns(c) \/ TB!CallerSteps(c)
        PROVE  UNCHANGED vars
    BY <2>4 DEF TB!FnBegins, TB!FnEnds, TB!FnReturns, TB!CallerSteps, TB!bulkheadVars, vars
  <2>5. CASE UNCHANGED TB!vars
    BY <2>5 DEF TB!vars, TB!bulkheadVars, vars
  <2>6. QED
    BY <1>3, <2>1, <2>2, <2>3, <2>4, <2>5 DEF TB!Next
<1>4. QED
  BY <1>1, <1>2, <1>3 DEF NestedNext

(* Whichever strategy is outside, what the nesting does with the bulkhead's  *)
(* channel is what the bulkhead allows: whatever has been proved of it holds *)
(* in the nestings, for calls that time out and workers left behind too.     *)
THEOREM NestedUsesBulkhead == NestedSpec => Spec
<1>1. NestedInit => Init
  BY DEF NestedInit, TB!Init, TB!B!Init, Init
<1>2. [NestedNext]_nestedVars => [Next]_vars
  BY StepOfBulkhead DEF PairedOperation, Next
<1>3. QED
  BY <1>1, <1>2, PTL DEF NestedSpec, Spec

(* So in both nestings no slot is lost or made, no call sleeps beside a free *)
(* slot, who waits longest goes first, and the limit on calls inside holds.  *)
THEOREM NestedKeepsBulkhead ==
  NestedSpec => [](SlotsAccounted /\ NoLostWakeup) /\ FirstComeFirstServed /\ SlotsSpec
BY NestedUsesBulkhead, NoSlotIsLost, NobodyIsForgotten, LongestWaiterFirst, ImplementsLimit, PTL
-----------------------------------------------------------------------------
(* timeout.Do alone: a result is what the channel or the context held, and   *)
(* neither changes once it has been reported.                                *)
TimeoutInv ==
  /\ T!TypeOK
  /\ \A c \in Goroutines :
       /\ result[c] # "none" => result[c] \in {fnResult[c], ctx[c]}
       /\ worker[c] \in {"none", "running"} => fnResult[c] = "none"
       /\ caller[c] = "idle" => worker[c] = "none"

(* With timeout.Do outside: fn runs inside the bulkhead, and the slot is not *)
(* given back before fn has ended, which a worker's nil says it has.         *)
HoldInv ==
  /\ fn \in [Goroutines -> {"before", "running", "after"}]
  /\ \A c \in Goroutines :
       /\ fn[c] = "running" => call[c] = "inside"
       /\ call[c] \in {"released", "releasing"} => fn[c] = "after"
       /\ fnResult[c] = "nil" => fn[c] = "after"

(* Nested calls release what they have acquired and nothing else.            *)
Paired == strays = 0 /\ Strayed = {}

NestedInv ==
  /\ outer \in {"bulkhead", "timeout"}
  /\ TimeoutInv
  /\ Paired
  /\ outer = "timeout" => HoldInv

(* What each nesting does to the timeout is a step of the timeout, or none.  *)
LEMMA StepOfTimeout ==
  ASSUME NestedNext \/ UNCHANGED nestedVars
  PROVE  UNCHANGED T!vars \/ \E c \in Goroutines : T!Step(c)
<1>1. ASSUME NEW c \in Goroutines, BT!T!Step(c) PROVE T!Step(c)
  BY <1>1 DEF BT!T!Step, BT!T!Start, BT!T!Expire, BT!T!ParentCancels, BT!T!CtxEnds,
     BT!T!FnReturns, BT!T!Send, BT!T!Select, BT!T!Return, BT!T!Decide, BT!T!CtxErrs,
     T!Step, T!Start, T!Expire, T!ParentCancels, T!CtxEnds, T!FnReturns, T!Send,
     T!Select, T!Return, T!Decide, T!CtxErrs
<1>2. ASSUME NEW c \in Goroutines, TB!T!Step(c) PROVE T!Step(c)
  BY <1>2 DEF TB!T!Step, TB!T!Start, TB!T!Expire, TB!T!ParentCancels, TB!T!CtxEnds,
     TB!T!FnReturns, TB!T!Send, TB!T!Select, TB!T!Return, TB!T!Decide, TB!T!CtxErrs,
     T!Step, T!Start, T!Expire, T!ParentCancels, T!CtxEnds, T!FnReturns, T!Send,
     T!Select, T!Return, T!Decide, T!CtxErrs
<1>3. CASE UNCHANGED nestedVars
  BY <1>3 DEF nestedVars, T!vars
<1>4. CASE BT!Next
  BY <1>1, <1>4 DEF BT!Next, BT!Enter, BT!Cancelled, BT!Run, BT!Abandoned, BT!Leave,
     BT!timeoutVars, BT!vars, T!vars
<1>5. CASE TB!Next
  BY <1>2, <1>5 DEF TB!Next, TB!Enter, TB!CtxEnds, TB!FnBegins, TB!FnEnds, TB!Leave,
     TB!FnReturns, TB!CallerSteps, TB!timeoutVars, TB!vars, T!vars, TB!T!Step
<1>6. QED
  BY <1>3, <1>4, <1>5 DEF NestedNext

LEMMA TimeoutFirst == NestedInit => TimeoutInv
BY DEF NestedInit, TB!Init, TB!T!Init, TimeoutInv, T!TypeOK, T!Results, T!CtxErrs

LEMMA TimeoutStep ==
  ASSUME TimeoutInv, NestedNext \/ UNCHANGED nestedVars PROVE TimeoutInv'
<1> USE DEF T!Results, T!CtxErrs
<1>1. CASE UNCHANGED T!vars
  BY <1>1 DEF TimeoutInv, T!TypeOK, T!vars
<1>2. ASSUME NEW c \in Goroutines, T!Start(c) PROVE TimeoutInv'
  BY <1>2 DEF TimeoutInv, T!TypeOK, T!Start
<1>3. ASSUME NEW c \in Goroutines, NEW err \in T!CtxErrs, T!CtxEnds(c, err) PROVE TimeoutInv'
  BY <1>3 DEF TimeoutInv, T!TypeOK, T!CtxEnds, T!Decide
<1>4. ASSUME NEW c \in Goroutines, T!FnReturns(c) PROVE TimeoutInv'
  BY <1>4 DEF TimeoutInv, T!TypeOK, T!FnReturns
<1>5. ASSUME NEW c \in Goroutines, T!Send(c) PROVE TimeoutInv'
  BY <1>5 DEF TimeoutInv, T!TypeOK, T!Send, T!Decide
<1>6. ASSUME NEW c \in Goroutines, T!Select(c) PROVE TimeoutInv'
  BY <1>6 DEF TimeoutInv, T!TypeOK, T!Select, T!Decide
<1>7. ASSUME NEW c \in Goroutines, T!Return(c) PROVE TimeoutInv'
  BY <1>7 DEF TimeoutInv, T!TypeOK, T!Return
<1>8. QED
  BY <1>1, <1>2, <1>3, <1>4, <1>5, <1>6, <1>7, StepOfTimeout
  DEF T!Step, T!Expire, T!ParentCancels
-----------------------------------------------------------------------------
(* Nested calls leave nothing behind in the bulkhead that is not theirs.     *)
LEMMA PairedStep ==
  ASSUME BulkheadInv, Paired, NestedNext \/ UNCHANGED nestedVars PROVE Paired'
<1>1. /\ call \in [Goroutines -> Idle \cup Blocked \cup {"inside"}]
      /\ sendq \in Seq(Goroutines) /\ recvq = <<>> /\ strays = 0
      /\ \A c \in Goroutines : call[c] # "straying"
  BY Queues DEF BulkheadInv, TypeOK, Paired, Strayed
<1>2. ASSUME NEW c \in Goroutines, Acquire(c) \/ AcquireDone(c) \/ Cancelled(c) \/ Release(c)
      PROVE  Paired'
  BY <1>1, <1>2 DEF Acquire, AcquireDone, Cancelled, Release, Send, Receive, Paired, Strayed
<1>3. CASE UNCHANGED vars
  BY <1>3 DEF vars, Paired, Strayed
<1>4. QED
  BY <1>2, <1>3, StepOfBulkhead DEF PairedOperation

LEMMA HoldStep ==
  ASSUME BulkheadInv, Paired, TimeoutInv, HoldInv, TB!Next \/ UNCHANGED nestedVars PROVE HoldInv'
<1>1. /\ call \in [Goroutines -> Idle \cup Blocked \cup {"inside"}]
      /\ sendq \in Seq(Goroutines) /\ recvq = <<>>
      /\ fn \in [Goroutines -> {"before", "running", "after"}]
  BY Queues DEF BulkheadInv, TypeOK, Paired, HoldInv
<1>2. CASE UNCHANGED <<call, fn, fnResult>>
  BY <1>2 DEF HoldInv
<1>3. ASSUME NEW c \in Goroutines, TB!Enter(c) PROVE HoldInv'
  <2>1. call[c] = "none" /\ UNCHANGED <<fn, fnResult>> /\ (Send(c) \/ Acquire(c) \/ AcquireDone(c))
    BY <1>3, SameOperations DEF TB!Enter, TB!timeoutVars
  <2>2. \E w \in {"inside", "acquiring", "ctxErr"} : call' = [call EXCEPT ![c] = w]
    BY <1>1, <2>1 DEF Send, Acquire, AcquireDone
  <2>3. QED
    BY <1>1, <2>1, <2>2 DEF HoldInv
<1>4. ASSUME NEW c \in Goroutines, TB!CtxEnds(c) PROVE HoldInv'
  <2>1. UNCHANGED <<fn, fnResult>>
    BY <1>4 DEF TB!CtxEnds, TB!T!Expire, TB!T!ParentCancels, TB!T!CtxEnds
  <2>2. \/ UNCHANGED call
        \/ call[c] = "acquiring" /\ call' = [call EXCEPT ![c] = "ctxErr"]
    BY <1>4, SameOperations DEF TB!CtxEnds, TB!bulkheadVars, Cancelled
  <2>3. QED
    BY <1>1, <2>1, <2>2 DEF HoldInv
<1>5. ASSUME NEW c \in Goroutines, TB!FnBegins(c) \/ TB!FnEnds(c) PROVE HoldInv'
  BY <1>5 DEF HoldInv, TB!FnBegins, TB!FnEnds, TB!bulkheadVars, TB!timeoutVars
<1>6. ASSUME NEW c \in Goroutines, TB!Leave(c) PROVE HoldInv'
  <2>1. fn[c] = "after" /\ UNCHANGED <<fn, fnResult>> /\ Receive(c, "releasing")
    BY <1>6, SameOperations DEF TB!Leave, TB!timeoutVars, Release
  <2>2. \A d \in Goroutines : d # c => call'[d] \in {call[d], "inside"}
    BY <1>1, <2>1 DEF Receive
  <2>3. QED
    BY <2>1, <2>2 DEF HoldInv
<1>7. ASSUME NEW c \in Goroutines, TB!FnReturns(c) PROVE HoldInv'
  <2>1. /\ call[c] \in {"released", "ctxErr"}
        /\ UNCHANGED <<call, fn>>
        /\ call[c] = "ctxErr" => fnResult'[c] = ctx[c]
        /\ \A d \in Goroutines : d # c => fnResult'[d] = fnResult[d]
    BY <1>7 DEF TB!FnReturns, TB!T!FnReturns, TB!bulkheadVars, TimeoutInv, T!TypeOK
  <2>2. ctx[c] # "nil"
    BY DEF TimeoutInv, T!TypeOK, T!CtxErrs
  <2>3. \A d \in Goroutines : fnResult'[d] = "nil" => fn[d] = "after"
    BY <2>1, <2>2 DEF HoldInv
  <2>4. QED
    BY <2>1, <2>3 DEF HoldInv
<1>8. ASSUME NEW c \in Goroutines, TB!CallerSteps(c) PROVE HoldInv'
  <2>1. UNCHANGED <<call, fn, fnResult>>
    BY <1>8 DEF TB!CallerSteps, TB!bulkheadVars, TB!T!Start, TB!T!Send, TB!T!Select,
       TB!T!Return
  <2>2. QED
    BY <1>2, <2>1
<1>9. CASE UNCHANGED TB!vars \/ UNCHANGED nestedVars
  BY <1>2, <1>9 DEF TB!vars, TB!bulkheadVars, TB!timeoutVars, nestedVars, vars
<1>10. QED
  BY <1>3, <1>4, <1>5, <1>6, <1>7, <1>8, <1>9 DEF TB!Next
-----------------------------------------------------------------------------
LEMMA NestedInvariant == NestedSpec => [](BulkheadInv /\ NestedInv)
<1>1. NestedInit => NestedInv
  <2> SUFFICES ASSUME NestedInit PROVE NestedInv
    OBVIOUS
  <2>1. /\ outer \in {"bulkhead", "timeout"}
        /\ TB!B!Init /\ TB!T!Init /\ fn = [c \in Goroutines |-> "before"]
    BY DEF NestedInit, TB!Init
  <2>2. Paired /\ HoldInv
    BY <2>1 DEF TB!B!Init, TB!T!Init, Paired, Strayed, HoldInv
  <2>3. QED
    BY <2>1, <2>2, TimeoutFirst DEF NestedInv
<1>2. BulkheadInv /\ NestedInv /\ [NestedNext]_nestedVars => NestedInv'
  <2> SUFFICES ASSUME BulkheadInv, NestedInv, NestedNext \/ UNCHANGED nestedVars PROVE NestedInv'
    OBVIOUS
  <2>1. outer' = outer
    BY DEF NestedNext, nestedVars
  <2>2. TimeoutInv' /\ Paired'
    BY TimeoutStep, PairedStep DEF NestedInv
  <2>3. ASSUME outer = "timeout" PROVE HoldInv'
    BY <2>3, HoldStep DEF NestedInv, NestedNext
  <2>4. QED
    BY <2>1, <2>2, <2>3 DEF NestedInv
<1>3. QED
  BY <1>1, <1>2, NestedUsesBulkhead, BulkheadInvariant, PTL DEF NestedSpec

(* ResultGenuine: the nil of a worker that was turned away from the bulkhead *)
(* never reaches the caller, nor anything else that did not happen.          *)
THEOREM ResultsAreGenuine == NestedSpec => []ResultGenuine
<1>1. NestedInv => ResultGenuine
  <2> SUFFICES ASSUME NestedInv PROVE ResultGenuine
    OBVIOUS
  <2>1. BT!T!ResultGenuine
    BY DEF NestedInv, TimeoutInv, BT!T!ResultGenuine
  <2>2. ASSUME outer = "timeout", NEW c \in Goroutines, result[c] = "nil" PROVE fn[c] = "after"
    <3>1. ctx[c] # "nil" /\ result[c] \in {fnResult[c], ctx[c]}
      BY <2>2 DEF NestedInv, TimeoutInv, T!TypeOK, T!CtxErrs
    <3>2. QED
      BY <2>2, <3>1 DEF NestedInv, HoldInv
  <2>3. QED
    BY <2>1, <2>2 DEF ResultGenuine
<1>2. QED
  BY <1>1, NestedInvariant, PTL

(* TimeoutOutsideLimits: a call holds its slot for as long as its fn         *)
(* executes, also when its caller has gone.                                  *)
THEOREM LimitIsKept == NestedSpec => []TimeoutOutsideLimits
<1>1. BulkheadInv /\ NestedInv => TimeoutOutsideLimits
  <2> SUFFICES ASSUME BulkheadInv, NestedInv, outer = "timeout" PROVE TB!ExecutionsLimited
    BY DEF TimeoutOutsideLimits
  <2> DEFINE Running == {c \in Goroutines : fn[c] = "running"}
  <2>1. Running \in SUBSET Holders /\ Holders \in SUBSET Goroutines
    BY DEF NestedInv, HoldInv, Holders
  <2>2. IsFiniteSet(Holders)
    BY <2>1, BulkheadAssumption, FS_Subset
  <2>3. IsFiniteSet(Running) /\ Cardinality(Running) <= Cardinality(Holders)
    BY <2>1, <2>2, FS_Subset
  <2>4. Cardinality(Running) \in Nat
    BY <2>3, FS_CardinalityType
  <2>5. Cardinality(Holders) \in Nat /\ Cardinality(Holders) <= MaxConcurrent /\ MaxConcurrent \in Nat
    BY Queues DEF NestedInv, Paired
  <2>6. Cardinality(Running) <= MaxConcurrent
    BY <2>3, <2>4, <2>5
  <2>7. TB!Cardinality(Running) = Cardinality(Running)
    BY DEF TB!Cardinality, Cardinality
  <2>8. QED
    BY <2>6, <2>7 DEF TB!ExecutionsLimited
<1>2. QED
  BY <1>1, NestedInvariant, PTL
=============================================================================
