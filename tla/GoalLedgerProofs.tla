-------------------------- MODULE GoalLedgerProofs --------------------------
(***************************************************************************)
(* What holds of GoalLedger for every set of processes, goals, commands    *)
(* and ledgers found at first.  What an upsert keeps of a ledger is proved *)
(* by induction over its lines; a set of numbers takes the place of the    *)
(* formula the induction is over, and the numbers' order that of the       *)
(* induction principle.                                                    *)
(***************************************************************************)
EXTENDS GoalLedger, SequenceTheorems, WellFoundedInduction, TLAPS

LEMMA LeastNumber ==
  ASSUME NEW T \in SUBSET Nat, T # {} PROVE \E n \in T : \A m \in T : n <= m
<1>1. IsWellFoundedOn(OpToRel(<, Nat), Nat)
  BY NatLessThanWellFounded
<1>2. PICK n \in T : \A m \in T : <<m, n>> \notin OpToRel(<, Nat)
  BY <1>1, WFMin
<1>3. \A m \in T : <<m, n>> \notin {p \in Nat \X Nat : p[1] < p[2]}
  BY <1>2 DEF OpToRel
<1>4. \A m \in T : ~(m < n)
  BY <1>3
<1>5. QED
  BY <1>4

LEMMA Induction ==
  ASSUME NEW T \in SUBSET Nat, 0 \in T, \A n \in T : n + 1 \in T PROVE T = Nat
<1> SUFFICES ASSUME Nat \ T # {} PROVE FALSE
  OBVIOUS
<1>1. PICK n \in Nat \ T : \A m \in Nat \ T : n <= m
  BY LeastNumber
<1>2. n - 1 \in Nat /\ ~(n <= n - 1)
  BY <1>1
<1>3. n - 1 \in T
  BY <1>1, <1>2
<1>4. (n - 1) + 1 = n
  BY <1>1
<1>5. QED
  BY <1>1, <1>3, <1>4
-----------------------------------------------------------------------------
(* What Upserted has kept of the first i lines, and that it is well defined. *)
KeptBody(f, lines, entry, i) ==
  IF i = 0 THEN <<>>
  ELSE IF Replaced(lines[i], entry) THEN f[i - 1]
  ELSE Append(f[i - 1], lines[i])

IsKept(f, lines, entry, n) == f = [i \in 0..n |-> KeptBody(f, lines, entry, i)]

LEMMA KeptExists ==
  ASSUME NEW lines, NEW entry, NEW n \in Nat
  PROVE  \E f : IsKept(f, lines, entry, n)
<1> DEFINE Good(m) == \E f : f = [i \in 0..m |-> KeptBody(f, lines, entry, i)]
           T == {m \in Nat : Good(m)}
<1>1. Good(0)
  <2> DEFINE f == [i \in 0..0 |-> <<>>]
  <2>1. \A i \in 0..0 : KeptBody(f, lines, entry, i) = <<>>
    BY DEF KeptBody
  <2>2. f = [i \in 0..0 |-> KeptBody(f, lines, entry, i)]
    BY <2>1
  <2>3. QED
    BY <2>2
<1>2. ASSUME NEW m \in Nat, Good(m) PROVE Good(m + 1)
  <2>1. PICK f : f = [i \in 0..m |-> KeptBody(f, lines, entry, i)]
    BY <1>2
  <2> DEFINE g == [i \in 0..(m + 1) |-> KeptBody(f, lines, entry, i)]
  <2>2. \A i \in 0..m : f[i] = KeptBody(f, lines, entry, i)
    BY <2>1
  <2>3. \A i \in 0..m : g[i] = f[i]
    BY <2>2
  <2>4. ASSUME NEW i \in 0..(m + 1)
        PROVE  KeptBody(g, lines, entry, i) = KeptBody(f, lines, entry, i)
    <3>1. CASE i = 0
      BY <3>1 DEF KeptBody
    <3>2. CASE i # 0
      <4>1. i - 1 \in 0..m
        BY <3>2
      <4>2. g[i - 1] = f[i - 1]
        BY <2>3, <4>1
      <4> HIDE DEF g
      <4>3. QED
        BY <4>2 DEF KeptBody
    <3>3. QED
      BY <3>1, <3>2
  <2>5. g = [i \in 0..(m + 1) |-> KeptBody(g, lines, entry, i)]
    BY <2>4
  <2>6. QED
    BY <2>5
<1> HIDE DEF Good
<1>3. T = Nat
  <2>1. T \in SUBSET Nat /\ 0 \in T
    BY <1>1
  <2>2. \A m \in T : m + 1 \in T
    BY <1>2
  <2> HIDE DEF T
  <2>3. QED
    BY <2>1, <2>2, Induction
<1>4. Good(n)
  BY <1>3
<1>5. QED
  BY <1>4 DEF Good, IsKept

KeptFcn(lines, entry) ==
  CHOOSE f : f = [i \in 0..Len(lines) |-> KeptBody(f, lines, entry, i)]

LEMMA KeptDefined ==
  ASSUME NEW S, NEW lines \in Seq(S), NEW entry
  PROVE  /\ Upserted(lines, entry) = Append(KeptFcn(lines, entry)[Len(lines)], entry)
         /\ \A i \in 0..Len(lines) :
              KeptFcn(lines, entry)[i] = KeptBody(KeptFcn(lines, entry), lines, entry, i)
<1>1. Upserted(lines, entry) = Append(KeptFcn(lines, entry)[Len(lines)], entry)
  BY DEF Upserted, KeptFcn, KeptBody
<1>2. Len(lines) \in Nat
  OBVIOUS
<1>3. \E f : IsKept(f, lines, entry, Len(lines))
  BY <1>2, KeptExists
<1> DEFINE k == KeptFcn(lines, entry)
<1>4. k = [i \in 0..Len(lines) |-> KeptBody(k, lines, entry, i)]
  BY <1>3 DEF KeptFcn, IsKept
<1> HIDE DEF k
<1>5. \A i \in 0..Len(lines) : k[i] = KeptBody(k, lines, entry, i)
  BY <1>4
<1>6. QED
  BY <1>1, <1>5 DEF k

LEMMA Appended ==
  ASSUME NEW S, NEW q \in Seq(S), NEW x \in S
  PROVE  /\ Append(q, x) \in Seq(S)
         /\ DOMAIN Append(q, x) = 1..(Len(q) + 1)
         /\ DOMAIN q = 1..Len(q) /\ Len(q) \in Nat
         /\ \A j \in 1..(Len(q) + 1) : Append(q, x)[j] = IF j = Len(q) + 1 THEN x ELSE q[j]
         /\ ToSet(Append(q, x)) = ToSet(q) \cup {x}
<1>1. /\ Append(q, x) \in Seq(S)
      /\ DOMAIN Append(q, x) = 1..(Len(q) + 1)
      /\ DOMAIN q = 1..Len(q) /\ Len(q) \in Nat
  OBVIOUS
<1>2. \A j \in 1..(Len(q) + 1) : Append(q, x)[j] = IF j = Len(q) + 1 THEN x ELSE q[j]
  OBVIOUS
<1>3. ToSet(Append(q, x)) \subseteq ToSet(q) \cup {x}
  BY <1>1, <1>2 DEF ToSet
<1>4. ASSUME NEW y \in ToSet(q) PROVE y \in ToSet(Append(q, x))
  <2>1. PICK j \in 1..Len(q) : q[j] = y
    BY <1>1, <1>4 DEF ToSet
  <2>2. j \in 1..(Len(q) + 1) /\ Append(q, x)[j] = y
    BY <1>1, <1>2, <2>1
  <2>3. QED
    BY <1>1, <2>2 DEF ToSet
<1>5. Len(q) + 1 \in 1..(Len(q) + 1) /\ Append(q, x)[Len(q) + 1] = x
  BY <1>1, <1>2
<1>6. QED
  BY <1>1, <1>2, <1>3, <1>4, <1>5 DEF ToSet

(* The lines kept are those not replaced, once each if they were so before.  *)
Apart(lines) == \A i, j \in DOMAIN lines : Same(lines[i], lines[j]) => i = j

LEMMA KeptLines ==
  ASSUME NEW S, NEW lines \in Seq(S), NEW entry
  PROVE  LET kept == KeptFcn(lines, entry)[Len(lines)]
         IN  /\ kept \in Seq(S)
             /\ ToSet(kept) = {l \in ToSet(lines) : ~Replaced(l, entry)}
             /\ Apart(lines) => Apart(kept)
<1> DEFINE k == KeptFcn(lines, entry)
           Upto(i) == {lines[j] : j \in {n \in 1..i : ~Replaced(lines[n], entry)}}
           Good(i) == /\ k[i] \in Seq(S)
                      /\ ToSet(k[i]) = Upto(i)
                      /\ Apart(lines) => Apart(k[i])
           T == {i \in Nat : i <= Len(lines) => Good(i)}
<1>1. /\ Len(lines) \in Nat /\ DOMAIN lines = 1..Len(lines)
      /\ \A i \in 1..Len(lines) : lines[i] \in S
  OBVIOUS
<1>2. \A i \in 0..Len(lines) : k[i] = KeptBody(k, lines, entry, i)
  BY KeptDefined
<1> HIDE DEF k
<1>3. Good(0)
  <2>1. k[0] = <<>>
    BY <1>1, <1>2 DEF KeptBody
  <2>2. <<>> \in Seq(S) /\ ToSet(<<>>) = {} /\ Apart(<<>>)
    BY DEF ToSet, Apart
  <2>3. Upto(0) = {}
    OBVIOUS
  <2>4. QED
    BY <2>1, <2>2, <2>3
<1>4. ASSUME NEW i \in Nat, i + 1 <= Len(lines), Good(i) PROVE Good(i + 1)
  <2> DEFINE l == lines[i + 1]
  <2>1. i + 1 \in 1..Len(lines) /\ l \in S
    BY <1>1, <1>4
  <2>2. k[i + 1] = IF Replaced(l, entry) THEN k[i] ELSE Append(k[i], l)
    <3>1. i + 1 # 0 /\ (i + 1) - 1 = i /\ i + 1 \in 0..Len(lines)
      BY <1>1, <1>4
    <3>2. QED
      BY <1>2, <3>1 DEF KeptBody
  <2>3. CASE Replaced(l, entry)
    <3>1. Upto(i + 1) = Upto(i)
      BY <2>3
    <3>2. QED
      BY <1>4, <2>2, <2>3, <3>1
  <2>4. CASE ~Replaced(l, entry)
    <3>1. Upto(i + 1) = Upto(i) \cup {l}
      BY <2>4
    <3> DEFINE q == k[i]
    <3>2. q \in Seq(S) /\ ToSet(q) = Upto(i) /\ (Apart(lines) => Apart(q))
      BY <1>4
    <3>3. k[i + 1] = Append(q, l)
      BY <2>2, <2>4
    <3>4. \A x \in ToSet(q) : \E j \in 1..i : x = lines[j]
      BY <3>2
    <3> HIDE DEF q, l
    <3>5. /\ Append(q, l) \in Seq(S)
          /\ DOMAIN Append(q, l) = 1..(Len(q) + 1)
          /\ DOMAIN q = 1..Len(q) /\ Len(q) \in Nat
          /\ \A j \in 1..(Len(q) + 1) : Append(q, l)[j] = IF j = Len(q) + 1 THEN l ELSE q[j]
          /\ ToSet(Append(q, l)) = ToSet(q) \cup {l}
      BY <2>1, <3>2, Appended
    <3>7. ASSUME Apart(lines) PROVE Apart(Append(q, l))
      <4>1. \A j \in 1..Len(q) : ~Same(q[j], l) /\ ~Same(l, q[j])
        <5> SUFFICES ASSUME NEW j \in 1..Len(q) PROVE ~Same(q[j], l) /\ ~Same(l, q[j])
          OBVIOUS
        <5>1. q[j] \in ToSet(q)
          BY <3>5 DEF ToSet
        <5>2. PICK m \in 1..i : q[j] = lines[m]
          BY <3>4, <5>1
        <5>3. m \in 1..Len(lines) /\ m # i + 1
          BY <1>1, <2>1
        <5>4. l = lines[i + 1]
          BY DEF l
        <5>5. QED
          BY <1>1, <2>1, <3>7, <5>2, <5>3, <5>4 DEF Apart
      <4>2. \A j, m \in 1..Len(q) : Same(q[j], q[m]) => j = m
        BY <3>2, <3>5, <3>7 DEF Apart
      <4>3. \A j \in 1..(Len(q) + 1) : j = Len(q) + 1 \/ j \in 1..Len(q)
        BY <3>5
      <4>4. QED
        BY <3>5, <4>1, <4>2, <4>3 DEF Apart
    <3>8. QED
      BY <3>1, <3>2, <3>3, <3>5, <3>7 DEF l
  <2>5. QED
    BY <2>3, <2>4
<1> HIDE DEF Good
<1>5. T = Nat
  <2>1. T \in SUBSET Nat /\ 0 \in T
    BY <1>3
  <2>2. \A i \in T : i + 1 \in T
    BY <1>1, <1>4
  <2> HIDE DEF T
  <2>3. QED
    BY <2>1, <2>2, Induction
<1>6. Good(Len(lines))
  BY <1>1, <1>5
<1>7. Upto(Len(lines)) = {l \in ToSet(lines) : ~Replaced(l, entry)}
  BY <1>1 DEF ToSet
<1>8. QED
  BY <1>6, <1>7 DEF Good, k
-----------------------------------------------------------------------------
(* What is written into the file: an upsert, over what is in the file.       *)
Lines == Entry \cup {Torn}

LEMMA UpsertedLines ==
  ASSUME NEW lines \in Seq(Lines), NEW entry \in Entry
  PROVE  /\ Upserted(lines, entry) \in Seq(Lines)
         /\ ToSet(Upserted(lines, entry)) =
              {l \in ToSet(lines) : ~Replaced(l, entry)} \cup {entry}
         /\ Torn \notin ToSet(lines) /\ Apart(lines) => Apart(Upserted(lines, entry))
<1> DEFINE kept == KeptFcn(lines, entry)[Len(lines)]
<1>1. /\ kept \in Seq(Lines)
      /\ ToSet(kept) = {l \in ToSet(lines) : ~Replaced(l, entry)}
      /\ Apart(lines) => Apart(kept)
  BY KeptLines
<1>2. Upserted(lines, entry) = Append(kept, entry)
  BY KeptDefined
<1> HIDE DEF kept
<1>3. /\ Append(kept, entry) \in Seq(Lines)
      /\ DOMAIN Append(kept, entry) = 1..(Len(kept) + 1)
      /\ DOMAIN kept = 1..Len(kept) /\ Len(kept) \in Nat
      /\ \A j \in 1..(Len(kept) + 1) :
           Append(kept, entry)[j] = IF j = Len(kept) + 1 THEN entry ELSE kept[j]
      /\ ToSet(Append(kept, entry)) = ToSet(kept) \cup {entry}
  BY <1>1, Appended DEF Lines
<1>4. ASSUME Torn \notin ToSet(lines), Apart(lines) PROVE Apart(Append(kept, entry))
  <2>1. \A j \in 1..Len(kept) : ~Same(kept[j], entry) /\ ~Same(entry, kept[j])
    <3> SUFFICES ASSUME NEW j \in 1..Len(kept)
                 PROVE  ~Same(kept[j], entry) /\ ~Same(entry, kept[j])
      OBVIOUS
    <3>1. kept[j] \in ToSet(kept)
      BY <1>3 DEF ToSet
    <3>2. kept[j] # Torn /\ ~Replaced(kept[j], entry)
      BY <1>1, <1>4, <3>1
    <3>3. QED
      BY <3>2 DEF Replaced, Same
  <2>2. \A j, m \in 1..Len(kept) : Same(kept[j], kept[m]) => j = m
    BY <1>1, <1>3, <1>4 DEF Apart
  <2>3. \A j \in 1..(Len(kept) + 1) : j = Len(kept) + 1 \/ j \in 1..Len(kept)
    BY <1>3
  <2>4. QED
    BY <1>3, <2>1, <2>2, <2>3 DEF Apart
<1>5. QED
  BY <1>1, <1>2, <1>3, <1>4

LEMMA Joined ==
  ASSUME NEW S, NEW a \in Seq(S), NEW b \in Seq(S)
  PROVE  a \o b \in Seq(S) /\ ToSet(a \o b) \subseteq ToSet(a) \cup ToSet(b)
<1>1. /\ a \o b \in Seq(S) /\ DOMAIN (a \o b) = 1..(Len(a) + Len(b))
      /\ DOMAIN a = 1..Len(a) /\ DOMAIN b = 1..Len(b)
      /\ Len(a) \in Nat /\ Len(b) \in Nat
  OBVIOUS
<1>2. \A i \in 1..(Len(a) + Len(b)) :
        (a \o b)[i] = IF i <= Len(a) THEN a[i] ELSE b[i - Len(a)]
  OBVIOUS
<1>3. \A i \in 1..(Len(a) + Len(b)) : (a \o b)[i] \in ToSet(a) \cup ToSet(b)
  <2> SUFFICES ASSUME NEW i \in 1..(Len(a) + Len(b)) PROVE (a \o b)[i] \in ToSet(a) \cup ToSet(b)
    OBVIOUS
  <2>1. CASE i <= Len(a)
    <3>1. i \in DOMAIN a /\ (a \o b)[i] = a[i]
      BY <1>1, <1>2, <2>1
    <3>2. QED
      BY <3>1 DEF ToSet
  <2>2. CASE ~(i <= Len(a))
    <3>1. i - Len(a) \in DOMAIN b /\ (a \o b)[i] = b[i - Len(a)]
      BY <1>1, <1>2, <2>2
    <3>2. QED
      BY <3>1 DEF ToSet
  <2>3. QED
    BY <2>1, <2>2
<1>4. QED
  BY <1>1, <1>3 DEF ToSet

LEMMA Leftover ==
  ASSUME NEW S, NEW q \in Seq(S), NEW n \in Nat, n <= Len(q)
  PROVE  LET rest == SubSeq(q, n + 1, Len(q))
         IN  /\ rest \in Seq(S) /\ ToSet(rest) \subseteq ToSet(q)
             /\ rest # <<>> => Tail(rest) \in Seq(S) /\ ToSet(Tail(rest)) \subseteq ToSet(q)
<1> DEFINE rest == SubSeq(q, n + 1, Len(q))
<1>1. Len(q) \in Nat /\ DOMAIN q = 1..Len(q)
  OBVIOUS
<1>2. /\ rest \in Seq(S)
      /\ Len(rest) \in Nat /\ DOMAIN rest = 1..Len(rest)
      /\ \A i \in 1..Len(rest) : n + i \in 1..Len(q) /\ rest[i] = q[n + i]
  <2> DEFINE m == n + 1
             k == Len(q)
  <2>1. m \in Int /\ k \in Int /\ \A i \in m..k : q[i] \in S
    BY <1>1
  <2>2. m = n + 1 /\ k \in Nat
    BY <1>1
  <2> HIDE DEF m
  <2>3. /\ rest \in Seq(S)
        /\ Len(rest) = IF m <= k THEN k - m + 1 ELSE 0
        /\ \A i \in 1..(k - m + 1) : rest[i] = q[m + i - 1]
    BY <2>1, SubSeqProperties DEF m
  <2> HIDE DEF rest, k
  <2>4. Len(rest) \in Nat /\ DOMAIN rest = 1..Len(rest)
    BY <2>3
  <2>5. \A i \in 1..Len(rest) : i \in 1..(k - m + 1) /\ n + i \in 1..k /\ m + i - 1 = n + i
    BY <2>2, <2>3
  <2>6. QED
    BY <2>3, <2>4, <2>5 DEF k
<1> HIDE DEF rest
<1>3. ToSet(rest) \subseteq ToSet(q)
  BY <1>1, <1>2 DEF ToSet
<1>4. ASSUME rest # <<>> PROVE Tail(rest) \in Seq(S) /\ ToSet(Tail(rest)) \subseteq ToSet(q)
  <2>1. /\ Tail(rest) \in Seq(S) /\ DOMAIN Tail(rest) = 1..(Len(rest) - 1)
        /\ DOMAIN rest = 1..Len(rest) /\ Len(rest) \in Nat
    <3>1. rest \in Seq(S)
      BY <1>2
    <3>2. QED
      BY <1>4, <3>1
  <2>2. \A i \in 1..(Len(rest) - 1) : Tail(rest)[i] = rest[i + 1]
    <3>1. rest \in Seq(S)
      BY <1>2
    <3>2. QED
      BY <1>4, <3>1
  <2>3. \A i \in 1..(Len(rest) - 1) : i + 1 \in 1..Len(rest)
    BY <2>1
  <2>4. ToSet(Tail(rest)) \subseteq ToSet(rest)
    BY <2>1, <2>2, <2>3 DEF ToSet
  <2>5. QED
    BY <1>3, <2>1, <2>4
<1>5. QED
  BY <1>2, <1>3, <1>4 DEF rest

LEMMA OverwrittenLines ==
  ASSUME NEW old \in Seq(Lines), NEW new \in Seq(Lines), NEW res \in Overwritten(old, new)
  PROVE  /\ res \in Seq(Lines)
         /\ ToSet(res) \subseteq ToSet(old) \cup ToSet(new) \cup {Torn}
         /\ old = <<>> => res = new
<1>1. CASE Len(old) < Len(new) \/ old = <<>>
  <2>1. res = new
    BY <1>1 DEF Overwritten
  <2>2. QED
    BY <2>1
<1>2. CASE ~(Len(old) < Len(new) \/ old = <<>>)
  <2> DEFINE rest == SubSeq(old, Len(new) + 1, Len(old))
  <2>1. Len(new) \in Nat /\ Len(new) <= Len(old)
    BY <1>2
  <2>2. /\ rest \in Seq(Lines) /\ ToSet(rest) \subseteq ToSet(old)
        /\ rest # <<>> => Tail(rest) \in Seq(Lines) /\ ToSet(Tail(rest)) \subseteq ToSet(old)
    BY <2>1, Leftover
  <2>3. \/ res = new \o rest
        \/ res = new \o <<Torn>> \o rest
        \/ rest # <<>> /\ res = new \o <<Torn>> \o Tail(rest)
    BY <1>2 DEF Overwritten
  <2> HIDE DEF rest
  <2>4. <<Torn>> \in Seq(Lines) /\ ToSet(<<Torn>>) = {Torn}
    BY DEF ToSet, Lines
  <2>5. new \o <<Torn>> \in Seq(Lines) /\ ToSet(new \o <<Torn>>) \subseteq ToSet(new) \cup {Torn}
    BY <2>4, Joined
  <2>6. CASE res = new \o rest
    BY <1>2, <2>2, <2>6, Joined
  <2>7. CASE res = new \o <<Torn>> \o rest
    <3>1. res \in Seq(Lines) /\ ToSet(res) \subseteq ToSet(new \o <<Torn>>) \cup ToSet(rest)
      BY <2>2, <2>5, <2>7, Joined
    <3>2. QED
      BY <1>2, <2>2, <2>5, <3>1
  <2>8. CASE rest # <<>> /\ res = new \o <<Torn>> \o Tail(rest)
    <3>1. res \in Seq(Lines) /\ ToSet(res) \subseteq ToSet(new \o <<Torn>>) \cup ToSet(Tail(rest))
      BY <2>2, <2>5, <2>8, Joined
    <3>2. QED
      BY <1>2, <2>2, <2>5, <2>8, <3>1
  <2>9. QED
    BY <2>3, <2>6, <2>7, <2>8
<1>3. QED
  BY <1>1, <1>2
-----------------------------------------------------------------------------
LEMMA TypeFirst == Init => TypeOK
<1> SUFFICES ASSUME Init PROVE TypeOK
  OBVIOUS
<1>1. Entry # {}
  <2>1. PICK g \in Goals : TRUE
    BY LedgerAssumption
  <2>2. [goal |-> g, command |-> Final, complete |-> TRUE] \in Entry
    BY DEF Entry, Commands
  <2>3. QED
    BY <2>2
<1>2. AnEntry \in Entry
  BY <1>1 DEF AnEntry
<1>3. <<>> \in Seq(Entry \cup {Torn})
  OBVIOUS
<1>4. ledger \in Seq(Entry) /\ ledger \in Seq(Entry \cup {Torn})
  BY LedgerAssumption DEF Init
<1>5. recorded \in SUBSET Entry
  BY DEF Init, Complete
<1>6. QED
  BY <1>2, <1>3, <1>4, <1>5 DEF Init, TypeOK, Places

LEMMA TypeKept == TypeOK /\ [Next]_vars => TypeOK'
<1> SUFFICES ASSUME TypeOK, [Next]_vars PROVE TypeOK'
  OBVIOUS
<1>1. ASSUME NEW p \in Procs, Evaluate(p) PROVE TypeOK'
  <2>1. PICK g \in Goals, c \in Commands :
          job' = [job EXCEPT ![p] = [goal |-> g, command |-> c, complete |-> TRUE]]
    BY <1>1 DEF Evaluate
  <2>2. [goal |-> g, command |-> c, complete |-> TRUE] \in Entry
    BY DEF Entry
  <2>3. job' \in [Procs -> Entry]
    BY <2>1, <2>2 DEF TypeOK
  <2>4. QED
    BY <1>1, <2>3 DEF TypeOK, Evaluate, Goto, Places
<1>2. ASSUME NEW p \in Procs, Recheck(p) PROVE TypeOK'
  BY <1>2 DEF TypeOK, Recheck, Goto, Places
<1>3. ASSUME NEW p \in Procs, OpenPack(p) PROVE TypeOK'
  BY <1>3 DEF TypeOK, OpenPack, Goto, Places
<1>4. ASSUME NEW p \in Procs, WritePack(p) PROVE TypeOK'
  BY <1>4 DEF TypeOK, WritePack, Goto, Places
<1>5. ASSUME NEW p \in Procs, ReadLedger(p) PROVE TypeOK'
  <2>1. Upserted(ledger, job[p]) \in Seq(Entry \cup {Torn})
    BY UpsertedLines DEF TypeOK, Lines
  <2>2. overlap' \in BOOLEAN
    BY <1>5, Zenon DEF TypeOK, ReadLedger, Others
  <2>3. QED
    BY <1>5, <2>1, <2>2 DEF TypeOK, ReadLedger, Goto, Places
<1>6. ASSUME NEW p \in Procs, OpenLedger(p) PROVE TypeOK'
  <2>1. overlap' \in BOOLEAN
    BY <1>6, Zenon DEF TypeOK, OpenLedger, Others
  <2>2. <<>> \in Seq(Entry \cup {Torn})
    OBVIOUS
  <2>3. QED
    BY <1>6, <2>1, <2>2 DEF TypeOK, OpenLedger, Goto, Places
<1>7. ASSUME NEW p \in Procs, WriteLedger(p) PROVE TypeOK'
  <2>1. ledger' \in Seq(Entry \cup {Torn})
    BY <1>7, OverwrittenLines DEF TypeOK, Lines, WriteLedger
  <2>2. QED
    BY <1>7, <2>1 DEF TypeOK, WriteLedger, Goto, Places
<1>8. ASSUME NEW p \in Procs, Stop(p) PROVE TypeOK'
  <2>1. cut' \in BOOLEAN
    BY <1>8, Zenon DEF TypeOK, Stop
  <2>2. QED
    BY <1>8, <2>1 DEF TypeOK, Stop, Goto, Places
<1>9. CASE UNCHANGED vars
  BY <1>9 DEF TypeOK, vars
<1>10. QED
  BY <1>1, <1>2, <1>3, <1>4, <1>5, <1>6, <1>7, <1>8, <1>9 DEF Next

(* TypeOK: every process has an entry to record, and the file is lines that  *)
(* are entries or torn.                                                      *)
THEOREM TypeCorrect == Spec => []TypeOK
  BY TypeFirst, TypeKept, PTL DEF Spec
-----------------------------------------------------------------------------
Passed(g, c) == [goal |-> g, command |-> c, complete |-> TRUE]
Justified(g) == \A c \in Prerequisites : Passed(g, c) \in recorded

(* What the ledger shows was recorded; what a process is to write was        *)
(* recorded, apart from its own entry; and a process on its way to a pack,   *)
(* and to the final entry, has seen the prerequisites recorded.              *)
ShownWasRecorded ==
  /\ Complete(ledger) \subseteq recorded
  /\ \A p \in Procs : pc[p] \in {"read", "writing"} =>
       Complete(next[p]) \subseteq recorded \cup {job[p]}

OnFinal(p) == \/ pc[p] \in {"checked", "packing", "packed"}
              \/ pc[p] = "read" /\ job[p].command = Final

PackInv ==
  /\ TypeOK
  /\ ShownWasRecorded
  /\ \A p \in Procs : OnFinal(p) => Justified(job[p].goal)
  /\ PackJustified

(* A final entry is recorded once its pack is complete, and the process that *)
(* records it has written one.                                               *)
PackThere(g) ==
  \/ pack[g] = "complete"
  \/ \E p \in Procs : /\ job[p].goal = g /\ job[p].command = Final
                      /\ pc[p] \in {"packing", "stopped"}

FinalInv ==
  /\ TypeOK
  /\ \A p \in Procs :
       /\ pc[p] \in {"checked", "packing", "packed"} => job[p].command = Final
       /\ pc[p] \in {"packed", "read", "writing"} /\ job[p].command = Final =>
            PackThere(job[p].goal)
  /\ \A e \in recorded : e.command = Final => PackThere(e.goal)

(* While no two processes have been in each other's way, one at a time has   *)
(* the file open; what the readers have computed is of the file as it is,    *)
(* and the contents the file is about to have are well formed and lose       *)
(* nothing that was recorded.                                                *)
Kept(lines) == /\ Torn \notin ToSet(lines) /\ Apart(lines)
               /\ ~cut => recorded \subseteq ToSet(lines)

Alone(p) == \A q \in Procs : q # p => pc[q] \notin {"read", "writing"}

EvidenceInv ==
  /\ TypeOK
  /\ \A e \in recorded : e.complete
  /\ \A p \in Procs : pc[p] # "start" => job[p].complete
  /\ ~overlap =>
       /\ (\A p \in Procs : pc[p] # "writing") => Kept(ledger)
       /\ \A p \in Procs :
            /\ pc[p] = "read" => next[p] = Upserted(ledger, job[p])
            /\ pc[p] = "writing" => /\ Alone(p) /\ ledger = <<>>
                                   /\ Kept(next[p]) /\ job[p] \in ToSet(next[p])
-----------------------------------------------------------------------------
LEMMA CompleteLines ==
  /\ \A lines \in Seq(Lines), entry \in Entry :
       Complete(Upserted(lines, entry)) \subseteq Complete(lines) \cup {entry}
  /\ \A old, new \in Seq(Lines) : \A res \in Overwritten(old, new) :
       Complete(res) \subseteq Complete(old) \cup Complete(new)
<1>1. ASSUME NEW lines \in Seq(Lines), NEW entry \in Entry
      PROVE  Complete(Upserted(lines, entry)) \subseteq Complete(lines) \cup {entry}
  BY UpsertedLines DEF Complete
<1>2. ASSUME NEW old \in Seq(Lines), NEW new \in Seq(Lines), NEW res \in Overwritten(old, new)
      PROVE  Complete(res) \subseteq Complete(old) \cup Complete(new)
  BY OverwrittenLines, LedgerAssumption DEF Complete
<1>3. QED
  BY <1>1, <1>2

LEMMA ReconciledShows ==
  ASSUME NEW g \in Goals, Reconciled(ledger, g), Complete(ledger) \subseteq recorded
  PROVE  Justified(g)
<1> SUFFICES ASSUME NEW c \in Prerequisites PROVE Passed(g, c) \in recorded
  BY DEF Justified
<1>1. PICK i \in DOMAIN ledger : ledger[i] = Passed(g, c)
  BY DEF Reconciled, Passed
<1>2. Passed(g, c) \in Entry /\ Passed(g, c).complete
  BY DEF Passed, Entry, Commands
<1>3. Passed(g, c) \in ToSet(ledger)
  BY <1>1 DEF ToSet
<1>4. QED
  BY <1>2, <1>3 DEF Complete

LEMMA PackInvariant == Spec => []PackInv
<1>1. Init => PackInv
  BY TypeFirst DEF Init, PackInv, OnFinal, ShownWasRecorded, PackJustified
<1>2. PackInv /\ TypeOK' /\ [Next]_vars => PackInv'
  <2> SUFFICES ASSUME PackInv, TypeOK', [Next]_vars PROVE PackInv'
    OBVIOUS
  <2>1. ASSUME NEW p \in Procs, Evaluate(p) PROVE PackInv'
    BY <2>1 DEF PackInv, OnFinal, TypeOK, ShownWasRecorded, PackJustified, Justified, Evaluate, Goto
  <2>2. ASSUME NEW p \in Procs, Recheck(p) PROVE PackInv'
    <3>1. pc'[p] = "checked" => Justified(job[p].goal)
      <4> SUFFICES ASSUME pc'[p] = "checked" PROVE Justified(job[p].goal)
        OBVIOUS
      <4>1. Reconciled(ledger, job[p].goal) /\ job[p].goal \in Goals
        BY <2>2 DEF PackInv, TypeOK, Recheck, Goto, Entry
      <4>2. QED
        BY <4>1, ReconciledShows DEF PackInv, ShownWasRecorded
    <3>2. \A q \in Procs : q # p => pc'[q] = pc[q]
      BY <2>2 DEF PackInv, TypeOK, Recheck, Goto
    <3>3. pc'[p] \in {"checked", "refused"}
      BY <2>2 DEF PackInv, TypeOK, Recheck, Goto
    <3>4. UNCHANGED <<job, next, ledger, pack, recorded>>
      BY <2>2 DEF Recheck
    <3>5. QED
      BY <3>1, <3>2, <3>3, <3>4 DEF PackInv, OnFinal, ShownWasRecorded, PackJustified, Justified
  <2>3. ASSUME NEW p \in Procs, OpenPack(p) PROVE PackInv'
    <3>1. Justified(job[p].goal)
      BY <2>3 DEF PackInv, OnFinal, OpenPack
    <3>2. PackJustified'
      BY <2>3, <3>1 DEF PackInv, TypeOK, PackJustified, Justified, Passed, OpenPack
    <3>3. QED
      BY <2>3, <3>1, <3>2 DEF PackInv, OnFinal, TypeOK, ShownWasRecorded, Justified, OpenPack, Goto
  <2>4. ASSUME NEW p \in Procs, WritePack(p) PROVE PackInv'
    <3>1. Justified(job[p].goal)
      BY <2>4 DEF PackInv, OnFinal, WritePack
    <3>2. PackJustified'
      BY <2>4, <3>1 DEF PackInv, TypeOK, PackJustified, Justified, Passed, WritePack
    <3>3. QED
      BY <2>4, <3>1, <3>2 DEF PackInv, OnFinal, TypeOK, ShownWasRecorded, Justified, WritePack, Goto
  <2>5. ASSUME NEW p \in Procs, ReadLedger(p) PROVE PackInv'
    <3>1. Complete(Upserted(ledger, job[p])) \subseteq recorded \cup {job[p]}
      BY CompleteLines DEF PackInv, TypeOK, ShownWasRecorded, Lines
    <3>2. /\ \A q \in Procs : q # p => pc'[q] = pc[q] /\ next'[q] = next[q]
          /\ pc'[p] = "read" /\ next'[p] = Upserted(ledger, job[p])
          /\ UNCHANGED <<job, ledger, pack, recorded>>
      BY <2>5 DEF PackInv, TypeOK, ReadLedger, Goto
    <3>3. OnFinal(p)' => OnFinal(p)
      BY <2>5, <3>2 DEF ReadLedger, Ready, OnFinal
    <3>4. QED
      BY <3>1, <3>2, <3>3 DEF PackInv, OnFinal, ShownWasRecorded, PackJustified, Justified
  <2>6. ASSUME NEW p \in Procs, OpenLedger(p) PROVE PackInv'
    <3>1. Complete(<<>>) = {}
      BY DEF Complete, ToSet
    <3>2. /\ \A q \in Procs : q # p => pc'[q] = pc[q]
          /\ pc[p] = "read" /\ pc'[p] = "writing" /\ ledger' = <<>>
          /\ UNCHANGED <<job, next, pack, recorded>>
      BY <2>6 DEF PackInv, TypeOK, OpenLedger, Goto
    <3>3. QED
      BY <3>1, <3>2 DEF PackInv, OnFinal, ShownWasRecorded, PackJustified, Justified
  <2>7. ASSUME NEW p \in Procs, WriteLedger(p) PROVE PackInv'
    <3>1. /\ \A q \in Procs : q # p => pc'[q] = pc[q]
          /\ pc[p] = "writing" /\ pc'[p] = "done"
          /\ ledger' \in Overwritten(ledger, next[p])
          /\ recorded' = recorded \cup {job[p]}
          /\ UNCHANGED <<job, next, pack>>
      BY <2>7 DEF PackInv, TypeOK, WriteLedger, Goto
    <3>2. Complete(ledger') \subseteq Complete(ledger) \cup Complete(next[p])
      BY <3>1, CompleteLines DEF PackInv, TypeOK, Lines
    <3>3. Complete(ledger') \subseteq recorded'
      BY <3>1, <3>2 DEF PackInv, ShownWasRecorded
    <3>4. Complete(ledger)' = Complete(ledger')
      BY DEF Complete
    <3>5. ShownWasRecorded'
      BY <3>1, <3>3, <3>4 DEF PackInv, ShownWasRecorded, Complete
    <3>6. PackJustified'
      BY <3>1 DEF PackInv, PackJustified
    <3>7. \A q \in Procs : OnFinal(q)' => Justified(job[q].goal)'
      BY <3>1 DEF PackInv, OnFinal, Justified
    <3>8. QED
      BY <3>1, <3>5, <3>6, <3>7 DEF PackInv, OnFinal
  <2>8. ASSUME NEW p \in Procs, Stop(p) PROVE PackInv'
    BY <2>8 DEF PackInv, OnFinal, TypeOK, ShownWasRecorded, PackJustified, Justified, Stop, Goto
  <2>9. CASE UNCHANGED vars
    BY <2>9 DEF PackInv, OnFinal, ShownWasRecorded, PackJustified, Justified, vars
  <2>10. QED
    BY <2>1, <2>2, <2>3, <2>4, <2>5, <2>6, <2>7, <2>8, <2>9 DEF Next
<1>3. QED
  BY <1>1, <1>2, TypeFirst, TypeCorrect, PTL DEF Spec

(* PackJustified: whatever is lost or torn, what a final command finds in    *)
(* the file had been put there by a process whose command passed.            *)
THEOREM PacksAreJustified == Spec => []PackJustified
<1>1. PackInv => PackJustified
  BY DEF PackInv
<1>2. QED
  BY <1>1, PackInvariant, PTL
-----------------------------------------------------------------------------
(* Where a step of one process leaves the others, and where it takes that    *)
(* process.                                                                  *)
OnlyMoves(p) == \A q \in Procs : q # p => pc'[q] = pc[q] /\ job'[q] = job[q] /\ next'[q] = next[q]

LEMMA OneMoves ==
  ASSUME TypeOK, NEW p \in Procs,
         \/ Evaluate(p) \/ Recheck(p) \/ OpenPack(p) \/ WritePack(p)
         \/ ReadLedger(p) \/ OpenLedger(p) \/ WriteLedger(p) \/ Stop(p)
  PROVE  OnlyMoves(p)
BY DEF OnlyMoves, TypeOK, Goto, Evaluate, Recheck, OpenPack, WritePack, ReadLedger,
       OpenLedger, WriteLedger, Stop

(* A pack that is there stays there, whichever process moves: one that was   *)
(* at it finishes or stops, and another one that opens it is at it.          *)
LEMMA PackStays ==
  ASSUME FinalInv, [Next]_vars, NEW g \in Goals, PackThere(g) PROVE PackThere(g)'
<1>1. CASE UNCHANGED <<pc, job, pack>>
  BY <1>1 DEF PackThere
<1>2. ASSUME NEW p \in Procs, OnlyMoves(p), pc[p] \notin {"packing", "stopped"}, pack' = pack
      PROVE  PackThere(g)'
  BY <1>2 DEF PackThere, OnlyMoves
<1>3. ASSUME NEW p \in Procs, OpenPack(p) PROVE PackThere(g)'
  <2>1. /\ OnlyMoves(p) /\ pc[p] = "checked" /\ pc'[p] = "packing" /\ job' = job
        /\ \A h \in Goals : h # job[p].goal => pack'[h] = pack[h]
        /\ job[p].command = Final
    BY <1>3, OneMoves DEF FinalInv, TypeOK, OpenPack, Goto
  <2>2. CASE job[p].goal = g
    BY <2>1, <2>2 DEF PackThere
  <2>3. CASE job[p].goal # g
    BY <2>1, <2>3 DEF PackThere, OnlyMoves
  <2>4. QED
    BY <2>2, <2>3
<1>4. ASSUME NEW p \in Procs, WritePack(p) PROVE PackThere(g)'
  <2>1. /\ OnlyMoves(p) /\ pc[p] = "packing" /\ job' = job /\ job[p].goal \in Goals
        /\ pack' = [pack EXCEPT ![job[p].goal] = "complete"]
    BY <1>4, OneMoves DEF FinalInv, TypeOK, WritePack, Goto, Entry
  <2>2. pack'[job[p].goal] = "complete" /\ \A h \in Goals : h # job[p].goal => pack'[h] = pack[h]
    BY <2>1 DEF FinalInv, TypeOK
  <2>3. QED
    BY <2>1, <2>2 DEF PackThere, OnlyMoves
<1>5. ASSUME NEW p \in Procs, Stop(p) PROVE PackThere(g)'
  <2>1. OnlyMoves(p) /\ pc'[p] = "stopped" /\ job' = job /\ pack' = pack
    BY <1>5, OneMoves DEF FinalInv, TypeOK, Stop, Goto
  <2>2. QED
    BY <2>1 DEF PackThere, OnlyMoves
<1>6. ASSUME NEW p \in Procs, \/ Evaluate(p) \/ Recheck(p) \/ ReadLedger(p)
                             \/ OpenLedger(p) \/ WriteLedger(p)
      PROVE  PackThere(g)'
  <2>1. pc[p] \notin {"packing", "stopped"} /\ pack' = pack
    BY <1>6 DEF Evaluate, Recheck, ReadLedger, Ready, OpenLedger, WriteLedger
  <2>2. OnlyMoves(p)
    BY <1>6, OneMoves DEF FinalInv
  <2>3. QED
    BY <1>2, <2>1, <2>2
<1>7. QED
  BY <1>1, <1>3, <1>4, <1>5, <1>6 DEF Next, vars

(* FinalHasPack: the pack is written before the final entry, and nobody but  *)
(* another final command for the goal opens it again.                        *)
THEOREM FinalEntryHasPack == Spec => []FinalHasPack
<1>1. Init => FinalInv
  <2> SUFFICES ASSUME Init PROVE FinalInv
    OBVIOUS
  <2>1. \A e \in recorded : e.command # Final
    BY LedgerAssumption DEF Init, Complete, ToSet
  <2>2. QED
    BY <2>1, TypeFirst DEF Init, FinalInv
<1>2. FinalInv /\ [Next]_vars => FinalInv'
  <2> SUFFICES ASSUME FinalInv, [Next]_vars PROVE FinalInv'
    OBVIOUS
  <2> DEFINE Final1(p) ==
               /\ pc[p] \in {"checked", "packing", "packed"} => job[p].command = Final
               /\ pc[p] \in {"packed", "read", "writing"} /\ job[p].command = Final =>
                    PackThere(job[p].goal)
             Final2 == \A e \in recorded : e.command = Final => PackThere(e.goal)
  <2>1. \A p \in Procs : Final1(p) /\ job[p].goal \in Goals
    BY DEF FinalInv, TypeOK, Entry
  <2>2. \A e \in recorded : e.goal \in Goals /\ (e.command = Final => PackThere(e.goal))
    BY DEF FinalInv, TypeOK, Entry
  <2>3. \A g \in Goals : PackThere(g) => PackThere(g)'
    BY PackStays
  <2>4. TypeOK'
    BY TypeKept DEF FinalInv
  <2>5. ASSUME NEW p \in Procs, NEW q \in Procs, q # p, OnlyMoves(p) PROVE Final1(q)'
    <3>1. pc'[q] = pc[q] /\ job'[q] = job[q]
      BY <2>5 DEF OnlyMoves
    <3>2. PackThere(job[q].goal) => PackThere(job[q].goal)'
      BY <2>1, <2>3, <3>1
    <3>3. QED
      BY <2>1, <3>1, <3>2
  <2> HIDE DEF Final1
  <2>6. ASSUME recorded' = recorded PROVE Final2'
    BY <2>2, <2>3, <2>6
  <2>7. ASSUME NEW p \in Procs, OnlyMoves(p), Final1(p)', Final2' PROVE FinalInv'
    <3>1. \A q \in Procs : Final1(q)'
      BY <2>5, <2>7
    <3>2. QED
      BY <2>4, <2>7, <3>1 DEF FinalInv, Final1
  <2>8. ASSUME NEW p \in Procs, WriteLedger(p) PROVE FinalInv'
    <3>1. /\ OnlyMoves(p) /\ pc[p] = "writing" /\ pc'[p] = "done" /\ job' = job
          /\ recorded' = recorded \cup {job[p]}
      BY <2>8, OneMoves DEF FinalInv, TypeOK, WriteLedger, Goto
    <3>2. Final1(p)'
      BY <3>1 DEF Final1
    <3>3. job[p].command = Final => PackThere(job[p].goal)'
      BY <2>1, <2>3, <3>1 DEF Final1
    <3>4. Final2'
      BY <2>2, <2>3, <3>1, <3>3
    <3>5. QED
      BY <2>7, <3>1, <3>2, <3>4
  <2>9. ASSUME NEW p \in Procs, WritePack(p) PROVE FinalInv'
    <3>1. /\ OnlyMoves(p) /\ job' = job /\ recorded' = recorded /\ pc[p] = "packing"
          /\ pack' = [pack EXCEPT ![job[p].goal] = "complete"]
      BY <2>9, OneMoves DEF FinalInv, WritePack
    <3>2. PackThere(job[p].goal)'
      BY <2>1, <3>1 DEF PackThere, FinalInv, TypeOK
    <3>3. Final1(p)'
      BY <2>1, <3>1, <3>2 DEF Final1
    <3>4. QED
      BY <2>6, <2>7, <3>1, <3>3
  <2>10. ASSUME NEW p \in Procs, ReadLedger(p) PROVE FinalInv'
    <3>1. /\ OnlyMoves(p) /\ job' = job /\ recorded' = recorded /\ pc'[p] = "read"
          /\ pc[p] = "packed" \/ job[p].command # Final
      BY <2>10, OneMoves DEF FinalInv, TypeOK, ReadLedger, Ready, Goto
    <3>2. Final1(p)'
      BY <2>1, <2>3, <3>1 DEF Final1
    <3>3. QED
      BY <2>6, <2>7, <3>1, <3>2
  <2>11. ASSUME NEW p \in Procs, OpenLedger(p) PROVE FinalInv'
    <3>1. /\ OnlyMoves(p) /\ job' = job /\ recorded' = recorded /\ pc[p] = "read"
          /\ pc'[p] = "writing"
      BY <2>11, OneMoves DEF FinalInv, TypeOK, OpenLedger, Goto
    <3>2. Final1(p)'
      BY <2>1, <2>3, <3>1 DEF Final1
    <3>3. QED
      BY <2>6, <2>7, <3>1, <3>2
  <2>12. ASSUME NEW p \in Procs, Evaluate(p) \/ Recheck(p) \/ OpenPack(p) \/ Stop(p)
         PROVE  FinalInv'
    <3>1. OnlyMoves(p) /\ recorded' = recorded
      BY <2>12, OneMoves DEF FinalInv, Evaluate, Recheck, OpenPack, Stop
    <3>2. /\ pc'[p] \notin {"packed", "read", "writing"}
          /\ pc'[p] \in {"checked", "packing"} => job'[p].command = Final
      <4>1. CASE Evaluate(p)
        BY <4>1 DEF FinalInv, TypeOK, Evaluate, Goto
      <4>2. CASE Recheck(p)
        BY <4>2 DEF FinalInv, TypeOK, Recheck, Goto
      <4>3. CASE OpenPack(p)
        BY <4>3 DEF FinalInv, TypeOK, OpenPack, Goto
      <4>4. CASE Stop(p)
        BY <4>4 DEF FinalInv, TypeOK, Stop, Goto
      <4>5. QED
        BY <2>12, <4>1, <4>2, <4>3, <4>4
    <3>3. Final1(p)'
      BY <3>2 DEF Final1
    <3>4. QED
      BY <2>6, <2>7, <3>1, <3>3
  <2>13. CASE UNCHANGED vars
    BY <2>13 DEF FinalInv, TypeOK, PackThere, vars
  <2>14. QED
    BY <2>8, <2>9, <2>10, <2>11, <2>12, <2>13 DEF Next
<1>3. FinalInv => FinalHasPack
  <2> SUFFICES ASSUME FinalInv, NEW g \in Goals, NEW e \in recorded,
                      e.goal = g, e.command = Final, pack[g] # "complete"
               PROVE  \E p \in Procs : Same(job[p], e) /\ pc[p] \in {"packing", "stopped"}
    BY DEF FinalHasPack
  <2>1. PackThere(g)
    BY DEF FinalInv
  <2>2. QED
    BY <2>1 DEF PackThere, Same
<1>4. QED
  BY <1>1, <1>2, <1>3, PTL DEF Spec
-----------------------------------------------------------------------------
LEMMA SameIsEqual ==
  ASSUME NEW a \in Entry, NEW b \in Entry, Same(a, b), a.complete, b.complete
  PROVE  a = b
<1>1. /\ a = [goal |-> a.goal, command |-> a.command, complete |-> a.complete]
      /\ b = [goal |-> b.goal, command |-> b.command, complete |-> b.complete]
  BY DEF Entry
<1>2. a.complete = TRUE /\ b.complete = TRUE
  BY DEF Entry
<1>3. QED
  BY <1>1, <1>2 DEF Same

LEMMA UpsertKeeps ==
  ASSUME TypeOK, \A e \in recorded : e.complete, Kept(ledger),
         NEW entry \in Entry, entry.complete
  PROVE  Kept(Upserted(ledger, entry)) /\ entry \in ToSet(Upserted(ledger, entry))
<1> DEFINE new == Upserted(ledger, entry)
<1>1. /\ ToSet(new) = {l \in ToSet(ledger) : ~Replaced(l, entry)} \cup {entry}
      /\ Apart(new)
  BY UpsertedLines DEF TypeOK, Lines, Kept
<1> HIDE DEF new
<1>2. Torn \notin ToSet(new)
  BY <1>1, LedgerAssumption DEF Kept
<1>3. ASSUME ~cut PROVE recorded \subseteq ToSet(new)
  <2> SUFFICES ASSUME NEW e \in recorded, e # entry PROVE e \in ToSet(new)
    BY <1>1
  <2>1. e \in Entry /\ e.complete /\ e \in ToSet(ledger)
    BY <1>3 DEF TypeOK, Kept
  <2>2. ~Replaced(e, entry)
    BY <2>1, SameIsEqual DEF Replaced
  <2>3. QED
    BY <1>1, <2>1, <2>2
<1>4. QED
  BY <1>1, <1>2, <1>3 DEF Kept, new

LEMMA EvidenceInvariant == Spec => []EvidenceInv
<1>1. Init => EvidenceInv
  <2> SUFFICES ASSUME Init PROVE EvidenceInv
    OBVIOUS
  <2>1. ledger \in Seq(Entry) /\ Apart(ledger)
    BY LedgerAssumption DEF Init, Apart
  <2>2. ToSet(ledger) \subseteq Entry
    BY <2>1 DEF ToSet
  <2>3. Torn \notin ToSet(ledger)
    BY <2>2, LedgerAssumption
  <2>4. recorded \subseteq ToSet(ledger) /\ \A e \in recorded : e.complete
    BY DEF Init, Complete
  <2>5. \A p \in Procs : pc[p] = "start"
    BY DEF Init
  <2>6. QED
    BY <2>1, <2>3, <2>4, <2>5, TypeFirst DEF EvidenceInv, Kept
<1>2. EvidenceInv /\ [Next]_vars => EvidenceInv'
  <2> SUFFICES ASSUME EvidenceInv, [Next]_vars PROVE EvidenceInv'
    OBVIOUS
  <2> DEFINE Free == \A p \in Procs : pc[p] # "writing"
             Seen(p) == pc[p] = "read" => next[p] = Upserted(ledger, job[p])
             Held(p) == pc[p] = "writing" => /\ Alone(p) /\ ledger = <<>>
                                           /\ Kept(next[p]) /\ job[p] \in ToSet(next[p])
             Whole == \A e \in recorded : e.complete
             Jobs == \A p \in Procs : pc[p] # "start" => job[p].complete
  <2>1. TypeOK /\ TypeOK'
    BY TypeKept DEF EvidenceInv
  <2>2. /\ Whole /\ Jobs
        /\ ~overlap => /\ Free => Kept(ledger)
                       /\ \A p \in Procs : Seen(p) /\ Held(p)
    BY DEF EvidenceInv
  <2>3. ASSUME Whole', Jobs',
               ~overlap' => (Free => Kept(ledger))' /\ \A p \in Procs : Seen(p)' /\ Held(p)'
        PROVE  EvidenceInv'
    BY <2>1, <2>3 DEF EvidenceInv
  <2> HIDE DEF Seen, Held, Whole, Jobs
  \* a step that leaves the file alone and is not about reading or writing
  <2>4. ASSUME NEW p \in Procs, OnlyMoves(p), Jobs',
               pc[p] \notin {"read", "writing"}, pc'[p] \notin {"read", "writing"},
               UNCHANGED <<ledger, recorded, overlap>>, cut' = cut
        PROVE  EvidenceInv'
    <3>1. \A q \in Procs : /\ pc[q] = "writing" <=> pc'[q] = "writing"
                           /\ pc[q] = "read" <=> pc'[q] = "read"
                           /\ pc'[q] \in {"read", "writing"} => next'[q] = next[q] /\ job'[q] = job[q]
      BY <2>4 DEF OnlyMoves
    <3>2. Kept(ledger) => Kept(ledger)'
      BY <2>4 DEF Kept
    <3>3. Whole'
      BY <2>2, <2>4 DEF Whole
    <3>4. ASSUME NEW q \in Procs, Seen(q) PROVE Seen(q)'
      BY <2>4, <3>1, <3>4 DEF Seen
    <3>5. ASSUME NEW q \in Procs, Held(q) PROVE Held(q)'
      BY <2>4, <3>1, <3>5 DEF Held, Alone, Kept
    <3>6. Free' => Free
      BY <3>1
    <3>7. QED
      BY <2>2, <2>3, <2>4, <3>2, <3>3, <3>4, <3>5, <3>6
  <2>5. ASSUME NEW p \in Procs, Evaluate(p) PROVE EvidenceInv'
    <3>1. /\ OnlyMoves(p) /\ UNCHANGED <<ledger, recorded, overlap, cut>>
          /\ pc[p] = "start" /\ pc'[p] \in {"refused", "passed"}
      BY <2>1, <2>5, OneMoves DEF TypeOK, Evaluate, Goto
    <3>2. job'[p].complete
      BY <2>1, <2>5 DEF TypeOK, Evaluate
    <3>3. Jobs'
      BY <2>2, <3>1, <3>2 DEF Jobs, OnlyMoves
    <3>4. QED
      BY <2>4, <3>1, <3>3
  <2>6. ASSUME NEW p \in Procs, Recheck(p) \/ OpenPack(p) \/ WritePack(p) PROVE EvidenceInv'
    <3>1. /\ OnlyMoves(p) /\ UNCHANGED <<job, ledger, recorded, overlap, cut>>
          /\ pc[p] \in {"passed", "checked", "packing"}
          /\ pc'[p] \notin {"read", "writing"}
      BY <2>1, <2>6, OneMoves DEF TypeOK, Recheck, OpenPack, WritePack, Goto
    <3>2. Jobs'
      BY <2>2, <3>1 DEF Jobs, OnlyMoves
    <3>3. QED
      BY <2>4, <3>1, <3>2
  <2>7. ASSUME NEW p \in Procs, ReadLedger(p) PROVE EvidenceInv'
    <3>1. /\ OnlyMoves(p) /\ UNCHANGED <<job, ledger, recorded, cut>>
          /\ pc[p] \in {"packed", "passed"} /\ pc'[p] = "read"
          /\ next'[p] = Upserted(ledger, job[p])
      BY <2>1, <2>7, OneMoves DEF TypeOK, ReadLedger, Ready, Goto
    <3>2. ~overlap' => ~overlap /\ \A q \in Procs \ {p} : pc[q] # "writing"
      BY <2>7 DEF ReadLedger, Others
    <3>3. Whole' /\ Jobs'
      BY <2>2, <3>1 DEF Whole, Jobs, OnlyMoves
    <3>4. \A q \in Procs : Seen(q) => Seen(q)'
      BY <3>1 DEF Seen, OnlyMoves
    <3>5. Seen(p)'
      BY <3>1 DEF Seen
    <3>6. ASSUME NEW q \in Procs, ~overlap' PROVE Held(q)'
      BY <3>1, <3>2, <3>6 DEF Held, OnlyMoves
    <3>7. Free' => Free
      BY <3>1 DEF OnlyMoves
    <3>8. Kept(ledger) => Kept(ledger)'
      BY <3>1 DEF Kept
    <3>9. QED
      BY <2>2, <2>3, <3>2, <3>3, <3>4, <3>6, <3>7, <3>8
  <2>8. ASSUME NEW p \in Procs, OpenLedger(p) PROVE EvidenceInv'
    <3>1. /\ OnlyMoves(p) /\ UNCHANGED <<job, next, recorded, cut>>
          /\ pc[p] = "read" /\ pc'[p] = "writing" /\ ledger' = <<>>
      BY <2>1, <2>8, OneMoves DEF TypeOK, OpenLedger, Goto
    <3>2. ~overlap' => ~overlap /\ \A q \in Procs \ {p} : pc[q] \notin {"read", "writing"}
      BY <2>8 DEF OpenLedger, Others
    <3>3. Whole' /\ Jobs'
      BY <2>2, <3>1 DEF Whole, Jobs, OnlyMoves
    <3>4. ASSUME ~overlap' PROVE Held(p)'
      <4>1. Free
        BY <3>1, <3>2, <3>4
      <4>2. Kept(ledger) /\ next[p] = Upserted(ledger, job[p])
        BY <2>2, <3>1, <3>2, <3>4, <4>1 DEF Seen
      <4>3. job[p] \in Entry /\ job[p].complete
        BY <2>1, <2>2, <3>1 DEF TypeOK, Jobs
      <4>4. Kept(next[p]) /\ job[p] \in ToSet(next[p])
        BY <2>1, <2>2, <4>2, <4>3, UpsertKeeps DEF Whole
      <4>5. Kept(next[p])'
        BY <3>1, <4>4 DEF Kept
      <4>6. Alone(p)'
        BY <3>1, <3>2, <3>4 DEF Alone, OnlyMoves
      <4>7. QED
        BY <3>1, <4>4, <4>5, <4>6 DEF Held
    <3>5. ASSUME NEW q \in Procs, ~overlap' PROVE Seen(q)' /\ Held(q)'
      BY <3>1, <3>2, <3>4, <3>5 DEF Seen, Held, OnlyMoves
    <3>6. ~Free'
      BY <3>1
    <3>7. QED
      BY <2>3, <3>3, <3>5, <3>6
  <2>9. ASSUME NEW p \in Procs, WriteLedger(p) PROVE EvidenceInv'
    <3>1. /\ OnlyMoves(p) /\ UNCHANGED <<job, next, overlap, cut>>
          /\ pc[p] = "writing" /\ pc'[p] = "done"
          /\ ledger' \in Overwritten(ledger, next[p])
          /\ recorded' = recorded \cup {job[p]}
      BY <2>1, <2>9, OneMoves DEF TypeOK, WriteLedger, Goto
    <3>2. Whole' /\ Jobs'
      BY <2>2, <3>1 DEF Whole, Jobs, OnlyMoves
    <3>3. ASSUME ~overlap PROVE Kept(ledger)' /\ \A q \in Procs : Seen(q)' /\ Held(q)'
      <4>1. Alone(p) /\ ledger = <<>> /\ Kept(next[p]) /\ job[p] \in ToSet(next[p])
        BY <2>2, <3>1, <3>3 DEF Held
      <4>2. ledger' = next[p]
        BY <2>1, <3>1, <4>1, OverwrittenLines DEF TypeOK, Lines
      <4>3. Kept(ledger)'
        BY <3>1, <4>1, <4>2 DEF Kept
      <4>4. \A q \in Procs : pc'[q] \notin {"read", "writing"}
        BY <3>1, <4>1 DEF Alone, OnlyMoves
      <4>5. QED
        BY <4>3, <4>4 DEF Seen, Held
    <3>4. QED
      BY <2>3, <3>1, <3>2, <3>3
  <2>10. ASSUME NEW p \in Procs, Stop(p) PROVE EvidenceInv'
    <3>1. /\ OnlyMoves(p) /\ UNCHANGED <<job, next, ledger, recorded, overlap>>
          /\ pc[p] # "start" /\ pc'[p] = "stopped"
          /\ cut' = (cut \/ pc[p] = "writing")
      BY <2>1, <2>10, OneMoves DEF TypeOK, Stop, Goto
    <3>2. Whole' /\ Jobs'
      BY <2>2, <3>1 DEF Whole, Jobs, OnlyMoves
    <3>3. \A lines : Kept(lines) => Kept(lines)'
      BY <3>1 DEF Kept
    <3>4. CASE pc[p] = "writing"
      <4>1. ASSUME ~overlap PROVE Kept(ledger)' /\ \A q \in Procs : Seen(q)' /\ Held(q)'
        <5>1. Alone(p) /\ ledger = <<>>
          BY <2>2, <3>4, <4>1 DEF Held
        <5>2. cut' /\ ledger' = <<>>
          BY <3>1, <3>4, <5>1, Zenon
        <5>3. ToSet(<<>>) = {} /\ Apart(<<>>)
          BY DEF ToSet, Apart
        <5>4. Kept(ledger)'
          BY <5>2, <5>3, Zenon DEF Kept
        <5>5. \A q \in Procs : pc'[q] \notin {"read", "writing"}
          BY <3>1, <5>1 DEF Alone, OnlyMoves
        <5>6. QED
          BY <5>4, <5>5 DEF Seen, Held
      <4>2. QED
        BY <2>3, <3>1, <3>2, <4>1
    <3>5. CASE pc[p] # "writing"
      <4>1. \A q \in Procs : Seen(q) => Seen(q)'
        BY <3>1 DEF Seen, OnlyMoves
      <4>2. ASSUME NEW q \in Procs, Held(q) PROVE Held(q)'
        <5> SUFFICES ASSUME pc'[q] = "writing"
                     PROVE  /\ Alone(q)' /\ ledger' = <<>>
                            /\ Kept(next[q])' /\ job'[q] \in ToSet(next'[q])
          BY DEF Held
        <5>1. q # p /\ pc[q] = "writing"
          BY <3>1 DEF OnlyMoves
        <5>2. Alone(q) /\ ledger = <<>> /\ Kept(next[q]) /\ job[q] \in ToSet(next[q])
          BY <4>2, <5>1 DEF Held
        <5>3. Alone(q)'
          BY <3>1, <5>2 DEF Alone, OnlyMoves
        <5>4. Kept(next[q])'
          BY <3>1, <5>2 DEF Kept
        <5>5. QED
          BY <3>1, <5>2, <5>3, <5>4
      <4>3. Free' => Free
        BY <3>1, <3>5 DEF OnlyMoves
      <4>4. Kept(ledger) => Kept(ledger)'
        BY <3>1 DEF Kept
      <4>5. QED
        BY <2>2, <2>3, <3>1, <3>2, <4>1, <4>2, <4>3, <4>4
    <3>6. QED
      BY <3>4, <3>5
  <2>11. CASE UNCHANGED vars
    BY <2>2, <2>3, <2>11 DEF Seen, Held, Whole, Jobs, Kept, Alone, vars
  <2>12. QED
    BY <2>5, <2>6, <2>7, <2>8, <2>9, <2>10, <2>11 DEF Next
<1>3. QED
  BY <1>1, <1>2, PTL DEF Spec

(* EvidenceKept: a second process that reads before the first has written,   *)
(* and writes after it, is needed to lose an entry or to tear a line.        *)
THEOREM EvidenceStays == Spec => []EvidenceKept
<1>1. EvidenceInv => EvidenceKept
  BY DEF EvidenceInv, EvidenceKept, Settled, Kept, Apart, EntriesUnique
<1>2. QED
  BY <1>1, EvidenceInvariant, PTL
-----------------------------------------------------------------------------
(* What the register shows while one process at most has the file open.      *)
LEMMA ShownLines ==
  /\ (\A p \in Procs : pc[p] # "writing") => Shown = ToSet(ledger)
  /\ \A p \in Procs : pc[p] = "writing" /\ Alone(p) => Shown = ToSet(next[p])
<1>1. (\A p \in Procs : pc[p] # "writing") => Shown = ToSet(ledger)
  BY DEF Shown
<1>2. ASSUME NEW p \in Procs, pc[p] = "writing", Alone(p) PROVE Shown = ToSet(next[p])
  <2>1. {q \in Procs : pc[q] = "writing"} = {p}
    BY <1>2 DEF Alone
  <2>2. UNION {ToSet(next[q]) : q \in {p}} = ToSet(next[p])
    OBVIOUS
  <2>3. QED
    BY <1>2, <2>1, <2>2 DEF Shown
<1>3. QED
  BY <1>1, <1>2

(* A step that neither opens the file nor comes from where it is open, and   *)
(* leaves it alone, changes nothing that is shown.                           *)
LEMMA ShownStays ==
  ASSUME NEW p \in Procs, OnlyMoves(p), pc[p] # "writing", pc'[p] # "writing", ledger' = ledger
  PROVE  Shown' = Shown
<1>1. \A q \in Procs : /\ pc'[q] = "writing" <=> pc[q] = "writing"
                       /\ pc[q] = "writing" => next'[q] = next[q]
  BY DEF OnlyMoves
<1>2. {q \in Procs : pc'[q] = "writing"} = {q \in Procs : pc[q] = "writing"}
  BY <1>1
<1>3. {ToSet(next'[q]) : q \in {q \in Procs : pc'[q] = "writing"}}
        = {ToSet(next[q]) : q \in {q \in Procs : pc[q] = "writing"}}
  BY <1>1
<1>4. QED
  BY <1>1, <1>3 DEF Shown, ToSet

LEMMA RegisterFirst == Init => Register!Init
<1> SUFFICES ASSUME Init PROVE Register!Init
  OBVIOUS
<1>1. /\ ledger \in Seq(Entry)
      /\ \A i, j \in DOMAIN ledger : Same(ledger[i], ledger[j]) => i = j
      /\ \A i \in DOMAIN ledger : ledger[i].command # Final
  BY LedgerAssumption DEF Init
<1>2. Shown = ToSet(ledger)
  BY ShownLines DEF Init
<1>3. Register!Entry = Entry
  BY DEF Register!Entry, Entry, Commands
<1>4. Shown \in SUBSET Entry /\ \A e \in Shown : e.command # Final
  BY <1>1, <1>2 DEF ToSet
<1>5. \A d, e \in Shown : Register!Replaces(d, e) => d = e
  BY <1>1, <1>2 DEF ToSet, Same, Register!Replaces
<1>6. QED
  BY <1>3, <1>4, <1>5 DEF Init, Register!Init

(* Opening the file is the moment at which a process that is alone records   *)
(* its entry.                                                                *)
LEMMA OpenRecords ==
  ASSUME EvidenceInv, PackInv, NEW p \in Procs, OpenLedger(p), ~overlap'
  PROVE  Register!Record(job[p])
<1>1. /\ OnlyMoves(p) /\ UNCHANGED <<job, next, cut>>
      /\ pc[p] = "read" /\ pc'[p] = "writing" /\ ~overlap /\ overlap' = overlap
      /\ \A q \in Procs \ {p} : pc[q] \notin {"read", "writing"}
  BY OneMoves DEF EvidenceInv, TypeOK, OpenLedger, Goto, Others
<1>2. job[p] \in Entry /\ job[p].complete /\ ledger \in Seq(Lines)
  BY <1>1 DEF EvidenceInv, TypeOK, Lines
<1>3. Shown = ToSet(ledger) /\ Kept(ledger) /\ next[p] = Upserted(ledger, job[p])
  BY <1>1, ShownLines DEF EvidenceInv
<1>4. Shown' = ToSet(next[p])
  <2>1. {q \in Procs : pc'[q] = "writing"} = {p}
    BY <1>1 DEF OnlyMoves
  <2>2. UNION {ToSet(next[q]) : q \in {p}} = ToSet(next[p])
    OBVIOUS
  <2>3. QED
    BY <1>1, <2>1, <2>2 DEF Shown, ToSet
<1>5. ToSet(next[p]) = {d \in ToSet(ledger) : ~Replaced(d, job[p])} \cup {job[p]}
  BY <1>2, <1>3, UpsertedLines
<1>6. \A d \in ToSet(ledger) : Replaced(d, job[p]) <=> Register!Replaces(job[p], d)
  BY <1>3 DEF Kept, Replaced, Same, Register!Replaces
<1>7. ASSUME job[p].command = Final, ~cut, NEW c \in Prerequisites
      PROVE  Register!Passed(job[p].goal, c) \in Shown
  <2>1. Passed(job[p].goal, c) \in recorded
    BY <1>1, <1>7 DEF PackInv, OnFinal, Justified
  <2>2. QED
    BY <1>3, <1>7, <2>1 DEF Kept, Passed, Register!Passed
<1>8. Shown' = {d \in Shown : ~Register!Replaces(job[p], d)} \cup {job[p]}
  BY <1>3, <1>4, <1>5, <1>6
<1>9. QED
  BY <1>1, <1>2, <1>7, <1>8 DEF Register!Record

LEMMA RegisterStep ==
  ASSUME EvidenceInv, PackInv, [Next]_vars
  PROVE  [Register!Next]_<<Shown, cut, overlap>>
<1> SUFFICES ASSUME ~overlap' PROVE [Register!Next]_<<Shown, cut, overlap>>
  <2>1. overlap' \in BOOLEAN
    BY TypeKept DEF EvidenceInv, TypeOK
  <2>2. overlap' => Register!Collide
    BY <2>1 DEF Register!Collide
  <2>3. QED
    BY <2>2 DEF Register!Next
<1>1. TypeOK
  BY DEF EvidenceInv
<1>2. ASSUME NEW p \in Procs, Evaluate(p) \/ Recheck(p) \/ OpenPack(p) \/ WritePack(p)
      PROVE  UNCHANGED <<Shown, cut, overlap>>
  <2>1. /\ OnlyMoves(p) /\ UNCHANGED <<ledger, cut, overlap>>
        /\ pc[p] # "writing" /\ pc'[p] # "writing"
    BY <1>1, <1>2, OneMoves DEF TypeOK, Evaluate, Recheck, OpenPack, WritePack, Goto
  <2>2. QED
    BY <2>1, ShownStays
<1>3. ASSUME NEW p \in Procs, ReadLedger(p) PROVE UNCHANGED <<Shown, cut, overlap>>
  <2>1. /\ OnlyMoves(p) /\ UNCHANGED <<ledger, cut, overlap>>
        /\ pc[p] # "writing" /\ pc'[p] # "writing"
    BY <1>1, <1>3, OneMoves DEF TypeOK, ReadLedger, Ready, Goto
  <2>2. QED
    BY <2>1, ShownStays
<1>4. ASSUME NEW p \in Procs, OpenLedger(p) PROVE Register!Next
  <2>1. job[p] \in Register!Entry
    BY <1>1 DEF TypeOK, Entry, Commands, Register!Entry
  <2>2. QED
    BY <1>4, <2>1, OpenRecords DEF Register!Next
<1>5. ASSUME NEW p \in Procs, WriteLedger(p) PROVE UNCHANGED <<Shown, cut, overlap>>
  <2>1. /\ OnlyMoves(p) /\ UNCHANGED <<next, cut, overlap>>
        /\ pc[p] = "writing" /\ pc'[p] = "done" /\ ledger' \in Overwritten(ledger, next[p])
    BY <1>1, <1>5, OneMoves DEF TypeOK, WriteLedger, Goto
  <2>2. Alone(p) /\ ledger = <<>>
    BY <2>1 DEF EvidenceInv
  <2>3. ledger' = next[p]
    BY <1>1, <2>1, <2>2, OverwrittenLines DEF TypeOK, Lines
  <2>4. \A q \in Procs : pc'[q] # "writing"
    BY <2>1, <2>2 DEF Alone, OnlyMoves
  <2>5. Shown = ToSet(next[p])
    BY <2>1, <2>2, ShownLines
  <2>6. Shown' = ToSet(ledger')
    BY <2>4 DEF Shown, ToSet
  <2>7. QED
    BY <2>1, <2>3, <2>5, <2>6
<1>6. ASSUME NEW p \in Procs, Stop(p) PROVE [Register!Next]_<<Shown, cut, overlap>>
  <2>1. /\ OnlyMoves(p) /\ UNCHANGED <<ledger, overlap>> /\ pc'[p] = "stopped"
        /\ cut' = (cut \/ pc[p] = "writing")
    BY <1>1, <1>6, OneMoves DEF TypeOK, Stop, Goto
  <2>2. CASE pc[p] = "writing"
    <3>1. Alone(p) /\ ledger = <<>>
      BY <2>1, <2>2 DEF EvidenceInv
    <3>2. \A q \in Procs : pc'[q] # "writing"
      BY <2>1, <3>1 DEF Alone, OnlyMoves
    <3>3. Shown' = {}
      BY <2>1, <3>1, <3>2 DEF Shown, ToSet
    <3>4. cut' = TRUE
      BY <2>1, <2>2
    <3>5. ~overlap
      BY <2>1
    <3>6. Register!Lose
      BY <2>1, <3>3, <3>4, <3>5 DEF Register!Lose
    <3>7. QED
      BY <3>6 DEF Register!Next
  <2>3. CASE pc[p] # "writing"
    <3>1. Shown' = Shown
      BY <2>1, <2>3, ShownStays
    <3>2. cut' = cut
      BY <1>1, <2>1, <2>3 DEF TypeOK
    <3>3. QED
      BY <2>1, <3>1, <3>2
  <2>4. QED
    BY <2>2, <2>3
<1>7. CASE UNCHANGED vars
  BY <1>7 DEF vars, Shown, ToSet
<1>8. QED
  BY <1>2, <1>3, <1>4, <1>5, <1>6, <1>7 DEF Next

(* RegisterSpec: to processes that do not overlap the rewriting of the file  *)
(* is one step that records one entry, a final one beside its prerequisites. *)
THEOREM ImplementsRegister == Spec => RegisterSpec
<1>1. EvidenceInv /\ PackInv /\ [Next]_vars => [Register!Next]_<<Shown, cut, overlap>>
  BY RegisterStep
<1>2. QED
  BY <1>1, RegisterFirst, EvidenceInvariant, PackInvariant, PTL
  DEF Spec, RegisterSpec, Register!Spec, Register!registerVars
=============================================================================
