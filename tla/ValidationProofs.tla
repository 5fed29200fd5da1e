-------------------------- MODULE ValidationProofs --------------------------
(***************************************************************************)
(* What holds of Validation for every policy file, every set of required   *)
(* paths and owners, and every number of edits.  The line parser is        *)
(* followed by induction over the lines it has read: a set of numbers      *)
(* takes the place of the formula the induction is over.                   *)
(***************************************************************************)
EXTENDS Validation, SequenceTheorems, FiniteSetTheorems, WellFoundedInduction, TLAPS

(* The files that edits lead to are sequences of lines.                      *)
TypeOK == kind \in {"owners", "contexts"} /\ file \in Seq(Line)

LEMMA Typed == Spec => []TypeOK
<1>1. Init => TypeOK
  BY ValidationAssumption DEF Init, TypeOK
<1>2. TypeOK /\ [Next]_vars => TypeOK'
  <2> SUFFICES ASSUME TypeOK, [Next]_vars PROVE TypeOK'
    OBVIOUS
  <2> USE DEF TypeOK
  <2>1. CASE UNCHANGED vars
    BY <2>1 DEF vars
  <2>2. CASE Next
    <3>0. kind' = kind /\ Lines[kind] \subseteq Line
      BY <2>2, ValidationAssumption DEF Next, Edit
    <3>1. \A m, n \in Int : 1 <= m /\ n <= Len(file) => SubSeq(file, m, n) \in Seq(Line)
      <4> TAKE m, n \in Int
      <4> HAVE 1 <= m /\ n <= Len(file)
      <4>1. \A i \in m..n : file[i] \in Line
        OBVIOUS
      <4>2. QED
        BY <4>1, SubSeqProperties
    <3>2. ASSUME NEW i \in 1..(Len(file) + 1), NEW l \in Lines[kind], file' = InsertAt(file, i, l)
          PROVE  file' \in Seq(Line)
      <4>1. SubSeq(file, 1, i - 1) \in Seq(Line) /\ SubSeq(file, i, Len(file)) \in Seq(Line)
        BY <3>1
      <4>2. <<l>> \in Seq(Line)
        BY <3>0
      <4>3. QED
        BY <4>1, <4>2, <3>2, ConcatProperties DEF InsertAt
    <3>3. ASSUME NEW i \in DOMAIN file, NEW l \in Lines[kind], file' = ReplaceAt(file, i, l)
          PROVE  file' \in Seq(Line)
      BY <3>0, <3>3 DEF ReplaceAt
    <3>4. ASSUME NEW i \in DOMAIN file, file' = RemoveAt(file, i) PROVE file' \in Seq(Line)
      <4>1. SubSeq(file, 1, i - 1) \in Seq(Line) /\ SubSeq(file, i + 1, Len(file)) \in Seq(Line)
        BY <3>1
      <4>2. QED
        BY <4>1, <3>4, ConcatProperties DEF RemoveAt
    <3>5. QED
      BY <2>2, <3>0, <3>2, <3>3, <3>4 DEF Next, Edit
  <2>3. QED
    BY <2>1, <2>2
<1>3. QED
  BY <1>1, <1>2, PTL DEF Spec
-----------------------------------------------------------------------------
LEMMA LeastNumber ==
  ASSUME NEW T \in SUBSET Nat, T # {} PROVE \E n \in T : \A m \in T : n <= m
<1>1. IsWellFoundedOn(OpToRel(<, Nat), Nat)
  BY NatLessThanWellFounded
<1>2. PICK n \in T : \A m \in T : <<m, n>> \notin OpToRel(<, Nat)
  BY <1>1, WFMin
<1>3. \A m \in T : <<m, n>> \notin {p \in Nat \X Nat : p[1] < p[2]}
  BY <1>2 DEF OpToRel
<1>4. \A m \in T : ~(m < n)
  BY <1>3
<1>5. QED
  BY <1>4

LEMMA Induction ==
  ASSUME NEW T \in SUBSET Nat, 0 \in T, \A n \in T : n + 1 \in T PROVE T = Nat
<1> SUFFICES ASSUME Nat \ T # {} PROVE FALSE
  OBVIOUS
<1>1. PICK n \in Nat \ T : \A m \in Nat \ T : n <= m
  BY LeastNumber
<1>2. n - 1 \in Nat /\ ~(n <= n - 1)
  BY <1>1
<1>3. n - 1 \in T
  BY <1>1, <1>2
<1>4. (n - 1) + 1 = n
  BY <1>1
<1>5. QED
  BY <1>1, <1>3, <1>4
-----------------------------------------------------------------------------

(* The parser after i lines, one line after another.                         *)
Unread == [at |-> "before", entries |-> <<>>]
ReadBody(f, i) == IF i = 0 THEN Unread ELSE ReadLine(f[i - 1], file[i])

LEMMA ReadExists ==
  ASSUME NEW n \in Nat PROVE \E f : f = [i \in 0..n |-> ReadBody(f, i)]
<1> DEFINE Good(m) == \E f : f = [i \in 0..m |-> ReadBody(f, i)]
           T == {m \in Nat : Good(m)}
<1>1. Good(0)
  <2> DEFINE f == [i \in 0..0 |-> Unread]
  <2>1. \A i \in 0..0 : ReadBody(f, i) = Unread
    BY DEF ReadBody
  <2>2. f = [i \in 0..0 |-> ReadBody(f, i)]
    BY <2>1
  <2>3. QED
    BY <2>2
<1>2. ASSUME NEW m \in Nat, Good(m) PROVE Good(m + 1)
  <2>1. PICK f : f = [i \in 0..m |-> ReadBody(f, i)]
    BY <1>2
  <2> DEFINE g == [i \in 0..(m + 1) |-> ReadBody(f, i)]
  <2>2. \A i \in 0..m : g[i] = f[i]
    BY <2>1
  <2>3. ASSUME NEW i \in 0..(m + 1) PROVE ReadBody(g, i) = ReadBody(f, i)
    <3>1. CASE i = 0
      BY <3>1 DEF ReadBody
    <3>2. CASE i # 0
      <4>1. g[i - 1] = f[i - 1]
        BY <2>2, <3>2
      <4> HIDE DEF g
      <4>2. QED
        BY <4>1 DEF ReadBody
    <3>3. QED
      BY <3>1, <3>2
  <2>4. g = [i \in 0..(m + 1) |-> ReadBody(g, i)]
    BY <2>3
  <2>5. QED
    BY <2>4
<1> HIDE DEF Good
<1>3. T = Nat
  <2>1. T \in SUBSET Nat /\ 0 \in T
    BY <1>1
  <2>2. \A m \in T : m + 1 \in T
    BY <1>2
  <2> HIDE DEF T
  <2>3. QED
    BY <2>1, <2>2, Induction
<1>4. QED
  BY <1>3 DEF Good

LEMMA ParserDefined ==
  ASSUME TypeOK
  PROVE  /\ parser[0] = Unread
         /\ \A i \in 0..(Len(file) - 1) : parser[i + 1] = ReadLine(parser[i], file[i + 1])
<1>1. Len(file) \in Nat
  BY DEF TypeOK
<1>2. \E f : f = [i \in 0..Len(file) |-> ReadBody(f, i)]
  BY <1>1, ReadExists
<1> DEFINE p == CHOOSE f : f = [i \in 0..Len(file) |-> ReadBody(f, i)]
<1>3. p = [i \in 0..Len(file) |-> ReadBody(p, i)]
  BY <1>2
<1>4. parser = p
  BY DEF parser, ReadBody, Unread
<1> HIDE DEF p
<1>5. \A i \in 0..Len(file) : parser[i] = ReadBody(parser, i)
  BY <1>3, <1>4
<1>6. parser[0] = Unread
  BY <1>1, <1>5 DEF ReadBody
<1>7. ASSUME NEW i \in 0..(Len(file) - 1) PROVE parser[i + 1] = ReadLine(parser[i], file[i + 1])
  <2>1. i + 1 \in 0..Len(file) /\ i + 1 # 0 /\ (i + 1) - 1 = i
    BY <1>1
  <2>2. QED
    BY <1>5, <2>1 DEF ReadBody
<1>8. QED
  BY <1>6, <1>7
-----------------------------------------------------------------------------
(* Where the parser stands after i lines: before the first header, inside    *)
(* the block it opens, or behind the line that ends it.                      *)
First(h) == h \in DOMAIN file /\ IsHeader(file[h]) /\ \A j \in 1..(h - 1) : ~IsHeader(file[j])

Stands(i) ==
  \/ /\ parser[i].at = "before"
     /\ \A j \in 1..i : ~IsHeader(file[j])
  \/ /\ parser[i].at = "inside"
     /\ \E h \in 1..i : First(h) /\ \A j \in (h + 1)..i : file[j].indent > 0
  \/ /\ parser[i].at = "after"
     /\ \E h \in 1..i : First(h) /\ \E j \in (h + 1)..i : file[j].indent = 0

Entry == [name : STRING, fields : [Fields -> STRING]]
ReaderState == [at : {"before", "inside", "after"}, entries : Seq(Entry)]

LEMMA ReadLineTyped ==
  ASSUME NEW s \in ReaderState, NEW l \in Line
  PROVE  /\ ReadLine(s, l) \in ReaderState
         /\ ReadLine(s, l).at =
              IF s.at = "before" /\ IsHeader(l) THEN "inside"
              ELSE IF s.at = "inside" /\ l.indent = 0 THEN "after" ELSE s.at
<1>1. CASE s.at = "before"
  <2>1. ReadLine(s, l) = [s EXCEPT !.at = IF IsHeader(l) THEN "inside" ELSE "before"]
    BY <1>1 DEF ReadLine
  <2>2. QED
    BY <1>1, <2>1 DEF ReaderState
<1>2. CASE s.at = "inside" /\ l.indent = 0
  <2>1. ~Opens(l)
    BY <1>2 DEF Opens
  <2>2. ReadLine(s, l) = [s EXCEPT !.at = "after"]
    BY <1>2, <2>1 DEF ReadLine
  <2>3. QED
    BY <1>2, <2>2 DEF ReaderState
<1>3. CASE s.at = "inside" /\ l.indent # 0 /\ Opens(l)
  <2>1. [name |-> l.key, fields |-> NoFields] \in Entry
    <3>1. NoFields \in [Fields -> STRING]
      BY EmptyString DEF NoFields
    <3>2. l.key \in STRING
      BY DEF Line
    <3>3. QED
      BY <3>1, <3>2 DEF Entry
  <2>2. Append(s.entries, [name |-> l.key, fields |-> NoFields]) \in Seq(Entry)
    BY <2>1 DEF ReaderState
  <2>3. ReadLine(s, l) = [s EXCEPT !.entries = Append(@, [name |-> l.key, fields |-> NoFields])]
    BY <1>3 DEF ReadLine
  <2>4. QED
    BY <1>3, <2>2, <2>3 DEF ReaderState
<1>4. CASE /\ s.at = "inside" /\ l.indent # 0 /\ ~Opens(l)
           /\ s.entries # <<>> /\ l.indent >= 4 /\ l.key \in Fields /\ ~l.dash
  <2> DEFINE n == Len(s.entries)
  <2>1. ReadLine(s, l) = [s EXCEPT !.entries[Len(s.entries)].fields[l.key] = l.value]
    BY <1>4 DEF ReadLine
  <2>2. s.entries \in Seq(Entry) /\ n \in DOMAIN s.entries /\ l.value \in STRING
    BY <1>4 DEF ReaderState, Line
  <2>3. s.entries[n] \in Entry
    BY <2>2
  <2>4. [s.entries[n] EXCEPT !.fields[l.key] = l.value] \in Entry
    BY <1>4, <2>2, <2>3 DEF Entry
  <2>5. [s.entries EXCEPT ![n].fields[l.key] = l.value] \in Seq(Entry)
    BY <2>2, <2>4
  <2>6. QED
    BY <1>4, <2>1, <2>5 DEF ReaderState
<1>5. CASE /\ s.at # "before"
           /\ ~(s.at = "inside" /\ l.indent = 0)
           /\ ~(s.at = "inside" /\ Opens(l))
           /\ ~(/\ s.at = "inside" /\ ~Opens(l)
                /\ s.entries # <<>> /\ l.indent >= 4 /\ l.key \in Fields /\ ~l.dash)
  <2>1. ReadLine(s, l) = s
    BY <1>5 DEF ReadLine
  <2>2. QED
    BY <1>5, <2>1
<1>6. QED
  BY <1>1, <1>2, <1>3, <1>4, <1>5

LEMMA ParserTyped ==
  ASSUME TypeOK
  PROVE  \A i \in 0..Len(file) : parser[i] \in ReaderState
<1>1. Len(file) \in Nat /\ \A i \in 1..Len(file) : file[i] \in Line
  BY DEF TypeOK
<1> DEFINE T == {i \in Nat : i <= Len(file) => parser[i] \in ReaderState}
<1>2. 0 \in T
  <2>1. Unread \in ReaderState
    BY DEF Unread, ReaderState
  <2>2. QED
    BY <2>1, ParserDefined
<1>3. ASSUME NEW i \in T PROVE i + 1 \in T
  <2>1. SUFFICES ASSUME i + 1 <= Len(file) PROVE parser[i + 1] \in ReaderState
    OBVIOUS
  <2>2. i \in 0..(Len(file) - 1) /\ i + 1 \in 1..Len(file) /\ i <= Len(file)
    BY <1>1, <2>1
  <2>3. parser[i] \in ReaderState
    BY <2>2
  <2>4. QED
    BY <1>1, <2>2, <2>3, ParserDefined, ReadLineTyped
<1>4. T = Nat
  <2>1. T \in SUBSET Nat
    OBVIOUS
  <2> HIDE DEF T
  <2>2. QED
    BY <1>2, <1>3, <2>1, Induction
<1>5. QED
  BY <1>1, <1>4

LEMMA ParserStands ==
  ASSUME TypeOK
  PROVE  \A i \in 0..Len(file) : Stands(i)
<1>1. Len(file) \in Nat /\ \A i \in 1..Len(file) : file[i] \in Line
  BY DEF TypeOK
<1>2. DOMAIN file = 1..Len(file)
  BY DEF TypeOK
<1> DEFINE T == {i \in Nat : i <= Len(file) => Stands(i)}
<1>3. 0 \in T
  BY ParserDefined DEF Stands, Unread
<1>4. ASSUME NEW i \in T PROVE i + 1 \in T
  <2>1. SUFFICES ASSUME i + 1 <= Len(file) PROVE Stands(i + 1)
    OBVIOUS
  <2>2. i \in 0..(Len(file) - 1) /\ i + 1 \in 1..Len(file) /\ i \in 0..Len(file)
    BY <1>1, <2>1
  <2>3. Stands(i) /\ i \in Nat
    BY <2>2
  <2> DEFINE l == file[i + 1]
  <2>4. parser[i + 1].at =
          IF parser[i].at = "before" /\ IsHeader(l) THEN "inside"
          ELSE IF parser[i].at = "inside" /\ l.indent = 0 THEN "after" ELSE parser[i].at
    BY <1>1, <2>2, ParserDefined, ParserTyped, ReadLineTyped
  <2>5. l.indent \in Nat
    BY <1>1, <2>2 DEF Line
  <2>6. CASE parser[i].at = "before"
    <3>1. \A j \in 1..i : ~IsHeader(file[j])
      BY <2>3, <2>6 DEF Stands
    <3>2. CASE IsHeader(l)
      <4>1. First(i + 1)
        BY <1>2, <2>2, <3>1, <3>2 DEF First
      <4>2. parser[i + 1].at = "inside"
        BY <2>4, <2>6, <3>2
      <4>3. i + 1 \in 1..(i + 1) /\ \A j \in (i + 2)..(i + 1) : file[j].indent > 0
        BY <2>3
      <4>4. QED
        BY <2>3, <4>1, <4>2, <4>3 DEF Stands
    <3>3. CASE ~IsHeader(l)
      <4>1. parser[i + 1].at = "before"
        BY <2>4, <2>6, <3>3
      <4>2. \A j \in 1..(i + 1) : ~IsHeader(file[j])
        BY <2>3, <3>1, <3>3
      <4>3. QED
        BY <4>1, <4>2 DEF Stands
    <3>4. QED
      BY <3>2, <3>3
  <2>7. CASE parser[i].at = "inside"
    <3>1. PICK h \in 1..i : First(h) /\ \A j \in (h + 1)..i : file[j].indent > 0
      BY <2>3, <2>7 DEF Stands
    <3>2. h \in 1..(i + 1) /\ i + 1 \in (h + 1)..(i + 1)
      BY <2>3, <3>1
    <3>3. CASE l.indent = 0
      <4>1. parser[i + 1].at = "after"
        BY <2>4, <2>7, <3>3
      <4>2. QED
        BY <3>1, <3>2, <3>3, <4>1 DEF Stands
    <3>4. CASE l.indent # 0
      <4>1. parser[i + 1].at = "inside"
        BY <2>4, <2>7, <3>4
      <4>2. \A j \in (h + 1)..(i + 1) : file[j].indent > 0
        BY <2>3, <2>5, <3>1, <3>4
      <4>3. QED
        BY <3>1, <3>2, <4>1, <4>2 DEF Stands
    <3>5. QED
      BY <3>3, <3>4
  <2>8. CASE parser[i].at = "after"
    <3>1. PICK h \in 1..i : First(h) /\ \E j \in (h + 1)..i : file[j].indent = 0
      BY <2>3, <2>8 DEF Stands
    <3>2. parser[i + 1].at = "after"
      BY <2>4, <2>8
    <3>3. h \in 1..(i + 1) /\ (h + 1)..i \subseteq (h + 1)..(i + 1)
      BY <2>3, <3>1
    <3>4. QED
      BY <3>1, <3>2, <3>3 DEF Stands
  <2>9. QED
    BY <2>3, <2>6, <2>7, <2>8 DEF Stands
<1>5. T = Nat
  <2>1. T \in SUBSET Nat
    OBVIOUS
  <2> HIDE DEF T
  <2>2. QED
    BY <1>3, <1>4, <2>1, Induction
<1>6. QED
  BY <1>1, <1>5

(* So the parser is inside exactly at the lines of the block.                *)
LEMMA InsideIsBlock ==
  ASSUME TypeOK, NEW i \in 0..(Len(file) - 1)
  PROVE  (i + 1) \in Block <=> (parser[i].at = "inside" /\ file[i + 1].indent # 0)
<1>1. Len(file) \in Nat /\ DOMAIN file = 1..Len(file) /\ \A j \in 1..Len(file) : file[j] \in Line
  BY DEF TypeOK
<1>2. \A j \in 1..Len(file) : file[j].indent \in Nat
  BY <1>1 DEF Line
<1>3. i \in Nat /\ i + 1 \in 1..Len(file) /\ i \in 0..Len(file) /\ Stands(i)
  BY <1>1, ParserStands
<1>4. (i + 1) \in Block <=> \E h \in 1..i : First(h) /\ \A j \in (h + 1)..(i + 1) : file[j].indent > 0
  <2>1. \A h \in 1..i : h \in DOMAIN file
    BY <1>1, <1>3
  <2>2. (i + 1) - 1 = i
    BY <1>3
  <2>3. QED
    BY <1>1, <1>3, <2>1, <2>2 DEF Block, First
<1>5. \A h, g \in 1..i : First(h) /\ First(g) => h = g
  BY <1>3 DEF First
<1>6. CASE parser[i].at = "before"
  <2>1. \A j \in 1..i : ~First(j)
    BY <1>3, <1>6 DEF Stands, First
  <2>2. QED
    BY <1>4, <1>6, <2>1
<1>7. CASE parser[i].at = "inside"
  <2>1. PICK h \in 1..i : First(h) /\ \A j \in (h + 1)..i : file[j].indent > 0
    BY <1>3, <1>7 DEF Stands
  <2>2. CASE file[i + 1].indent = 0
    <3>1. \A g \in 1..i : (i + 1) \in (g + 1)..(i + 1)
      BY <1>3
    <3>2. QED
      BY <1>4, <2>2, <3>1
  <2>3. CASE file[i + 1].indent # 0
    <3>1. \A j \in (h + 1)..(i + 1) : file[j].indent > 0
      BY <1>2, <1>3, <2>1, <2>3
    <3>2. QED
      BY <1>4, <1>7, <2>1, <2>3, <3>1
  <2>4. QED
    BY <2>2, <2>3
<1>8. CASE parser[i].at = "after"
  <2>1. PICK h \in 1..i : First(h) /\ \E j \in (h + 1)..i : file[j].indent = 0
    BY <1>3, <1>8 DEF Stands
  <2>2. PICK j \in (h + 1)..i : file[j].indent = 0
    BY <2>1
  <2>3. \A g \in 1..i : First(g) => j \in (g + 1)..(i + 1) /\ ~(file[j].indent > 0)
    BY <1>3, <1>5, <2>1, <2>2
  <2>4. QED
    BY <1>4, <1>8, <2>3
<1>9. QED
  BY <1>3, <1>6, <1>7, <1>8 DEF Stands
-----------------------------------------------------------------------------
(* Position counts the entries up to a line: it grows by one at each of      *)
(* them, so it tells them apart.                                             *)
UpTo(i) == {j \in EntriesWritten : j <= i}

LEMMA EntriesAreLines ==
  ASSUME TypeOK
  PROVE  /\ Len(file) \in Nat /\ EntriesWritten \subseteq 1..Len(file)
         /\ EntriesWritten \subseteq Block /\ Block \subseteq 1..Len(file)
         /\ IsFiniteSet(EntriesWritten)
         /\ \A i : IsFiniteSet(UpTo(i)) /\ Position(i) = Cardinality(UpTo(i)) /\ Position(i) \in Nat
<1>1. Len(file) \in Nat /\ DOMAIN file = 1..Len(file)
  BY DEF TypeOK
<1>2. EntriesWritten \subseteq Block /\ Block \subseteq 1..Len(file)
  BY <1>1 DEF EntriesWritten, Block
<1>3. IsFiniteSet(EntriesWritten)
  <2>1. IsFiniteSet(1..Len(file))
    BY <1>1, FS_Interval
  <2>2. QED
    BY <1>2, <2>1, FS_Subset
<1>4. ASSUME NEW i PROVE IsFiniteSet(UpTo(i)) /\ Position(i) = Cardinality(UpTo(i)) /\ Position(i) \in Nat
  <2>1. UpTo(i) \in SUBSET EntriesWritten
    BY DEF UpTo
  <2>2. IsFiniteSet(UpTo(i))
    BY <1>3, <2>1, FS_Subset
  <2>3. Cardinality(UpTo(i)) \in Nat
    BY <2>2, FS_CardinalityType
  <2>4. QED
    BY <2>2, <2>3 DEF Position, UpTo
<1>5. QED
  BY <1>1, <1>2, <1>3, <1>4

LEMMA PositionGrows ==
  ASSUME TypeOK
  PROVE  /\ Position(0) = 0 /\ Position(Len(file)) = Cardinality(EntriesWritten)
         /\ \A i \in Nat : Position(i + 1) = IF i + 1 \in EntriesWritten THEN Position(i) + 1 ELSE Position(i)
<1> USE EntriesAreLines
<1>1. Position(0) = 0
  <2>1. UpTo(0) = {}
    BY DEF UpTo
  <2>2. QED
    BY <2>1, FS_EmptySet
<1>2. Position(Len(file)) = Cardinality(EntriesWritten)
  <2>1. UpTo(Len(file)) = EntriesWritten
    BY DEF UpTo
  <2>2. QED
    BY <2>1
<1>3. ASSUME NEW i \in Nat
      PROVE  Position(i + 1) = IF i + 1 \in EntriesWritten THEN Position(i) + 1 ELSE Position(i)
  <2>1. CASE i + 1 \in EntriesWritten
    <3>1. UpTo(i + 1) = UpTo(i) \cup {i + 1} /\ i + 1 \notin UpTo(i)
      BY <2>1 DEF UpTo
    <3>2. QED
      BY <2>1, <3>1, FS_AddElement
  <2>2. CASE i + 1 \notin EntriesWritten
    <3>1. UpTo(i + 1) = UpTo(i)
      BY <2>2 DEF UpTo
    <3>2. QED
      BY <2>2, <3>1
  <2>3. QED
    BY <2>1, <2>2
<1>4. QED
  BY <1>1, <1>2, <1>3

LEMMA PositionOrders ==
  ASSUME TypeOK, NEW e \in EntriesWritten, NEW i \in Nat, e <= i
  PROVE  /\ 1 <= Position(e) /\ Position(e) <= Position(i)
         /\ Position(e) = Position(i) <=> \A j \in EntriesWritten : ~(e < j /\ j <= i)
<1> USE EntriesAreLines
<1>1. e \in UpTo(e) /\ UpTo(e) \in SUBSET UpTo(i)
  BY DEF UpTo
<1>2. Position(e) # 0
  BY <1>1, FS_EmptySet
<1>3. Position(e) <= Position(i) /\ (Position(e) = Position(i) => UpTo(e) = UpTo(i))
  BY <1>1, FS_Subset
<1>4. UpTo(e) = UpTo(i) <=> \A j \in EntriesWritten : ~(e < j /\ j <= i)
  BY DEF UpTo
<1>5. UpTo(e) = UpTo(i) => Position(e) = Position(i)
  OBVIOUS
<1>6. QED
  BY <1>2, <1>3, <1>4, <1>5

LEMMA PositionTells ==
  ASSUME TypeOK, NEW d \in EntriesWritten, NEW e \in EntriesWritten, Position(d) = Position(e)
  PROVE  d = e
<1>1. d \in Nat /\ e \in Nat
  BY EntriesAreLines
<1>2. ~(d < e) /\ ~(e < d)
  BY <1>1, PositionOrders
<1>3. QED
  BY <1>1, <1>2
-----------------------------------------------------------------------------
(* The lines the parser takes a field from.                                  *)
IsField(i) == i \in Block /\ file[i].indent >= 4 /\ file[i].key \in Fields /\ ~file[i].dash

(* What one line of a plain file does to the entries read.                   *)
LEMMA EntriesStep ==
  ASSUME TypeOK, Plain, NEW i \in 0..(Len(file) - 1)
  PROVE  LET es == parser[i].entries
             l == file[i + 1]
         IN  /\ i + 1 \in EntriesWritten =>
                  parser[i + 1].entries = Append(es, [name |-> l.key, fields |-> NoFields])
             /\ IsField(i + 1) /\ es # <<>> =>
                  parser[i + 1].entries = [es EXCEPT ![Len(es)].fields[l.key] = l.value]
             /\ i + 1 \notin EntriesWritten /\ ~(IsField(i + 1) /\ es # <<>>) =>
                  parser[i + 1].entries = es
<1> DEFINE s == parser[i]
           l == file[i + 1]
<1>1. Len(file) \in Nat /\ i + 1 \in 1..Len(file) /\ i \in 0..Len(file) /\ l \in Line
  BY DEF TypeOK
<1>2. s \in ReaderState /\ parser[i + 1] = ReadLine(s, l)
  BY <1>1, ParserTyped, ParserDefined
<1>3. (i + 1) \in Block <=> (s.at = "inside" /\ l.indent # 0)
  BY InsideIsBlock
<1>4. (i + 1) \in EntriesWritten <=> (i + 1) \in Block /\ l.indent = 2
  BY DEF EntriesWritten
<1>5. (i + 1) \in Block => l.indent \in {2, 4} /\ (l.indent = 2 => Opens(l))
  BY DEF Plain
<1>6. Opens(l) => l.indent = 2
  BY DEF Opens
<1>7. IsField(i + 1) <=> (i + 1) \in Block /\ l.indent >= 4 /\ l.key \in Fields /\ ~l.dash
  BY DEF IsField
<1> HIDE DEF s, l
<1>8. CASE s.at = "before"
  <2>1. ReadLine(s, l) = [s EXCEPT !.at = IF IsHeader(l) THEN "inside" ELSE "before"]
    BY <1>8 DEF ReadLine
  <2>2. ReadLine(s, l).entries = s.entries
    BY <1>2, <2>1 DEF ReaderState
  <2>3. QED
    BY <1>2, <1>3, <1>4, <1>7, <1>8, <2>2 DEF s, l
<1>9. CASE s.at = "inside" /\ l.indent = 0
  <2>1. ReadLine(s, l) = [s EXCEPT !.at = "after"]
    BY <1>6, <1>9 DEF ReadLine
  <2>2. ReadLine(s, l).entries = s.entries
    BY <1>2, <2>1 DEF ReaderState
  <2>3. QED
    BY <1>2, <1>3, <1>4, <1>7, <1>9, <2>2 DEF s, l
<1>10. CASE s.at = "inside" /\ Opens(l)
  <2>1. l.indent = 2
    BY <1>6, <1>10
  <2>2. ReadLine(s, l) = [s EXCEPT !.entries = Append(@, [name |-> l.key, fields |-> NoFields])]
    BY <1>10, <2>1 DEF ReadLine
  <2>3. ReadLine(s, l).entries = Append(s.entries, [name |-> l.key, fields |-> NoFields])
    BY <1>2, <2>2 DEF ReaderState
  <2>4. i + 1 \in EntriesWritten /\ ~IsField(i + 1)
    BY <1>3, <1>4, <1>7, <1>10, <2>1
  <2>5. QED
    BY <1>2, <2>3, <2>4 DEF s, l
<1>11. CASE /\ s.at = "inside" /\ l.indent # 0 /\ ~Opens(l)
            /\ s.entries # <<>> /\ l.indent >= 4 /\ l.key \in Fields /\ ~l.dash
  <2>1. ReadLine(s, l) = [s EXCEPT !.entries[Len(s.entries)].fields[l.key] = l.value]
    BY <1>11 DEF ReadLine
  <2>2. ReadLine(s, l).entries = [s.entries EXCEPT ![Len(s.entries)].fields[l.key] = l.value]
    BY <1>2, <2>1 DEF ReaderState
  <2>3. i + 1 \notin EntriesWritten /\ IsField(i + 1)
    BY <1>3, <1>4, <1>5, <1>7, <1>11
  <2>4. QED
    BY <1>2, <1>11, <2>2, <2>3 DEF s, l
<1>12. CASE /\ s.at # "before"
            /\ ~(s.at = "inside" /\ l.indent = 0)
            /\ ~(s.at = "inside" /\ Opens(l))
            /\ ~(/\ s.at = "inside" /\ ~Opens(l)
                 /\ s.entries # <<>> /\ l.indent >= 4 /\ l.key \in Fields /\ ~l.dash)
  <2>1. ReadLine(s, l) = s
    BY <1>12 DEF ReadLine
  <2>2. i + 1 \notin EntriesWritten /\ ~(IsField(i + 1) /\ s.entries # <<>>)
    BY <1>3, <1>4, <1>5, <1>7, <1>12
  <2>3. QED
    BY <1>2, <2>1, <2>2 DEF s, l
<1>13. QED
  BY <1>8, <1>9, <1>10, <1>11, <1>12
-----------------------------------------------------------------------------
(* v is what the lines up to i say the field f of entry e is.                *)
Latest(e, f, i, v) ==
  \/ v = "" /\ \A l \in FieldLines(e, f) : i < l
  \/ \E l \in FieldLines(e, f) :
       l <= i /\ v = file[l].value /\ \A j \in FieldLines(e, f) : j <= i => j <= l

(* After i lines the parser has the entries up to there, each at its         *)
(* position, with the fields written under it so far.                        *)
Reading(i) ==
  LET es == parser[i].entries
  IN  /\ Len(es) = Position(i)
      /\ \A e \in UpTo(i) :
           /\ es[Position(e)].name = file[e].key
           /\ \A f \in Fields : Latest(e, f, i, es[Position(e)].fields[f])
      /\ \A k \in 1..Len(es) : \E e \in UpTo(i) : Position(e) = k

(* A field belongs to the last entry read, which the parser holds.           *)
LEMMA FieldOfLastEntry ==
  ASSUME TypeOK, NEW i \in 0..(Len(file) - 1), NEW e \in UpTo(i), NEW f \in Fields
  PROVE  i + 1 \in FieldLines(e, f)
           <=> IsField(i + 1) /\ file[i + 1].key = f /\ Position(e) = Position(i)
<1>1. i \in Nat /\ e \in EntriesWritten /\ e <= i /\ e \in Nat /\ EntriesWritten \subseteq Nat
  BY EntriesAreLines DEF UpTo
<1>2. Position(e) = Position(i) <=> \A j \in EntriesWritten : ~(e < j /\ j < i + 1)
  <2>1. \A j \in EntriesWritten : j <= i <=> j < i + 1
    BY <1>1
  <2>2. QED
    BY <1>1, <2>1, PositionOrders
<1>3. i + 1 > e
  BY <1>1
<1>4. QED
  BY <1>2, <1>3 DEF FieldLines, IsField

(* One line more, for one field: it is the last line of the field, or not a  *)
(* line of the field at all.                                                 *)
LEMMA LatestStep ==
  ASSUME TypeOK, NEW i \in Nat, NEW e, NEW f, NEW v, Latest(e, f, i, v)
  PROVE  /\ i + 1 \notin FieldLines(e, f) => Latest(e, f, i + 1, v)
         /\ i + 1 \in FieldLines(e, f) => Latest(e, f, i + 1, file[i + 1].value)
<1>1. FieldLines(e, f) \subseteq Nat
  BY EntriesAreLines DEF FieldLines
<1>2. ASSUME i + 1 \in FieldLines(e, f) PROVE Latest(e, f, i + 1, file[i + 1].value)
  <2>1. i + 1 <= i + 1 /\ \A j \in FieldLines(e, f) : j <= i + 1 => j <= i + 1
    OBVIOUS
  <2>2. QED
    BY <1>2, <2>1, Zenon DEF Latest
<1>3. ASSUME i + 1 \notin FieldLines(e, f) PROVE Latest(e, f, i + 1, v)
  <2>1. \A l \in FieldLines(e, f) : l <= i <=> l <= i + 1
    BY <1>1, <1>3
  <2>2. \A l \in FieldLines(e, f) : i < l <=> i + 1 < l
    BY <1>1, <1>3
  <2>3. QED
    BY <2>1, <2>2 DEF Latest
<1>4. QED
  BY <1>2, <1>3

LEMMA ReadingStep ==
  ASSUME TypeOK, Plain, NEW i \in 0..(Len(file) - 1), Reading(i)
  PROVE  Reading(i + 1)
<1> DEFINE es == parser[i].entries
           ns == parser[i + 1].entries
           l == file[i + 1]
<1>1. /\ Len(file) \in Nat /\ i \in Nat /\ i \in 0..Len(file) /\ i + 1 \in 0..Len(file)
      /\ l \in Line
  BY DEF TypeOK
<1>2. es \in Seq(Entry) /\ ns \in Seq(Entry)
  BY <1>1, ParserTyped DEF ReaderState
<1>3. UpTo(i) \subseteq EntriesWritten /\ \A e \in UpTo(i) : e \in Nat /\ e <= i
  BY EntriesAreLines DEF UpTo
<1>4. \A e \in UpTo(i) : Position(e) \in 1..Len(es)
  BY <1>1, <1>3, EntriesAreLines, PositionOrders DEF Reading
<1>5. /\ i + 1 \in EntriesWritten => ns = Append(es, [name |-> l.key, fields |-> NoFields])
      /\ IsField(i + 1) /\ es # <<>> => ns = [es EXCEPT ![Len(es)].fields[l.key] = l.value]
      /\ i + 1 \notin EntriesWritten /\ ~(IsField(i + 1) /\ es # <<>>) => ns = es
  BY EntriesStep
<1>6. /\ Len(es) = Position(i)
      /\ \A e \in UpTo(i) :
           /\ es[Position(e)].name = file[e].key
           /\ \A f \in Fields : Latest(e, f, i, es[Position(e)].fields[f])
      /\ \A k \in 1..Len(es) : \E e \in UpTo(i) : Position(e) = k
  BY DEF Reading
<1>7. \A e \in UpTo(i), f \in Fields :
        /\ i + 1 \in FieldLines(e, f) <=> IsField(i + 1) /\ l.key = f /\ Position(e) = Position(i)
        /\ \A v : Latest(e, f, i, v) =>
             /\ i + 1 \notin FieldLines(e, f) => Latest(e, f, i + 1, v)
             /\ i + 1 \in FieldLines(e, f) => Latest(e, f, i + 1, l.value)
  BY <1>1, FieldOfLastEntry, LatestStep
<1>8. Position(i + 1) = IF i + 1 \in EntriesWritten THEN Position(i) + 1 ELSE Position(i)
  BY <1>1, PositionGrows
<1>9. UpTo(i + 1) = IF i + 1 \in EntriesWritten THEN UpTo(i) \cup {i + 1} ELSE UpTo(i)
  <2>1. EntriesWritten \subseteq Nat
    BY EntriesAreLines
  <2>2. \A j \in EntriesWritten : j <= i + 1 <=> j <= i \/ j = i + 1
    BY <1>1, <2>1
  <2>3. CASE i + 1 \in EntriesWritten
    BY <1>1, <2>2, <2>3 DEF UpTo
  <2>4. CASE i + 1 \notin EntriesWritten
    BY <2>2, <2>4 DEF UpTo
  <2>5. QED
    BY <2>3, <2>4
<1> HIDE DEF es, ns, l
<1>10. CASE i + 1 \in EntriesWritten
  <2> DEFINE new == [name |-> l.key, fields |-> NoFields]
  <2>1. ~IsField(i + 1) \/ \A e \in UpTo(i), f \in Fields : i + 1 \notin FieldLines(e, f)
    <3>1. \A e \in UpTo(i), f \in Fields : i + 1 \in FieldLines(e, f) => l.indent >= 4
      BY DEF FieldLines, l
    <3>2. l.indent = 2
      BY <1>10 DEF EntriesWritten, l
    <3>3. QED
      BY <3>1, <3>2
  <2>2. \A e \in UpTo(i), f \in Fields : i + 1 \notin FieldLines(e, f)
    BY <1>7, <2>1
  <2>3. new \in Entry
    <3>1. NoFields \in [Fields -> STRING]
      BY EmptyString DEF NoFields
    <3>2. QED
      BY <1>1, <3>1 DEF Entry, Line
  <2> HIDE DEF new
  <2>4. ns = Append(es, new)
    BY <1>5, <1>10 DEF new
  <2>5. Len(ns) = Len(es) + 1 /\ ns[Len(es) + 1] = new /\ \A k \in 1..Len(es) : ns[k] = es[k]
    BY <1>2, <2>3, <2>4, AppendProperties
  <2>6. Len(ns) = Position(i + 1) /\ Len(es) + 1 = Position(i + 1)
    BY <1>6, <1>8, <1>10, <2>5
  <2>7. ASSUME NEW e \in UpTo(i)
        PROVE  /\ ns[Position(e)].name = file[e].key
               /\ \A f \in Fields : Latest(e, f, i + 1, ns[Position(e)].fields[f])
    <3>1. ns[Position(e)] = es[Position(e)]
      BY <1>4, <2>5
    <3>2. QED
      BY <1>6, <1>7, <2>2, <3>1
  <2>8. /\ ns[Position(i + 1)].name = file[i + 1].key
        /\ \A f \in Fields : Latest(i + 1, f, i + 1, ns[Position(i + 1)].fields[f])
    <3>1. ns[Position(i + 1)] = new
      BY <2>5, <2>6
    <3>2. \A f \in Fields : new.fields[f] = "" /\ new.name = file[i + 1].key
      BY DEF new, NoFields, l
    <3>3. \A f : \A j \in FieldLines(i + 1, f) : i + 1 < j
      BY <1>1, EntriesAreLines DEF FieldLines
    <3>4. new.name = file[i + 1].key
      BY DEF new, l
    <3>5. QED
      BY <3>1, <3>2, <3>3, <3>4 DEF Latest
  <2>9. ASSUME NEW k \in 1..Len(ns) PROVE \E e \in UpTo(i + 1) : Position(e) = k
    <3>1. CASE k = Len(ns)
      BY <1>9, <1>10, <2>6, <3>1
    <3>2. CASE k # Len(ns)
      <4>1. k \in 1..Len(es)
        BY <1>2, <2>5, <3>2
      <4>2. QED
        BY <1>6, <1>9, <1>10, <4>1
    <3>3. QED
      BY <3>1, <3>2
  <2>10. QED
    BY <1>9, <1>10, <2>6, <2>7, <2>8, <2>9 DEF Reading, ns
<1>11. CASE i + 1 \notin EntriesWritten /\ IsField(i + 1) /\ es # <<>>
  <2> DEFINE n == Len(es)
  <2>1. n \in DOMAIN es /\ es[n] \in Entry /\ n = Position(i) /\ n \in 1..n
    BY <1>2, <1>6, <1>11
  <2>2. ns = [es EXCEPT ![n].fields[l.key] = l.value]
    BY <1>5, <1>11
  <2>3. Len(ns) = Len(es) /\ \A k \in 1..n : k # n => ns[k] = es[k]
    BY <1>2, <2>1, <2>2
  <2>4. /\ ns[n].name = es[n].name
        /\ \A f \in Fields : ns[n].fields[f] = IF f = l.key THEN l.value ELSE es[n].fields[f]
    <3>1. ns[n] = [es[n] EXCEPT !.fields[l.key] = l.value]
      BY <1>2, <2>1, <2>2
    <3>2. QED
      BY <2>1, <3>1 DEF Entry
  <2> HIDE DEF n
  <2>5. ASSUME NEW e \in UpTo(i)
        PROVE  /\ ns[Position(e)].name = file[e].key
               /\ \A f \in Fields : Latest(e, f, i + 1, ns[Position(e)].fields[f])
    <3>1. CASE Position(e) = n
      <4>1. ns[Position(e)].name = file[e].key
        BY <1>6, <2>4, <3>1
      <4>2. ASSUME NEW f \in Fields PROVE Latest(e, f, i + 1, ns[n].fields[f])
        <5>1. i + 1 \in FieldLines(e, f) <=> l.key = f
          BY <1>7, <1>11, <2>1, <3>1
        <5>2. Latest(e, f, i, es[n].fields[f])
          BY <1>6, <3>1
        <5>3. QED
          BY <1>7, <2>4, <5>1, <5>2
      <4>3. QED
        BY <3>1, <4>1, <4>2
    <3>2. CASE Position(e) # n
      <4>1. ns[Position(e)] = es[Position(e)]
        BY <1>4, <2>3, <3>2 DEF n
      <4>2. \A f \in Fields : i + 1 \notin FieldLines(e, f)
        BY <1>7, <2>1, <3>2
      <4>3. QED
        BY <1>6, <1>7, <4>1, <4>2
    <3>3. QED
      BY <3>1, <3>2
  <2>6. QED
    BY <1>6, <1>8, <1>9, <1>11, <2>3, <2>5 DEF Reading, ns
<1>12. CASE i + 1 \notin EntriesWritten /\ ~(IsField(i + 1) /\ es # <<>>)
  <2>1. ns = es
    BY <1>5, <1>12
  <2>2. \A e \in UpTo(i), f \in Fields : i + 1 \notin FieldLines(e, f)
    <3>1. CASE es = <<>>
      <4>1. Len(es) = 0
        BY <3>1
      <4>2. UpTo(i) = {}
        BY <1>4, <4>1
      <4>3. QED
        BY <4>2
    <3>2. CASE ~IsField(i + 1)
      BY <1>7, <3>2
    <3>3. QED
      BY <1>12, <3>1, <3>2
  <2>3. \A e \in UpTo(i), f \in Fields : Latest(e, f, i + 1, ns[Position(e)].fields[f])
    BY <1>6, <1>7, <2>1, <2>2
  <2>4. QED
    BY <1>6, <1>8, <1>9, <1>12, <2>1, <2>3 DEF Reading, ns
<1>13. QED
  BY <1>10, <1>11, <1>12

LEMMA ParserReads ==
  ASSUME TypeOK, Plain PROVE Reading(Len(file))
<1>1. Len(file) \in Nat
  BY DEF TypeOK
<1> DEFINE T == {i \in Nat : i <= Len(file) => Reading(i)}
<1>2. 0 \in T
  <2>1. parser[0].entries = <<>>
    BY ParserDefined DEF Unread
  <2>2. UpTo(0) = {}
    BY EntriesAreLines DEF UpTo
  <2>3. QED
    BY <2>1, <2>2, PositionGrows DEF Reading
<1>3. ASSUME NEW i \in T PROVE i + 1 \in T
  <2>1. SUFFICES ASSUME i + 1 <= Len(file) PROVE Reading(i + 1)
    OBVIOUS
  <2>2. i \in 0..(Len(file) - 1) /\ Reading(i)
    BY <1>1, <2>1
  <2>3. QED
    BY <2>2, ReadingStep
<1>4. T = Nat
  <2>1. T \in SUBSET Nat
    OBVIOUS
  <2> HIDE DEF T
  <2>2. QED
    BY <1>2, <1>3, <2>1, Induction
<1>5. QED
  BY <1>1, <1>4

(* What is latest at the end of the file is what is written.                 *)
LEMMA LatestIsWritten ==
  ASSUME TypeOK, NEW e, NEW f, NEW v, Latest(e, f, Len(file), v)
  PROVE  v = Written(e, f)
<1> DEFINE ls == FieldLines(e, f)
<1>1. ls \subseteq Nat /\ \A l \in ls : l <= Len(file) /\ ~(Len(file) < l)
  BY EntriesAreLines DEF FieldLines
<1> HIDE DEF ls
<1>2. CASE ls = {}
  BY <1>2 DEF Latest, Written, ls
<1>3. CASE ls # {}
  <2>1. PICK l \in ls : v = file[l].value /\ \A j \in ls : j <= l
    BY <1>1, <1>3 DEF Latest, ls
  <2>2. \A m \in ls : (\A j \in ls : j <= m) => m = l
    BY <1>1, <2>1
  <2>3. (CHOOSE m \in ls : \A j \in ls : j <= m) = l
    BY <2>1, <2>2
  <2>4. Written(e, f) = file[CHOOSE m \in ls : \A j \in ls : j <= m].value
    BY <1>3 DEF Written, ls
  <2> DEFINE m == CHOOSE k \in ls : \A j \in ls : j <= k
  <2>5. m = l /\ Written(e, f) = file[m].value
    BY <2>3, <2>4
  <2> HIDE DEF m
  <2>6. QED
    BY <2>1, <2>5
<1>4. QED
  BY <1>2, <1>3

(* The entries parsed and the entries written, one for one.                  *)
LEMMA ParsedIsWritten ==
  ASSUME TypeOK, Plain
  PROVE  /\ parse \in Seq(Entry) /\ Len(parse) = Cardinality(EntriesWritten)
         /\ \A e \in EntriesWritten :
              /\ Position(e) \in DOMAIN parse /\ parse[Position(e)].name = file[e].key
              /\ \A f \in Fields : parse[Position(e)].fields[f] = Written(e, f)
         /\ \A k \in DOMAIN parse : \E e \in EntriesWritten : Position(e) = k
<1>1. Len(file) \in Nat /\ Len(file) \in 0..Len(file)
  BY DEF TypeOK
<1>2. parse \in Seq(Entry)
  BY <1>1, ParserTyped DEF parse, ReaderState
<1>3. UpTo(Len(file)) = EntriesWritten
  BY EntriesAreLines DEF UpTo
<1>4. /\ Len(parse) = Position(Len(file))
      /\ \A e \in EntriesWritten :
           /\ parse[Position(e)].name = file[e].key
           /\ \A f \in Fields : Latest(e, f, Len(file), parse[Position(e)].fields[f])
      /\ \A k \in 1..Len(parse) : \E e \in EntriesWritten : Position(e) = k
  BY <1>3, ParserReads DEF Reading, parse
<1>5. \A e \in EntriesWritten : Position(e) \in 1..Len(parse)
  BY <1>1, <1>4, EntriesAreLines, PositionOrders
<1>6. DOMAIN parse = 1..Len(parse)
  BY <1>2
<1>7. QED
  BY <1>2, <1>4, <1>5, <1>6, LatestIsWritten, PositionGrows

LEMMA ReadsAsWritten == TypeOK => ReadAsWritten
<1> SUFFICES ASSUME TypeOK, Plain, NEW e \in EntriesWritten
             PROVE  /\ Len(parse) = Cardinality(EntriesWritten)
                    /\ parse[Position(e)]
                         = [name |-> file[e].key, fields |-> [f \in Fields |-> Written(e, f)]]
  BY ParsedIsWritten DEF ReadAsWritten
<1> DEFINE p == parse[Position(e)]
<1>1. p \in Entry /\ p.name = file[e].key /\ \A f \in Fields : p.fields[f] = Written(e, f)
  BY ParsedIsWritten
<1> HIDE DEF p
<1>2. p.fields = [f \in Fields |-> Written(e, f)]
  <2>1. p.fields \in [Fields -> STRING]
    BY <1>1 DEF Entry
  <2>2. QED
    BY <1>1, <2>1
<1>3. p = [name |-> p.name, fields |-> p.fields]
  BY <1>1 DEF Entry
<1>4. QED
  BY <1>1, <1>2, <1>3, ParsedIsWritten DEF p

(* The parser attributes each field of a plain file to the entry it is       *)
(* written under and reads the entries in their order, for every file.       *)
THEOREM FieldsFollowTheirEntry == Spec => []ReadAsWritten
  BY Typed, ReadsAsWritten, PTL
-----------------------------------------------------------------------------
(* An entry whose name no other entry parsed has is the only one written.    *)
LEMMA NameWrittenOnce ==
  ASSUME TypeOK, Plain, NEW S \in SUBSET DOMAIN parse, NoDuplicates(parse, S),
         \A i \in DOMAIN parse, j \in S : parse[i].name = parse[j].name => i \in S,
         NEW k \in S
  PROVE  \E e \in EntriesWritten :
           Position(e) = k /\ file[e].key = parse[k].name /\ WrittenOnce(parse[k].name) = {e}
<1>1. PICK e \in EntriesWritten : Position(e) = k
  BY ParsedIsWritten
<1>2. file[e].key = parse[k].name
  BY <1>1, ParsedIsWritten
<1>3. ASSUME NEW d \in EntriesWritten, file[d].key = parse[k].name PROVE d = e
  <2>1. Position(d) \in DOMAIN parse /\ parse[Position(d)].name = parse[k].name
    BY <1>3, ParsedIsWritten
  <2>2. Position(d) \in S
    BY <2>1
  <2>3. Position(d) = k
    BY <2>1, <2>2 DEF NoDuplicates
  <2>4. QED
    BY <1>1, <2>3, PositionTells
<1>4. WrittenOnce(parse[k].name) = {e}
  BY <1>2, <1>3 DEF WrittenOnce
<1>5. QED
  BY <1>1, <1>2, <1>4

LEMMA SafeOwners ==
  ASSUME TypeOK, Plain, ValidateRuntimeFileOwnership, kind = "owners",
         NEW path \in DOMAIN Required
  PROVE  \E e \in EntriesWritten :
           /\ WrittenOnce(path) = {e} /\ Written(e, "owner") = Required[path]
           /\ Written(e, "review_required") = "true" /\ Written(e, "review_rule") # ""
<1>1. /\ NoDuplicates(parse, DOMAIN parse)
      /\ \A i \in DOMAIN parse : OwnerSound(parse[i])
      /\ requireRuntimeOwner(parse, path)
  BY DEF ValidateRuntimeFileOwnership
<1>2. PICK k \in DOMAIN parse :
        /\ parse[k].name = path /\ parse[k].fields["owner"] = Required[path]
        /\ parse[k].fields["review_required"] = "true"
  BY <1>1 DEF requireRuntimeOwner
<1>3. parse[k].fields["review_rule"] # ""
  BY <1>1, <1>2 DEF OwnerSound
<1>4. PICK e \in EntriesWritten : Position(e) = k /\ WrittenOnce(path) = {e}
  BY <1>1, <1>2, NameWrittenOnce
<1>5. {"owner", "review_required", "review_rule"} \subseteq Fields
  BY DEF Fields
<1>6. \A f \in Fields : parse[k].fields[f] = Written(e, f)
  BY <1>4, ParsedIsWritten
<1>7. QED
  BY <1>2, <1>3, <1>4, <1>5, <1>6

LEMMA SafeContexts ==
  ASSUME TypeOK, Plain, ValidateExecutionContext, kind = "contexts"
  PROVE  /\ {file[e].key : e \in EntriesWritten} \ {""} = Expected
         /\ \A c \in Expected : \E e \in EntriesWritten :
              /\ WrittenOnce(c) = {e}
              /\ c = "local_write" => Written(e, "mutates_files") = "true" /\ Written(e, "release_evidence") = "false"
              /\ c = "release_verify" => Written(e, "mutates_files") = "false" /\ Written(e, "requires_gowork") = "off"
<1> DEFINE named == {i \in DOMAIN parse : parse[i].name # ""}
<1>1. /\ NoDuplicates(parse, named)
      /\ \A i \in named :
           /\ ContextSound(parse[i])
           /\ parse[i].name = "local_write" => LocalWriteSound(parse[i])
           /\ parse[i].name = "release_verify" => ReleaseVerifySound(parse[i])
      /\ \A c \in Expected : \E i \in named : parse[i].name = c
  BY DEF ValidateExecutionContext
<1>2. named \in SUBSET DOMAIN parse
      /\ \A i \in DOMAIN parse, j \in named : parse[i].name = parse[j].name => i \in named
  OBVIOUS
<1>3. \A i \in named : parse[i].name # "" /\ i \in DOMAIN parse
  OBVIOUS
<1>4. {file[e].key : e \in EntriesWritten} \ {""} = Expected
  <2>1. ASSUME NEW e \in EntriesWritten, file[e].key # "" PROVE file[e].key \in Expected
    <3>1. Position(e) \in named /\ parse[Position(e)].name = file[e].key
      BY <2>1, ParsedIsWritten
    <3>2. QED
      BY <1>1, <3>1 DEF ContextSound
  <2>2. ASSUME NEW c \in Expected
        PROVE  c # "" /\ \E e \in EntriesWritten : file[e].key = c
    <3>1. PICK i \in named : parse[i].name = c
      BY <1>1
    <3>2. PICK e \in EntriesWritten : Position(e) = i
      BY <1>3, <3>1, ParsedIsWritten
    <3>3. QED
      BY <1>3, <3>1, <3>2, ParsedIsWritten
  <2>3. QED
    BY <2>1, <2>2
<1> HIDE DEF named
<1>5. ASSUME NEW c \in Expected
      PROVE  \E e \in EntriesWritten :
               /\ WrittenOnce(c) = {e}
               /\ c = "local_write" => Written(e, "mutates_files") = "true" /\ Written(e, "release_evidence") = "false"
               /\ c = "release_verify" => Written(e, "mutates_files") = "false" /\ Written(e, "requires_gowork") = "off"
  <2>1. PICK k \in named : parse[k].name = c
    BY <1>1
  <2>2. PICK e \in EntriesWritten : Position(e) = k /\ WrittenOnce(c) = {e}
    BY <1>1, <1>2, <2>1, NameWrittenOnce
  <2>3. {"mutates_files", "release_evidence", "requires_gowork"} \subseteq Fields
    BY DEF Fields
  <2>4. \A f \in Fields : parse[k].fields[f] = Written(e, f)
    BY <2>2, ParsedIsWritten
  <2>5. ContextSound(parse[k])
    BY <1>1
  <2>6. ASSUME c = "local_write"
        PROVE  Written(e, "mutates_files") = "true" /\ Written(e, "release_evidence") = "false"
    <3>1. LocalWriteSound(parse[k])
      BY <1>1, <2>1, <2>6
    <3>2. /\ parse[k].fields["mutates_files"] \in {"true", "false"} \cap {"", "true"}
          /\ parse[k].fields["release_evidence"] \in {"true", "false"} \cap {"", "false"}
      BY <2>5, <3>1 DEF ContextSound, LocalWriteSound, requireContextValue
    <3>3. QED
      BY <2>3, <2>4, <3>2, EmptyString
  <2>7. ASSUME c = "release_verify"
        PROVE  Written(e, "mutates_files") = "false" /\ Written(e, "requires_gowork") = "off"
    <3>1. ReleaseVerifySound(parse[k])
      BY <1>1, <2>1, <2>7
    <3>2. /\ parse[k].fields["mutates_files"] \in {"true", "false"} \cap {"", "false"}
          /\ parse[k].fields["requires_gowork"] # "" /\ parse[k].fields["requires_gowork"] \in {"", "off"}
      BY <2>5, <3>1 DEF ContextSound, ReleaseVerifySound, requireContextValue
    <3>3. QED
      BY <2>3, <2>4, <3>2, EmptyString
  <2>8. QED
    BY <2>2, <2>6, <2>7
<1>6. QED
  BY <1>4, <1>5

(* A plain file that passes keeps what its gate promises: owned and reviewed *)
(* paths, contexts written once, local_write writing and release_verify not. *)
THEOREM PassingFilesAreSafe == Spec => []PassedIsSafe
<1>1. TypeOK => PassedIsSafe
  <2> SUFFICES ASSUME TypeOK, Plain, Passes PROVE PassedIsSafe
    BY DEF PassedIsSafe
  <2>1. CASE kind = "owners"
    <3>1. ValidateRuntimeFileOwnership
      BY <2>1 DEF Passes
    <3>2. QED
      BY <2>1, <3>1, SafeOwners DEF PassedIsSafe
  <2>2. CASE kind = "contexts"
    <3>1. ValidateExecutionContext
      BY <2>2 DEF Passes
    <3>2. QED
      BY <2>2, <3>1, SafeContexts DEF PassedIsSafe
  <2>3. QED
    BY <2>1, <2>2 DEF TypeOK
<1>2. QED
  BY Typed, <1>1, PTL
=============================================================================
