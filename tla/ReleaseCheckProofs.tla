------------------------- MODULE ReleaseCheckProofs -------------------------
(***************************************************************************)
(* What holds of ReleaseCheck for every set of trees, every mode of the    *)
(* debt evidence and any number of edits, commits, kills, further runs and *)
(* other make evidence: what a release that passes is of, and what its     *)
(* checksum signs.                                                         *)
(***************************************************************************)
EXTENDS ReleaseCheck, FiniteSetTheorems, TLAPS

(* The facts gathered so far are the first of FactNames.                     *)
First(k) == {FactNames[i] : i \in 1..k}

LEMMA FactNamesDiffer ==
  \A i, j \in 1..9 : FactNames[i] = FactNames[j] => i = j
BY DEF FactNames

LEMMA FirstCount == \A k \in 0..9 : Cardinality(First(k)) = k
<1> SUFFICES ASSUME NEW k \in 0..9 PROVE Cardinality(First(k)) = k
  OBVIOUS
<1> DEFINE f == [i \in 1..k |-> FactNames[i]]
<1>1. \A i, j \in 1..k : FactNames[i] = FactNames[j] => i = j
  BY FactNamesDiffer
<1>2. f \in Bijection(1..k, First(k))
  BY <1>1 DEF First, Bijection, Injection, Surjection, IsInjective
<1>3. ExistsBijection(1..k, First(k))
  BY <1>2 DEF ExistsBijection
<1>4. QED
  BY <1>3, FS_CountingElements

LEMMA OneMoreFact ==
  ASSUME NEW k \in 0..8 PROVE First(k) \cup {FactNames[k + 1]} = First(k + 1)
BY DEF First

LEMMA AllFacts == Len(FactNames) = 9 /\ {FactNames[i] : i \in DOMAIN FactNames} = First(9)
BY DEF FactNames, First
-----------------------------------------------------------------------------
Steps == {"idle", "debt", "standard-impact-check", "score-check", "debt-evidence", "generate",
          "write", "hash", "read", "verify", "checksum", "final-score", "final-read", "final",
          "final-checksum", "released", "failed"}

Drafting(p) == \E k \in 0..9 : DOMAIN draft[p] = First(k)

ReleaseTypes ==
  /\ tree \in Trees /\ head.tree \in Trees /\ head.commit \in Nat
  /\ pc \in [Procs -> Steps]
  /\ DOMAIN draft = Procs /\ draft = [p \in Procs |-> draft[p]]
  /\ \A p \in Procs : Drafting(p)
  /\ \E reports : scan.sections \in Seq(reports)
  /\ Len(scan.sections) <= 8
  /\ scan.sections # <<>> => pc[Release] \in {"debt", "debt-evidence", "failed"}
  /\ scanned \subseteq Trees
  /\ still \in BOOLEAN
  /\ rewrites \in 0..2

LEMMA TypesSuffice == ReleaseTypes => TypeOK
<1> SUFFICES ASSUME ReleaseTypes PROVE TypeOK
  OBVIOUS
<1>1. ASSUME NEW p \in Procs
      PROVE  DOMAIN draft[p] = {FactNames[i] : i \in 1..Cardinality(DOMAIN draft[p])}
  <2>1. PICK k \in 0..9 : DOMAIN draft[p] = First(k)
    BY DEF ReleaseTypes, Drafting
  <2>2. Cardinality(DOMAIN draft[p]) = k
    BY <2>1, FirstCount
  <2>3. QED
    BY <2>1, <2>2 DEF First
<1>2. Len(AllSections) = 8
  BY DEF AllSections
<1>3. QED
  BY <1>1, <1>2 DEF ReleaseTypes, TypeOK

(* A draft is all there when it holds every fact.                            *)
LEMMA BuiltIsComplete ==
  ASSUME ReleaseTypes, NEW p \in Procs
  PROVE  /\ Built(p) <=> DOMAIN draft[p] = First(9)
         /\ ~Built(p) => \E k \in 0..8 : /\ DOMAIN draft[p] = First(k)
                                         /\ Cardinality(DOMAIN draft[p]) = k
<1>1. PICK k \in 0..9 : DOMAIN draft[p] = First(k)
  BY DEF ReleaseTypes, Drafting
<1>2. Cardinality(DOMAIN draft[p]) = k /\ Cardinality(First(9)) = 9
  BY <1>1, FirstCount
<1>3. QED
  BY <1>1, <1>2, AllFacts DEF Built

LEMMA NoDraftType == DOMAIN NoDraft = First(0)
BY DEF NoDraft, First

LEMMA NextFact ==
  ASSUME ReleaseTypes, BuildFact
  PROVE  \E k \in 0..8 :
           /\ DOMAIN draft[Release] = First(k)
           /\ DOMAIN draft'[Release] = First(k + 1)
           /\ draft' = [draft EXCEPT ![Release] = draft'[Release]]
           /\ draft'[Release][FactNames[k + 1]] = Fact(FactNames[k + 1])
           /\ \A name \in First(k) : draft'[Release][name] = draft[Release][name]
<1>1. Release \in Procs /\ ~Built(Release)
  BY DEF BuildFact, Procs
<1>2. PICK k \in 0..8 : /\ DOMAIN draft[Release] = First(k)
                        /\ Cardinality(DOMAIN draft[Release]) = k
  BY <1>1, BuiltIsComplete
<1> DEFINE name == FactNames[k + 1]
           old  == draft[Release]
           new  == With(old, name, Fact(name))
<1>3. draft' = [draft EXCEPT ![Release] = new]
  BY <1>2 DEF BuildFact
<1>4. draft'[Release] = new
  BY <1>1, <1>3 DEF ReleaseTypes
<1>5. name \notin First(k)
  BY FactNamesDiffer DEF First
<1>6. DOMAIN new = First(k + 1)
  <2>1. DOMAIN new = First(k) \cup {name}
    BY <1>2 DEF With
  <2>2. QED
    BY <2>1, OneMoreFact
<1>7. /\ new[name] = Fact(name)
      /\ \A n \in First(k) : new[n] = old[n]
  <2>1. \A n \in First(k) \cup {name} : new[n] = IF n = name THEN Fact(name) ELSE old[n]
    BY <1>2 DEF With
  <2>2. QED
    BY <1>5, <2>1
<1>8. QED
  BY <1>2, <1>3, <1>4, <1>6, <1>7
-----------------------------------------------------------------------------
(* The steps of the next state relation that leave the drafts alone.         *)
LEMMA SameDrafts ==
  ASSUME ReleaseTypes, UNCHANGED draft
  PROVE  /\ DOMAIN draft' = Procs /\ draft' = [p \in Procs |-> draft'[p]]
         /\ \A p \in Procs : Drafting(p)'
BY DEF ReleaseTypes, Drafting

LEMMA DraftDropped ==
  ASSUME ReleaseTypes, NEW q \in Procs, draft' = [draft EXCEPT ![q] = NoDraft]
  PROVE  /\ DOMAIN draft' = Procs /\ draft' = [p \in Procs |-> draft'[p]]
         /\ \A p \in Procs : Drafting(p)'
         /\ draft'[q] = NoDraft
<1>1. DOMAIN draft' = Procs /\ draft' = [p \in Procs |-> draft'[p]] /\ draft'[q] = NoDraft
  BY DEF ReleaseTypes
<1>2. ASSUME NEW p \in Procs PROVE \E k \in 0..9 : DOMAIN draft'[p] = First(k)
  <2>1. CASE p = q
    BY <1>1, <2>1, NoDraftType
  <2>2. CASE p # q
    <3>1. draft'[p] = draft[p]
      BY <2>2 DEF ReleaseTypes
    <3>2. QED
      BY <3>1 DEF ReleaseTypes, Drafting
  <2>3. QED
    BY <2>1, <2>2
<1>3. QED
  BY <1>1, <1>2 DEF Drafting

LEMMA StepOf ==
  ASSUME ReleaseTypes, NEW q \in Procs, NEW step \in Steps, Goto(q, step)
  PROVE  pc' \in [Procs -> Steps] /\ pc'[q] = step /\ \A p \in Procs \ {q} : pc'[p] = pc[p]
BY DEF ReleaseTypes, Goto

LEMMA TypesStep == ReleaseTypes /\ [Next]_vars => ReleaseTypes'
<1> SUFFICES ASSUME ReleaseTypes, [Next]_vars PROVE ReleaseTypes'
  OBVIOUS
<1> DEFINE draftsOK == /\ DOMAIN draft' = Procs /\ draft' = [p \in Procs |-> draft'[p]]
                       /\ \A p \in Procs : Drafting(p)'
           scanOK == /\ \E reports : scan'.sections \in Seq(reports)
                     /\ Len(scan'.sections) <= 8
<1> USE DEF files
<1>0. /\ Release \in Procs /\ Other \in Procs /\ Release # Other
  BY DEF Procs, Release, Other
<1>1. UNCHANGED draft => draftsOK
  BY SameDrafts
<1>2. UNCHANGED scan => scanOK
  BY DEF ReleaseTypes
<1>3. scan' = NoScan => scanOK /\ scan'.sections = <<>>
  <2>1. <<>> \in Seq({}) /\ Len(<<>>) = 0
    OBVIOUS
  <2>2. NoScan.sections = <<>>
    BY DEF NoScan
  <2>3. /\ \E reports : NoScan.sections \in Seq(reports)
        /\ Len(NoScan.sections) <= 8
    BY <2>1, <2>2
  <2>4. QED
    BY <2>2, <2>3
<1>4. ASSUME NEW step \in Steps, Goto(Release, step), draftsOK, scanOK,
             scan'.sections # <<>> => step \in {"debt", "debt-evidence", "failed"},
             UNCHANGED <<tree, head, scanned>>, still' \in BOOLEAN, rewrites' \in 0..2
      PROVE  ReleaseTypes'
  BY <1>0, <1>4, StepOf DEF ReleaseTypes
<1>5. ASSUME pc[Release] \notin {"debt", "debt-evidence", "failed"} PROVE scan.sections = <<>>
  BY <1>5 DEF ReleaseTypes
<1>6. CASE Start
  <2>1. draftsOK
    BY <1>0, <1>6, DraftDropped DEF Start
  <2>2. QED
    <3>1. /\ scan' = NoScan /\ Goto(Release, "debt")
          /\ UNCHANGED <<tree, head, scanned, still, rewrites>>
      BY <1>6 DEF Start
    <3>2. still' \in BOOLEAN /\ rewrites' \in 0..2 /\ "debt" \in Steps
      BY <3>1 DEF ReleaseTypes, Steps
    <3>3. QED
      BY <1>3, <1>4, <2>1, <3>1, <3>2
<1>7. CASE ScanSection
  <2>1. PICK reports : scan.sections \in Seq(reports)
    BY DEF ReleaseTypes
  <2>2. PICK missing, report : scan' = [missing |-> missing, sections |-> Append(scan.sections, report)]
    BY <1>7 DEF ScanSection
  <2>3. scan'.sections \in Seq(reports \cup {report}) /\ Len(scan'.sections) = Len(scan.sections) + 1
    BY <2>1, <2>2
  <2>4. Len(scan.sections) < 8 /\ Len(scan.sections) \in Nat
    BY <1>7, <2>1 DEF ScanSection, AllSections
  <2>5. scanOK
    BY <2>3, <2>4
  <2>6. QED
    BY <1>1, <1>7, <2>5 DEF ScanSection, ReleaseTypes
<1>8. CASE DebtGate
  <2>1. /\ scan' = NoScan /\ \E step \in Steps : Goto(Release, step)
        /\ UNCHANGED <<tree, head, draft, scanned, still, rewrites>>
    BY <1>8 DEF DebtGate, Steps
  <2>2. still' \in BOOLEAN /\ rewrites' \in 0..2
    BY <2>1 DEF ReleaseTypes
  <2>3. QED
    BY <1>1, <1>3, <1>4, <2>1, <2>2
<1>9. CASE StandardImpactCheck
  BY <1>1, <1>2, <1>4, <1>5, <1>9 DEF StandardImpactCheck, Steps, ReleaseTypes
<1>10. CASE ScoreCheck
  BY <1>1, <1>2, <1>4, <1>5, <1>10 DEF ScoreCheck, Steps, ReleaseTypes
<1>11. CASE DebtEvidenceWritten
  <2>1. /\ scan' = NoScan /\ \E step \in Steps : Goto(Release, step)
        /\ UNCHANGED <<tree, head, draft, scanned, still, rewrites>>
    BY <1>11 DEF DebtEvidenceWritten, Steps
  <2>2. still' \in BOOLEAN /\ rewrites' \in 0..2
    BY <2>1 DEF ReleaseTypes
  <2>3. QED
    BY <1>1, <1>3, <1>4, <2>1, <2>2
<1>12. CASE BuildFact
  <2>1. PICK k \in 0..8 :
          /\ DOMAIN draft'[Release] = First(k + 1)
          /\ draft' = [draft EXCEPT ![Release] = draft'[Release]]
    BY <1>12, NextFact
  <2>2. DOMAIN draft' = Procs /\ draft' = [p \in Procs |-> draft'[p]]
    BY <1>0, <2>1 DEF ReleaseTypes
  <2>3. ASSUME NEW p \in Procs PROVE \E n \in 0..9 : DOMAIN draft'[p] = First(n)
    <3>1. CASE p = Release
      BY <2>1, <3>1
    <3>2. CASE p # Release
      <4>1. draft'[p] = draft[p]
        BY <2>1, <3>2 DEF ReleaseTypes
      <4>2. QED
        BY <4>1 DEF ReleaseTypes, Drafting
    <3>3. QED
      BY <3>1, <3>2
  <2>4. draftsOK
    BY <2>2, <2>3 DEF Drafting
  <2>5. QED
    BY <1>12, <2>4 DEF BuildFact, ReleaseTypes
<1>13. ASSUME NEW p \in Procs, Truncate(p) PROVE ReleaseTypes'
  <2>1. pc' \in [Procs -> Steps] /\ (p = Release => pc'[p] = "write" /\ pc[p] = "generate")
                               /\ (p # Release => pc'[Release] = pc[Release])
    BY <1>0, <1>13, StepOf DEF Truncate, Steps
  <2>2. QED
    BY <1>1, <1>13, <2>1 DEF Truncate, ReleaseTypes
<1>14. ASSUME NEW p \in Procs, Write(p) PROVE ReleaseTypes'
  <2>1. pc' \in [Procs -> Steps] /\ (p = Release => pc'[p] = "hash" /\ pc[p] = "write")
                               /\ (p # Release => pc'[Release] = pc[Release])
    BY <1>0, <1>14, StepOf DEF Write, Steps
  <2>2. draftsOK
    BY <1>14, DraftDropped DEF Write
  <2>3. rewrites' \in 0..2
    BY <1>14 DEF Write, ReleaseTypes
  <2>4. QED
    BY <1>14, <2>1, <2>2, <2>3 DEF Write, ReleaseTypes
<1>15. CASE OtherEvidence
  <2>1. pc' \in [Procs -> Steps] /\ pc'[Release] = pc[Release]
    BY <1>0, <1>15, StepOf DEF OtherEvidence, Steps
  <2>2. DOMAIN Facts = First(9)
    BY AllFacts DEF Facts
  <2>3. draft' = [draft EXCEPT ![Other] = Facts]
    BY <1>15 DEF OtherEvidence
  <2>4. DOMAIN draft' = Procs /\ draft' = [p \in Procs |-> draft'[p]] /\ draft'[Other] = Facts
    BY <1>0, <2>3 DEF ReleaseTypes
  <2>5. ASSUME NEW p \in Procs PROVE \E n \in 0..9 : DOMAIN draft'[p] = First(n)
    <3>1. CASE p = Other
      BY <2>2, <2>4, <3>1
    <3>2. CASE p # Other
      <4>1. draft'[p] = draft[p]
        BY <2>3, <3>2 DEF ReleaseTypes
      <4>2. QED
        BY <4>1 DEF ReleaseTypes, Drafting
    <3>3. QED
      BY <3>1, <3>2
  <2>6. QED
    BY <1>15, <2>1, <2>4, <2>5 DEF OtherEvidence, ReleaseTypes, Drafting
<1>16. CASE Hash
  BY <1>1, <1>2, <1>4, <1>5, <1>16 DEF Hash, Steps, ReleaseTypes
<1>17. CASE ReadManifest("read", "verify") \/ ReadManifest("final-read", "final")
  BY <1>1, <1>2, <1>4, <1>5, <1>17 DEF ReadManifest, Steps, ReleaseTypes
<1>18. CASE Verified("verify", FALSE, "checksum") \/ Verified("final", TRUE, "final-checksum")
  <2>1. draftsOK
    BY <1>0, <1>18, DraftDropped DEF Verified
  <2>2. QED
    BY <1>2, <1>4, <1>5, <1>18, <2>1 DEF Verified, Steps, ReleaseTypes
<1>19. CASE \/ ChecksumCheck("checksum", "final-score")
            \/ ChecksumCheck("final-checksum", "released")
  BY <1>1, <1>2, <1>4, <1>5, <1>19 DEF ChecksumCheck, Steps, ReleaseTypes
<1>20. CASE FinalScore
  BY <1>1, <1>2, <1>4, <1>5, <1>20 DEF FinalScore, Steps, ReleaseTypes
<1>21. CASE Edit
  BY <1>1, <1>2, <1>21 DEF Edit, ReleaseTypes
<1>22. CASE Commit
  <2>1. head'.tree \in Trees /\ head'.commit \in Nat
    BY <1>22 DEF Commit, ReleaseTypes
  <2>2. UNCHANGED <<tree, pc, draft, scan, scanned, rewrites>> /\ still' \in BOOLEAN
    BY <1>22 DEF Commit
  <2>3. QED
    BY <1>1, <1>2, <2>1, <2>2 DEF ReleaseTypes
<1>23. CASE Kill
  BY <1>1, <1>2, <1>4, <1>23 DEF Kill, Steps, ReleaseTypes
<1>24. CASE UNCHANGED vars
  BY <1>1, <1>2, <1>24 DEF vars, ReleaseTypes
<1>25. QED
  BY <1>6, <1>7, <1>8, <1>9, <1>10, <1>11, <1>12, <1>13, <1>14, <1>15, <1>16, <1>17, <1>18,
     <1>19, <1>20, <1>21, <1>22, <1>23, <1>24 DEF Next

LEMMA TypesInit == Init => ReleaseTypes
<1> SUFFICES ASSUME Init PROVE ReleaseTypes
  OBVIOUS
<1>1. \A p \in Procs : draft[p] = NoDraft
  BY DEF Init
<1>2. \A p \in Procs : Drafting(p)
  BY <1>1, NoDraftType DEF Drafting
<1>3. /\ \E reports : scan.sections \in Seq(reports)
      /\ Len(scan.sections) <= 8
      /\ scan.sections = <<>>
  <2>1. <<>> \in Seq({}) /\ Len(<<>>) = 0
    OBVIOUS
  <2>2. scan.sections = <<>>
    BY DEF Init, NoScan
  <2>3. QED
    BY <2>1, <2>2
<1>4. /\ tree \in Trees /\ head.tree \in Trees /\ head.commit \in Nat
      /\ pc \in [Procs -> Steps]
      /\ DOMAIN draft = Procs /\ draft = [p \in Procs |-> draft[p]]
      /\ scanned \subseteq Trees /\ rewrites \in 0..2
  BY DEF Init, Steps
<1>5. still \in BOOLEAN
  BY DEF Init
<1>6. QED
  BY <1>2, <1>3, <1>4, <1>5 DEF ReleaseTypes

LEMMA TypesInvariant == Spec => []ReleaseTypes
BY TypesInit, TypesStep, PTL DEF Spec

(* The steps keep the types: drafts hold the first facts of FactNames, and   *)
(* no section is scanned twice.                                              *)
THEOREM TypeCorrect == Spec => []TypeOK
BY TypesInvariant, TypesSuffice, PTL
-----------------------------------------------------------------------------
(* Why what is signed was verified.  Once the manifest is hashed, what is in *)
(* its place is that manifest or half of another one, until Other has        *)
(* written; and once a manifest is read for the final verification, either   *)
(* it is the one that was hashed, or it must be written over once more       *)
(* before the checksum can match.                                            *)
Hashed == {"read", "verify", "checksum", "final-score", "final-read", "final", "final-checksum", "released"}

SignedInv ==
  /\ pc[Release] \in Hashed /\ rewrites = 0 => manifest \in {checksum, Unparsed}
  /\ pc[Release] \in {"final", "final-checksum"} =>
       /\ rewrites = 0 => got = checksum
       /\ rewrites = 1 => got = checksum \/ manifest \in {got, Unparsed}
  /\ SignedIsVerified

LEMMA SignedStep == ReleaseTypes /\ SignedInv /\ [Next]_vars => SignedInv'
<1> SUFFICES ASSUME ReleaseTypes, SignedInv, [Next]_vars PROVE SignedInv'
  OBVIOUS
<1> USE DEF files
<1>0. /\ Release \in Procs /\ Other \in Procs /\ Release # Other
      /\ \A p \in Procs \ {Release} : p = Other
  BY DEF Procs, Release, Other
<1>1. \A step : Goto(Release, step) => pc'[Release] = step
  BY <1>0 DEF ReleaseTypes, Goto
<1>2. \A step : Goto(Other, step) => pc'[Release] = pc[Release]
  BY <1>0 DEF ReleaseTypes, Goto
<1>3. ASSUME UNCHANGED <<manifest, checksum, got, rewrites>>,
             \/ pc'[Release] = pc[Release]
             \/ pc'[Release] \notin Hashed
             \/ /\ pc[Release] \in Hashed
                /\ pc'[Release] \in {"checksum", "final-score", "final-read"}
             \/ pc[Release] = "final" /\ pc'[Release] = "final-checksum"
      PROVE  SignedInv'
  BY <1>3 DEF SignedInv, SignedIsVerified, Released, Hashed
<1>4. CASE Start
  BY <1>1, <1>3, <1>4 DEF Start, Hashed
<1>5. CASE ScanSection
  BY <1>3, <1>5 DEF ScanSection
<1>6. CASE DebtGate
  BY <1>1, <1>3, <1>6 DEF DebtGate, Hashed
<1>7. CASE StandardImpactCheck
  BY <1>1, <1>3, <1>7 DEF StandardImpactCheck, Hashed
<1>8. CASE ScoreCheck
  BY <1>1, <1>3, <1>8 DEF ScoreCheck, Hashed
<1>9. CASE DebtEvidenceWritten
  BY <1>1, <1>3, <1>9 DEF DebtEvidenceWritten, Hashed
<1>10. CASE BuildFact
  BY <1>3, <1>10 DEF BuildFact
<1>11. ASSUME NEW p \in Procs, Truncate(p) PROVE SignedInv'
  <2>1. CASE p = Release
    BY <1>1, <1>11, <2>1 DEF Truncate, SignedInv, SignedIsVerified, Released, Hashed
  <2>2. CASE p = Other
    <3>1. pc'[Release] = pc[Release] /\ manifest' = Unparsed /\ UNCHANGED <<checksum, got, rewrites>>
      BY <1>2, <1>11, <2>2 DEF Truncate
    <3>2. QED
      BY <3>1 DEF SignedInv, SignedIsVerified, Released
  <2>3. QED
    BY <1>0, <2>1, <2>2
<1>12. ASSUME NEW p \in Procs, Write(p) PROVE SignedInv'
  <2>1. CASE p = Release
    BY <1>1, <1>12, <2>1 DEF Write, SignedInv, SignedIsVerified, Released, Hashed
  <2>2. CASE p = Other
    <3>1. /\ pc'[Release] = pc[Release] /\ UNCHANGED <<checksum, got>>
          /\ rewrites' = IF rewrites < 2 THEN rewrites + 1 ELSE rewrites
      BY <1>0, <1>2, <1>12, <2>2 DEF Write
    <3>2. rewrites' \in {1, 2} /\ (rewrites' = 1 => rewrites = 0)
      BY <3>1 DEF ReleaseTypes
    <3>3. QED
      BY <3>1, <3>2 DEF SignedInv, SignedIsVerified, Released
  <2>3. QED
    BY <1>0, <2>1, <2>2
<1>13. CASE OtherEvidence
  BY <1>2, <1>3, <1>13 DEF OtherEvidence
<1>14. CASE Hash
  <2>1. pc'[Release] \in {"read", "failed"} /\ (pc'[Release] = "read" => manifest' = checksum')
    BY <1>1, <1>14 DEF Hash
  <2>2. QED
    BY <2>1 DEF SignedInv, SignedIsVerified, Released, Hashed
<1>15. CASE ReadManifest("read", "verify")
  <2>1. pc'[Release] \in {"verify", "failed"} /\ pc[Release] = "read"
        /\ UNCHANGED <<manifest, checksum, rewrites>>
    BY <1>1, <1>15 DEF ReadManifest
  <2>2. QED
    BY <2>1 DEF SignedInv, SignedIsVerified, Released, Hashed
<1>16. CASE ReadManifest("final-read", "final")
  <2>1. /\ pc'[Release] \in {"final", "failed"} /\ pc[Release] = "final-read"
        /\ pc'[Release] = "final" => manifest # Unparsed
        /\ got' = manifest /\ UNCHANGED <<manifest, checksum, rewrites>>
    BY <1>1, <1>16 DEF ReadManifest
  <2>2. QED
    BY <2>1 DEF SignedInv, SignedIsVerified, Released, Hashed
<1>17. CASE Verified("verify", FALSE, "checksum")
  BY <1>1, <1>3, <1>17 DEF Verified, Hashed
<1>18. CASE Verified("final", TRUE, "final-checksum")
  BY <1>1, <1>3, <1>18 DEF Verified, Hashed
<1>19. CASE ChecksumCheck("checksum", "final-score")
  BY <1>1, <1>3, <1>19 DEF ChecksumCheck, Hashed
<1>20. CASE ChecksumCheck("final-checksum", "released")
  <2>1. /\ pc[Release] = "final-checksum" /\ UNCHANGED <<manifest, checksum, got, rewrites>>
        /\ \/ pc'[Release] = "failed"
           \/ pc'[Release] = "released" /\ manifest # Unparsed /\ checksum = manifest
    BY <1>1, <1>20 DEF ChecksumCheck
  <2>2. rewrites < 2 => rewrites \in {0, 1}
    BY DEF ReleaseTypes
  <2>3. QED
    BY <2>1, <2>2 DEF SignedInv, SignedIsVerified, Released, Hashed
<1>21. CASE FinalScore
  BY <1>1, <1>3, <1>21 DEF FinalScore, Hashed
<1>22. CASE Edit \/ Commit
  BY <1>3, <1>22 DEF Edit, Commit
<1>23. CASE Kill
  BY <1>1, <1>3, <1>23 DEF Kill, Hashed
<1>24. CASE UNCHANGED vars
  BY <1>3, <1>24 DEF vars
<1>25. QED
  BY <1>4, <1>5, <1>6, <1>7, <1>8, <1>9, <1>10, <1>11, <1>12, <1>13, <1>14, <1>15, <1>16, <1>17,
     <1>18, <1>19, <1>20, <1>21, <1>22, <1>23, <1>24 DEF Next

(* The manifest verified is the one that is signed, unless others wrote the  *)
(* manifest twice since it was hashed.                                       *)
THEOREM SignedWasVerified == Spec => []SignedIsVerified
<1>1. Init => SignedInv
  BY DEF Init, SignedInv, SignedIsVerified, Released, Hashed, Procs, Release
<1>2. SignedInv => SignedIsVerified
  BY DEF SignedInv
<1>3. QED
  BY <1>1, <1>2, SignedStep, TypesInvariant, PTL DEF Spec
-----------------------------------------------------------------------------
(* Why a release is of HEAD.  The final verification begins with no facts,   *)
(* and while the repository is left alone every fact it has gathered is so   *)
(* still; a manifest that matches them is then of the repository as it is.   *)
OfHead ==
  /\ tree = head.tree
  /\ got["commit"] = head.commit /\ got["tree_sha"] = tree.digest
  /\ got["source_digest"] = tree.digest
  /\ got["contracts"] = tree.contracts /\ got["dependencies"] = tree.dependencies
  /\ tree.quality = 10

HeadInv ==
  /\ pc[Release] \in {"checksum", "final-score", "final-read"} => draft[Release] = NoDraft
  /\ pc[Release] = "final" /\ still =>
       \A name \in DOMAIN draft[Release] : draft[Release][name] = Fact(name)
  /\ pc[Release] \in {"final-checksum", "released"} /\ still => OfHead

LEMMA SameFact ==
  ASSUME UNCHANGED <<tree, head, debt, impact>>
  PROVE  \A name \in First(9) : Fact(name)' = Fact(name)
<1>1. DebtEvidence' = DebtEvidence /\ Compute' = Compute
  BY DEF DebtEvidence, Compute
<1>2. QED
  BY <1>1 DEF Fact, First, FactNames

(* The final verification compares every fact with the manifest.             *)
LEMMA MatchIsOfHead ==
  ASSUME ReleaseTypes, DOMAIN draft[Release] = First(9), Matches(draft[Release]), Strict,
         \A name \in First(9) : draft[Release][name] = Fact(name)
  PROVE  OfHead
<1>1. /\ "source_digest" \in First(9) /\ "contracts" \in First(9) /\ "dependencies" \in First(9)
      /\ "commit" \in First(9) /\ "tree_sha" \in First(9) /\ "tree_state" \in First(9)
      /\ "score" \in First(9)
  <2>1. First(9) = {FactNames[1], FactNames[2], FactNames[3], FactNames[4], FactNames[5],
                    FactNames[6], FactNames[7], FactNames[8], FactNames[9]}
    BY DEF First
  <2>2. QED
    BY <2>1 DEF FactNames
<1>2. \A name \in First(9) \ {"score"} : got[name] = Fact(name)
  BY DEF Matches
<1>3. got["score"].Value = Compute.Value
  BY <1>1 DEF Matches, Fact
<1>4. /\ got["source_digest"] = tree.digest /\ got["contracts"] = tree.contracts
      /\ got["dependencies"] = tree.dependencies
      /\ got["commit"] = head.commit /\ got["tree_sha"] = head.tree.digest
      /\ got["tree_state"] = IF tree = head.tree THEN "clean" ELSE "dirty"
  BY <1>1, <1>2 DEF Fact
<1>5. tree = head.tree
  BY <1>4 DEF Strict
<1>6. tree.quality = 10
  <2>1. 10 * tree.quality >= 98
    BY <1>3 DEF Strict, ScoreVerified, Compute
  <2>2. tree.quality \in 0..10
    BY ReleaseAssumption DEF ReleaseTypes
  <2>3. QED
    BY <2>1, <2>2
<1>7. QED
  BY <1>4, <1>5, <1>6 DEF OfHead

LEMMA HeadStep == ReleaseTypes /\ HeadInv /\ [Next]_vars => HeadInv'
<1> SUFFICES ASSUME ReleaseTypes, HeadInv, [Next]_vars PROVE HeadInv'
  OBVIOUS
<1> USE DEF files
<1>0. /\ Release \in Procs /\ Other \in Procs /\ Release # Other
      /\ \A p \in Procs \ {Release} : p = Other
  BY DEF Procs, Release, Other
<1>1. \A step : Goto(Release, step) => pc'[Release] = step
  BY <1>0 DEF ReleaseTypes, Goto
<1>2. \A step : Goto(Other, step) => pc'[Release] = pc[Release]
  BY <1>0 DEF ReleaseTypes, Goto
<1>3. DOMAIN draft[Release] \subseteq First(9)
  <2>1. PICK k \in 0..9 : DOMAIN draft[Release] = First(k)
    BY <1>0 DEF ReleaseTypes, Drafting
  <2>2. QED
    BY <2>1 DEF First
<1>4. ASSUME pc'[Release] \notin {"checksum", "final-score", "final-read", "final",
                                  "final-checksum", "released"}
      PROVE  HeadInv'
  BY <1>4 DEF HeadInv
(* The repository and what Release gathered stay as they are.                *)
<1>5. ASSUME UNCHANGED <<tree, head, got, still>>, draft'[Release] = draft[Release],
             pc'[Release] = pc[Release],
             pc[Release] = "final" => UNCHANGED <<debt, impact>>
      PROVE  HeadInv'
  <2>1. OfHead => OfHead'
    BY <1>5 DEF OfHead
  <2>2. pc[Release] = "final" => \A name \in DOMAIN draft[Release] : Fact(name)' = Fact(name)
    BY <1>3, <1>5, SameFact
  <2>3. QED
    BY <1>5, <2>1, <2>2 DEF HeadInv
<1>6. CASE Start
  BY <1>1, <1>4, <1>6 DEF Start
<1>7. CASE ScanSection
  BY <1>5, <1>7 DEF ScanSection
<1>8. CASE DebtGate
  BY <1>1, <1>4, <1>8 DEF DebtGate
<1>9. CASE StandardImpactCheck
  <2>1. pc'[Release] = "score-check"
    BY <1>1, <1>9 DEF StandardImpactCheck
  <2>2. QED
    BY <1>4, <2>1
<1>10. CASE ScoreCheck
  BY <1>1, <1>4, <1>10 DEF ScoreCheck
<1>11. CASE DebtEvidenceWritten
  <2>1. pc'[Release] \in {"generate", "failed"}
    BY <1>1, <1>11 DEF DebtEvidenceWritten
  <2>2. QED
    BY <1>4, <2>1
<1>12. CASE BuildFact
  <2>1. CASE pc[Release] # "final"
    BY <1>4, <1>12, <2>1 DEF BuildFact
  <2>2. CASE pc[Release] = "final"
    <3>1. PICK k \in 0..8 :
            /\ DOMAIN draft[Release] = First(k)
            /\ DOMAIN draft'[Release] = First(k + 1)
            /\ draft'[Release][FactNames[k + 1]] = Fact(FactNames[k + 1])
            /\ \A name \in First(k) : draft'[Release][name] = draft[Release][name]
      BY <1>12, NextFact
    <3>2. First(k + 1) = First(k) \cup {FactNames[k + 1]} /\ First(k + 1) \subseteq First(9)
      BY OneMoreFact DEF First
    <3>3. \A name \in First(9) : Fact(name)' = Fact(name)
      BY <1>12, SameFact DEF BuildFact
    <3>4. UNCHANGED <<pc, still>>
      BY <1>12 DEF BuildFact
    <3>5. still => \A name \in DOMAIN draft'[Release] : draft'[Release][name] = Fact(name)'
      BY <2>2, <3>1, <3>2, <3>3 DEF HeadInv
    <3>6. QED
      BY <2>2, <3>4, <3>5 DEF HeadInv
  <2>3. QED
    BY <2>1, <2>2
<1>13. ASSUME NEW p \in Procs, Truncate(p) PROVE HeadInv'
  <2>1. CASE p = Release
    BY <1>1, <1>4, <1>13, <2>1 DEF Truncate
  <2>2. CASE p = Other
    BY <1>2, <1>5, <1>13, <2>2 DEF Truncate
  <2>3. QED
    BY <1>0, <2>1, <2>2
<1>14. ASSUME NEW p \in Procs, Write(p) PROVE HeadInv'
  <2>1. CASE p = Release
    <3>1. pc'[Release] = "hash"
      BY <1>1, <1>14, <2>1 DEF Write
    <3>2. QED
      BY <1>4, <3>1
  <2>2. CASE p = Other
    <3>1. pc'[Release] = pc[Release] /\ UNCHANGED <<tree, head, debt, impact, got, still>>
      BY <1>0, <1>2, <1>14, <2>2 DEF Write
    <3>2. draft'[Release] = draft[Release]
      BY <1>0, <1>14, <2>2 DEF Write, ReleaseTypes
    <3>3. QED
      BY <1>5, <3>1, <3>2
  <2>3. QED
    BY <1>0, <2>1, <2>2
<1>15. CASE OtherEvidence
  <2>1. pc'[Release] = pc[Release] /\ UNCHANGED <<tree, head, debt, impact, got, still>>
    BY <1>2, <1>15 DEF OtherEvidence
  <2>2. draft'[Release] = draft[Release]
    BY <1>0, <1>15 DEF OtherEvidence, ReleaseTypes
  <2>3. QED
    BY <1>5, <2>1, <2>2
<1>16. CASE Hash
  BY <1>1, <1>4, <1>16 DEF Hash
<1>17. CASE ReadManifest("read", "verify")
  <2>1. pc'[Release] \in {"verify", "failed"}
    BY <1>1, <1>17 DEF ReadManifest
  <2>2. QED
    BY <1>4, <2>1
<1>18. CASE ReadManifest("final-read", "final")
  <2>1. pc'[Release] \in {"final", "failed"}
    BY <1>1, <1>18 DEF ReadManifest
  <2>2. draft'[Release] = NoDraft
    BY <1>18 DEF ReadManifest, HeadInv
  <2>3. DOMAIN NoDraft = {}
    BY DEF NoDraft
  <2>4. QED
    BY <2>1, <2>2, <2>3 DEF HeadInv
<1>19. CASE Verified("verify", FALSE, "checksum")
  <2>1. pc'[Release] \in {"checksum", "failed"}
    BY <1>1, <1>19 DEF Verified
  <2>2. draft'[Release] = NoDraft
    BY <1>0, <1>19, DraftDropped DEF Verified
  <2>3. QED
    BY <2>1, <2>2 DEF HeadInv
<1>20. CASE Verified("final", TRUE, "final-checksum")
  <2>1. CASE Matches(draft[Release]) /\ Strict
    <3>1. DOMAIN draft[Release] = First(9)
      BY <1>0, <1>20, BuiltIsComplete DEF Verified
    <3>2. still => OfHead
      BY <1>20, <2>1, <3>1, MatchIsOfHead DEF Verified, HeadInv
    <3>3. pc'[Release] = "final-checksum" /\ UNCHANGED <<tree, head, got, still>>
      BY <1>1, <1>20, <2>1 DEF Verified
    <3>4. OfHead => OfHead'
      BY <3>3 DEF OfHead
    <3>5. QED
      BY <3>2, <3>3, <3>4 DEF HeadInv
  <2>2. CASE ~(Matches(draft[Release]) /\ Strict)
    <3>1. pc'[Release] = "failed"
      BY <1>1, <1>20, <2>2 DEF Verified
    <3>2. QED
      BY <1>4, <3>1
  <2>3. QED
    BY <2>1, <2>2
<1>21. CASE ChecksumCheck("checksum", "final-score")
  <2>1. pc'[Release] \in {"final-score", "failed"} /\ pc[Release] = "checksum" /\ UNCHANGED draft
    BY <1>1, <1>21 DEF ChecksumCheck
  <2>2. QED
    BY <2>1 DEF HeadInv
<1>22. CASE ChecksumCheck("final-checksum", "released")
  <2>1. /\ pc'[Release] \in {"released", "failed"} /\ pc[Release] = "final-checksum"
        /\ UNCHANGED <<tree, head, got, still>>
    BY <1>1, <1>22 DEF ChecksumCheck
  <2>2. OfHead => OfHead'
    BY <2>1 DEF OfHead
  <2>3. QED
    BY <2>1, <2>2 DEF HeadInv
<1>23. CASE FinalScore
  <2>1. pc'[Release] \in {"final-read", "failed"} /\ pc[Release] = "final-score" /\ UNCHANGED draft
    BY <1>1, <1>23 DEF FinalScore
  <2>2. QED
    BY <2>1 DEF HeadInv
<1>24. CASE Edit \/ Commit
  <2>1. UNCHANGED <<pc, draft>> /\ ~still'
    BY <1>24 DEF Edit, Commit
  <2>2. QED
    BY <2>1 DEF HeadInv
<1>25. CASE Kill
  BY <1>1, <1>4, <1>25 DEF Kill
<1>26. CASE UNCHANGED vars
  BY <1>5, <1>26 DEF vars
<1>27. QED
  BY <1>6, <1>7, <1>8, <1>9, <1>10, <1>11, <1>12, <1>13, <1>14, <1>15, <1>16, <1>17, <1>18,
     <1>19, <1>20, <1>21, <1>22, <1>23, <1>24, <1>25, <1>26 DEF Next

(* A release whose repository was left alone during the last verification is *)
(* of exactly that repository.                                               *)
THEOREM ReleasedIsHead == Spec => []ReleaseIsOfHead
<1>1. Init => HeadInv
  BY DEF Init, HeadInv, Procs, Release
<1>2. HeadInv => ReleaseIsOfHead
  BY DEF HeadInv, OfHead, ReleaseIsOfHead, Released
<1>3. QED
  BY <1>1, <1>2, HeadStep, TypesInvariant, PTL DEF Spec
-----------------------------------------------------------------------------
(* What a debt report says of the repository it was made of.  Each mark has  *)
(* a section that looks for it; the walk of that section reads every file    *)
(* before the first that cannot be read; and so what is seen is found.       *)
Serious == {"parse", "legacy-import", "private-key"}

LEMMA Sections ==
  /\ AllSections[1] = "architecture" /\ AllSections[7] = "security" /\ AllSections[8] = "downstream"
  /\ \A i \in 2..8 : AllSections[i] # "architecture"
  /\ MarksOf["architecture"] = {"parse", "legacy-import"}
  /\ "private-key" \in MarksOf["security"]
  /\ \A mark \in Marks : \E i \in 1..8 : mark \in MarksOf[AllSections[i]]
  /\ \A i \in 1..8 : MarksOf[AllSections[i]] \subseteq Marks /\ IsFiniteSet(MarksOf[AllSections[i]])
<1> DEFINE names == {"architecture", "domain", "docs", "dependency",
                     "testing", "implementation", "security", "downstream"}
<1>1. /\ AllSections[1] = "architecture" /\ AllSections[2] = "domain" /\ AllSections[3] = "docs"
      /\ AllSections[4] = "dependency" /\ AllSections[5] = "testing"
      /\ AllSections[6] = "implementation" /\ AllSections[7] = "security"
      /\ AllSections[8] = "downstream"
  BY DEF AllSections
<1>2. DOMAIN MarksOf = names
  BY DEF MarksOf
<1>3. /\ MarksOf["architecture"] = {"parse", "legacy-import"} /\ MarksOf["domain"] = {"domain-marker"}
      /\ MarksOf["docs"] = {"docs-marker"} /\ MarksOf["dependency"] = {"unpinned-latest", "curl-pipe-bash"}
      /\ MarksOf["testing"] = {"testing-marker"} /\ MarksOf["implementation"] = {"implementation-marker"}
      /\ MarksOf["security"] = {"private-key", "security-marker"} /\ MarksOf["downstream"] = {}
  BY DEF MarksOf
<1>4. \A i \in 1..8 : AllSections[i] \in names
  BY <1>1
<1>5. \A n \in names : \E i \in 1..8 : AllSections[i] = n
  BY <1>1
<1>6. \A n \in names : MarksOf[n] \subseteq Marks /\ IsFiniteSet(MarksOf[n])
  <2>1. \A n \in names : MarksOf[n] \subseteq Marks
    BY <1>2 DEF Marks
  <2>2. /\ IsFiniteSet({})
        /\ \A x : IsFiniteSet({x})
        /\ \A x, y : IsFiniteSet({x, y})
    <3>1. IsFiniteSet({}) /\ \A x : IsFiniteSet({x})
      BY FS_EmptySet, FS_Singleton
    <3>2. ASSUME NEW x, NEW y PROVE IsFiniteSet({x, y})
      <4>1. IsFiniteSet({x} \cup {y})
        BY <3>1, FS_Union
      <4>2. {x, y} = {x} \cup {y}
        OBVIOUS
      <4>3. QED
        BY <4>1, <4>2
    <3>3. QED
      BY <3>1, <3>2
  <2>3. /\ IsFiniteSet({"parse", "legacy-import"}) /\ IsFiniteSet({"domain-marker"})
        /\ IsFiniteSet({"docs-marker"}) /\ IsFiniteSet({"unpinned-latest", "curl-pipe-bash"})
        /\ IsFiniteSet({"testing-marker"}) /\ IsFiniteSet({"implementation-marker"})
        /\ IsFiniteSet({"private-key", "security-marker"}) /\ IsFiniteSet({})
    BY <2>2, Zenon
  <2>4. \A n \in names : IsFiniteSet(MarksOf[n])
    BY <1>3, <2>3
  <2>5. QED
    BY <2>1, <2>4
<1>7. ASSUME NEW mark \in Marks PROVE \E i \in 1..8 : mark \in MarksOf[AllSections[i]]
  <2>1. PICK n \in names : mark \in MarksOf[n]
    BY <1>2 DEF Marks
  <2>2. PICK i \in 1..8 : AllSections[i] = n
    BY <1>5
  <2>3. QED
    BY <2>1, <2>2
<1>8. \A i \in 2..8 : AllSections[i] # "architecture"
  BY <1>1
<1>9. QED
  BY <1>1, <1>3, <1>4, <1>6, <1>7, <1>8

LEMMA Severities ==
  ASSUME NEW x
  PROVE  /\ Severity(<<x, "policy-missing">>) = "P0" /\ Severity(<<x, "file-missing">>) = "P0"
         /\ \A mark \in Serious : Severity(<<x, mark>>) = "P0"
         /\ \A mark \in Marks \ Serious : Severity(<<x, mark>>) = "P1"
<1>1. "policy-missing" \notin Marks /\ "file-missing" \notin Marks
  <2>1. \A mark \in Marks : \E i \in 1..8 : mark \in MarksOf[AllSections[i]]
    BY Sections
  <2>2. \A i \in 1..8 : "policy-missing" \notin MarksOf[AllSections[i]] /\ "file-missing" \notin MarksOf[AllSections[i]]
    BY DEF MarksOf, AllSections
  <2>3. QED
    BY <2>1, <2>2
<1>2. QED
  BY <1>1 DEF Severity, P1Findings, Serious

(* The debt of the files before the first that cannot be read is found.      *)
LEMMA DebtIsFound ==
  ASSUME NEW repo, IsRepository(repo), NEW x \in DebtsSeen(repo)
  PROVE  /\ \E i \in 1..8 : x \in Scanned(AllSections[i], repo.files)
         /\ x[2] \in {"parse", "legacy-import"} => x \in Scanned("architecture", repo.files)
         /\ x[2] = "private-key" => x \in Scanned("security", repo.files)
<1>1. /\ x[1] \in DOMAIN repo.files /\ x[2] \in Marks /\ x = <<x[1], x[2]>>
      /\ x[2] \in repo.files[x[1]].marks
      /\ \A j \in 1..x[1] : repo.files[j].readable
  BY DEF DebtsSeen, Seen
<1>2. ASSUME NEW section, x[2] \in MarksOf[section], Visits(section, repo.files[x[1]])
      PROVE  x \in Scanned(section, repo.files)
  <2>1. x[1] \in Walked(section, repo.files)
    BY <1>1, <1>2 DEF Walked, Ends
  <2>2. QED
    BY <1>1, <1>2, <2>1 DEF Scanned
<1>3. MarksOf["architecture"] = {"parse", "legacy-import"} /\ MarksOf.architecture = MarksOf["architecture"]
  BY DEF MarksOf
<1>4. x[2] \in {"parse", "legacy-import"} => x \in Scanned("architecture", repo.files)
  <2> SUFFICES ASSUME x[2] \in {"parse", "legacy-import"}
               PROVE  x \in Scanned("architecture", repo.files)
    OBVIOUS
  <2>1. repo.files[x[1]].kind = "go"
    BY <1>1, <1>3 DEF IsRepository
  <2>2. Visits("architecture", repo.files[x[1]])
    BY <2>1 DEF Visits
  <2>3. QED
    BY <1>2, <1>3, <2>2
<1>5. x[2] = "private-key" => x \in Scanned("security", repo.files)
  <2>1. Visits("security", repo.files[x[1]])
    BY DEF Visits
  <2>2. QED
    BY <1>2, <2>1, Sections
<1>6. \E i \in 1..8 : x \in Scanned(AllSections[i], repo.files)
  <2>1. PICK i \in 1..8 : x[2] \in MarksOf[AllSections[i]]
    BY <1>1, Sections
  <2>2. CASE i = 1
    <3>1. AllSections[i] = "architecture"
      BY <2>2, Sections
    <3>2. x \in Scanned("architecture", repo.files)
      BY <1>3, <1>4, <2>1, <3>1
    <3>3. QED
      BY <3>1, <3>2
  <2>3. CASE i # 1
    <3>1. i \in 2..8
      BY <2>3
    <3>2. AllSections[i] # "architecture"
      BY <3>1, Sections
    <3>3. Visits(AllSections[i], repo.files[x[1]])
      BY <3>2 DEF Visits
    <3>4. QED
      BY <1>2, <2>1, <3>3
  <2>4. QED
    BY <2>2, <2>3
<1>7. QED
  BY <1>4, <1>5, <1>6

(* A report counts finitely many findings.                                   *)
LEMMA FindingsFinite ==
  ASSUME NEW repo, IsRepository(repo), NEW i \in 1..8
  PROVE  IsFiniteSet(Findings(AllSections[i], repo.missing, repo))
<1> DEFINE section == AllSections[i]
<1>1. IsFiniteSet({<<path, "policy-missing">> : path \in repo.missing})
  <2>1. IsFiniteSet(repo.missing) /\ IsFiniteSet({"policy-missing"})
    BY FS_Singleton DEF IsRepository
  <2>2. IsFiniteSet(repo.missing \X {"policy-missing"})
    BY <2>1, FS_Product
  <2>3. {<<path, "policy-missing">> : path \in repo.missing} = repo.missing \X {"policy-missing"}
    OBVIOUS
  <2>4. QED
    BY <2>2, <2>3
<1>2. IsFiniteSet(Scanned(section, repo.files))
  <2>1. Len(repo.files) \in Nat /\ DOMAIN repo.files = 1..Len(repo.files)
    BY DEF IsRepository
  <2>2. IsFiniteSet(DOMAIN repo.files)
    BY <2>1, FS_Interval
  <2>3. IsFiniteSet(Walked(section, repo.files))
    BY <2>2, FS_Subset DEF Walked
  <2>4. IsFiniteSet(Walked(section, repo.files) \X MarksOf[section])
    BY <2>3, Sections, FS_Product
  <2>5. QED
    BY <2>4, FS_Subset DEF Scanned
<1>3. IsFiniteSet(ScannedDownstream(repo.required))
  <2> DEFINE Names == DOMAIN repo.required
             found == [f \in Names |->
                         CASE repo.required[f].text = "missing" -> {<<f, "file-missing">>}
                           [] repo.required[f].text = "empty"   -> IF repo.required[f].yaml THEN {<<f, "schema-missing">>} ELSE {}
                           [] OTHER -> {f} \X repo.required[f].flaws]
             all == {found[f] : f \in Names}
  <2>1. ScannedDownstream(repo.required) = UNION all
    BY DEF ScannedDownstream
  <2>2. IsFiniteSet(all)
    <3>1. found \in Surjection(Names, all)
      BY DEF Surjection
    <3>2. QED
      BY <3>1, FS_Surjection DEF IsRepository
  <2>3. ASSUME NEW f \in Names PROVE IsFiniteSet(found[f])
    <3>1. IsFiniteSet({f} \X repo.required[f].flaws)
      BY FS_Singleton, FS_Product DEF IsRepository
    <3>2. /\ IsFiniteSet({<<f, "file-missing">>}) /\ IsFiniteSet({<<f, "schema-missing">>})
          /\ IsFiniteSet({})
      BY FS_Singleton, FS_EmptySet
    <3>3. QED
      BY <3>1, <3>2
  <2>4. \A T \in all : IsFiniteSet(T)
    BY <2>3
  <2> HIDE DEF all
  <2>5. QED
    BY <2>1, <2>2, <2>4, FS_UNION
<1>4. IsFiniteSet({})
  BY FS_EmptySet
<1>5. QED
  BY <1>1, <1>2, <1>3, <1>4, FS_Union DEF Findings

(* The sections of a report that debtcheck.Run makes of one repository.      *)
ReportOf(sections, repo) ==
  \A i \in 1..8 :
    sections[i] = BuildSection(AllSections[i], Findings(AllSections[i], repo.missing, repo))

LEMMA Counted ==
  ASSUME NEW repo, IsRepository(repo), NEW sections, ReportOf(sections, repo), NEW i \in 1..8
  PROVE  /\ sections[i].P0 \in Nat /\ sections[i].P1 \in Nat
         /\ sections[i].P0 = 0 =>
              \A x \in Findings(AllSections[i], repo.missing, repo) : Severity(x) # "P0"
         /\ LET P1 == {x \in Findings(AllSections[i], repo.missing, repo) : Severity(x) = "P1"}
            IN  IsFiniteSet(P1) /\ Cardinality(P1) = sections[i].P1
<1> DEFINE found == Findings(AllSections[i], repo.missing, repo)
           F0 == {x \in found : Severity(x) = "P0"}
           F1 == {x \in found : Severity(x) = "P1"}
<1>1. IsFiniteSet(found)
  BY FindingsFinite
<1>2. IsFiniteSet(F0) /\ IsFiniteSet(F1)
  BY <1>1, FS_Subset
<1>3. sections[i].P0 = Cardinality(F0) /\ sections[i].P1 = Cardinality(F1)
  <2>1. sections[i] = BuildSection(AllSections[i], found)
    BY DEF ReportOf
  <2> HIDE DEF found
  <2>2. /\ BuildSection(AllSections[i], found).P0 = Cardinality(F0)
        /\ BuildSection(AllSections[i], found).P1 = Cardinality(F1)
    BY DEF BuildSection
  <2>3. QED
    BY <2>1, <2>2
<1>4. Cardinality(F0) = 0 => F0 = {}
  BY <1>2, FS_EmptySet
<1>5. Cardinality(F0) \in Nat /\ Cardinality(F1) \in Nat
  BY <1>2, FS_CardinalityType
<1>6. QED
  BY <1>2, <1>3, <1>4, <1>5

(* A union is no larger than its parts together.                             *)
LEMMA UnionBound ==
  ASSUME NEW S, IsFiniteSet(S), NEW T, IsFiniteSet(T)
  PROVE  /\ IsFiniteSet(S \cup T)
         /\ Cardinality(S \cup T) <= Cardinality(S) + Cardinality(T)
<1>1. IsFiniteSet(S \cap T) /\ IsFiniteSet(S \cup T)
  BY FS_Subset, FS_Union
<1>2. /\ Cardinality(S) \in Nat /\ Cardinality(T) \in Nat
      /\ Cardinality(S \cap T) \in Nat /\ Cardinality(S \cup T) \in Nat
  BY <1>1, FS_CardinalityType
<1>3. Cardinality(S \cup T) = Cardinality(S) + Cardinality(T) - Cardinality(S \cap T)
  BY FS_Union
<1>4. QED
  BY <1>1, <1>2, <1>3

(* Without P0 findings and with no more than two P1 findings there is no     *)
(* more debt than that.                                                      *)
LEMMA CleanReport ==
  ASSUME NEW repo, IsRepository(repo), NEW sections, ReportOf(sections, repo),
         \A i \in 1..8 : sections[i].P0 = 0,
         sections[1].P1 + sections[2].P1 + sections[3].P1 + sections[4].P1 + sections[5].P1
           + sections[6].P1 + sections[7].P1 + sections[8].P1 <= 2
  PROVE  DebtFree(repo)
<1> DEFINE found(i) == Findings(AllSections[i], repo.missing, repo)
           P1(i) == {x \in found(i) : Severity(x) = "P1"}
<1>1. \A i \in 1..8 : \A x \in found(i) : Severity(x) # "P0"
  BY Counted
<1>2. \A i \in 1..8 : IsFiniteSet(P1(i)) /\ Cardinality(P1(i)) = sections[i].P1 /\ sections[i].P1 \in Nat
  BY Counted
<1>3. \A i \in 1..8 : Scanned(AllSections[i], repo.files) \subseteq found(i)
  BY DEF Findings
<1>4. repo.missing = {}
  <2> SUFFICES ASSUME NEW path \in repo.missing PROVE FALSE
    OBVIOUS
  <2>1. <<path, "policy-missing">> \in found(1)
    BY DEF Findings
  <2>2. Severity(<<path, "policy-missing">>) = "P0"
    BY Severities
  <2> HIDE DEF found
  <2>3. QED
    BY <1>1, <2>1, <2>2
<1>5. ASSUME NEW x \in DebtsSeen(repo) PROVE x[2] \notin Serious
  <2> SUFFICES ASSUME x[2] \in Serious PROVE FALSE
    OBVIOUS
  <2>1. x = <<x[1], x[2]>> /\ Severity(x) = "P0"
    <3>1. x = <<x[1], x[2]>>
      BY DEF DebtsSeen
    <3>2. Severity(<<x[1], x[2]>>) = "P0"
      BY Severities
    <3>3. QED
      BY <3>1, <3>2
  <2>2. \E i \in 1..8 : x \in Scanned(AllSections[i], repo.files)
    BY DebtIsFound
  <2>3. QED
    BY <1>1, <1>3, <2>1, <2>2
<1>6. ASSUME NEW f \in DOMAIN repo.required PROVE repo.required[f].text # "missing"
  <2> SUFFICES ASSUME repo.required[f].text = "missing" PROVE FALSE
    OBVIOUS
  <2>1. <<f, "file-missing">> \in ScannedDownstream(repo.required)
    BY DEF ScannedDownstream
  <2>2. <<f, "file-missing">> \in found(8)
    BY <2>1, Sections DEF Findings
  <2>3. Severity(<<f, "file-missing">>) = "P0"
    BY Severities
  <2> HIDE DEF found
  <2>4. QED
    BY <1>1, <2>2, <2>3
<1>7. Cardinality(DebtsSeen(repo)) <= 2
  <2> DEFINE all == P1(1) \cup P1(2) \cup P1(3) \cup P1(4) \cup P1(5) \cup P1(6) \cup P1(7) \cup P1(8)
  <2>1. DebtsSeen(repo) \subseteq all
    <3> SUFFICES ASSUME NEW x \in DebtsSeen(repo) PROVE \E i \in 1..8 : x \in P1(i)
      OBVIOUS
    <3>1. PICK i \in 1..8 : x \in Scanned(AllSections[i], repo.files)
      BY DebtIsFound
    <3>2. x = <<x[1], x[2]>> /\ x[2] \in Marks \ Serious
      BY <1>5 DEF DebtsSeen
    <3>3. Severity(<<x[1], x[2]>>) = "P1"
      BY <3>2, Severities
    <3>4. QED
      BY <1>3, <3>1, <3>2, <3>3
  <2> DEFINE n(i) == Cardinality(P1(i))
  <2>2. IsFiniteSet(all) /\ Cardinality(all) <= n(1) + n(2) + n(3) + n(4) + n(5) + n(6) + n(7) + n(8)
    <3> HIDE DEF P1
    <3>0. \A i \in 1..8 : IsFiniteSet(P1(i)) /\ n(i) \in Nat
      BY <1>2
    <3> DEFINE U2 == P1(1) \cup P1(2)
               U3 == U2 \cup P1(3)
               U4 == U3 \cup P1(4)
               U5 == U4 \cup P1(5)
               U6 == U5 \cup P1(6)
               U7 == U6 \cup P1(7)
    <3>1. IsFiniteSet(P1(1)) /\ IsFiniteSet(P1(2)) /\ IsFiniteSet(P1(3)) /\ IsFiniteSet(P1(4))
          /\ IsFiniteSet(P1(5)) /\ IsFiniteSet(P1(6)) /\ IsFiniteSet(P1(7)) /\ IsFiniteSet(P1(8))
      BY <3>0
    <3>2. IsFiniteSet(U2) /\ Cardinality(U2) <= n(1) + n(2)
      BY <3>1, UnionBound
    <3>3. IsFiniteSet(U3) /\ Cardinality(U3) <= Cardinality(U2) + n(3)
      BY <3>1, <3>2, UnionBound
    <3>4. IsFiniteSet(U4) /\ Cardinality(U4) <= Cardinality(U3) + n(4)
      BY <3>1, <3>3, UnionBound
    <3>5. IsFiniteSet(U5) /\ Cardinality(U5) <= Cardinality(U4) + n(5)
      BY <3>1, <3>4, UnionBound
    <3>6. IsFiniteSet(U6) /\ Cardinality(U6) <= Cardinality(U5) + n(6)
      BY <3>1, <3>5, UnionBound
    <3>7. IsFiniteSet(U7) /\ Cardinality(U7) <= Cardinality(U6) + n(7)
      BY <3>1, <3>6, UnionBound
    <3>8. IsFiniteSet(all) /\ Cardinality(all) <= Cardinality(U7) + n(8)
      BY <3>1, <3>7, UnionBound
    <3>9. /\ n(1) \in Nat /\ n(2) \in Nat /\ n(3) \in Nat /\ n(4) \in Nat
          /\ n(5) \in Nat /\ n(6) \in Nat /\ n(7) \in Nat /\ n(8) \in Nat
      BY <3>0
    <3>10. /\ Cardinality(U2) \in Nat /\ Cardinality(U3) \in Nat /\ Cardinality(U4) \in Nat
           /\ Cardinality(U5) \in Nat /\ Cardinality(U6) \in Nat /\ Cardinality(U7) \in Nat
           /\ Cardinality(all) \in Nat
      BY <3>2, <3>3, <3>4, <3>5, <3>6, <3>7, <3>8, FS_CardinalityType
    <3> HIDE DEF n, U2, U3, U4, U5, U6, U7, all
    <3>11. QED
      BY <3>2, <3>3, <3>4, <3>5, <3>6, <3>7, <3>8, <3>9, <3>10
  <2>3. Cardinality(DebtsSeen(repo)) <= Cardinality(all) /\ Cardinality(DebtsSeen(repo)) \in Nat
        /\ Cardinality(all) \in Nat
    BY <2>1, <2>2, FS_Subset, FS_CardinalityType
  <2>4. n(1) + n(2) + n(3) + n(4) + n(5) + n(6) + n(7) + n(8) <= 2 /\ \A i \in 1..8 : n(i) \in Nat
    BY <1>2
  <2> HIDE DEF n, all
  <2>5. QED
    BY <2>2, <2>3, <2>4
<1>8. QED
  BY <1>4, <1>5, <1>6, <1>7 DEF DebtFree, Serious

LEMMA PassedReport ==
  ASSUME NEW repo, IsRepository(repo), NEW sections, ReportOf(sections, repo), NEW mode,
         Report(sections, mode, DefaultMinScore).Status = "passed",
         Report(sections, mode, DefaultMinScore).Score >= DefaultMinScore
  PROVE  DebtFree(repo)
<1> DEFINE P0 == sections[1].P0 + sections[2].P0 + sections[3].P0 + sections[4].P0
                   + sections[5].P0 + sections[6].P0 + sections[7].P0 + sections[8].P0
           P1 == sections[1].P1 + sections[2].P1 + sections[3].P1 + sections[4].P1
                   + sections[5].P1 + sections[6].P1 + sections[7].P1 + sections[8].P1
<1>1. \A i \in 1..8 : sections[i].P0 \in Nat /\ sections[i].P1 \in Nat
  BY Counted
<1>2. P0 \in Nat /\ P1 \in Nat
  BY <1>1
<1>3. /\ Report(sections, mode, DefaultMinScore).Score = ScoreOf(P0, P1)
      /\ Report(sections, mode, DefaultMinScore).Status
           = StatusOf(P0, P1, ScoreOf(P0, P1), DefaultMinScore, mode)
  BY DEF Report
<1>4. P0 = 0
  <2> HIDE DEF P0, P1
  <2>1. P0 > 0 => StatusOf(P0, P1, ScoreOf(P0, P1), DefaultMinScore, mode) = "failed"
    BY <1>2 DEF StatusOf
  <2>2. QED
    BY <1>2, <1>3, <2>1
<1>5. P1 <= 2
  <2> HIDE DEF P0, P1
  <2>1. ScoreOf(P0, P1) >= 980
    BY <1>3 DEF DefaultMinScore
  <2>2. QED
    BY <1>2, <1>4, <2>1 DEF ScoreOf
<1>6. \A i \in 1..8 : sections[i].P0 = 0
  <2> DEFINE n(i) == sections[i].P0
  <2>1. /\ n(1) \in Nat /\ n(2) \in Nat /\ n(3) \in Nat /\ n(4) \in Nat
        /\ n(5) \in Nat /\ n(6) \in Nat /\ n(7) \in Nat /\ n(8) \in Nat
    BY <1>1
  <2>2. n(1) + n(2) + n(3) + n(4) + n(5) + n(6) + n(7) + n(8) = 0
    BY <1>4
  <2> HIDE DEF n
  <2>3. /\ n(1) = 0 /\ n(2) = 0 /\ n(3) = 0 /\ n(4) = 0
        /\ n(5) = 0 /\ n(6) = 0 /\ n(7) = 0 /\ n(8) = 0
    <3>1. \A a, b \in Nat : a + b \in Nat /\ (a + b = 0 => a = 0 /\ b = 0)
      OBVIOUS
    <3> DEFINE s3 == n(1) + n(2) + n(3)
               s5 == s3 + n(4) + n(5)
    <3>2. s3 \in Nat /\ (s3 = 0 => n(1) = 0 /\ n(2) = 0 /\ n(3) = 0)
      BY <2>1, <3>1
    <3> HIDE DEF s3
    <3>3. s5 \in Nat /\ (s5 = 0 => s3 = 0 /\ n(4) = 0 /\ n(5) = 0)
      BY <2>1, <3>1, <3>2
    <3> HIDE DEF s5
    <3>4. s5 + n(6) + n(7) + n(8) = 0
      BY <2>2 DEF s3, s5
    <3>5. s5 = 0 /\ n(6) = 0 /\ n(7) = 0 /\ n(8) = 0
      BY <2>1, <3>1, <3>3, <3>4
    <3>6. QED
      BY <3>2, <3>3, <3>5
  <2>4. \A i \in 1..8 : n(i) = 0
    <3>1. \A i \in 1..8 : i \in {1, 2, 3, 4, 5, 6, 7, 8}
      OBVIOUS
    <3>2. QED
      BY <2>3, <3>1
  <2>5. QED
    BY <2>4 DEF n
<1>7. QED
  BY <1>5, <1>6, CleanReport
-----------------------------------------------------------------------------
(* Why a release is free of debt.  As long as the scan under way has seen    *)
(* one tree, its sections are of that tree; the report on disk is made of    *)
(* the last finished scan; and the final verification compares the manifest  *)
(* with that report and looks at its status and score.                       *)
Scanning == {"debt", "debt-evidence"}
Reported == Hashed \cup {"generate", "write", "hash"}

ScanInv ==
  /\ scan.sections # <<>> => scanned # {}
  /\ \A t \in Trees : scan.sections # <<>> /\ scanned = {t} =>
       /\ scan.missing = t.debt.missing
       /\ \A i \in 1..Len(scan.sections) :
            scan.sections[i] = BuildSection(AllSections[i], Findings(AllSections[i], t.debt.missing, t.debt))

ReportInv ==
  pc[Release] \in Reported => \A t \in Trees : scanned = {t} =>
    \E mode, sections : debt = Report(sections, mode, DefaultMinScore) /\ ReportOf(sections, t.debt)

DebtPassed == DebtEvidence.Status = "passed" /\ DebtEvidence.Score >= DebtEvidence.MinScore

FinalDebtInv ==
  /\ pc[Release] \in {"checksum", "final-score", "final-read"} => draft[Release] = NoDraft
  /\ pc[Release] = "final" /\ "debt" \in DOMAIN draft[Release] => draft[Release]["debt"] = DebtEvidence
  /\ pc[Release] \in {"final-checksum", "released"} => DebtPassed

LEMMA ScanStep == ReleaseTypes /\ ScanInv /\ ScanSection => ScanInv'
<1> SUFFICES ASSUME ReleaseTypes, ScanInv, ScanSection PROVE ScanInv'
  OBVIOUS
<1> DEFINE n == Len(scan.sections)
           missing == IF scan.sections = <<>> THEN tree.debt.missing ELSE scan.missing
           section == AllSections[n + 1]
           report == BuildSection(section, Findings(section, missing, tree.debt))
<1>1. PICK reports : scan.sections \in Seq(reports)
  BY DEF ReleaseTypes
<1>2. /\ scan' = [missing |-> missing, sections |-> Append(scan.sections, report)]
      /\ scanned' = IF scan.sections = <<>> THEN {tree} ELSE scanned \cup {tree}
  BY DEF ScanSection
<1>3. scan'.missing = missing /\ scan'.sections = Append(scan.sections, report)
  BY <1>2
<1> HIDE DEF report, missing, section
<1>4. /\ n \in Nat /\ Len(scan'.sections) = n + 1 /\ scan'.sections # <<>>
      /\ scan'.sections[n + 1] = report
      /\ \A i \in 1..n : scan'.sections[i] = scan.sections[i]
      /\ n = 0 <=> scan.sections = <<>>
  BY <1>1, <1>3
<1> HIDE DEF n
<1>5. scanned' # {}
  BY <1>2
<1>6. ASSUME NEW t \in Trees, scanned' = {t}
      PROVE  /\ scan'.missing = t.debt.missing
             /\ \A i \in 1..Len(scan'.sections) :
                  scan'.sections[i] = BuildSection(AllSections[i], Findings(AllSections[i], t.debt.missing, t.debt))
  <2>1. tree = t /\ (scan.sections # <<>> => scanned = {t})
    BY <1>2, <1>6 DEF ScanInv
  <2>2. missing = t.debt.missing
    BY <2>1 DEF missing, ScanInv
  <2>3. report = BuildSection(AllSections[n + 1], Findings(AllSections[n + 1], t.debt.missing, t.debt))
    BY <2>1, <2>2 DEF report, section
  <2>4. \A i \in 1..n :
          scan.sections[i] = BuildSection(AllSections[i], Findings(AllSections[i], t.debt.missing, t.debt))
    <3>1. CASE scan.sections = <<>>
      BY <1>4, <3>1
    <3>2. CASE scan.sections # <<>>
      BY <2>1, <3>2 DEF ScanInv, n
    <3>3. QED
      BY <3>1, <3>2
  <2>5. \A i \in 1..(n + 1) : i \in 1..n \/ i = n + 1
    BY <1>4
  <2>6. QED
    BY <1>3, <1>4, <2>2, <2>3, <2>4, <2>5
<1>7. QED
  BY <1>5, <1>6 DEF ScanInv

LEMMA DebtStep ==
  ReleaseTypes /\ ScanInv /\ ReportInv /\ FinalDebtInv /\ [Next]_vars
    => ScanInv' /\ ReportInv' /\ FinalDebtInv'
<1> SUFFICES ASSUME ReleaseTypes, ScanInv, ReportInv, FinalDebtInv, [Next]_vars
             PROVE  ScanInv' /\ ReportInv' /\ FinalDebtInv'
  OBVIOUS
<1> USE DEF files
<1>0. /\ Release \in Procs /\ Other \in Procs /\ Release # Other
      /\ \A p \in Procs \ {Release} : p = Other
  BY DEF Procs, Release, Other
<1>1. \A step : Goto(Release, step) => pc'[Release] = step
  BY <1>0 DEF ReleaseTypes, Goto
<1>2. \A step : Goto(Other, step) => pc'[Release] = pc[Release]
  BY <1>0 DEF ReleaseTypes, Goto
(* The scan and the report stay, or the scan ends.                           *)
<1>3. ASSUME UNCHANGED scanned, scan' = scan \/ scan' = NoScan PROVE ScanInv'
  BY <1>3 DEF ScanInv, NoScan
<1>4. ASSUME UNCHANGED <<debt, scanned>>, pc'[Release] \in Reported => pc[Release] \in Reported
      PROVE  ReportInv'
  BY <1>4 DEF ReportInv
<1>5. ASSUME pc'[Release] \notin {"checksum", "final-score", "final-read", "final", "final-checksum", "released"}
      PROVE  FinalDebtInv'
  BY <1>5 DEF FinalDebtInv
<1>6. ASSUME UNCHANGED debt, pc'[Release] = pc[Release], draft'[Release] = draft[Release]
      PROVE  FinalDebtInv'
  BY <1>6 DEF FinalDebtInv, DebtPassed, DebtEvidence
<1>7. CASE Start
  BY <1>1, <1>3, <1>4, <1>5, <1>7 DEF Start, Reported, Hashed
<1>8. CASE ScanSection
  <2>1. pc[Release] \in Scanning /\ UNCHANGED <<pc, draft, debt>>
    BY <1>8 DEF ScanSection, Scanning
  <2>2. ReportInv' /\ FinalDebtInv'
    BY <1>5, <2>1 DEF ReportInv, Reported, Hashed, Scanning
  <2>3. QED
    BY <1>8, <2>2, ScanStep
<1>9. CASE DebtGate
  <2>1. pc'[Release] \in {"standard-impact-check", "failed"} /\ scan' = NoScan /\ UNCHANGED <<debt, scanned>>
    BY <1>1, <1>9 DEF DebtGate
  <2>2. QED
    BY <1>3, <1>4, <1>5, <2>1 DEF Reported, Hashed
<1>10. CASE StandardImpactCheck
  BY <1>1, <1>3, <1>4, <1>5, <1>10 DEF StandardImpactCheck, Reported, Hashed
<1>11. CASE ScoreCheck
  <2>1. pc'[Release] \in {"debt-evidence", "failed"} /\ UNCHANGED <<debt, scan, scanned>>
    BY <1>1, <1>11 DEF ScoreCheck
  <2>2. QED
    BY <1>3, <1>4, <1>5, <2>1 DEF Reported, Hashed
<1>12. CASE DebtEvidenceWritten
  <2>1. /\ pc'[Release] \in {"generate", "failed"} /\ scan' = NoScan /\ UNCHANGED scanned
        /\ Len(scan.sections) = 8
        /\ \E mode \in EvidenceModes : debt' = Report(scan.sections, mode, DefaultMinScore)
    BY <1>1, <1>12 DEF DebtEvidenceWritten, ScanDone, AllSections
  <2>2. scan.sections # <<>>
    <3>1. Len(<<>>) # 8
      OBVIOUS
    <3>2. QED
      BY <2>1, <3>1
  <2>3. ASSUME NEW t \in Trees, scanned = {t} PROVE ReportOf(scan.sections, t.debt)
    BY <2>1, <2>2, <2>3 DEF ScanInv, ReportOf
  <2>4. ReportInv'
    BY <2>1, <2>3 DEF ReportInv
  <2>5. QED
    BY <1>3, <1>5, <2>1, <2>4
<1>13. CASE BuildFact
  <2>1. /\ pc[Release] \in {"generate", "verify", "final"}
        /\ UNCHANGED <<tree, head, debt, impact, pc, scan, scanned>>
    BY <1>13 DEF BuildFact
  <2>2. PICK k \in 0..8 :
           /\ DOMAIN draft[Release] = First(k)
           /\ DOMAIN draft'[Release] = First(k + 1)
           /\ draft'[Release][FactNames[k + 1]] = Fact(FactNames[k + 1])
           /\ \A name \in First(k) : draft'[Release][name] = draft[Release][name]
    BY <1>13, NextFact
  <2>3. DebtEvidence' = DebtEvidence
    BY <2>1 DEF DebtEvidence
  <2>4. ASSUME pc[Release] = "final", "debt" \in First(k + 1)
        PROVE  draft'[Release]["debt"] = DebtEvidence
    <3>1. CASE "debt" \in First(k)
      BY <2>2, <2>4, <3>1 DEF FinalDebtInv
    <3>2. CASE "debt" \notin First(k)
      <4>1. FactNames[k + 1] = "debt"
        BY <2>4, <3>2 DEF First
      <4>2. Fact("debt") = DebtEvidence
        BY DEF Fact
      <4>3. QED
        BY <2>2, <4>1, <4>2
    <3>3. QED
      BY <3>1, <3>2
  <2>5. FinalDebtInv'
    BY <2>1, <2>2, <2>3, <2>4 DEF FinalDebtInv
  <2>6. QED
    BY <1>3, <1>4, <2>1, <2>5
<1>14. ASSUME NEW p \in Procs, Truncate(p) \/ Write(p)
       PROVE  ScanInv' /\ ReportInv' /\ FinalDebtInv'
  <2>1. UNCHANGED <<debt, scan, scanned>>
    BY <1>14 DEF Truncate, Write
  <2>2. CASE p = Release
    <3>1. pc[Release] \in Reported /\ pc'[Release] \in {"write", "hash"}
      BY <1>1, <1>14, <2>2 DEF Truncate, Write, Reported
    <3>2. QED
      BY <1>3, <1>4, <1>5, <2>1, <3>1
  <2>3. CASE p = Other
    <3>1. pc'[Release] = pc[Release]
      BY <1>0, <1>2, <1>14, <2>3 DEF Truncate, Write
    <3>2. draft'[Release] = draft[Release]
      BY <1>0, <1>14, <2>3 DEF Truncate, Write, ReleaseTypes
    <3>3. QED
      BY <1>3, <1>4, <1>6, <2>1, <3>1, <3>2
  <2>4. QED
    BY <1>0, <2>2, <2>3
<1>15. CASE OtherEvidence
  <2>1. pc'[Release] = pc[Release] /\ UNCHANGED <<debt, scan, scanned>>
    BY <1>2, <1>15 DEF OtherEvidence
  <2>2. draft'[Release] = draft[Release]
    BY <1>0, <1>15 DEF OtherEvidence, ReleaseTypes
  <2>3. QED
    BY <1>3, <1>4, <1>6, <2>1, <2>2
<1>16. CASE Hash
  <2>1. pc'[Release] \in {"read", "failed"} /\ pc[Release] = "hash" /\ UNCHANGED <<debt, scan, scanned>>
    BY <1>1, <1>16 DEF Hash
  <2>2. QED
    BY <1>3, <1>4, <1>5, <2>1 DEF Reported
<1>17. CASE ReadManifest("read", "verify")
  <2>1. pc'[Release] \in {"verify", "failed"} /\ pc[Release] = "read" /\ UNCHANGED <<debt, scan, scanned>>
    BY <1>1, <1>17 DEF ReadManifest
  <2>2. QED
    BY <1>3, <1>4, <1>5, <2>1 DEF Reported, Hashed
<1>18. CASE ReadManifest("final-read", "final")
  <2>1. /\ pc'[Release] \in {"final", "failed"} /\ pc[Release] = "final-read"
        /\ UNCHANGED <<debt, scan, scanned, draft>>
    BY <1>1, <1>18 DEF ReadManifest
  <2>2. draft'[Release] = NoDraft /\ DOMAIN NoDraft = {}
    BY <2>1 DEF FinalDebtInv, NoDraft
  <2>3. FinalDebtInv'
    BY <2>1, <2>2 DEF FinalDebtInv
  <2>4. QED
    BY <1>3, <1>4, <2>1, <2>3 DEF Reported, Hashed
<1>19. CASE Verified("verify", FALSE, "checksum")
  <2>1. /\ pc'[Release] \in {"checksum", "failed"} /\ pc[Release] = "verify"
        /\ UNCHANGED <<debt, scan, scanned>>
    BY <1>1, <1>19 DEF Verified
  <2>2. draft'[Release] = NoDraft
    BY <1>0, <1>19, DraftDropped DEF Verified
  <2>3. FinalDebtInv'
    BY <2>1, <2>2 DEF FinalDebtInv
  <2>4. QED
    BY <1>3, <1>4, <2>1, <2>3 DEF Reported, Hashed
<1>20. CASE Verified("final", TRUE, "final-checksum")
  <2>1. /\ pc'[Release] \in {"final-checksum", "failed"} /\ pc[Release] = "final"
        /\ pc'[Release] = "final-checksum" => Matches(draft[Release]) /\ Strict
        /\ UNCHANGED <<debt, scan, scanned>>
    BY <1>1, <1>20 DEF Verified
  <2>2. DebtEvidence' = DebtEvidence
    BY <2>1 DEF DebtEvidence
  <2>3. "debt" \in DOMAIN draft[Release]
    <3>1. DOMAIN draft[Release] = First(9)
      BY <1>0, <1>20, BuiltIsComplete DEF Verified
    <3>2. FactNames[5] = "debt" /\ 5 \in 1..9
      BY DEF FactNames
    <3>3. QED
      BY <3>1, <3>2 DEF First
  <2>4. Matches(draft[Release]) /\ Strict => DebtPassed
    <3> SUFFICES ASSUME Matches(draft[Release]), Strict PROVE DebtPassed
      OBVIOUS
    <3>1. got["debt"] = DebtEvidence
      BY <2>1, <2>3 DEF Matches, FinalDebtInv
    <3>2. QED
      BY <3>1 DEF Strict, DebtPassed
  <2>5. FinalDebtInv'
    BY <2>1, <2>2, <2>4 DEF FinalDebtInv, DebtPassed
  <2>6. QED
    BY <1>3, <1>4, <2>1, <2>5 DEF Reported, Hashed
<1>21. CASE ChecksumCheck("checksum", "final-score") \/ FinalScore
  <2>1. /\ pc'[Release] \in {"final-score", "final-read", "failed"}
        /\ pc[Release] \in {"checksum", "final-score"} /\ UNCHANGED <<debt, scan, scanned, draft>>
    BY <1>1, <1>21 DEF ChecksumCheck, FinalScore
  <2>2. FinalDebtInv'
    BY <2>1 DEF FinalDebtInv
  <2>3. QED
    BY <1>3, <1>4, <2>1, <2>2 DEF Reported, Hashed
<1>22. CASE ChecksumCheck("final-checksum", "released")
  <2>1. /\ pc'[Release] \in {"released", "failed"} /\ pc[Release] = "final-checksum"
        /\ UNCHANGED <<debt, scan, scanned>>
    BY <1>1, <1>22 DEF ChecksumCheck
  <2>2. FinalDebtInv'
    BY <2>1 DEF FinalDebtInv, DebtPassed, DebtEvidence
  <2>3. QED
    BY <1>3, <1>4, <2>1, <2>2 DEF Reported, Hashed
<1>23. CASE Edit \/ Commit
  BY <1>3, <1>4, <1>6, <1>23 DEF Edit, Commit
<1>24. CASE Kill
  <2>1. pc'[Release] = "failed" /\ UNCHANGED <<debt, scan, scanned>>
    BY <1>1, <1>24 DEF Kill
  <2>2. QED
    BY <1>3, <1>4, <1>5, <2>1 DEF Reported, Hashed
<1>25. CASE UNCHANGED vars
  BY <1>3, <1>4, <1>6, <1>25 DEF vars
<1>26. QED
  BY <1>7, <1>8, <1>9, <1>10, <1>11, <1>12, <1>13, <1>14, <1>15, <1>16, <1>17, <1>18,
     <1>19, <1>20, <1>21, <1>22, <1>23, <1>24, <1>25 DEF Next

(* A release whose debt report was made of one tree alone is of a tree       *)
(* without serious debt, as far as its files can be read.                    *)
THEOREM ReleaseIsDebtFree == Spec => []DebtFreeRelease
<1> DEFINE Inv == ScanInv /\ ReportInv /\ FinalDebtInv
<1>1. Init => Inv
  BY DEF Init, ScanInv, ReportInv, FinalDebtInv, Reported, Hashed, NoScan, Procs, Release
<1>2. ReleaseTypes /\ Inv /\ [Next]_vars => Inv'
  BY DebtStep
<1>3. Inv => DebtFreeRelease
  <2> SUFFICES ASSUME Inv, NEW t \in Trees, Released, scanned = {t} PROVE DebtFree(t.debt)
    BY DEF DebtFreeRelease
  <2>1. PICK mode, sections : debt = Report(sections, mode, DefaultMinScore) /\ ReportOf(sections, t.debt)
    BY DEF Released, ReportInv, Reported, Hashed
  <2>2. DebtPassed
    BY DEF Released, FinalDebtInv
  <2>3. debt # Missing
    BY <2>2 DEF DebtPassed, DebtEvidence, Missing
  <2>4. debt.Status = "passed" /\ debt.Score >= DebtEvidence.MinScore
    BY <2>2, <2>3 DEF DebtPassed, DebtEvidence
  <2>5. DebtEvidence.MinScore = DefaultMinScore
    BY <2>1, <2>3 DEF DebtEvidence, Report, DefaultMinScore
  <2>6. IsRepository(t.debt)
    BY ReleaseAssumption
  <2>7. QED
    BY <2>1, <2>4, <2>5, <2>6, PassedReport
<1>4. QED
  BY <1>1, <1>2, <1>3, TypesInvariant, PTL DEF Spec
=============================================================================
