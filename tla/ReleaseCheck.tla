---------------------------- MODULE ReleaseCheck ----------------------------
(***************************************************************************)
(* make release-final-check, from the debt gate to the last checksum, over *)
(* internal/tools/releasemanifest, internal/debtcheck and                  *)
(* internal/releasequality.                                                *)
(*                                                                         *)
(* Generating a manifest and verifying one both gather the repository's    *)
(* facts one file or command at a time, so the repository may change in    *)
(* between.  So may the files: another make evidence may write the         *)
(* manifest, and a run killed half-way leaves its files to the next.       *)
(*                                                                         *)
(* A tree is a record: what git hashes (digest), the contract files, the   *)
(* modules, the score dimensions it passes out of ten, and its debt.       *)
(***************************************************************************)
EXTENDS Integers, FiniteSets, Sequences, DebtCheck

CONSTANTS
  Trees,      \* contents the repository may have
  EvidenceModes,  \* modes debt-evidence may run in
  MaxEvents   \* bound: edits, further runs of release-final-check, runs of make evidence beside it

ASSUME ReleaseAssumption ==
  /\ \A t \in Trees : t.quality \in 0..10 /\ IsRepository(t.debt)
  /\ MaxEvents \in Nat

Release == "release"   \* the process that runs release-final-check
Other   == "other"     \* the process that runs make evidence
Procs   == {Release, Other}

VARIABLES
  tree,      \* the working tree
  head,      \* HEAD: a commit's number and its tree
  debt,      \* release/debt/latest.json
  impact,    \* release/standard-impact/latest.md
  manifest,  \* release/manifest/latest.json
  checksum,  \* release/manifest/latest.json.sha256: the manifest it is of
  pc,        \* the step each process is at
  draft,     \* the facts buildManifest of a process has gathered
  scan,      \* debtcheck.Run under way: the policy files missing, the sections done
  got,       \* the manifest verifyManifest has read
  events,    \* bound: how many of them there have been
  scanned,   \* history: the trees the scan under way, or the last finished, saw
  still,     \* history: nothing changed since the last verification began
  rewrites   \* history: manifests of Other since the last hash, counted to 2

files == <<debt, impact, manifest, checksum>>
vars == <<tree, head, files, pc, draft, scan, got, events, scanned, still, rewrites>>

Missing  == [Status |-> "missing"]
Unparsed == [text |-> "unparsed"]    \* empty or torn: json.Unmarshal fails
NoDraft  == <<>>
NoScan   == [missing |-> {}, sections |-> <<>>]

Init ==
  /\ tree \in Trees
  /\ head = [commit |-> 0, tree |-> tree]
  /\ debt = Missing /\ impact = Missing /\ manifest = Unparsed /\ checksum = Unparsed
  /\ pc = [p \in Procs |-> "idle"]
  /\ draft = [p \in Procs |-> NoDraft]
  /\ scan = NoScan
  /\ got = Unparsed
  /\ events = 0
  /\ scanned = {}
  /\ still = FALSE
  /\ rewrites = 0
-----------------------------------------------------------------------------
(* Compute.  Values are in tenths, as it rounds them; ten dimensions weigh 1. *)
Threshold == 98
Compute == [Value |-> 10 * tree.quality, Threshold |-> Threshold,
            Status |-> IF 10 * tree.quality >= Threshold THEN "passed" ELSE "failed"]

ScoreVerified(score, minimum) ==
  /\ score.Value >= minimum
  /\ score.Status = "passed" \/ score.Value >= score.Threshold

(* buildDebtEvidence: what the manifest keeps of the debt report.            *)
DebtEvidence ==
  IF debt = Missing
  THEN [Status |-> "missing", Score |-> 0, MinScore |-> DefaultMinScore, CheckCount |-> 0, Report |-> Missing]
  ELSE [Status |-> debt.Status, Score |-> debt.Score, CheckCount |-> Len(debt.Sections), Report |-> debt,
        MinScore |-> IF debt.MinScore # 0 THEN debt.MinScore ELSE DefaultMinScore]

(* The facts of a manifest in the order buildManifest gathers them.          *)
FactNames == <<"source_digest", "contracts", "dependencies", "standard_impact",
               "debt", "commit", "tree_sha", "tree_state", "score">>

Fact(name) ==
  CASE name = "source_digest"   -> tree.digest
    [] name = "contracts"       -> tree.contracts
    [] name = "dependencies"    -> tree.dependencies
    [] name = "standard_impact" -> impact
    [] name = "debt"            -> DebtEvidence
    [] name = "commit"          -> head.commit
    [] name = "tree_sha"        -> head.tree.digest
    [] name = "tree_state"      -> IF tree = head.tree THEN "clean" ELSE "dirty"
    [] name = "score"           -> Compute

Facts == [name \in {FactNames[i] : i \in DOMAIN FactNames} |-> Fact(name)]

Built(p) == Cardinality(DOMAIN draft[p]) = Len(FactNames)

With(facts, name, value) ==
  [n \in DOMAIN facts \cup {name} |-> IF n = name THEN value ELSE facts[n]]

BuildFact ==
  /\ pc[Release] \in {"generate", "verify", "final"} /\ ~Built(Release)
  /\ LET name == FactNames[Cardinality(DOMAIN draft[Release]) + 1]
     IN  draft' = [draft EXCEPT ![Release] = With(@, name, Fact(name))]
  /\ UNCHANGED <<tree, head, files, pc, scan, got, events, scanned, still, rewrites>>

(* CHECK_STATUS=passed is set by release-final-check, and by whoever follows *)
(* the checklist of docs/release.md:156.                                     *)
CheckStatus(p) == IF p = Release THEN {"passed"} ELSE {"passed", "unknown"}

Goto(p, step) == pc' = [pc EXCEPT ![p] = step]

(* writeManifest: truncate, then write.  Over the text of another process    *)
(* the end of a longer text may stay.                                        *)
Truncate(p) ==
  /\ pc[p] = "generate" /\ Built(p)
  /\ manifest' = Unparsed
  /\ Goto(p, "write")
  /\ UNCHANGED <<tree, head, debt, impact, checksum, draft, scan, got, events, scanned, still, rewrites>>

Write(p) ==
  /\ pc[p] = "write"
  /\ \E status \in CheckStatus(p) :
       LET text == With(draft[p], "checks", status)
       IN  manifest' \in IF manifest = Unparsed THEN {text} ELSE {text, Unparsed}
  /\ Goto(p, IF p = Release THEN "hash" ELSE "idle")
  /\ draft' = [draft EXCEPT ![p] = NoDraft]
  /\ rewrites' = IF p = Other /\ rewrites < 2 THEN rewrites + 1 ELSE rewrites
  /\ UNCHANGED <<tree, head, debt, impact, checksum, scan, got, events, scanned, still>>

(* The other make evidence.  That its facts may be torn as well is left out. *)
OtherEvidence ==
  /\ pc[Other] = "idle" /\ events < MaxEvents
  /\ Goto(Other, "generate")
  /\ draft' = [draft EXCEPT ![Other] = Facts]
  /\ events' = events + 1
  /\ UNCHANGED <<tree, head, files, scan, got, scanned, still, rewrites>>
-----------------------------------------------------------------------------
(* The steps of release-final-check before the manifest.                     *)
Start ==
  /\ \/ pc[Release] = "idle" /\ UNCHANGED events
     \/ pc[Release] = "failed" /\ events < MaxEvents /\ events' = events + 1
  /\ Goto(Release, "debt")
  /\ draft' = [draft EXCEPT ![Release] = NoDraft]
  /\ scan' = NoScan
  /\ UNCHANGED <<tree, head, files, got, scanned, still, rewrites>>

(* debtcheck.Run looks for the policy files once and scans section by section. *)
ScanSection ==
  /\ pc[Release] \in {"debt", "debt-evidence"} /\ Len(scan.sections) < Len(AllSections)
  /\ LET missing == IF scan.sections = <<>> THEN tree.debt.missing ELSE scan.missing
         section == AllSections[Len(scan.sections) + 1]
         report  == BuildSection(section, Findings(section, missing, tree.debt))
     IN  scan' = [missing |-> missing, sections |-> Append(scan.sections, report)]
  /\ scanned' = IF scan.sections = <<>> THEN {tree} ELSE scanned \cup {tree}
  /\ UNCHANGED <<tree, head, files, pc, draft, got, events, still, rewrites>>

ScanDone(step) == pc[Release] = step /\ Len(scan.sections) = Len(AllSections)

DebtGateKeeping ==    \* slip: the sections of the first Run stay
  /\ ScanDone("debt")
  /\ Goto(Release, "standard-impact-check")
  /\ UNCHANGED <<tree, head, files, draft, scan, got, events, scanned, still, rewrites>>

DebtGate ==
  /\ ScanDone("debt")
  /\ Goto(Release, IF ExitCode(Report(scan.sections, "enforce", DefaultMinScore)) = 0
                   THEN "standard-impact-check" ELSE "failed")
  /\ scan' = NoScan
  /\ UNCHANGED <<tree, head, files, draft, got, events, scanned, still, rewrites>>

StandardImpactCheck ==
  /\ pc[Release] = "standard-impact-check"
  /\ impact' = [Status |-> "present", of |-> tree.digest]
  /\ Goto(Release, "score-check")
  /\ UNCHANGED <<tree, head, debt, manifest, checksum, draft, scan, got, events, scanned, still, rewrites>>

ScoreCheck ==
  /\ pc[Release] = "score-check"
  /\ Goto(Release, IF ScoreVerified(Compute, 98) THEN "debt-evidence" ELSE "failed")
  /\ UNCHANGED <<tree, head, files, draft, scan, got, events, scanned, still, rewrites>>

DebtEvidenceWritten ==
  /\ ScanDone("debt-evidence")
  /\ \E mode \in EvidenceModes :
       LET report == Report(scan.sections, mode, DefaultMinScore)
       IN  /\ debt' = report
           /\ Goto(Release, IF ExitCode(report) = 0 THEN "generate" ELSE "failed")
  /\ scan' = NoScan
  /\ UNCHANGED <<tree, head, impact, manifest, checksum, draft, got, events, scanned, still, rewrites>>
-----------------------------------------------------------------------------
(* hash_release_evidence.sh, without and with --check.  An empty manifest    *)
(* fails, a torn one is hashed; at a check an unparsed one is empty, for it  *)
(* takes two that write to tear one.                                         *)
Hash ==
  /\ pc[Release] = "hash"
  /\ \/ manifest # Unparsed /\ Goto(Release, "read") /\ checksum' = manifest
     \/ manifest = Unparsed /\ Goto(Release, "failed") /\ UNCHANGED checksum
     \/ manifest = Unparsed /\ Goto(Release, "read") /\ checksum' = Unparsed
  /\ rewrites' = 0
  /\ UNCHANGED <<tree, head, debt, impact, manifest, draft, scan, got, events, scanned, still>>

ChecksumUnchecked(step, next) ==    \* slip: the digest is not compared
  /\ pc[Release] = step
  /\ Goto(Release, IF manifest # Unparsed THEN next ELSE "failed")
  /\ UNCHANGED <<tree, head, files, draft, scan, got, events, scanned, still, rewrites>>

ChecksumCheck(step, next) ==
  /\ pc[Release] = step
  /\ Goto(Release, IF manifest # Unparsed /\ checksum = manifest THEN next ELSE "failed")
  /\ UNCHANGED <<tree, head, files, draft, scan, got, events, scanned, still, rewrites>>

(* verifyManifest reads the manifest, builds another and compares.           *)
ReadManifest(step, next) ==
  /\ pc[Release] = step
  /\ got' = manifest
  /\ Goto(Release, IF manifest = Unparsed THEN "failed" ELSE next)
  /\ still' = TRUE
  /\ UNCHANGED <<tree, head, files, draft, scan, events, scanned, rewrites>>

MatchesButDigest(current) ==    \* slip: the source digest is not compared
  /\ \A name \in DOMAIN current \ {"score", "source_digest"} : got[name] = current[name]
  /\ got["score"].Value = current["score"].Value

Matches(current) ==
  /\ \A name \in DOMAIN current \ {"score"} : got[name] = current[name]
  /\ got["score"].Value = current["score"].Value

(* require-passed, require-clean and min-score, all set by the final check.  *)
Strict ==
  /\ got["checks"] = "passed"
  /\ got["standard_impact"].Status = "present"
  /\ got["debt"].Status = "passed"
  /\ got["debt"].Score >= got["debt"].MinScore
  /\ got["debt"].CheckCount > 0
  /\ got["tree_state"] = "clean"
  /\ ScoreVerified(got["score"], 98)

Verified(step, strict, next) ==
  /\ pc[Release] = step /\ Built(Release)
  /\ Goto(Release, IF Matches(draft[Release]) /\ (strict => Strict) THEN next ELSE "failed")
  /\ draft' = [draft EXCEPT ![Release] = NoDraft]
  /\ UNCHANGED <<tree, head, files, scan, got, events, scanned, still, rewrites>>

FinalScore ==
  /\ pc[Release] = "final-score"
  /\ Goto(Release, IF ScoreVerified(Compute, 98) THEN "final-read" ELSE "failed")
  /\ UNCHANGED <<tree, head, files, draft, scan, got, events, scanned, still, rewrites>>
-----------------------------------------------------------------------------
(* The environment: edits, commits, and a kill at any step.                  *)
Edit ==
  /\ events < MaxEvents
  /\ tree' \in Trees \ {tree}
  /\ events' = events + 1
  /\ still' = FALSE
  /\ UNCHANGED <<head, files, pc, draft, scan, got, scanned, rewrites>>

Commit ==
  /\ tree # head.tree
  /\ head' = [commit |-> head.commit + 1, tree |-> tree]
  /\ still' = FALSE
  /\ UNCHANGED <<tree, files, pc, draft, scan, got, events, scanned, rewrites>>

Kill ==
  /\ pc[Release] \notin {"idle", "failed", "released"}
  /\ Goto(Release, "failed")
  /\ UNCHANGED <<tree, head, files, draft, scan, got, events, scanned, still, rewrites>>

Next ==
  \/ Start \/ ScanSection \/ DebtGate \/ StandardImpactCheck \/ ScoreCheck \/ DebtEvidenceWritten
  \/ BuildFact
  \/ \E p \in Procs : Truncate(p) \/ Write(p)
  \/ OtherEvidence
  \/ Hash
  \/ ReadManifest("read", "verify") \/ Verified("verify", FALSE, "checksum")
  \/ ChecksumCheck("checksum", "final-score")
  \/ FinalScore
  \/ ReadManifest("final-read", "final") \/ Verified("final", TRUE, "final-checksum")
  \/ ChecksumCheck("final-checksum", "released")
  \/ Edit \/ Commit \/ Kill

Spec == Init /\ [][Next]_vars
-----------------------------------------------------------------------------
Released == pc[Release] = "released"

TypeOK ==
  /\ tree \in Trees /\ head.tree \in Trees /\ head.commit \in Nat
  /\ \A p \in Procs : DOMAIN draft[p] = {FactNames[i] : i \in 1..Cardinality(DOMAIN draft[p])}
  /\ Len(scan.sections) <= Len(AllSections)
  /\ scan.sections # <<>> => pc[Release] \in {"debt", "debt-evidence", "failed"}
  /\ scanned \subseteq Trees
  /\ still \in BOOLEAN
  /\ rewrites \in 0..2

(* A release whose repository was left alone during the last verification is *)
(* of exactly that repository: committed, clean, every fact as it is now,    *)
(* however the manifest came about (docs/release.md:38).                     *)
ReleaseIsOfHead ==
  Released /\ still =>
    /\ tree = head.tree
    /\ got["commit"] = head.commit /\ got["tree_sha"] = tree.digest
    /\ got["source_digest"] = tree.digest
    /\ got["contracts"] = tree.contracts /\ got["dependencies"] = tree.dependencies
    /\ tree.quality = 10

(* The manifest verified is the one the checksum file signs, unless others   *)
(* have written the manifest twice since it was hashed: once is noticed, but *)
(* the second may put the manifest that was hashed back in place of the one  *)
(* that was verified, and the checksums match again.                         *)
SignedIsVerified == Released /\ rewrites < 2 => checksum = got

(* A release whose debt report was made of one tree alone: that tree has all *)
(* its policies, and in the files before the first that cannot be read no P0 *)
(* debt and at most the two P1 findings that leave the score at 9.8.         *)
Seen(repo) == {i \in DOMAIN repo.files : \A j \in 1..i : repo.files[j].readable}
DebtsSeen(repo) == {x \in Seen(repo) \X Marks : x[2] \in repo.files[x[1]].marks}
DebtFree(repo) ==
  /\ repo.missing = {}
  /\ \A x \in DebtsSeen(repo) : x[2] \notin {"parse", "legacy-import", "private-key"}
  /\ \A f \in DOMAIN repo.required : repo.required[f].text # "missing"
  /\ Cardinality(DebtsSeen(repo)) <= 2
DebtFreeRelease == \A t \in Trees : Released /\ scanned = {t} => DebtFree(t.debt)
=============================================================================
