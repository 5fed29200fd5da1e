------------------------------ MODULE DebtCheck ------------------------------
(***************************************************************************)
(* internal/debtcheck/debtcheck.go: the debt report of a repository.       *)
(*                                                                         *)
(* A repository is what the scanners can tell apart in it: the files of    *)
(* the walk in path order with the debt each holds, the policy files that  *)
(* are missing, and the state of the files the downstream section reads by *)
(* name.  Files the walk skips (skipDir, skipPath, skipFile) or finds      *)
(* binary have no marks.  Scores are in hundredths, as score rounds them.  *)
(***************************************************************************)
EXTENDS Integers, FiniteSets, Sequences

AllSections == <<"architecture", "domain", "docs", "dependency",
                 "testing", "implementation", "security", "downstream">>

(* What the scanner of a section looks for, named after the finding's id.    *)
MarksOf ==
  [architecture |-> {"parse", "legacy-import"}, domain |-> {"domain-marker"}, docs |-> {"docs-marker"},
   dependency |-> {"unpinned-latest", "curl-pipe-bash"}, testing |-> {"testing-marker"},
   implementation |-> {"implementation-marker"}, security |-> {"private-key", "security-marker"},
   downstream |-> {}]
Marks == UNION {MarksOf[s] : s \in DOMAIN MarksOf}

(* What a file can hold: only a Go file can fail to parse or import, and a   *)
(* directory of the list is there because it cannot be read.                 *)
IsRepository(repo) ==
  /\ IsFiniteSet(repo.missing)
  /\ repo.files \in Seq([kind : {"go", "other", "dir"}, readable : BOOLEAN, marks : SUBSET Marks])
  /\ \A i \in DOMAIN repo.files :
       repo.files[i].kind # "go" => repo.files[i].marks \cap MarksOf.architecture = {}
  /\ IsFiniteSet(DOMAIN repo.required)
  /\ \A f \in DOMAIN repo.required : IsFiniteSet(repo.required[f].flaws)

Modes == {"enforce", "warn", "observe"}
DefaultMinScore == 980
-----------------------------------------------------------------------------
(* The error that ends a walk is dropped, so a file that cannot be read      *)
(* hides the files after it.  scanGoImports reads Go files only, the others  *)
(* read every file; a directory that cannot be read ends any walk.           *)
Visits(section, file) == section = "architecture" => file.kind = "go"
Ends(section, file)  == ~file.readable /\ (Visits(section, file) \/ file.kind = "dir")

Walked(section, files) ==
  {i \in DOMAIN files : Visits(section, files[i]) /\ \A j \in 1..i : ~Ends(section, files[j])}

Scanned(section, files) ==
  {x \in Walked(section, files) \X MarksOf[section] : x[2] \in files[x[1]].marks}

(* scanDownstreamDebt: a file that is missing is reported as such, one that  *)
(* is empty has no token missing (requireDownstreamToken), and every flaw of *)
(* the others is a finding.                                                  *)
ScannedDownstream(required) ==
  UNION {CASE required[f].text = "missing" -> {<<f, "file-missing">>}
           [] required[f].text = "empty"   -> IF required[f].yaml THEN {<<f, "schema-missing">>} ELSE {}
           [] OTHER -> {f} \X required[f].flaws
         : f \in DOMAIN required}

(* missingPolicyFindings (P0, repeated in every section) and scanSection.    *)
Findings(section, missing, repo) ==
  {<<path, "policy-missing">> : path \in missing}
  \cup Scanned(section, repo.files)
  \cup IF section = "downstream" THEN ScannedDownstream(repo.required) ELSE {}

P1Findings == (Marks \ {"parse", "legacy-import", "private-key"}) \cup {"placeholder"}
SeverityLenient(finding) ==    \* slip: an import of a legacy module is P1 debt
  IF finding[2] \in P1Findings \cup {"legacy-import"} THEN "P1" ELSE "P0"
Severity(finding) == IF finding[2] \in P1Findings THEN "P1" ELSE "P0"

BuildSection(name, findings) ==
  LET P0 == Cardinality({x \in findings : Severity(x) = "P0"})
      P1 == Cardinality({x \in findings : Severity(x) = "P1"})
  IN  [name |-> name, P0 |-> P0, P1 |-> P1,
       status |-> IF P0 = 0 /\ P1 = 0 THEN "passed" ELSE IF P0 = 0 THEN "warning" ELSE "failed"]
-----------------------------------------------------------------------------
ScoreOf(P0, P1) ==
  LET value == 1000 - 10 * P1 - 100 * P0
  IN  IF value < 0 THEN 0 ELSE value

StatusOf(P0, P1, score, minScore, mode) ==
  CASE P0 > 0           -> "failed"
    [] P0 = 0 /\ score < minScore -> IF mode = "enforce" THEN "failed" ELSE "warning"
    [] OTHER            -> IF P1 > 0 /\ mode # "enforce" THEN "warning" ELSE "passed"

(* The rest of Run, once every section is scanned.  No scanner reports P2.   *)
Report(sections, mode, minScore) ==
  LET Total(n) == n[1] + n[2] + n[3] + n[4] + n[5] + n[6] + n[7] + n[8]
      P0 == Total([i \in 1..8 |-> sections[i].P0])
      P1 == Total([i \in 1..8 |-> sections[i].P1])
      score == ScoreOf(P0, P1)
  IN  [Status |-> StatusOf(P0, P1, score, minScore, mode), Mode |-> mode,
       Score |-> score, MinScore |-> minScore, Sections |-> sections]

ExitCode(report) == IF report.Mode = "enforce" /\ report.Status # "passed" THEN 1 ELSE 0
=============================================================================
