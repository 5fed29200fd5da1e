---------------------------- MODULE MCValidation ----------------------------
(***************************************************************************)
(* Validation on the files a few edits away from two that pass: one        *)
(* required path beside another, and the two contexts with rules of their  *)
(* own.                                                                    *)
(***************************************************************************)
EXTENDS Validation

Key(i, k) == [indent |-> i, key |-> k, value |-> "", dash |-> FALSE]
Dash(i, k) == [indent |-> i, key |-> k, value |-> "", dash |-> TRUE]
Field(i, k, v) == [indent |-> i, key |-> k, value |-> v, dash |-> FALSE]

RequiredPaths == [p \in {"contracts/"} |-> "standard"]

OwnersFile == <<
  Field(0, "schema_version", "1"), Key(0, "owners"),
  Key(2, "contracts/"), Field(4, "owner", "standard"), Field(4, "review_required", "true"),
  Field(4, "review_rule", "rule"), Field(4, "rationale", "why"),
  Key(2, "docs/"), Field(4, "owner", "leader"), Field(4, "review_required", "false"),
  Field(4, "rationale", "why")>>

OwnersLines ==
  {Key(0, "owners"), Key(0, "end"), Key(2, "contracts/"), Key(2, "/etc/"), Field(2, "docs/", "&anchor"),
   Key(3, "docs/"), Key(4, "owners"), Field(3, "owner", "leader"), Field(6, "owner", "leader"),
   Field(4, "owner", "nobody"), Field(4, "owner", "standard"), Field(4, "review_required", "false"),
   Field(4, "review_required", "maybe"), Key(4, "review_required"), Key(4, "rationale")}

ContextsFile == <<
  Field(0, "schema_version", "1"), Key(0, "contexts"),
  Key(2, "local_write"), Field(4, "write_scope", "worktree"), Field(4, "mutates_files", "true"),
  Field(4, "release_evidence", "false"), Field(4, "requires_gowork", "on"),
  Dash(2, "release_verify"), Field(4, "write_scope", "none"), Field(4, "mutates_files", "false"),
  Field(4, "release_evidence", "true"), Field(4, "requires_gowork", "off"), Field(4, "manifest", "release/")>>

ContextsLines ==
  {Key(0, "end"), Key(2, "local_write"), Dash(2, "release_verify"), Key(2, ""), Key(2, "other"),
   Field(2, "other", "&anchor"), Field(3, "mutates_files", "true"), Key(4, "contexts"),
   Field(4, "mutates_files", "true"), Field(4, "mutates_files", "false"), Key(4, "mutates_files"),
   Field(4, "release_evidence", "true"), Field(4, "requires_gowork", "on"), Field(4, "manifest", "/release/")}

StartFiles == [k \in {"owners", "contexts"} |-> IF k = "owners" THEN {OwnersFile} ELSE {ContextsFile}]
SomeLines == [k \in {"owners", "contexts"} |-> IF k = "owners" THEN OwnersLines ELSE ContextsLines]
=============================================================================
