----------------------------- MODULE Validation -----------------------------
(***************************************************************************)
(* internal/validation/validation.go: the two gates over policy files that *)
(* are parsed line by line, without a YAML parser: who owns which path     *)
(* ("owners") and what each execution context may do ("contexts").         *)
(*                                                                         *)
(* A line is its indentation, its key and its value, "" when nothing       *)
(* follows the colon; dash marks the form "- key".  Quotes, comments and   *)
(* blank lines are read away.  A gate is its verdict, whether the list of  *)
(* gaps is empty.                                                          *)
(***************************************************************************)
EXTENDS Naturals, Sequences, FiniteSets, SequencesExt

CONSTANTS
  Required,       \* function: the paths that must be there, to their owners
  AllowedOwners,  \* the owners there are
  Expected,       \* the contexts there must be
  Absolute,       \* the values that begin with "/"
  PathFields,     \* the fields of a context that name a path, root or manifest
  Files,          \* per kind: files to start from
  Lines,          \* per kind: lines that people write
  MaxEdits        \* bound: lines inserted, removed or replaced

Line == [indent : Nat, key : STRING, value : STRING, dash : BOOLEAN]

ASSUME ValidationAssumption ==
  \A k \in {"owners", "contexts"} : Files[k] \subseteq Seq(Line) /\ Lines[k] \subseteq Line

(* TLA+ says so; to the provers "" is a constant they know nothing of.       *)
ASSUME EmptyString == "" \in STRING /\ "" \notin {"true", "false"}

VARIABLES
  kind,    \* "owners" or "contexts": the gate, and the key of its block
  file,    \* the lines of its file
  edits    \* changes made to it

vars == <<kind, file, edits>>

Init ==
  /\ kind \in {"owners", "contexts"}
  /\ file \in Files[kind]
  /\ edits = 0

(* People change the file, a line at a time.                                 *)
Edit ==
  /\ edits < MaxEdits
  /\ edits' = edits + 1
  /\ \/ \E i \in 1..(Len(file) + 1), l \in Lines[kind] : file' = InsertAt(file, i, l)
     \/ \E i \in DOMAIN file, l \in Lines[kind] : file' = ReplaceAt(file, i, l)
     \/ \E i \in DOMAIN file : file' = RemoveAt(file, i)
  /\ UNCHANGED kind

Next == Edit

Spec == Init /\ [][Next]_vars
-----------------------------------------------------------------------------
Fields ==
  IF kind = "owners" THEN {"owner", "review_required", "review_rule", "rationale"}
  ELSE {"write_scope", "mutates_files", "release_evidence", "requires_gowork"} \cup PathFields

NoFields == [f \in Fields |-> ""]

IsHeader(l) == l.key = kind /\ l.value = "" /\ ~l.dash

(* A line that begins an entry of the block.                                 *)
Opens(l) == l.indent = 2 /\ IF l.dash THEN kind = "contexts" ELSE l.value = ""

(* One turn of the parsing loop, on the entries read so far; the last entry  *)
(* is the one the code holds in current.                                     *)
ReadLineKeeping(s, l) ==    \* slip: a field keeps its first value
  CASE s.at = "before" -> [s EXCEPT !.at = IF IsHeader(l) THEN "inside" ELSE "before"]
    [] s.at = "inside" /\ l.indent = 0 -> [s EXCEPT !.at = "after"]
    [] s.at = "inside" /\ Opens(l) ->
         [s EXCEPT !.entries = Append(@, [name |-> l.key, fields |-> NoFields])]
    [] s.at = "inside" /\ ~Opens(l) /\ s.entries # <<>> /\ l.indent >= 4 /\ l.key \in Fields /\ ~l.dash ->
         [s EXCEPT !.entries[Len(s.entries)].fields[l.key] = IF @ = "" THEN l.value ELSE @]
    [] OTHER -> s

ReadLine(s, l) ==
  CASE s.at = "before" -> [s EXCEPT !.at = IF IsHeader(l) THEN "inside" ELSE "before"]
    [] s.at = "inside" /\ l.indent = 0 -> [s EXCEPT !.at = "after"]
    [] s.at = "inside" /\ Opens(l) ->
         [s EXCEPT !.entries = Append(@, [name |-> l.key, fields |-> NoFields])]
    [] s.at = "inside" /\ ~Opens(l) /\ s.entries # <<>> /\ l.indent >= 4 /\ l.key \in Fields /\ ~l.dash ->
         [s EXCEPT !.entries[Len(s.entries)].fields[l.key] = l.value]
    [] OTHER -> s

(* The parser after i lines, and what it returns.                            *)
parser[i \in 0..Len(file)] ==
  IF i = 0 THEN [at |-> "before", entries |-> <<>>] ELSE ReadLine(parser[i - 1], file[i])

parse == parser[Len(file)].entries

containsYAMLKey(key) == \E i \in DOMAIN file : file[i].key = key /\ ~file[i].dash

NoDuplicates(es, entries) == \A i, j \in entries : es[i].name = es[j].name => i = j

(* The checks of one owner entry, and of a path that must be there.          *)
OwnerSound(e) ==
  /\ e.fields["owner"] \in AllowedOwners
  /\ e.name \notin Absolute
  /\ e.fields["review_required"] \in {"true", "false"}
  /\ e.fields["review_required"] = "true" => e.fields["review_rule"] # ""
  /\ e.fields["rationale"] # ""

requireRuntimeOwnerUnreviewed(es, path) ==    \* slip: review_required is not looked at
  \E i \in DOMAIN es : es[i].name = path /\ es[i].fields["owner"] = Required[path]

requireRuntimeOwner(es, path) ==
  \E i \in DOMAIN es :
    es[i].name = path /\ es[i].fields["owner"] = Required[path] /\ es[i].fields["review_required"] = "true"

ValidateRuntimeFileOwnership ==
  LET es == parse
  IN  /\ containsYAMLKey("schema_version") /\ containsYAMLKey("owners") /\ es # <<>>
      /\ NoDuplicates(es, DOMAIN es)
      /\ \A i \in DOMAIN es : OwnerSound(es[i])
      /\ \A path \in DOMAIN Required : requireRuntimeOwner(es, path)

(* The checks of one context, and of the values two of them must have.       *)
ContextSound(e) ==
  /\ e.name \in Expected
  /\ e.fields["write_scope"] # "" /\ e.fields["requires_gowork"] # ""
  /\ e.fields["mutates_files"] \in {"true", "false"}
  /\ e.fields["release_evidence"] \in {"true", "false"}
  /\ \A f \in PathFields : e.fields[f] \notin Absolute

requireContextValue(e, f, want) == e.fields[f] \in {"", want}

LocalWriteSound(e) ==
  requireContextValue(e, "mutates_files", "true") /\ requireContextValue(e, "release_evidence", "false")

ReleaseVerifySound(e) ==
  /\ requireContextValue(e, "mutates_files", "false")
  /\ requireContextValue(e, "release_evidence", "true")
  /\ requireContextValue(e, "requires_gowork", "off")

ValidateExecutionContext ==
  LET es == parse
      named == {i \in DOMAIN es : es[i].name # ""}
  IN  /\ containsYAMLKey("schema_version") /\ containsYAMLKey("contexts") /\ es # <<>>
      /\ NoDuplicates(es, named)
      /\ \A i \in named :
           /\ ContextSound(es[i])
           /\ es[i].name = "local_write" => LocalWriteSound(es[i])
           /\ es[i].name = "release_verify" => ReleaseVerifySound(es[i])
      /\ \A i, j \in named :
           es[i].name = "local_write" /\ es[j].name = "release_verify" => es[i].fields # es[j].fields
      /\ \A c \in Expected : \E i \in named : es[i].name = c

Passes == IF kind = "owners" THEN ValidateRuntimeFileOwnership ELSE ValidateExecutionContext
-----------------------------------------------------------------------------
(* The file read as a whole, by positions: the block is what follows the     *)
(* first header up to the next line that is not indented, an entry of the    *)
(* file is any of its lines at indentation 2, and a field belongs to the     *)
(* nearest entry above it.                                                   *)
Block ==
  {i \in DOMAIN file :
     \E h \in 1..(i - 1) :
       /\ IsHeader(file[h]) /\ \A j \in 1..(h - 1) : ~IsHeader(file[j])
       /\ \A j \in (h + 1)..i : file[j].indent > 0}

EntriesWritten == {i \in Block : file[i].indent = 2}

FieldLines(e, f) ==
  {i \in Block : i > e /\ file[i].key = f /\ ~file[i].dash /\ file[i].indent >= 4
                 /\ \A j \in EntriesWritten : ~(e < j /\ j < i)}

Written(e, f) ==
  LET ls == FieldLines(e, f)
  IN  IF ls = {} THEN "" ELSE file[CHOOSE i \in ls : \A j \in ls : j <= i].value

(* What the line parser is made for: within the block no indentation but 2   *)
(* and 4, and entries that stand alone on their line.                        *)
Plain == \A i \in Block : file[i].indent \in {2, 4} /\ (file[i].indent = 2 => Opens(file[i]))

(* The parser attributes each field of a plain file to the entry it is       *)
(* written under, whatever is repeated, missing, or in another order, and    *)
(* reads the entries in the order they are written in.                       *)
Position(e) == Cardinality({j \in EntriesWritten : j <= e})
ReadAsWritten ==
  Plain =>
    /\ Len(parse) = Cardinality(EntriesWritten)
    /\ \A e \in EntriesWritten :
         parse[Position(e)] = [name |-> file[e].key, fields |-> [f \in Fields |-> Written(e, f)]]

(* A plain file that passes says what its gate promises: each required path  *)
(* is written once, with the owner it must have and a reviewed change rule;  *)
(* each expected context is written once and no other, local_write mutates   *)
(* files and release_verify does not.                                        *)
WrittenOnce(name) == {e \in EntriesWritten : file[e].key = name}
PassedIsSafe ==
  Plain /\ Passes =>
    IF kind = "owners"
    THEN \A path \in DOMAIN Required : \E e \in EntriesWritten :
           /\ WrittenOnce(path) = {e}
           /\ Written(e, "owner") = Required[path]
           /\ Written(e, "review_required") = "true" /\ Written(e, "review_rule") # ""
    ELSE /\ {file[e].key : e \in EntriesWritten} \ {""} = Expected
         /\ \A c \in Expected : \E e \in EntriesWritten :
              /\ WrittenOnce(c) = {e}
              /\ c = "local_write" => Written(e, "mutates_files") = "true" /\ Written(e, "release_evidence") = "false"
              /\ c = "release_verify" => Written(e, "mutates_files") = "false" /\ Written(e, "requires_gowork") = "off"
=============================================================================
