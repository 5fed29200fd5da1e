--------------------------- MODULE MCReleaseCheck ---------------------------
(***************************************************************************)
(* ReleaseCheck over trees that differ in what the gates look at: P0 debt  *)
(* behind a file that cannot be read, the P1 debt that is just allowed,    *)
(* one P1 finding more, P0 debt in a Go file, and a neglected repository.  *)
(***************************************************************************)
EXTENDS ReleaseCheck

File(kind, readable, marks) == [kind |-> kind, readable |-> readable, marks |-> marks]
Registry(text, flaws) == [registry |-> [text |-> text, yaml |-> TRUE, flaws |-> flaws]]
Tidy == Registry("given", {})

Repo(list, missing, required) == [files |-> list, missing |-> missing, required |-> required]
Tree(digest, contracts, quality, repo) ==
  [digest |-> digest, contracts |-> contracts, dependencies |-> "deps", quality |-> quality, debt |-> repo]

Hidden ==
  Tree("hidden", "c1", 10,
       Repo(<<File("go", TRUE, {}), File("other", FALSE, {}), File("other", TRUE, {"private-key"})>>, {}, Tidy))
Allowed ==
  Tree("allowed", "c2", 10,
       Repo(<<File("go", TRUE, {"docs-marker"}), File("other", TRUE, {"curl-pipe-bash"})>>, {}, Tidy))
TooMuch ==
  Tree("too-much", "c1", 10,
       Repo(<<File("go", TRUE, {"docs-marker", "testing-marker"})>>, {}, Registry("given", {"placeholder"})))
Legacy ==
  Tree("legacy", "c1", 10, Repo(<<File("go", TRUE, {"legacy-import"})>>, {}, Tidy))
Neglected ==
  Tree("neglected", "c1", 9, Repo(<<File("go", TRUE, {})>>, {"rules.yaml"}, Registry("empty", {})))

SomeTrees == {Hidden, Allowed, TooMuch, Legacy, Neglected}
=============================================================================
