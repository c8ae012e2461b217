---------------------------- MODULE MC_Upstream ----------------------------
(* A small instance of Upstream. *)
EXTENDS Upstream, TLC

CONSTANTS t1, t2, index, page, project, wheel, pypi, home, mirror, files

Format == [d \in Docs |-> pypi]
Absolute == [d \in Docs |-> IF d = wheel THEN files ELSE None]
Sizes == (index :> {1, 3} @@ page :> {1} @@ project :> {2} @@ wheel :> {1, 4})
Default == [f \in Formats |-> home]
Row(off, url, ttl) == [off |-> off, url |-> url, ttl |-> ttl]
SomeRows == {Row(FALSE, mirror, 1), Row(TRUE, None, 0)}
Scenario(what, time, edited) == [asks |-> what, time |-> time, edited |-> edited]
Some == {Scenario({<<t1, index>>, <<t1, project>>}, 2, {}),
         Scenario({<<t1, page>>, <<t2, page>>}, 3, {t1}),
         Scenario({<<t1, wheel>>}, 1, {})}

Symmetry == Permutations(Callers)
=============================================================================
