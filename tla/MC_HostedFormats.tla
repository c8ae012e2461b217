-------------------------- MODULE MC_HostedFormats --------------------------
(* A small instance of HostedFormats: two files, of one version except in npm. *)
EXTENDS HostedFormats, TLC

CONSTANTS n1, n2, v1, v2, x, y, bad

Both == {n1, n2}
Few == {"rule", "delete", "quarantine", "fail", "crash"}
Repo(f, names, keyed, env) == [fmt |-> f, names |-> names, keyed |-> keyed, env |-> env]

\* A repository either has two files to fight over or its key still to make.
AllRepos ==
    {Repo(f, {n1}, FALSE, Few) : f \in {"debian", "rpm"}}
      \cup {Repo("alpine", Both, TRUE, {"delete", "fail"}), Repo("alpine", {}, FALSE, {"deletekey"})}
      \cup {Repo(f, Both, FALSE, Few) : f \in {"generic", "cran", "maven", "nuget", "npm"}}

AllFormats == {r.fmt : r \in AllRepos}

Versions == [f \in AllFormats |->
    IF f = "npm" THEN (n1 :> v1 @@ n2 :> v2) ELSE (n1 :> v1 @@ n2 :> v1)]

Sent == [f \in AllFormats |->
    CASE f = "maven" -> {x, y, bad} [] f = "generic" -> {x} [] OTHER -> {x, bad}]

\* The status code is for the reader; no property looks at it.
View == <<repo, rows, keys, verdict, ctl, events, hist, answer.bare, answer.met>>

Symmetry == Permutations(Procs)
=============================================================================
