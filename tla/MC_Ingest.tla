----------------------------- MODULE MC_Ingest -----------------------------
(* Small instances of Ingest: which requests the clients send. *)
EXTENDS Ingest, TLC

CONSTANTS a, b,       \* package keys
          v1,         \* a version
          f, g,       \* file names
          x, y        \* contents

R(op, n, fl, s, pr) == [op |-> op, name |-> n, ver |-> v1, file |-> fl, sha |-> s,
                        via |-> "uploaded", props |-> pr]

\* Two uploads to one package with the same content, one to another package,
\* through both service functions, with and without properties.
MixedRequests == { R("orAdd", a, f, x, TRUE), R("add", a, g, x, FALSE),
                   R("orAdd", b, f, y, FALSE) }

\* A package uploaded earlier, and a second one that two clients create at once.
RacingRequests == { R("orAdd", b, f, y, FALSE), R("orAdd", a, g, x, FALSE) }

Symmetry == Permutations(Procs) \cup Permutations(Conns)
=============================================================================
