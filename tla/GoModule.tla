------------------------------ MODULE GoModule ------------------------------
(***************************************************************************)
(* What the Go module proxy keeps of a module beside the rows of Registry, *)
(* and what it promises about them.  Module GoProxy has the handlers.      *)
(***************************************************************************)
EXTENDS Registry

VARIABLE gomod    \* the go.mod properties, [vid, mod]

\* A version has one zip.
ASSUME OneZipAssumption == \A f, g \in Files : VerOf[f] = VerOf[g] => f = g

-----------------------------------------------------------------------------
\* A cooldown rule that stays in force keeps young versions from every client,
\* on all of .info, .mod and .zip, the one whose request fetched them included
\* ("the inflight client gets 403", goproxy/upstream.go).
YoungNeverAnswered == "rule" \notin Env => \A p \in Procs :
    resp[p].code = "200" /\ resp[p].file # NoFile =>
        ~ /\ rule.kind = "cooldown" /\ IsBlocked(rule.action)
          /\ VerOf[resp[p].file] \in Young

\* The .mod and the .zip of a version come from the same source tree, whoever
\* stored the version and whatever failed on the way, unless an upload and a
\* pull-through ran at the same time: the ingest "keeps the policy decision
\* consistent across all three endpoints for a single version"
\* (goproxy/upstream.go).  (They are fetched one after the other, and nothing
\* compares them: an upstream that replaces a version in between is not covered.)
ModMatchesZip == "upstream" \notin Env /\ ~overlapped =>
    \A x \in files, m \in gomod : m.vid = x.vid => m.mod = x.sha

=============================================================================
