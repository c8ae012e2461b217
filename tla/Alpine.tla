------------------------------- MODULE Alpine -------------------------------
(***************************************************************************)
(* internal/packages/alpine.  A stored name is                             *)
(* "branch|repository|architecture|basename".  A noarch package is stored  *)
(* once for every architecture the repository has, one ingest after the    *)
(* other.  No lock guards the first generation of the key.                 *)
(***************************************************************************)
EXTENDS Hosted

CONSTANT DefaultName     \* the name a noarch package gets in an empty repository

ASSUME DefaultNameAssumption == DefaultName \in Names

ApkParses(c) == c \notin Malformed

\* A package of one architecture, or of none (n = None).
ApkUpload(p, n, c) ==
    \/ ~ApkParses(c) /\ AnswerAtOnce(p, Status("400"))
    \/ /\ ApkParses(c)
       /\ Begin(p, "arches", [NoLocal EXCEPT !.op = "upload", !.name = n, !.sha = c])

\* distinctArchitectures: quarantined versions count.
DistinctNames == {f.name : f \in files}
ApkArches(p) ==
    LET n == rq[p].name
        names == IF n # None THEN {n}
                 ELSE IF DistinctNames = {} THEN {DefaultName} ELSE DistinctNames IN
    /\ pc[p] = "arches"
    /\ Continue(p, "nextArch", [rq[p] EXCEPT !.rest = names])
    /\ UNCHANGED <<repo, rows, keys, verdict, events>>

\* The next round of the loop begins with checkIngest.
ApkNextArch(p) ==
    /\ pc[p] = "nextArch"
    /\ \/ IngestDenied /\ Respond(p, "403")
       \/ /\ ~IngestDenied
          /\ \E n \in rq[p].rest :
                Continue(p, "svcPackage", [rq[p] EXCEPT !.name = n, !.rest = @ \ {n}])
    /\ UNCHANGED <<repo, rows, keys, verdict, events>>

\* Branch, repository and architecture are read by nobody: one step.
ApkProps == <<"coordinates", "metadata">>

\* What was stored in earlier rounds stays when a later one fails.
ApkStore(p) ==
    /\ rq[p].op = "upload"
    /\ \/ GetOrCreatePackage(p)
       \/ GetOrAddVersion(p, None)
       \/ CreateFile(p, Continue(p, "setProps", [rq[p] EXCEPT !.fileId = FreshFile(rq[p].name),
                                                              !.todo = ApkProps]),
                     Respond(p, "409"))
       \/ SetProperties(p, Continue(p, "setLicense", rq[p]))
       \/ SetLicense(p, IF rq[p].rest = {} THEN Created(p, {rq[p].name})
                        ELSE Continue(p, "nextArch", rq[p]))

ApkFound(n) == FileRows(n)

ApkDownload(p, n) == ServeFile(p, ApkFound(n))

ApkDelete(p, n) ==
    BeginDelete(p, "delFile", [NoLocal EXCEPT !.op = "delete", !.name = n], {n})
ApkDeleteStep(p) == DeleteLookup(p, ApkFound(rq[p].name)) \/ DeleteCount(p) \/ DeleteApply(p)

\* loadIndexEntries.
ApkEntries(n) == Listed(n)

\* getRepositoryFile: APKINDEX.tar.gz of one architecture, signed.
ApkRepositoryFile(p, n) == Begin(p, "listRows", [NoLocal EXCEPT !.op = "index", !.name = n])
ApkIndex(p) ==
    \/ ListRows(p, ApkEntries(rq[p].name))
    \/ SignIndex(p, "keyPackage", "metadata")

ApkGetKey(p) == Begin(p, "keyPackage", [NoLocal EXCEPT !.op = "key"])

ApkNext(p) ==
    \/ \E n \in repo.names \cup {None}, c \in Bodies[fmt] : ApkUpload(p, n, c)
    \/ \E n \in repo.names : ApkDownload(p, n) \/ ApkDelete(p, n) \/ ApkRepositoryFile(p, n)
    \/ ApkGetKey(p)
    \/ ApkArches(p) \/ ApkNextArch(p) \/ ApkStore(p) \/ ApkDeleteStep(p) \/ ApkIndex(p)
    \/ KeyStep(p)
=============================================================================
