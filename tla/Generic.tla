------------------------------ MODULE Generic ------------------------------
(***************************************************************************)
(* internal/packages/generic: any file, under any version.  readParams has *)
(* accepted the names; the body is not looked at.                          *)
(***************************************************************************)
EXTENDS Hosted

GenUpload(p, n, c) ==
    \/ IngestDenied /\ AnswerAtOnce(p, Status("403"))
    \/ /\ ~IngestDenied
       /\ Begin(p, "svcPackage", [NoLocal EXCEPT !.op = "upload", !.name = n, !.sha = c])

\* readParams refuses a name that cannot be one.
GenRefuse(p) == AnswerAtOnce(p, Status("400"))

GenStore(p) ==
    /\ rq[p].op = "upload"
    /\ \/ GetOrCreatePackage(p)
       \/ GetOrAddVersion(p, None)
       \/ CreateFile(p, Created(p, {rq[p].name}), Respond(p, "409"))

GenFound(n) == FileRows(n)

GenDownload(p, n) == ServeFile(p, GenFound(n))

GenDeleteFile(p, n) ==
    BeginDelete(p, "delFile", [NoLocal EXCEPT !.op = "delete", !.name = n], {n})
GenDeleteStep(p) == DeleteLookup(p, GenFound(rq[p].name)) \/ DeleteCount(p) \/ DeleteApply(p)

GenDeleteVersion(p, n) ==
    BeginDelete(p, "delVersion", [NoLocal EXCEPT !.op = "delete", !.name = n],
                {m \in Names : VerOf[fmt][m] = VerOf[fmt][n]})
GenDeleteVersionStep(p) == DeleteLookupVersion(p, VersionOf(p))

GenNext(p) ==
    \/ \E n \in repo.names, c \in Bodies[fmt] : GenUpload(p, n, c)
    \/ \E n \in repo.names : GenDownload(p, n) \/ GenDeleteFile(p, n) \/ GenDeleteVersion(p, n)
    \/ GenRefuse(p)
    \/ GenStore(p) \/ GenDeleteStep(p) \/ GenDeleteVersionStep(p)
=============================================================================
