-------------------------------- MODULE Cran --------------------------------
(***************************************************************************)
(* internal/packages/cran.  A stored name is                               *)
(* "type|platform|rversion|basename"; the index reads names and version    *)
(* metadata, never the properties; a delete takes the whole version.       *)
(***************************************************************************)
EXTENDS Hosted

CranParses(c) == c \notin Malformed

\* openUploadBody, uploadSource and uploadBinary lead here.
CranUpload(p, n, c) ==
    \/ ~CranParses(c) /\ AnswerAtOnce(p, Status("400"))
    \/ CranParses(c) /\ IngestDenied /\ AnswerAtOnce(p, Status("403"))
    \/ /\ CranParses(c) /\ ~IngestDenied
       /\ Begin(p, "svcPackage", [NoLocal EXCEPT !.op = "upload", !.name = n, !.sha = c])

\* The properties, two more for a binary, are read by nobody: one step.
CranProps == <<"coordinates">>

CranStore(p) ==
    /\ rq[p].op = "upload"
    /\ \/ GetOrCreatePackage(p)
       \/ GetOrAddVersion(p, None)
       \/ CreateFile(p, Continue(p, "setLicense", [rq[p] EXCEPT !.fileId = FreshFile(rq[p].name)]),
                     Respond(p, "409"))
       \/ SetLicense(p, Continue(p, "setProps", [rq[p] EXCEPT !.todo = CranProps]))
       \/ SetProperties(p, Created(p, {rq[p].name}))

\* servePackagesIndex: an empty index is served too.
CranIndex(p) == AnswerAtOnce(p, Status("200"))

CranFound(n) == FileRows(n)

CranDownload(p, n) == ServeFile(p, CranFound(n))

CranDelete(p, n) ==
    BeginDelete(p, "delVersion", [NoLocal EXCEPT !.op = "delete", !.name = n],
                {m \in Names : VerOf[fmt][m] = VerOf[fmt][n]})
CranDeleteStep(p) == DeleteLookupVersion(p, VersionOf(p)) \/ DeleteApply(p)

CranNext(p) ==
    \/ \E n \in repo.names, c \in Bodies[fmt] : CranUpload(p, n, c)
    \/ \E n \in repo.names : CranDownload(p, n) \/ CranDelete(p, n)
    \/ CranIndex(p) \/ CranStore(p) \/ CranDeleteStep(p)
=============================================================================
