-------------------------------- MODULE Rpm --------------------------------
(***************************************************************************)
(* internal/packages/rpm.  A stored name is "group|architecture|basename"; *)
(* every file of repodata/ is built and signed for each request.           *)
(***************************************************************************)
EXTENDS Hosted

RpmParses(c) == c \notin Malformed

RpmUpload(p, n, c) ==
    \/ ~RpmParses(c) /\ AnswerAtOnce(p, Status("400"))
    \/ RpmParses(c) /\ IngestDenied /\ AnswerAtOnce(p, Status("403"))
    \/ /\ RpmParses(c) /\ ~IngestDenied
       /\ Begin(p, "svcPackage", [NoLocal EXCEPT !.op = "upload", !.name = n, !.sha = c])

\* The group and the architecture are read by nobody: one step.
RpmCoordinatesOnly == <<"coordinates">>
RpmProps == <<"coordinates", "metadata">>

RpmStore(p) ==
    /\ rq[p].op = "upload"
    /\ \/ GetOrCreatePackage(p)
       \/ GetOrAddVersion(p, None)
       \/ CreateFile(p, Continue(p, "setProps", [rq[p] EXCEPT !.fileId = FreshFile(rq[p].name),
                                                              !.todo = RpmProps]),
                     Respond(p, "409"))
       \/ SetProperties(p, Continue(p, "setLicense", rq[p]))
       \/ SetLicense(p, Created(p, {rq[p].name}))

RpmFound(n) == FileRows(n)

RpmDownload(p, n) == ServeFile(p, RpmFound(n))

RpmDelete(p, n) ==
    BeginDelete(p, "delFile", [NoLocal EXCEPT !.op = "delete", !.name = n], {n})
RpmDeleteStep(p) == DeleteLookup(p, RpmFound(rq[p].name)) \/ DeleteCount(p) \/ DeleteApply(p)

\* getRepoConfig: a text made from the URL.
RpmRepoConfig(p) == AnswerAtOnce(p, Status("200"))

\* The key is looked for under the ExclusivePool key "<tenant>|rpm-key".
RpmKeyEntry == "keyCheckIn"

\* loadEntriesForGroup.
RpmEntries == Listed(None)

\* getRepoFile and buildBundle: the entries, the key, the signed bundle.
RpmRepoFile(p) == Begin(p, "listRows", [NoLocal EXCEPT !.op = "repodata"])
RpmBundle(p) ==
    \/ ListRows(p, RpmEntries)
    \/ SignIndex(p, RpmKeyEntry, "metadata")

RpmGetKey(p) == Begin(p, RpmKeyEntry, [NoLocal EXCEPT !.op = "key"])

RpmNext(p) ==
    \/ \E n \in repo.names, c \in Bodies[fmt] : RpmUpload(p, n, c)
    \/ \E n \in repo.names : RpmDownload(p, n) \/ RpmDelete(p, n)
    \/ RpmRepoConfig(p) \/ RpmRepoFile(p) \/ RpmGetKey(p)
    \/ RpmStore(p) \/ RpmDeleteStep(p) \/ RpmBundle(p) \/ KeyStep(p)
=============================================================================
