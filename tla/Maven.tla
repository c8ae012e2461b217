------------------------------- MODULE Maven -------------------------------
(***************************************************************************)
(* internal/packages/maven.  Uploads of one package are serialised by the  *)
(* ExclusivePool; a pom brings the metadata of its version; a checksum     *)
(* file is compared with the stored file and not stored.                   *)
(***************************************************************************)
EXTENDS Hosted

CONSTANT Pom     \* the name that is a pom

PomParses(c) == c \notin Malformed

\* maven-metadata.xml of a package is regenerated: an upload of it is ignored.
MvnMetadataUpload(p) == AnswerAtOnce(p, Status("200"))

MvnUpload(p, n, c) ==
    Begin(p, "mvnCheckIn", [NoLocal EXCEPT !.op = "upload", !.name = n, !.sha = c])
MvnChecksumUpload(p, n, c) ==
    Begin(p, "mvnCheckIn", [NoLocal EXCEPT !.op = "checksum", !.name = n, !.sha = c])

MvnCheckIn(p) ==
    /\ pc[p] = "mvnCheckIn"
    /\ holder = None
    /\ holder' = p
    /\ Goto(p, IF rq[p].op = "checksum" THEN "mvnVerify" ELSE "mvnParse")
    /\ answer' = NoAnswer
    /\ UNCHANGED <<repo, rows, keys, verdict, rq, events, hist>>

\* verifyChecksumUpload: the hash sent against the stored file's.
MvnVerifyChecksum(p) ==
    /\ pc[p] = "mvnVerify"
    /\ \/ FileRows(rq[p].name) = {} /\ Respond(p, "404")
       \/ \E f \in FileRows(rq[p].name) : Respond(p, IF f.sha = rq[p].sha THEN "200" ELSE "400")
    /\ UNCHANGED <<repo, rows, keys, verdict, events>>

MvnParse(p) ==
    /\ pc[p] = "mvnParse"
    /\ \/ rq[p].name = Pom /\ ~PomParses(rq[p].sha) /\ Respond(p, "400")
       \/ /\ rq[p].name # Pom \/ PomParses(rq[p].sha)
          /\ \/ IngestDenied /\ Respond(p, "403")
             \/ ~IngestDenied /\ Continue(p, "svcPackage", rq[p])
    /\ UNCHANGED <<repo, rows, keys, verdict, events>>

MvnMeta(p) == IF rq[p].name = Pom THEN rq[p].sha ELSE None

MvnStore(p) ==
    /\ rq[p].op = "upload"
    /\ \/ GetOrCreatePackage(p)
       \/ GetOrAddVersion(p, MvnMeta(p))
       \/ CreateFile(p, IF rq[p].name = Pom THEN Continue(p, "mvnBackfill", rq[p])
                        ELSE Created(p, {rq[p].name}),
                     Respond(p, "409"))

\* A jar may have made the version before its pom came: UpdateVersionMetadata,
\* which fails when the version is gone, and SetLicense.
MvnNoBackfill(p) ==
    /\ pc[p] = "mvnBackfill"
    /\ Continue(p, "setLicense", rq[p])
    /\ UNCHANGED <<repo, rows, keys, verdict, events>>
MvnBackfill(p) ==
    LET mine == {v \in versions : v.id = rq[p].verId} IN
    /\ pc[p] = "mvnBackfill"
    /\ \/ mine = {} /\ Respond(p, "500") /\ UNCHANGED versions
       \/ /\ mine # {}
          /\ versions' = (versions \ mine) \cup {[v EXCEPT !.meta = rq[p].sha] : v \in mine}
          /\ Continue(p, "setLicense", rq[p])
    /\ UNCHANGED <<repo, pkg, files, keys, verdict, events>>
MvnLicense(p) == SetLicense(p, Created(p, {rq[p].name}))

\* servePackageFile: a quarantined version is not found; a checksum comes from
\* the blob's row.
MvnDownload(p, n) ==
    ServeFile(p, {f \in FileRows(n) : \E v \in versions : v.id = f.vid /\ ~v.quar})

\* serveMavenMetadata: the versions that are not quarantined, with or without
\* files.
MvnVisible == {v \in versions : ~v.quar}
MvnMetadata(p) ==
    AnswerAtOnce(p, [Status(IF MvnVisible = {} THEN "404" ELSE "200") EXCEPT
                       !.bare = \E v \in MvnVisible : \A f \in files : f.vid # v.id])

\* A malformed path: extractPathParameters.
MvnBadPath(p) == AnswerAtOnce(p, Status("400"))

MvnNext(p) ==
    \/ \E n \in repo.names, c \in Bodies[fmt] : MvnUpload(p, n, c) \/ MvnChecksumUpload(p, n, c)
    \/ \E n \in repo.names : MvnDownload(p, n)
    \/ MvnMetadataUpload(p) \/ MvnMetadata(p) \/ MvnBadPath(p)
    \/ MvnCheckIn(p) \/ MvnVerifyChecksum(p) \/ MvnParse(p) \/ MvnStore(p)
    \/ MvnBackfill(p) \/ MvnLicense(p)
=============================================================================
