------------------------------ MODULE RubyGems ------------------------------
(***************************************************************************)
(* internal/packages/rubygems: push, yank, /info, /versions, and the       *)
(* download of a .gem with the pull-through of a missing one.  Steps are   *)
(* cut as in PyPI.  What differs: a push goes through                      *)
(* CreatePackageAndAddFile, the checksum is always there, the license is   *)
(* inside the gem, and known gems are never merged with upstream's index.  *)
(***************************************************************************)
EXTENDS Registry

CONSTANT LicenseOf     \* the license in a gem's metadata

ASSUME LicenseOfAssumption == LicenseOf \in [Contents -> License]

\* uploadPackageFile, up to checkIngest.
Upload(p, f, c) ==
    LET d == Evaluate(rule, VerOf[f], [lic |-> LicenseOf[c], pub |-> FALSE]) IN
    Begin(p, IF d = "deny" THEN "refuse" ELSE "gate",
          [NoLocal EXCEPT !.op = "upload", !.file = f, !.sha = c, !.lic = LicenseOf[c]])

Refuse(p) ==
    /\ pc[p] = "refuse"
    /\ Respond(p, "403")
    /\ UNCHANGED <<rows, world, history>>

\* The provenance gate: 409 when the gem is mirrored from upstream.
ProvenanceGate(p) ==
    /\ pc[p] = "gate"
    /\ \/ pkg.via = "pull_through" /\ Respond(p, "409")
       \/ /\ pkg.via # "pull_through"
          /\ Goto(p, "svcPackage")
          /\ UNCHANGED <<rq, resp>>
    /\ UNCHANGED <<rows, world, history>>

\* CreatePackageAndAddFile.
UploadStore(p) ==
    /\ rq[p].op = "upload"
    /\ \/ GetOrCreatePackage(p, "uploaded")
       \/ AddVersion(p, "svcFile", Respond(p, "500"))
       \/ CreateFile(p, "upload", "setLicense", Respond(p, "500"), Respond(p, "500"))

\* The license is recorded after the file, errors ignored; then 201.
SetLicense(p) ==
    /\ pc[p] = "setLicense"
    /\ \/ rq[p].lic # "none" /\ versions' =
            Updated(rq[p].verId, LAMBDA r : [r EXCEPT !.lic = rq[p].lic])
       \/ (rq[p].lic = "none" \/ "fail" \in Env) /\ UNCHANGED versions
    /\ Respond(p, "201")
    /\ UNCHANGED <<pkg, files, world, history>>

-----------------------------------------------------------------------------
Yank(p, f) == Begin(p, "yank", [NoLocal EXCEPT !.op = "yank", !.file = f])

\* yankPackageVersion: the version is looked up ...
YankLookup(p) ==
    /\ pc[p] = "yank"
    /\ \/ \E r \in VersionRows(pkg.id, VerOf[rq[p].file]) :
            /\ rq' = [rq EXCEPT ![p].verId = r.id]
            /\ Goto(p, "yankUpdate")
            /\ UNCHANGED resp
       \/ /\ VersionRows(pkg.id, VerOf[rq[p].file]) = {}
          /\ Respond(p, "404")
    /\ UNCHANGED <<rows, world, history>>

\* ... and QuarantineVersion marks it, unless it is gone by now.
YankUpdate(p) ==
    /\ pc[p] = "yankUpdate"
    /\ versions' = Updated(rq[p].verId, LAMBDA r : [r EXCEPT !.quar = TRUE])
    /\ Respond(p, IF \E r \in versions : r.id = rq[p].verId THEN "200" ELSE "500")
    /\ UNCHANGED <<pkg, files, world, history>>

-----------------------------------------------------------------------------
Download(p, f) == Begin(p, "lookup", [NoLocal EXCEPT !.op = "download", !.file = f])

\* A gem that findByFilename does not find with its file goes upstream.
PullsThrough(f) == mode

\* downloadPackageFile: serve the local gem if checkRead lets it, else pull
\* through.
LookupFile(p) ==
    LET f == rq[p].file IN
    /\ pc[p] = "lookup"
    /\ \/ \E h \in Found(f) :
            IF IsBlocked(Evaluate(rule, VerOf[f], AttrsOf(h[1])))
              THEN Respond(p, "403")
              ELSE ServeBytes(p, h[2].sha)
       \/ Found(f) = {} /\ ~PullsThrough(f) /\ Respond(p, "404")
       \/ /\ Found(f) = {} /\ PullsThrough(f)
          /\ Goto(p, "fetchInfo")
          /\ UNCHANGED <<rq, resp>>
    /\ UNCHANGED <<rows, world, history>>

\* servePullThroughGem: upstream's compact index has the checksum.
FetchInfo(p) ==
    LET f == rq[p].file IN
    /\ pc[p] = "fetchInfo"
    /\ \/ /\ ~mode \/ up[f] = NoContent
          /\ Respond(p, "404")
       \/ /\ mode /\ up[f] # NoContent
          /\ rq' = [rq EXCEPT ![p].want = up[f]]
          /\ Goto(p, "ingestGate")
          /\ UNCHANGED resp
    /\ UNCHANGED <<rows, world, history>>

\* The publish time, best effort, and the ActionIngest gate, which stops on Deny
\* only.
IngestGate(p) ==
    /\ pc[p] = "ingestGate"
    /\ \E b \in BOOLEAN :
          IF Evaluate(rule, VerOf[rq[p].file], [lic |-> "none", pub |-> b]) = "deny"
            THEN Respond(p, "403")
            ELSE /\ rq' = [rq EXCEPT ![p].havePub = b]
                 /\ Goto(p, "fetchBlob")
                 /\ UNCHANGED resp
    /\ UNCHANGED <<rows, world, history>>

\* The compact index's checksum against the bytes that came.
ChecksumIgnored(w, c) == TRUE
ChecksumMatches(w, c) == w = c

\* The gem itself, with the license in its metadata.  A tenant whose upstream
\* was switched off meanwhile gets a 502.
FetchBlob(p) ==
    LET c == up[rq[p].file] IN
    /\ pc[p] = "fetchBlob"
    /\ \/ ~mode /\ Respond(p, "502")
       \/ mode /\ c = NoContent /\ Respond(p, "404")
       \/ mode /\ c # NoContent /\ ~ChecksumMatches(rq[p].want, c) /\ Respond(p, "502")
       \/ /\ mode /\ c # NoContent /\ ChecksumMatches(rq[p].want, c)
          /\ rq' = [rq EXCEPT ![p].sha = c, ![p].lic = LicenseOf[c]]
          /\ Goto(p, "svcPackage")
          /\ UNCHANGED resp
    /\ UNCHANGED <<rows, world, history>>

\* CreatePackageOrAddFileToExisting; a gem that is already there is served.
PullThroughStore(p) ==
    /\ rq[p].op = "download"
    /\ \/ GetOrCreatePackage(p, "pull_through")
       \/ GetOrAddVersion(p, "svcFile", Respond(p, "502"))
       \/ CreateFile(p, "upstream", "relookup",
                     Goto(p, "relookup") /\ UNCHANGED <<rq, resp>>,
                     Respond(p, "502"))

\* The package row is looked up again; the version is the service's.
Relookup(p) ==
    /\ pc[p] = "relookup"
    /\ \/ pkg.id = 0 /\ Respond(p, "502")
       \/ /\ pkg.id # 0
          /\ Goto(p, "stamp")
          /\ UNCHANGED <<rq, resp>>
    /\ UNCHANGED <<rows, world, history>>

\* Where the row as loaded has none, the publish time ...
Stamp(p) ==
    LET due == rq[p].havePub /\ ~rq[p].attrs.pub IN
    /\ pc[p] = "stamp"
    /\ \/ due /\ versions' = Updated(rq[p].verId, LAMBDA r : [r EXCEPT !.pub = TRUE])
       \/ (~due \/ "fail" \in Env) /\ UNCHANGED versions
    /\ Goto(p, "stampLicense")
    /\ UNCHANGED <<pkg, files, world, rq, resp, history>>

\* ... and the license are recorded, errors ignored.
StampLicense(p) ==
    LET due == rq[p].lic # "none" /\ rq[p].attrs.lic = "none" IN
    /\ pc[p] = "stampLicense"
    /\ \/ due /\ versions' =
            Updated(rq[p].verId, LAMBDA r : [r EXCEPT !.lic = rq[p].lic])
       \/ (~due \/ "fail" \in Env) /\ UNCHANGED versions
    /\ Goto(p, "readGate")
    /\ UNCHANGED <<pkg, files, world, rq, resp, history>>

\* The ActionRead gate sees the row as loaded, patched with the publish time.
GateAttrs(p) == [rq[p].attrs EXCEPT !.pub = @ \/ rq[p].havePub]

DeniedOnly(p) == Evaluate(rule, VerOf[rq[p].file], GateAttrs(p)) = "deny"
ReadBlocked(p) == IsBlocked(Evaluate(rule, VerOf[rq[p].file], GateAttrs(p)))

ReadGate(p) ==
    /\ pc[p] = "readGate"
    /\ \/ /\ ReadBlocked(p)
          /\ Respond(p, "403")
       \/ /\ ~ReadBlocked(p)
          /\ Goto(p, "serve")
          /\ UNCHANGED <<rq, resp>>
    /\ UNCHANGED <<rows, world, history>>

\* The persisted gem is served.
Serve(p) ==
    /\ pc[p] = "serve"
    /\ \/ \E x \in FileRows(rq[p].verId, rq[p].file) : ServeBytes(p, x.sha)
       \/ /\ FileRows(rq[p].verId, rq[p].file) = {}
          /\ Respond(p, "502")
    /\ UNCHANGED <<rows, world, history>>

PullThrough(p) ==
    FetchInfo(p) \/ IngestGate(p) \/ FetchBlob(p) \/ PullThroughStore(p)
        \/ Relookup(p) \/ Stamp(p) \/ StampLicense(p) \/ ReadGate(p) \/ Serve(p)

-----------------------------------------------------------------------------
\* filterReadable: the versions listings show.
Readable == {r \in versions : r.pkg = pkg.id /\ ~r.quar
                              /\ ~IsBlocked(Evaluate(rule, r.ver, AttrsOf(r)))}

\* buildInfoFile fails on a version that has no file to quote a checksum of.
NoLeadFile(r) == \A x \in files : x.vid # r.id
InfoFails == \E r \in Readable : NoLeadFile(r)

Listed == {f \in Files : \E r \in Readable : r.ver = VerOf[f]}
OkListing(l, u) == [NoResp EXCEPT !.code = "200", !.local = l, !.up = u]

\* The compact-index lines of upstream that passthroughBlocked lets through; b
\* tells whether publish times could be fetched.
UpstreamLines(b) == {f \in Files :
    /\ up[f] # NoContent
    /\ ~IsBlocked(Evaluate(rule, VerOf[f], [lic |-> "none", pub |-> b]))}

Info(p) == Begin(p, "info", [NoLocal EXCEPT !.op = "index"])

\* servePackageInfo.
ServeInfo(p) ==
    /\ pc[p] = "info"
    /\ \/ pkg.id = 0 /\ ~mode /\ Respond(p, "404")
       \/ /\ pkg.id = 0 /\ mode
          /\ Goto(p, "infoUpstream")
          /\ UNCHANGED <<rq, resp>>
       \/ pkg.id # 0 /\ Readable = {} /\ Respond(p, "404")
       \/ pkg.id # 0 /\ InfoFails /\ Respond(p, "500")
       \/ /\ pkg.id # 0 /\ Readable # {} /\ ~InfoFails
          /\ RespondWith(p, OkListing(Listed, {}))
    /\ UNCHANGED <<rows, world, history>>

\* servePullThroughInfo.
InfoUpstream(p) ==
    /\ pc[p] = "infoUpstream"
    /\ \E b \in BOOLEAN :
          IF ~mode \/ UpstreamLines(b) = {}
            THEN Respond(p, "404")
            ELSE RespondWith(p, OkListing({}, UpstreamLines(b)))
    /\ UNCHANGED <<rows, world, history>>

Versions(p) == Begin(p, "versions", [NoLocal EXCEPT !.op = "index"])

\* serveVersionsFile: one bad gem fails the listing of the whole tenant.
ServeVersions(p) ==
    /\ pc[p] = "versions"
    /\ \/ InfoFails /\ Respond(p, "500")
       \/ ~InfoFails /\ RespondWith(p, OkListing(Listed, {}))
    /\ UNCHANGED <<rows, world, history>>

-----------------------------------------------------------------------------
Arrive(p) ==
    \/ \E f \in Files, c \in Contents : Upload(p, f, c)
    \/ \E f \in Files : Download(p, f) \/ Yank(p, f)
    \/ Info(p) \/ Versions(p)

Step(p) ==
    \/ Refuse(p) \/ ProvenanceGate(p) \/ UploadStore(p) \/ SetLicense(p)
    \/ YankLookup(p) \/ YankUpdate(p)
    \/ LookupFile(p) \/ PullThrough(p)
    \/ ServeInfo(p) \/ InfoUpstream(p) \/ ServeVersions(p)

Next == (\E p \in Procs : Arrive(p) \/ Step(p)) \/ Environment

Spec == Init /\ [][Next]_vars
=============================================================================
