------------------------------ MODULE GoProxy ------------------------------
(***************************************************************************)
(* internal/packages/goproxy: upload and the five endpoints of the Go      *)
(* module proxy, for one module.  A file is the zip of a version; the      *)
(* go.mod of a version is a property row, written between the version and  *)
(* the file.  The content of a go.mod is named after the source tree it    *)
(* belongs to.  Steps are cut as in PyPI; @latest picks any readable       *)
(* version, the order of created_unix being left out.                      *)
(***************************************************************************)
EXTENDS GoModule

goVars == <<vars, gomod>>

GoInit == Init /\ gomod = {}

Reads == {"info", "mod", "zip"}

\* upload, up to checkIngest, which refuses on Deny only.
Upload(p, f, c) ==
    /\ Begin(p, IF Evaluate(rule, VerOf[f], NoAttrs) = "deny" THEN "refuse" ELSE "gate",
             [NoLocal EXCEPT !.op = "upload", !.file = f, !.sha = c, !.want = c])
    /\ UNCHANGED gomod

Refuse(p) ==
    /\ pc[p] = "refuse"
    /\ Respond(p, "403")
    /\ UNCHANGED <<rows, world, history, gomod>>

\* The provenance gate: 409 when the module is mirrored from upstream.
ProvenanceGate(p) ==
    /\ pc[p] = "gate"
    /\ \/ pkg.via = "pull_through" /\ Respond(p, "409")
       \/ /\ pkg.via # "pull_through"
          /\ Goto(p, "svcPackage")
          /\ UNCHANGED <<rq, resp>>
    /\ UNCHANGED <<rows, world, history, gomod>>

\* CreatePackageAndAddFile, around SetGoMod; then 201.
UploadToExisting(p) ==
    /\ rq[p].op = "upload"
    /\ \/ GetOrCreatePackage(p, "uploaded")
       \/ GetOrAddVersion(p, "svcProps", Respond(p, "500"))
       \/ CreateFile(p, "upload", "created", Respond(p, "500"), Respond(p, "500"))
    /\ UNCHANGED gomod
UploadStore(p) ==
    /\ rq[p].op = "upload"
    /\ \/ GetOrCreatePackage(p, "uploaded")
       \/ AddVersion(p, "svcProps", Respond(p, "500"))
       \/ CreateFile(p, "upload", "created", Respond(p, "500"), Respond(p, "500"))
    /\ UNCHANGED gomod

\* The service's SetProperty.  (On a version deleted meanwhile it leaves a row
\* that no lookup finds; module Ingest has it.)
SetGoMod(p) ==
    /\ pc[p] = "svcProps"
    /\ gomod' = IF \E r \in versions : r.id = rq[p].verId
                  THEN {m \in gomod : m.vid # rq[p].verId}
                         \cup {[vid |-> rq[p].verId, mod |-> rq[p].want]}
                  ELSE gomod
    /\ Goto(p, "svcFile")
    /\ UNCHANGED <<rows, world, rq, resp, history>>

Created(p) ==
    /\ pc[p] = "created"
    /\ Respond(p, "201")
    /\ UNCHANGED <<rows, world, history, gomod>>

-----------------------------------------------------------------------------
\* A request for the .info, .mod or .zip of a version.
Get(p, op, f) ==
    /\ Begin(p, "resolve", [NoLocal EXCEPT !.op = op, !.file = f])
    /\ UNCHANGED gomod

\* The response from the rows of version r, policy aside.
GoModOf(p, r) ==
    \/ \E m \in gomod : m.vid = r.id /\ ServeBytes(p, m.mod)
    \/ (\A m \in gomod : m.vid # r.id) /\ Respond(p, "404")

ZipOf(p, r, missing) ==
    \/ \E x \in FileRows(r.id, rq[p].file) : ServeBytes(p, x.sha)
    \/ FileRows(r.id, rq[p].file) = {} /\ Respond(p, missing)

\* info, mod and zip: the version's row decides whether upstream is asked.
Resolve(p) ==
    LET rs == VersionRows(pkg.id, VerOf[rq[p].file]) IN
    /\ pc[p] = "resolve"
    /\ \/ \E r \in rs :
            IF IsBlocked(Evaluate(rule, r.ver, AttrsOf(r)))
                 /\ (rq[p].op = "zip" => FileRows(r.id, rq[p].file) # {})
              THEN Respond(p, "403")
              ELSE \/ rq[p].op = "info" /\ Respond(p, "200")
                   \/ rq[p].op = "mod" /\ GoModOf(p, r)
                   \/ rq[p].op = "zip" /\ ZipOf(p, r, "404")
       \/ rs = {} /\ ~mode /\ Respond(p, "404")
       \/ /\ rs = {} /\ mode
          /\ Goto(p, "fetchInfo")
          /\ UNCHANGED <<rq, resp>>
    /\ UNCHANGED <<rows, world, history, gomod>>

\* servePullThroughInfo, -Mod and -Zip: upstream's .info has the publish time.
FetchInfo(p) ==
    /\ pc[p] = "fetchInfo"
    /\ \/ /\ ~mode \/ up[rq[p].file] = NoContent
          /\ Respond(p, "404")
       \/ /\ mode /\ up[rq[p].file] # NoContent
          /\ Goto(p, "ingestGate")
          /\ UNCHANGED <<rq, resp>>
    /\ UNCHANGED <<rows, world, history, gomod>>

\* The verdict on a version known from its .info alone.
Published == [lic |-> "none", pub |-> TRUE]

\* The ActionIngest gate stops on Deny only.
IngestGate(p) ==
    /\ pc[p] = "ingestGate"
    /\ \/ /\ Evaluate(rule, VerOf[rq[p].file], Published) = "deny"
          /\ Respond(p, "403")
       \/ /\ Evaluate(rule, VerOf[rq[p].file], Published) # "deny"
          /\ Goto(p, "ingest")
          /\ UNCHANGED <<rq, resp>>
    /\ UNCHANGED <<rows, world, history, gomod>>

-----------------------------------------------------------------------------
\* pullThroughIngest.  Its errors are @latest's to ignore.
AfterIngest(p) ==
    /\ Goto(p, IF rq[p].op = "latest" THEN "answer" ELSE "readGate")
    /\ UNCHANGED <<rq, resp>>

IngestError(p, code) ==
    \/ rq[p].op = "latest" /\ AfterIngest(p)
    \/ rq[p].op # "latest" /\ Respond(p, code)

\* "Already persisted? Don't re-fetch."
AlreadyPersisted(p) == VersionRows(pkg.id, VerOf[rq[p].file]) # {}

IngestCheck(p) ==
    /\ pc[p] = "ingest"
    /\ \/ AlreadyPersisted(p) /\ AfterIngest(p)
       \/ /\ ~AlreadyPersisted(p)
          /\ Goto(p, "fetchMod")
          /\ UNCHANGED <<rq, resp>>
    /\ UNCHANGED <<rows, world, history, gomod>>

FetchMod(p) ==
    LET c == up[rq[p].file] IN
    /\ pc[p] = "fetchMod"
    /\ \/ (~mode \/ c = NoContent) /\ IngestError(p, "404")
       \/ /\ mode /\ c # NoContent
          /\ rq' = [rq EXCEPT ![p].want = c]
          /\ Goto(p, "fetchZip")
          /\ UNCHANGED resp
    /\ UNCHANGED <<rows, world, history, gomod>>

FetchZip(p) ==
    LET c == up[rq[p].file] IN
    /\ pc[p] = "fetchZip"
    /\ \/ (~mode \/ c = NoContent) /\ IngestError(p, "404")
       \/ /\ mode /\ c # NoContent
          /\ rq' = [rq EXCEPT ![p].sha = c]
          /\ Goto(p, "svcPackage")
          /\ UNCHANGED resp
    /\ UNCHANGED <<rows, world, history, gomod>>

\* CreatePackageOrAddFileToExisting, around SetGoMod; a zip that is already
\* there is kept.
PullThroughStore(p) ==
    /\ rq[p].op \in Reads \cup {"latest"}
    /\ \/ GetOrCreatePackage(p, "pull_through")
       \/ GetOrAddVersion(p, "svcProps", IngestError(p, "502"))
       \/ CreateFile(p, "upstream", "stamp",
                     Goto(p, "stamp") /\ UNCHANGED <<rq, resp>>, IngestError(p, "502"))
    /\ UNCHANGED gomod

\* The publish time, on the version as looked up anew, errors ignored.
Stamp(p) ==
    /\ pc[p] = "stamp"
    /\ \/ \E r \in VersionRows(pkg.id, VerOf[rq[p].file]) :
            versions' = Updated(r.id, LAMBDA x : [x EXCEPT !.pub = TRUE])
       \/ /\ VersionRows(pkg.id, VerOf[rq[p].file]) = {} \/ "fail" \in Env
          /\ UNCHANGED versions
    /\ AfterIngest(p)
    /\ UNCHANGED <<pkg, files, world, history, gomod>>

-----------------------------------------------------------------------------
\* The verdict that keeps the client whose request fetched the version from it.
DeniedOnly(p) == Evaluate(rule, VerOf[rq[p].file], Published) = "deny"
ReadBlocked(p) == IsBlocked(Evaluate(rule, VerOf[rq[p].file], Published))

\* The ActionRead gate; .info has nothing more to look up.
ReadGate(p) ==
    /\ pc[p] = "readGate"
    /\ \/ ReadBlocked(p) /\ Respond(p, "403")
       \/ ~ReadBlocked(p) /\ rq[p].op = "info" /\ Respond(p, "200")
       \/ /\ ~ReadBlocked(p) /\ rq[p].op \in {"mod", "zip"}
          /\ Goto(p, "serve")
          /\ UNCHANGED <<rq, resp>>
    /\ UNCHANGED <<rows, world, history, gomod>>

\* The persisted go.mod or zip is served.
Serve(p) ==
    LET rs == VersionRows(pkg.id, VerOf[rq[p].file]) IN
    /\ pc[p] = "serve"
    /\ \/ rs = {} /\ Respond(p, "500")
       \/ \E r \in rs : \/ rq[p].op = "mod" /\ GoModOf(p, r)
                        \/ rq[p].op = "zip" /\ ZipOf(p, r, "500")
    /\ UNCHANGED <<rows, world, history, gomod>>

-----------------------------------------------------------------------------
\* filterReadable.
Readable == {r \in versions : r.pkg = pkg.id
                              /\ ~IsBlocked(Evaluate(rule, r.ver, AttrsOf(r)))}
ZipsOf(rs) == {f \in Files : \E r \in rs : r.ver = VerOf[f]}

Latest(p) ==
    /\ Begin(p, "latest", [NoLocal EXCEPT !.op = "latest"])
    /\ UNCHANGED gomod

\* latest: a readable local version, or upstream's.
LatestLocal(p) ==
    /\ pc[p] = "latest"
    /\ \/ \E f \in ZipsOf(Readable) :
            RespondWith(p, [NoResp EXCEPT !.code = "200", !.file = f])
       \/ Readable = {} /\ ~mode /\ Respond(p, "404")
       \/ /\ Readable = {} /\ mode
          /\ Goto(p, "fetchLatest")
          /\ UNCHANGED <<rq, resp>>
    /\ UNCHANGED <<rows, world, history, gomod>>

\* servePullThroughLatest: upstream's @latest, which policy may hide.
FetchLatest(p) ==
    /\ pc[p] = "fetchLatest"
    /\ \/ /\ ~mode \/ \A f \in Files : up[f] = NoContent
          /\ Respond(p, "404")
       \/ /\ mode
          /\ \E f \in Files :
                /\ up[f] # NoContent
                /\ IF IsBlocked(Evaluate(rule, VerOf[f], Published))
                     THEN Respond(p, "404")
                     ELSE /\ rq' = [rq EXCEPT ![p].file = f]
                          /\ Goto(p, "ingest")
                          /\ UNCHANGED resp
    /\ UNCHANGED <<rows, world, history, gomod>>

\* @latest answers whether or not the ingest went well.
Answer(p) ==
    /\ pc[p] = "answer"
    /\ Respond(p, "200")
    /\ UNCHANGED <<rows, world, history, gomod>>

List(p) ==
    /\ Begin(p, "list", [NoLocal EXCEPT !.op = "list"])
    /\ UNCHANGED gomod

\* list: a known module's local versions, an unknown one's upstream versions.
ListLocal(p) ==
    /\ pc[p] = "list"
    /\ \/ pkg.id # 0 /\ RespondWith(p, [NoResp EXCEPT !.code = "200", !.local = ZipsOf(Readable)])
       \/ pkg.id = 0 /\ ~mode /\ Respond(p, "404")
       \/ /\ pkg.id = 0 /\ mode
          /\ Goto(p, "listUpstream")
          /\ UNCHANGED <<rq, resp>>
    /\ UNCHANGED <<rows, world, history, gomod>>

\* servePullThroughList; a version whose .info cannot be had has no publish time.
ListUpstream(p) ==
    /\ pc[p] = "listUpstream"
    /\ \/ /\ ~mode \/ \A f \in Files : up[f] = NoContent
          /\ Respond(p, "404")
       \/ /\ mode
          /\ \E infos \in SUBSET {f \in Files : up[f] # NoContent} :
                RespondWith(p, [NoResp EXCEPT !.code = "200", !.up =
                    {f \in Files : up[f] # NoContent /\ ~IsBlocked(Evaluate(rule, VerOf[f],
                                    [lic |-> "none", pub |-> f \in infos]))}])
    /\ UNCHANGED <<rows, world, history, gomod>>

-----------------------------------------------------------------------------
Arrive(p) ==
    \/ \E f \in Files, c \in Contents : Upload(p, f, c)
    \/ \E f \in Files, op \in Reads : Get(p, op, f)
    \/ Latest(p) \/ List(p)

Step(p) ==
    \/ Refuse(p) \/ ProvenanceGate(p) \/ UploadStore(p) \/ SetGoMod(p) \/ Created(p)
    \/ Resolve(p) \/ FetchInfo(p) \/ IngestGate(p)
    \/ IngestCheck(p) \/ FetchMod(p) \/ FetchZip(p) \/ PullThroughStore(p) \/ Stamp(p)
    \/ ReadGate(p) \/ Serve(p)
    \/ LatestLocal(p) \/ FetchLatest(p) \/ Answer(p)
    \/ ListLocal(p) \/ ListUpstream(p)

\* Deletions take a version's properties along.
World == Environment /\ gomod' = {m \in gomod : \E r \in versions' : r.id = m.vid}

Next == (\E p \in Procs : Arrive(p) \/ Step(p)) \/ World

Spec == GoInit /\ [][Next]_goVars
=============================================================================
