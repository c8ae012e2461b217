-------------------------------- MODULE PyPI --------------------------------
(***************************************************************************)
(* internal/packages/pypi: upload, the simple index with its upstream      *)
(* merge, and download with the pull-through of a missing file.  Every     *)
(* call a handler makes to the database, the policy engine or upstream is  *)
(* a step; the SELECTs of one lookup are one step, since what a deletion   *)
(* between two of them yields, a deletion before the first yields too.     *)
(***************************************************************************)
EXTENDS Registry

\* upload, up to checkIngest, which refuses on Deny only.
Upload(p, f, c, l) ==
    LET d == Evaluate(rule, VerOf[f], [lic |-> l, pub |-> FALSE]) IN
    Begin(p, IF d = "deny" THEN "refuse" ELSE "gate",
          [NoLocal EXCEPT !.op = "upload", !.file = f, !.sha = c, !.lic = l])

Refuse(p) ==
    /\ pc[p] = "refuse"
    /\ Respond(p, "403")
    /\ UNCHANGED <<rows, world, history>>

\* The provenance gate: 409 when the name is mirrored from upstream.
UngatedUpload(p) == FALSE
RefusedByProvenance(p) == pkg.via = "pull_through"

ProvenanceGate(p) ==
    /\ pc[p] = "gate"
    /\ \/ /\ RefusedByProvenance(p)
          /\ Respond(p, "409")
       \/ /\ ~RefusedByProvenance(p)
          /\ Goto(p, "svcPackage")
          /\ UNCHANGED <<rq, resp>>
    /\ UNCHANGED <<rows, world, history>>

\* CreatePackageOrAddFileToExisting as upload calls it.
UploadStore(p) ==
    /\ rq[p].op = "upload"
    /\ \/ GetOrCreatePackage(p, "uploaded")
       \/ GetOrAddVersion(p, "svcFile", Respond(p, "500"))
       \/ CreateFile(p, "upload", "setLicense", Respond(p, "409"), Respond(p, "500"))

\* The license is recorded after the file, errors ignored; then 201.
SetLicense(p) ==
    /\ pc[p] = "setLicense"
    /\ \/ rq[p].lic # "none" /\ versions' =
            Updated(rq[p].verId, LAMBDA r : [r EXCEPT !.lic = rq[p].lic])
       \/ (rq[p].lic = "none" \/ "fail" \in Env) /\ UNCHANGED versions
    /\ Respond(p, "201")
    /\ UNCHANGED <<pkg, files, world, history>>

-----------------------------------------------------------------------------
Download(p, f) == Begin(p, "lookup", [NoLocal EXCEPT !.op = "download", !.file = f])

\* A miss goes upstream, whatever the package's provenance.
OnlyUnknownVersions(p) == mode /\ VersionRows(pkg.id, VerOf[rq[p].file]) = {}
PullsThrough(p) == mode

\* download: serve the local file if checkRead lets it, else pull through.
LookupFile(p) ==
    LET f == rq[p].file IN
    /\ pc[p] = "lookup"
    /\ \/ \E h \in Found(f) :
            IF IsBlocked(Evaluate(rule, VerOf[f], AttrsOf(h[1])))
              THEN Respond(p, "403")
              ELSE ServeBytes(p, h[2].sha)
       \/ /\ Found(f) = {}
          /\ \/ ~PullsThrough(p) /\ Respond(p, "404")
             \/ /\ PullsThrough(p)
                /\ Goto(p, "fetchIndex")
                /\ UNCHANGED <<rq, resp>>
    /\ UNCHANGED <<rows, world, history>>

\* pullThroughDownload: upstream's index, with or without a hash for the file.
FetchIndex(p) ==
    LET f == rq[p].file IN
    /\ pc[p] = "fetchIndex"
    /\ \/ /\ ~mode \/ up[f] = NoContent
          /\ Respond(p, "404")
       \/ /\ mode /\ up[f] # NoContent
          /\ \E w \in {up[f], NoContent} : rq' = [rq EXCEPT ![p].want = w]
          /\ Goto(p, "ingestGate")
          /\ UNCHANGED resp
    /\ UNCHANGED <<rows, world, history>>

\* ActionIngest stops on Deny only; b: the publish time is known.
IngestDenied(p, b) ==
    Evaluate(rule, VerOf[rq[p].file], [lic |-> "none", pub |-> b]) = "deny"

\* pullThroughDownload: the publish time, best effort, and the ActionIngest gate.
IngestGate(p) ==
    /\ pc[p] = "ingestGate"
    /\ \E b \in BOOLEAN :
          IF IngestDenied(p, b)
            THEN Respond(p, "403")
            ELSE /\ rq' = [rq EXCEPT ![p].havePub = b]
                 /\ Goto(p, "fetchBlob")
                 /\ UNCHANGED resp
    /\ UNCHANGED <<rows, world, history>>

\* NewHashedBuffer of the response body.
BodyRead(f) == up[f]

\* The bytes are those upstream's index advertised.
AnyBytes(w, c) == TRUE
HashMatches(w, c) == w = NoContent \/ w = c

\* pullThroughDownload: the file itself, which upstream may have replaced.
FetchBlob(p) ==
    LET f == rq[p].file IN
    /\ pc[p] = "fetchBlob"
    /\ \/ /\ ~mode \/ up[f] = NoContent
          /\ Respond(p, "404")
       \/ /\ mode /\ up[f] # NoContent
          /\ \/ ~HashMatches(rq[p].want, BodyRead(f)) /\ Respond(p, "502")
             \/ /\ HashMatches(rq[p].want, BodyRead(f))
                /\ rq' = [rq EXCEPT ![p].sha = BodyRead(f)]
                /\ Goto(p, "svcPackage")
                /\ UNCHANGED resp
    /\ UNCHANGED <<rows, world, history>>

\* CreatePackageOrAddFileToExisting as pullThroughDownload calls it; a file
\* that is already there will be served instead.
PullThroughStore(p) ==
    /\ rq[p].op = "download"
    /\ \/ GetOrCreatePackage(p, "pull_through")
       \/ GetOrAddVersion(p, "svcFile", Respond(p, "502"))
       \/ CreateFile(p, "upstream", "relookup",
                     Goto(p, "relookup") /\ UNCHANGED <<rq, resp>>,
                     Respond(p, "502"))

\* The rows are looked up again.
Relookup(p) ==
    /\ pc[p] = "relookup"
    /\ \/ \E r \in VersionRows(pkg.id, VerOf[rq[p].file]) :
            /\ rq' = [rq EXCEPT ![p].verId = r.id, ![p].attrs = AttrsOf(r)]
            /\ Goto(p, "stamp")
            /\ UNCHANGED resp
       \/ /\ VersionRows(pkg.id, VerOf[rq[p].file]) = {}
          /\ Respond(p, "502")
    /\ UNCHANGED <<rows, world, history>>

\* The publish time is stamped on the row, errors ignored; without one it is
\* fetched once more.
Stamp(p) ==
    /\ pc[p] = "stamp"
    /\ \/ /\ ~rq[p].attrs.pub
          /\ versions' = Updated(rq[p].verId, LAMBDA r : [r EXCEPT !.pub = TRUE])
       \/ /\ rq[p].attrs.pub \/ ~rq[p].havePub \/ "fail" \in Env
          /\ UNCHANGED versions
    /\ Goto(p, "readGate")
    /\ UNCHANGED <<pkg, files, world, rq, resp, history>>

\* The attributes the ActionRead gate sees: the row as loaded before the stamp,
\* patched with the publish time fetched earlier.
GateUnpatched(p) == rq[p].attrs
GateAttrs(p) == [rq[p].attrs EXCEPT !.pub = @ \/ rq[p].havePub]

\* The verdict that keeps the bytes from the client that had them fetched.
DeniedOnly(p) == Evaluate(rule, VerOf[rq[p].file], GateAttrs(p)) = "deny"
ReadBlocked(p) == IsBlocked(Evaluate(rule, VerOf[rq[p].file], GateAttrs(p)))

ReadGate(p) ==
    /\ pc[p] = "readGate"
    /\ \/ /\ ReadBlocked(p)
          /\ Respond(p, "403")
       \/ /\ ~ReadBlocked(p)
          /\ Goto(p, "serve")
          /\ UNCHANGED <<rq, resp>>
    /\ UNCHANGED <<rows, world, history>>

\* The persisted file is served.
Serve(p) ==
    /\ pc[p] = "serve"
    /\ \/ \E x \in FileRows(rq[p].verId, rq[p].file) : ServeBytes(p, x.sha)
       \/ /\ FileRows(rq[p].verId, rq[p].file) = {}
          /\ Respond(p, "502")
    /\ UNCHANGED <<rows, world, history>>

PullThrough(p) ==
    FetchIndex(p) \/ IngestGate(p) \/ FetchBlob(p) \/ PullThroughStore(p)
        \/ Relookup(p) \/ Stamp(p) \/ ReadGate(p) \/ Serve(p)

-----------------------------------------------------------------------------
Index(p) == Begin(p, "index", [NoLocal EXCEPT !.op = "index"])

\* Local files of the versions that filterReadableVersions lets through.
ReadableFiles == {f \in Files : \E h \in Found(f) :
    ~IsBlocked(Evaluate(rule, VerOf[f], AttrsOf(h[1])))}

\* packageIndex: the package row and the local entries.
IndexLocal(p) ==
    /\ pc[p] = "index"
    /\ \/ pkg.id = 0 /\ ~mode /\ Respond(p, "404")
       \/ /\ pkg.id = 0 /\ mode
          /\ Goto(p, "indexUpstream")
          /\ UNCHANGED <<rq, resp>>
       \/ /\ pkg.id # 0
          /\ rq' = [rq EXCEPT ![p].via = pkg.via, ![p].local = ReadableFiles]
          /\ Goto(p, "indexMerge")
          /\ UNCHANGED resp
    /\ UNCHANGED <<rows, world, history>>

\* upstreamFileEntries: what upstream has, less skip and what policy blocks;
\* b tells whether the package-level publish times could be fetched.
UpstreamEntries(skip, b) == {f \in Files :
    /\ up[f] # NoContent
    /\ f \notin skip
    /\ ~IsBlocked(Evaluate(rule, VerOf[f], [lic |-> "none", pub |-> b]))}

\* Sealed names are not merged.
MayMerge(p) == rq[p].via = "pull_through"

\* packageIndex of a known name: merge upstream, best effort.
IndexMerge(p) ==
    /\ pc[p] = "indexMerge"
    /\ \/ /\ MayMerge(p) /\ mode
          /\ \E b \in BOOLEAN :
                RespondWith(p, [NoResp EXCEPT !.code = "200", !.local = rq[p].local,
                                              !.up = UpstreamEntries(rq[p].local, b)])
       \/ /\ ~MayMerge(p) \/ ~mode \/ "fail" \in Env
          /\ RespondWith(p, [NoResp EXCEPT !.code = "200", !.local = rq[p].local])
    /\ UNCHANGED <<rows, world, history>>

\* packageIndex of an unknown name: upstream's index, filtered.
IndexUpstream(p) ==
    /\ pc[p] = "indexUpstream"
    /\ \/ /\ ~mode \/ \A f \in Files : up[f] = NoContent
          /\ Respond(p, "404")
       \/ /\ mode /\ \E f \in Files : up[f] # NoContent
          /\ \E b \in BOOLEAN :
                RespondWith(p, [NoResp EXCEPT !.code = "200", !.up = UpstreamEntries({}, b)])
    /\ UNCHANGED <<rows, world, history>>

-----------------------------------------------------------------------------
Arrive(p) ==
    \/ \E f \in Files, c \in Contents, l \in Licenses : Upload(p, f, c, l)
    \/ \E f \in Files : Download(p, f)
    \/ Index(p)

Step(p) ==
    \/ Refuse(p) \/ ProvenanceGate(p) \/ UploadStore(p) \/ SetLicense(p)
    \/ LookupFile(p) \/ PullThrough(p)
    \/ IndexLocal(p) \/ IndexMerge(p) \/ IndexUpstream(p)

Next == (\E p \in Procs : Arrive(p) \/ Step(p)) \/ Environment

Spec == Init /\ [][Next]_vars

\* Handlers run to their end, and a client that got no file asks again.
Fairness == \A p \in Procs :
    /\ WF_vars(Step(p))
    /\ \A f \in Files : SF_vars(Download(p, f))
FairSpec == Spec /\ Fairness

-----------------------------------------------------------------------------
\* Bytes pulled through are the ones upstream's index advertised, even when
\* upstream replaces the file between the two fetches: "verifies the sha256 if
\* upstream provided one" (pypi/upstream.go).
UpstreamBytesVerified == \A x \in files :
    x.src = "upstream" => x.want \in {x.sha, NoContent}

\* The post-ingest gate, on a row loaded before the stamp, "evaluates the same
\* here as it does on a subsequent /files/ request that loads a fresh ver row"
\* (pypi/upstream.go): where the row has come to hold the publish time that was
\* fetched, nobody is let in or kept out because they came first.
GateIsNextRead == [][\A p \in Procs, r \in versions :
    /\ pc[p] = "readGate" /\ pc'[p] # "readGate" /\ events' = events
    /\ r.id = rq[p].verId /\ r.lic = rq[p].attrs.lic
    /\ r.pub = (rq[p].attrs.pub \/ rq[p].havePub)
    => (pc'[p] = "serve" <=> ~IsBlocked(Evaluate(rule, r.ver, AttrsOf(r))))]_vars

\* An upload ends up in a mirrored package only when it and a download ran at
\* the same time, so that the gate came first: "a subsequent manual upload to
\* the same name MUST be refused with 409" (models.go).  (Administrators may
\* flip the provenance of a package; that is not an upload.)
MirroredUnlessOverlap == "flip" \notin Env /\ ~overlapped => \A x \in files :
    x.src = "upload" => pkg.via # "pull_through"

\* What an interrupted pull-through leaves behind does not get in the way: once
\* nothing interferes any more, a client that keeps asking gets its file ("so a
\* second request hits the local cache", pypi/upstream.go).
Heals == \A f \in Files :
    <>[](mode /\ rule = NoRule /\ up[f] # NoContent) =>
        []<>(\E p \in Procs : Served(p) /\ resp[p].file = f)
=============================================================================
