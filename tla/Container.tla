----------------------------- MODULE Container -----------------------------
(***************************************************************************)
(* internal/packages/container/handler.go: manifests, tags and blobs of    *)
(* one repository of the OCI registry.  Blobs belong to a repository by a  *)
(* property "container.blob.<digest>" of its package, whose value is the   *)
(* id of a blob row; a manifest has a second, "container.manifest.<digest>",*)
(* without which it cannot be fetched by digest; a tag is a version whose  *)
(* metadata names a manifest.  UploadTracker has the upload before SaveBlob.*)
(*                                                                         *)
(* The id of a blob row is written as the digest whose row has it or will  *)
(* have it.  Properties of any package but the live repository are left    *)
(* out; what a request finds there is arbitrary.  So are left out media    *)
(* types, the files of a tag, which no handler of this format reads, and   *)
(* quarantine_reason, which only the list of tags honours.                 *)
(***************************************************************************)
EXTENDS Naturals, FiniteSets

CONSTANTS
    Procs,        \* requests in flight
    Tags,
    Blobs,        \* digests of layers and configs
    Manifests,    \* digests of manifests
    Refs,         \* ReferencedDigests of each manifest
    MaxEvents,    \* bound: administrator's actions, failures, ids of other rows
    Elsewhere,    \* the id of a package that is not this repository, or of none
    NoTag, NoDigest

Digests == Blobs \cup Manifests

ASSUME RefsAssumption == Refs \in [Manifests -> SUBSET Digests]
ASSUME NoneAssumption == NoTag \notin Tags /\ NoDigest \notin Digests /\ MaxEvents \in Nat
ASSUME ElsewhereAssumption == Elsewhere \notin Nat

VARIABLES
    repo,         \* the package row's id, 0 when there is none
    lastId,       \* AUTOINCREMENT of packages
    blobProp,     \* container.blob properties of the live repo: the row each digest names
    manifestProp, \* digests with a container.manifest property
    tags,         \* version rows: the digest in metadata_json
    stored,       \* objects of the blob store
    blobRows,     \* rows of package_blobs
    req,          \* the requests
    resp,         \* what each client was last told
    events,       \* events so far (bounded by MaxEvents)
    acked,        \* history: pushes answered 201 since the repo was created
    ackedManifests, \* ... those of putManifest, until somebody deletes the digest
    cut,          \* history: requests whose digest was deleted while they ran
    tainted,      \* history: a property write failed, or the repo was deleted under a
                  \* request that had looked it up
    lostRace      \* history: a request that lost the race of a get-or-create went on
                  \* with the id of another row

props == <<blobProp, manifestProp, tags>>
repoRows == <<repo, lastId, props>>
store == <<stored, blobRows>>
acks == <<acked, ackedManifests, cut>>
faults == <<tainted, lostRace>>
history == <<acks, faults>>
vars == <<repoRows, store, req, resp, events, history>>

\* The engine's verdicts.  Rules change at any time, so each evaluation gives any.
Verdicts == {"allow", "quarantine", "deny"}
IsBlocked(v) == v \in {"quarantine", "deny"}

\* sub: the statement a get-or-create is at; id and blob: the ids it returned.
NoReq == [at |-> "idle", sub |-> "select", d |-> NoDigest, tag |-> NoTag,
          id |-> 0, blob |-> NoDigest, todo |-> {}]

Init ==
    /\ repo = 0 /\ lastId = 0
    /\ blobProp = [d \in Digests |-> NoDigest] /\ manifestProp = {}
    /\ tags = [t \in Tags |-> NoDigest]
    /\ stored = {} /\ blobRows = {}
    /\ req = [p \in Procs |-> NoReq]
    /\ resp = [p \in Procs |-> "none"]
    /\ events = 0
    /\ acked = {} /\ ackedManifests = {} /\ cut = {}
    /\ tainted = FALSE /\ lostRace = FALSE

-----------------------------------------------------------------------------
Goto(p, l) == req' = [req EXCEPT ![p].at = l]
Respond(p, answer) ==
    /\ req' = [req EXCEPT ![p] = NoReq]
    /\ resp' = [resp EXCEPT ![p] = answer]
Begin(p, r) ==
    /\ req[p].at = "idle"
    /\ req' = [req EXCEPT ![p] = r]
    /\ resp' = [resp EXCEPT ![p] = "none"]
    /\ cut' = cut \ {p}
    /\ UNCHANGED <<repoRows, store, events, acked, ackedManifests, faults>>

Event == events < MaxEvents /\ events' = events + 1

\* 201: the client may count on what it pushed.
AckBlob(p) ==
    /\ acked' = acked \cup {req[p].d}
    /\ UNCHANGED <<ackedManifests, cut>>
AckManifest(p) ==
    /\ acked' = acked \cup {req[p].d}
    /\ ackedManifests' = IF p \in cut THEN ackedManifests ELSE ackedManifests \cup {req[p].d}
    /\ UNCHANGED cut

-----------------------------------------------------------------------------
\* The two get-or-creates: SELECT, INSERT ... ON CONFLICT DO NOTHING, and SELECT
\* again when LastInsertId is 0.  An INSERT that did nothing leaves LastInsertId
\* at what the connection inserted last, and any id but 0 is taken for the row's.
\* (When that happens to be the right id it is as if the row were selected.)
Sub(p, s) ==
    /\ req' = [req EXCEPT ![p].sub = s]
    /\ UNCHANGED <<resp, events, lostRace>>

\* repoPackage: GetOrCreatePackageWithLookup.
HaveRepo(p, i, next) == req' = [req EXCEPT ![p].at = next, ![p].sub = "select", ![p].id = i]

SelectRepo(p, next) ==
    /\ req[p].sub \in {"select", "reselect"}
    /\ \/ repo # 0 /\ HaveRepo(p, repo, next) /\ UNCHANGED <<resp, events, lostRace>>
       \/ repo = 0 /\ req[p].sub = "select" /\ Sub(p, "insert")
       \/ repo = 0 /\ req[p].sub = "reselect" /\ Respond(p, "refused") /\ UNCHANGED <<events, lostRace>>
    /\ UNCHANGED <<repo, lastId>>

InsertRepo(p, next) ==
    /\ req[p].sub = "insert" /\ repo = 0
    /\ repo' = lastId + 1 /\ lastId' = lastId + 1
    /\ HaveRepo(p, lastId + 1, next)
    /\ UNCHANGED <<resp, events, lostRace>>

RepoConflict(p, next) ==
    /\ req[p].sub = "insert" /\ repo # 0
    /\ \/ Sub(p, "reselect")
       \/ Event /\ HaveRepo(p, Elsewhere, next) /\ lostRace' = TRUE /\ UNCHANGED resp
    /\ UNCHANGED <<repo, lastId>>

RepoPackage(p, next) ==
    /\ SelectRepo(p, next) \/ InsertRepo(p, next) \/ RepoConflict(p, next)
    /\ UNCHANGED <<props, store, acks, tainted>>

\* GetOrCreateBlob; blob rows are never deleted.
HaveRow(p, d, next) == req' = [req EXCEPT ![p].at = next, ![p].sub = "select", ![p].blob = d]

SelectRow(p, next) ==
    /\ req[p].sub \in {"select", "reselect"}
    /\ IF req[p].d \in blobRows
         THEN HaveRow(p, req[p].d, next) /\ UNCHANGED <<resp, events, lostRace>>
         ELSE Sub(p, "insert")
    /\ UNCHANGED blobRows

InsertRow(p, next) ==
    /\ req[p].sub = "insert" /\ req[p].d \notin blobRows
    /\ blobRows' = blobRows \cup {req[p].d}
    /\ HaveRow(p, req[p].d, next)
    /\ UNCHANGED <<resp, events, lostRace>>

RowConflict(p, next) ==
    /\ req[p].sub = "insert" /\ req[p].d \in blobRows
    /\ \/ Sub(p, "reselect")
       \/ /\ Event
          /\ \E d \in Digests \ {req[p].d} : HaveRow(p, d, next)
          /\ lostRace' = TRUE
          /\ UNCHANGED resp
    /\ UNCHANGED blobRows

GetOrCreateBlob(p, next) ==
    /\ SelectRow(p, next) \/ InsertRow(p, next) \/ RowConflict(p, next)
    /\ UNCHANGED <<repoRows, stored, acks, tainted>>

\* SetProperty container.blob.<digest> on the package the request looked up.
SetBlobProp(p) ==
    blobProp' = IF req[p].id = repo THEN [blobProp EXCEPT ![req[p].d] = req[p].blob] ELSE blobProp

\* lookupBlobID, GetBlobByID and Storage.Open give the bytes of the digest.
Reachable(d) == blobProp[d] = d /\ d \in blobRows /\ d \in stored

-----------------------------------------------------------------------------
\* finalizeUpload of digest d, from storeStagedFile on.
PushBlob(p, d) == Begin(p, [NoReq EXCEPT !.at = "blobSave", !.d = d])

SaveBlob(p) ==
    /\ req[p].at = "blobSave"
    /\ stored' = stored \cup {req[p].d}
    /\ Goto(p, "blobRow")
    /\ UNCHANGED <<repoRows, blobRows, resp, events, history>>

BlobRow(p) == req[p].at = "blobRow" /\ GetOrCreateBlob(p, "blobRepo")

BlobRepo(p) == req[p].at = "blobRepo" /\ RepoPackage(p, "blobProp")

BlobProp(p) ==
    /\ req[p].at = "blobProp"
    /\ SetBlobProp(p)
    /\ AckBlob(p)
    /\ Respond(p, "ok")
    /\ UNCHANGED <<repo, lastId, manifestProp, tags, store, events, faults>>

-----------------------------------------------------------------------------
\* putManifest under a tag, or by digest alone (NoTag).
PutManifest(p, m, t) ==
    Begin(p, [NoReq EXCEPT !.at = "repo", !.d = m, !.tag = t, !.todo = Refs[m]])

ManifestRepo(p) == req[p].at = "repo" /\ RepoPackage(p, "refs")

\* One referenced digest after the other must have its container.blob property, a
\* child manifest too; 400 if not.
Assumed(p, d) == TRUE
Present(p, d) == req[p].id = repo => blobProp[d] # NoDigest
CheckRefs(p) ==
    /\ req[p].at = "refs"
    /\ \/ req[p].todo = {} /\ Goto(p, "gate") /\ UNCHANGED resp
       \/ \E d \in req[p].todo :
            \/ Present(p, d) /\ req' = [req EXCEPT ![p].todo = @ \ {d}] /\ UNCHANGED resp
            \/ (req[p].id = repo => ~Present(p, d)) /\ Respond(p, "refused")
    /\ UNCHANGED <<repoRows, store, events, history>>

\* checkIngest refuses on Deny only.
IngestGate(p) ==
    /\ req[p].at = "gate"
    /\ \E v \in Verdicts :
         \/ v = "deny" /\ Respond(p, "refused")
         \/ v # "deny" /\ Goto(p, "save") /\ UNCHANGED resp
    /\ UNCHANGED <<repoRows, store, events, history>>

\* storeBytes.
SaveManifest(p) ==
    /\ req[p].at = "save"
    /\ stored' = stored \cup {req[p].d}
    /\ Goto(p, "row")
    /\ UNCHANGED <<repoRows, blobRows, resp, events, history>>

ManifestRow(p) == req[p].at = "row" /\ GetOrCreateBlob(p, "prop")

ManifestBlobProp(p) ==
    /\ req[p].at = "prop"
    /\ SetBlobProp(p)
    /\ Goto(p, "manifest")
    /\ UNCHANGED <<repo, lastId, manifestProp, tags, store, resp, events, history>>

\* After propManifest and propMediaType; a push by digest ends here.
AfterProps(p) ==
    \/ req[p].tag = NoTag /\ AckManifest(p) /\ Respond(p, "ok")
    \/ req[p].tag # NoTag /\ Goto(p, "package") /\ UNCHANGED <<resp, acks>>

ManifestProp(p) ==
    /\ req[p].at = "manifest"
    /\ manifestProp' = IF req[p].id = repo THEN manifestProp \cup {req[p].d} ELSE manifestProp
    /\ AfterProps(p)
    /\ UNCHANGED <<repo, lastId, blobProp, tags, store, events, faults>>

\* CreatePackageOrAddFileToExisting looks the package up afresh.
TagPackage(p) == req[p].at = "package" /\ RepoPackage(p, "version")

\* Its version: created with the metadata, or found and left as it is.  The foreign
\* key refuses a package that does not exist; another one gets the version.
TagVersion(p) ==
    LET t == req[p].tag IN
    /\ req[p].at = "version"
    /\ \/ req[p].id # repo /\ Respond(p, "refused") /\ UNCHANGED tags
       \/ req[p].id = Elsewhere /\ Goto(p, "file") /\ UNCHANGED <<tags, resp>>
       \/ /\ req[p].id = repo
          /\ tags' = [tags EXCEPT ![t] = IF @ = NoDigest THEN req[p].d ELSE @]
          /\ Goto(p, "file")
          /\ UNCHANGED resp
    /\ UNCHANGED <<repo, lastId, blobProp, manifestProp, store, events, history>>

\* Its file row, whose duplicate is not an error; the foreign key refuses a version
\* deleted meanwhile (and one deleted and pushed again, which is let pass here: it
\* promises no more than what the push has written).
TagFile(p) ==
    /\ req[p].at = "file"
    /\ \/ tags[req[p].tag] = NoDigest /\ Respond(p, "refused") /\ UNCHANGED acks
       \/ /\ tags[req[p].tag] # NoDigest \/ req[p].id = Elsewhere
          /\ AckManifest(p)
          /\ Respond(p, "ok")
    /\ UNCHANGED <<repoRows, store, events, faults>>

-----------------------------------------------------------------------------
\* A client pulls tag t: its manifest, then what that refers to, child manifests and
\* their references included.  It is told "incomplete" when, having found the tag,
\* it meets a 404 or is given other bytes, and "unknown" when a child manifest is
\* not found by its digest.
Pull(p, t) == Begin(p, [NoReq EXCEPT !.at = "resolve", !.tag = t])

\* serveManifest: repoPackageLookup, resolveManifestReference and checkRead.
ResolveTag(p) ==
    LET m == tags[req[p].tag] IN
    /\ req[p].at = "resolve"
    /\ \/ m = NoDigest /\ Respond(p, "refused")
       \/ m # NoDigest /\ (\E v \in Verdicts : IsBlocked(v)) /\ Respond(p, "refused")
       \/ /\ m # NoDigest /\ \E v \in Verdicts : ~IsBlocked(v)
          /\ req' = [req EXCEPT ![p].at = "serve", ![p].d = m, ![p].id = repo]
          /\ UNCHANGED resp
    /\ UNCHANGED <<repoRows, store, events, history>>

\* The same by digest, for a child manifest: no version, so no checkRead.
ResolveDigest(p) ==
    /\ req[p].at = "layers"
    /\ \E d \in req[p].todo \cap Manifests :
         \/ d \notin manifestProp /\ Respond(p, "unknown")
         \/ /\ d \in manifestProp
            /\ req' = [req EXCEPT ![p] = [@ EXCEPT !.at = "serve", !.d = d, !.id = repo,
                                                  !.todo = req[p].todo \ {d}]]
            /\ UNCHANGED resp
    /\ UNCHANGED <<repoRows, store, events, history>>

\* The rest of serveManifest.
ServeManifest(p) ==
    LET d == req[p].d IN
    /\ req[p].at = "serve"
    /\ \/ /\ req[p].id = repo => Reachable(d)
          /\ req' = [req EXCEPT ![p].at = "layers", ![p].todo = @ \cup Refs[d]]
          /\ UNCHANGED resp
       \/ (req[p].id = repo => ~Reachable(d)) /\ Respond(p, "incomplete")
    /\ UNCHANGED <<repoRows, store, events, history>>

\* serveBlob, whose checkRead is about the repository and comes after GetBlobByID.
ServeBlob(p) ==
    /\ req[p].at = "layers"
    /\ \/ req[p].todo = {} /\ Respond(p, "ok")
       \/ \E d \in req[p].todo \cap Blobs :
            \/ blobProp[d] \notin blobRows /\ Respond(p, "incomplete")
            \/ blobProp[d] \in blobRows /\ \E v \in Verdicts :
                 \/ IsBlocked(v) /\ Respond(p, "refused")
                 \/ ~IsBlocked(v) /\ ~Reachable(d) /\ Respond(p, "incomplete")
                 \/ /\ ~IsBlocked(v) /\ Reachable(d)
                    /\ req' = [req EXCEPT ![p].todo = @ \ {d}]
                    /\ UNCHANGED resp
    /\ UNCHANGED <<repoRows, store, events, history>>

\* deleteManifest by digest clears the manifest's own properties only; by tag it
\* writes a property that nothing reads.
AllClearedBy(m) ==
    manifestProp' = manifestProp \ {m} /\ blobProp' = [blobProp EXCEPT ![m] = NoDigest]
ClearedBy(m) == manifestProp' = manifestProp \ {m} /\ UNCHANGED blobProp
DeleteManifest(p, m) ==
    /\ req[p].at = "idle"
    /\ \/ /\ repo = 0
          /\ UNCHANGED <<manifestProp, blobProp, ackedManifests, cut>>
          /\ Respond(p, "refused")
       \/ /\ repo # 0
          /\ ClearedBy(m)
          /\ ackedManifests' = ackedManifests \ {m}
          /\ cut' = cut \cup {q \in Procs : req[q].d = m}
          /\ Respond(p, "ok")
    /\ UNCHANGED <<repo, lastId, tags, store, events, acked, faults>>

DeleteTag(p, t) ==
    /\ req[p].at = "idle"
    /\ Respond(p, IF repo = 0 THEN "refused" ELSE "ok")
    /\ UNCHANGED <<repoRows, store, events, history>>

-----------------------------------------------------------------------------
\* The rest of the world.
\* The administrator deletes the repository: its rows go in one transaction.
DeletePackage ==
    /\ Event /\ repo # 0
    /\ repo' = 0 /\ manifestProp' = {}
    /\ blobProp' = [d \in Digests |-> NoDigest]
    /\ tags' = [t \in Tags |-> NoDigest]
    /\ acked' = {} /\ ackedManifests' = {}
    /\ tainted' = \E p \in Procs : req[p].id # 0
    /\ UNCHANGED <<lastId, store, req, resp, cut, lostRace>>

DeleteVersion(t) ==
    /\ Event /\ tags[t] # NoDigest
    /\ tags' = [tags EXCEPT ![t] = NoDigest]
    /\ UNCHANGED <<repo, lastId, blobProp, manifestProp, store, req, resp, history>>

\* A property write fails: the handlers ignore it and go on.
PropertyLost(p) ==
    /\ Event
    /\ \/ req[p].at = "blobProp" /\ AckBlob(p) /\ Respond(p, "ok")
       \/ req[p].at = "prop" /\ Goto(p, "manifest") /\ UNCHANGED <<resp, acks>>
       \/ req[p].at = "manifest" /\ AfterProps(p)
    /\ tainted' = TRUE
    /\ UNCHANGED <<repoRows, store, lostRace>>

\* Any other call fails: 500 and nothing is undone (a failed read of a pull may be
\* told as 404; that is not what "incomplete" and "unknown" stand for).
Fail(p) ==
    /\ Event
    /\ req[p].at \notin {"idle", "blobProp", "prop", "manifest"}
    /\ Respond(p, "refused")
    /\ UNCHANGED <<repoRows, store, history>>

Crash ==
    /\ Event /\ \E p \in Procs : req[p].at # "idle"
    /\ req' = [p \in Procs |-> NoReq]
    /\ UNCHANGED <<repoRows, store, resp, history>>

-----------------------------------------------------------------------------
PushStep(p) ==
    \/ SaveBlob(p) \/ BlobRow(p) \/ BlobRepo(p) \/ BlobProp(p)
    \/ ManifestRepo(p) \/ CheckRefs(p) \/ IngestGate(p) \/ SaveManifest(p) \/ ManifestRow(p)
    \/ ManifestBlobProp(p) \/ ManifestProp(p) \/ TagPackage(p) \/ TagVersion(p)
    \/ TagFile(p)
PullStep(p) == ResolveTag(p) \/ ResolveDigest(p) \/ ServeManifest(p) \/ ServeBlob(p)

Arrive(p) ==
    \/ \E d \in Digests : PushBlob(p, d)
    \/ \E m \in Manifests, t \in Tags \cup {NoTag} : PutManifest(p, m, t)
    \/ \E t \in Tags : Pull(p, t) \/ DeleteTag(p, t)
    \/ \E m \in Manifests : DeleteManifest(p, m)

Environment ==
    \/ DeletePackage
    \/ \E t \in Tags : DeleteVersion(t)
    \/ \E p \in Procs : PropertyLost(p) \/ Fail(p)
    \/ Crash

Next == (\E p \in Procs : Arrive(p) \/ PushStep(p) \/ PullStep(p)) \/ Environment

Spec == Init /\ [][Next]_vars

-----------------------------------------------------------------------------
\* The exceptions: a property write that failed unnoticed, the repository deleted
\* under a request that had looked it up, and a get-or-create that returned the id of
\* another row (GetOrCreatePackageWithLookup, GetOrCreateBlob; see Ingest).
Excused == tainted \/ lostRace

\* What a client is given, by tag or by digest, is complete: the manifest and
\* everything it refers to is there under its digest, although putManifest checks the
\* references long before it writes the properties and the tag.  With Excused apart.
\* A child manifest is there as a blob: GET manifests/<digest> finds it as long as it
\* has its own property, and then it is complete in turn.
Served == manifestProp \cup ({tags[t] : t \in Tags} \ {NoDigest})
TaggedImageComplete ==
    Excused \/ \A m \in Served : \A d \in {m} \cup Refs[m] : Reachable(d)

\* What was answered 201 stays: every digest as a blob, and every manifest as a
\* manifest that GET manifests/<digest> resolves, until that digest is deleted (a push
\* beside which it is deleted promises only the blob).  With Excused apart.
AckedStays ==
    Excused \/ /\ \A d \in acked : Reachable(d)
               /\ \A m \in ackedManifests : m \in manifestProp

\* A client that is given the manifest of a tag can fetch all of the image, whatever
\* is pushed or deleted while it pulls; but an index may have a child manifest whose
\* digest was deleted, or of which no push as a manifest was answered 201 (putManifest
\* takes a child that was only uploaded as a blob).  With Excused apart.
PullNeverIncomplete ==
    [][\A p \in Procs :
         /\ resp'[p] = "incomplete" /\ resp[p] # "incomplete" => Excused
         /\ resp'[p] = "unknown" /\ resp[p] # "unknown" =>
              \/ Excused
              \/ \E c \in req[p].todo \cap Manifests :
                   c \notin manifestProp /\ c \notin ackedManifests]_vars

=============================================================================
