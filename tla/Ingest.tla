------------------------------- MODULE Ingest -------------------------------
(***************************************************************************)
(* How a file gets into pkgmirror: internal/packages/service.go on top of  *)
(* internal/models/models.go (SQLite rows) and internal/storage (bytes).   *)
(*                                                                         *)
(* Neither CreatePackageAndAddFile nor CreatePackageOrAddFileToExisting    *)
(* runs in a transaction: every SQL statement is a step of its own, on any *)
(* connection of the database/sql pool, and between two steps other        *)
(* requests run, rows are deleted, the request fails (context cancelled,   *)
(* SQLITE_BUSY, disk full) or the whole process dies.                      *)
(*                                                                         *)
(* A row is a record, a table a set of rows.  A name stands for the key    *)
(* (tenant, type, lower_name); sha for content, the two being the same     *)
(* thing to a content-addressed store.                                     *)
(***************************************************************************)
EXTENDS Naturals

CONSTANTS
    Procs,       \* requests in flight
    Conns,       \* connections of the pool
    Names,       \* package keys
    Vers,        \* lower_version values
    FileNames,   \* lower_name values of files
    Shas,        \* contents
    Requests,    \* the CreationInfo values (with the buffer's hash) clients send
    MaxRequests  \* bound: requests started in a behaviour

CreatedVia == {"uploaded", "pull_through"}

Request == [op : {"add", "orAdd"},   \* which of the two service functions
            name : Names, ver : Vers, file : FileNames, sha : Shas,
            via : CreatedVia,
            props : BOOLEAN]         \* VersionProperties is non-empty

ASSUME RequestsAssumption == Requests \subseteq Request
ASSUME MaxRequestsAssumption == MaxRequests \in Nat

Tables == {"packages", "versions", "blobs", "files", "properties"}

VARIABLES
    packages,  \* [id, name, via]
    versions,  \* [id, pkg, ver]          pkg REFERENCES packages ON DELETE CASCADE
    blobs,     \* [id, sha]
    files,     \* [id, ver, blob, name, want]  ver, blob REFERENCES ...; want is a
               \* history field: the request that inserted the row
    props,     \* [id, ref]               ref: a version id, no foreign key
    seq,       \* AUTOINCREMENT: the largest id each table ever used
    lastId,    \* last_insert_rowid() of each connection, 0 on a new one
    storage,   \* the contents LocalStorage holds under their sha256
    pc, req,   \* where each request is, and its CreationInfo
    pkgId, verId, blobId,   \* its locals pkg.ID, ver.ID, blob.ID
    outcome,   \* what the service function returned last
    started,   \* requests started so far (bounded by MaxRequests)
    lostRace   \* history: some ON CONFLICT DO NOTHING did nothing on a
               \* connection that had inserted a row before

tables == <<packages, versions, blobs, files, props, seq, lastId>>
locals == <<pkgId, verId, blobId>>
vars == <<tables, storage, pc, req, locals, outcome, started, lostRace>>

PCs == {"idle", "getPackage", "insertPackage", "regetPackage", "getVersion",
        "insertVersion", "regetVersion", "setProperty", "save", "getBlob",
        "insertBlob", "regetBlob", "createFile"}

Outcomes == {"none", "ok", "dupVersion", "dupFile", "error"}

TypeOK ==
    /\ packages \subseteq [id : Nat, name : Names, via : CreatedVia]
    /\ versions \subseteq [id : Nat, pkg : Nat, ver : Vers]
    /\ blobs \subseteq [id : Nat, sha : Shas]
    /\ files \subseteq [id : Nat, ver : Nat, blob : Nat, name : FileNames,
                        want : Requests]
    /\ props \subseteq [id : Nat, ref : Nat]
    /\ seq \in [Tables -> Nat]
    /\ lastId \in [Conns -> Nat]
    /\ storage \subseteq Shas
    /\ pc \in [Procs -> PCs]
    /\ req \in [Procs -> Requests]
    /\ pkgId \in [Procs -> Nat]
    /\ verId \in [Procs -> Nat]
    /\ blobId \in [Procs -> Nat]
    /\ outcome \in [Procs -> Outcomes]
    /\ started \in Nat
    /\ lostRace \in BOOLEAN

Init ==
    /\ packages = {} /\ versions = {} /\ blobs = {} /\ files = {} /\ props = {}
    /\ seq = [t \in Tables |-> 0]
    /\ lastId = [c \in Conns |-> 0]
    /\ storage = {}
    /\ pc = [p \in Procs |-> "idle"]
    /\ req \in [Procs -> Requests]
    /\ pkgId = [p \in Procs |-> 0]
    /\ verId = [p \in Procs |-> 0]
    /\ blobId = [p \in Procs |-> 0]
    /\ outcome = [p \in Procs |-> "none"]
    /\ started = 0
    /\ lostRace = FALSE

-----------------------------------------------------------------------------
\* SELECTs.

PackagesNamed(n) == {k \in packages : k.name = n}

VersionsAnyPackage(k, v) == {r \in versions : r.ver = v}
VersionsOf(k, v) == {r \in versions : r.pkg = k /\ r.ver = v}

BlobsWith(s) == {b \in blobs : b.sha = s}

FilesNamed(v, n) == {f \in files : f.ver = v /\ f.name = n}

\* The id an INSERT into t gives, and what the connection remembers of it.
NextId(t) == seq[t] + 1
Inserted(c, t) ==
    /\ seq' = [seq EXCEPT ![t] = NextId(t)]
    /\ lastId' = [lastId EXCEPT ![c] = NextId(t)]

Goto(p, l) == pc' = [pc EXCEPT ![p] = l]

Return(p, o) ==
    /\ Goto(p, "idle")
    /\ outcome' = [outcome EXCEPT ![p] = o]

-----------------------------------------------------------------------------
\* A request calls one of the two service functions.
Start(p, r) ==
    /\ pc[p] = "idle"
    /\ started < MaxRequests
    /\ started' = started + 1
    /\ req' = [req EXCEPT ![p] = r]
    /\ outcome' = [outcome EXCEPT ![p] = "none"]
    /\ pkgId' = [pkgId EXCEPT ![p] = 0]
    /\ verId' = [verId EXCEPT ![p] = 0]
    /\ blobId' = [blobId EXCEPT ![p] = 0]
    /\ Goto(p, "getPackage")
    /\ UNCHANGED <<tables, storage, lostRace>>

\* Having pkg: one function inserts the version, the other looks it up first.
AfterPackage(p) == IF req[p].op = "add" THEN "insertVersion" ELSE "getVersion"

SaveOnlyWithProps(p) == IF req[p].props THEN "setProperty" ELSE "getBlob"
AfterVersion(p) == IF req[p].props THEN "setProperty" ELSE "save"

\* GetOrCreatePackageWithLookup: the SELECT, and the SELECT after a lost race.
GetPackageByLookup(p) ==
    /\ pc[p] \in {"getPackage", "regetPackage"}
    /\ \/ \E k \in PackagesNamed(req[p].name) :
            /\ pkgId' = [pkgId EXCEPT ![p] = k.id]
            /\ Goto(p, AfterPackage(p))
            /\ UNCHANGED outcome
       \/ /\ PackagesNamed(req[p].name) = {}
          /\ UNCHANGED pkgId
          /\ \/ pc[p] = "getPackage" /\ Goto(p, "insertPackage") /\ UNCHANGED outcome
             \/ pc[p] = "regetPackage" /\ Return(p, "error")
    /\ UNCHANGED <<tables, storage, req, verId, blobId, started, lostRace>>

\* GetOrCreatePackageWithLookup: INSERT ... ON CONFLICT DO NOTHING, then
\* LastInsertId, which an INSERT that did nothing leaves as it was.
InsertPackage(p, c) ==
    /\ pc[p] = "insertPackage"
    /\ \/ /\ PackagesNamed(req[p].name) = {}
          /\ packages' = packages \cup
                {[id |-> NextId("packages"), name |-> req[p].name, via |-> req[p].via]}
          /\ Inserted(c, "packages")
          /\ pkgId' = [pkgId EXCEPT ![p] = NextId("packages")]
          /\ Goto(p, AfterPackage(p))
          /\ UNCHANGED lostRace
       \/ /\ PackagesNamed(req[p].name) # {}
          /\ UNCHANGED <<packages, seq, lastId>>
          /\ \/ /\ lastId[c] > 0
                /\ pkgId' = [pkgId EXCEPT ![p] = lastId[c]]
                /\ Goto(p, AfterPackage(p))
                /\ lostRace' = TRUE
             \/ /\ lastId[c] = 0
                /\ Goto(p, "regetPackage")
                /\ UNCHANGED <<pkgId, lostRace>>
    /\ UNCHANGED <<versions, blobs, files, props, storage, req, verId, blobId,
                   outcome, started>>

\* GetVersion in CreatePackageOrAddFileToExisting, first and after a lost race.
GetVersion(p) ==
    /\ pc[p] \in {"getVersion", "regetVersion"}
    /\ \/ \E r \in VersionsOf(pkgId[p], req[p].ver) :
            /\ verId' = [verId EXCEPT ![p] = r.id]
            /\ Goto(p, AfterVersion(p))
            /\ UNCHANGED outcome
       \/ /\ VersionsOf(pkgId[p], req[p].ver) = {}
          /\ UNCHANGED verId
          /\ \/ pc[p] = "getVersion" /\ Goto(p, "insertVersion") /\ UNCHANGED outcome
             \/ pc[p] = "regetVersion" /\ Return(p, "error")
    /\ UNCHANGED <<tables, storage, req, pkgId, blobId, started, lostRace>>

\* CreateVersion: UNIQUE(package_id, lower_version) and the foreign key.
CreateVersion(p, c) ==
    /\ pc[p] = "insertVersion"
    /\ \/ /\ VersionsOf(pkgId[p], req[p].ver) # {}
          /\ \/ req[p].op = "add" /\ Return(p, "dupVersion")
             \/ req[p].op = "orAdd" /\ Goto(p, "regetVersion") /\ UNCHANGED outcome
          /\ UNCHANGED <<versions, seq, lastId, verId>>
       \/ /\ VersionsOf(pkgId[p], req[p].ver) = {}
          /\ \A k \in packages : k.id # pkgId[p]
          /\ Return(p, "error")
          /\ UNCHANGED <<versions, seq, lastId, verId>>
       \/ /\ VersionsOf(pkgId[p], req[p].ver) = {}
          /\ \E k \in packages : k.id = pkgId[p]
          /\ versions' = versions \cup
                {[id |-> NextId("versions"), pkg |-> pkgId[p], ver |-> req[p].ver]}
          /\ Inserted(c, "versions")
          /\ verId' = [verId EXCEPT ![p] = NextId("versions")]
          /\ Goto(p, AfterVersion(p))
          /\ UNCHANGED outcome
    /\ UNCHANGED <<packages, blobs, files, props, storage, req, pkgId, blobId,
                   started, lostRace>>

\* The VersionProperties loop: SetProperty is DELETE + INSERT in a transaction.
SetProperty(p, c) ==
    /\ pc[p] = "setProperty"
    /\ props' = {r \in props : r.ref # verId[p]} \cup
                    {[id |-> NextId("properties"), ref |-> verId[p]]}
    /\ Inserted(c, "properties")
    /\ Goto(p, "save")
    /\ UNCHANGED <<packages, versions, blobs, files, storage, req, locals,
                   outcome, started, lostRace>>

\* LocalStorage.Save: temp file, copy, rename.  Only the rename is visible, and
\* it replaces equal bytes by equal bytes.
Saved(s) == storage \cup {s}

Save(p) ==
    /\ pc[p] = "save"
    /\ storage' = Saved(req[p].sha)
    /\ Goto(p, "getBlob")
    /\ UNCHANGED <<tables, req, locals, outcome, started, lostRace>>

\* GetOrCreateBlob, the two SELECTs; blob rows are never deleted.
GetBlobBySHA256(p) ==
    /\ pc[p] \in {"getBlob", "regetBlob"}
    /\ \/ \E b \in BlobsWith(req[p].sha) :
            /\ blobId' = [blobId EXCEPT ![p] = b.id]
            /\ Goto(p, "createFile")
       \/ /\ BlobsWith(req[p].sha) = {}
          /\ pc[p] = "getBlob"
          /\ Goto(p, "insertBlob")
          /\ UNCHANGED blobId
    /\ UNCHANGED <<tables, storage, req, pkgId, verId, outcome, started, lostRace>>

\* GetOrCreateBlob: INSERT ... ON CONFLICT DO NOTHING, then LastInsertId.
InsertBlob(p, c) ==
    /\ pc[p] = "insertBlob"
    /\ \/ /\ BlobsWith(req[p].sha) = {}
          /\ blobs' = blobs \cup {[id |-> NextId("blobs"), sha |-> req[p].sha]}
          /\ Inserted(c, "blobs")
          /\ blobId' = [blobId EXCEPT ![p] = NextId("blobs")]
          /\ Goto(p, "createFile")
          /\ UNCHANGED lostRace
       \/ /\ BlobsWith(req[p].sha) # {}
          /\ UNCHANGED <<blobs, seq, lastId>>
          /\ \/ /\ lastId[c] > 0
                /\ blobId' = [blobId EXCEPT ![p] = lastId[c]]
                /\ Goto(p, "createFile")
                /\ lostRace' = TRUE
             \/ /\ lastId[c] = 0
                /\ Goto(p, "regetBlob")
                /\ UNCHANGED <<blobId, lostRace>>
    /\ UNCHANGED <<packages, versions, files, props, storage, req, pkgId, verId,
                   outcome, started>>

\* CreateFile: UNIQUE(version_id, lower_name), both foreign keys.
CreateFile(p, c) ==
    /\ pc[p] = "createFile"
    /\ \/ /\ FilesNamed(verId[p], req[p].file) # {}
          /\ Return(p, "dupFile")
          /\ UNCHANGED <<files, seq, lastId>>
       \/ /\ FilesNamed(verId[p], req[p].file) = {}
          /\ ~ /\ \E r \in versions : r.id = verId[p]
               /\ \E b \in blobs : b.id = blobId[p]
          /\ Return(p, "error")
          /\ UNCHANGED <<files, seq, lastId>>
       \/ /\ FilesNamed(verId[p], req[p].file) = {}
          /\ \E r \in versions : r.id = verId[p]
          /\ \E b \in blobs : b.id = blobId[p]
          /\ files' = files \cup
                {[id |-> NextId("files"), ver |-> verId[p], blob |-> blobId[p],
                  name |-> req[p].file, want |-> req[p]]}
          /\ Inserted(c, "files")
          /\ Return(p, "ok")
    /\ UNCHANGED <<packages, versions, blobs, props, storage, req, locals,
                   started, lostRace>>

-----------------------------------------------------------------------------
\* Any call of the sequence may return an error: the function returns it and
\* undoes nothing.
Fail(p) ==
    /\ pc[p] # "idle"
    /\ Return(p, "error")
    /\ UNCHANGED <<tables, storage, req, locals, started, lostRace>>

\* The process dies and starts again: requests are gone, connections are new;
\* committed rows and renamed files stay.
Crash ==
    /\ \E p \in Procs : pc[p] # "idle"
    /\ pc' = [p \in Procs |-> "idle"]
    /\ outcome' = [p \in Procs |-> "none"]
    /\ lastId' = [c \in Conns |-> 0]
    /\ UNCHANGED <<packages, versions, blobs, files, props, seq, storage, req,
                   locals, started, lostRace>>

\* database/sql closes idle connections and opens others.
Reconnect(c) ==
    /\ lastId[c] # 0
    /\ lastId' = [lastId EXCEPT ![c] = 0]
    /\ UNCHANGED <<packages, versions, blobs, files, props, seq, storage, pc, req,
                   locals, outcome, started, lostRace>>

\* DeleteFile.
DeleteFile(f) ==
    /\ files' = files \ {f}
    /\ UNCHANGED <<packages, versions, blobs, props, seq, lastId, storage, pc, req,
                   locals, outcome, started, lostRace>>

\* The file rows ON DELETE CASCADE removes along with the versions ids.
NoCascade(ids) == files
WithoutFilesOf(ids) == {f \in files : f.ver \notin ids}

\* DeleteVersion: one transaction.
DeleteVersion(r) ==
    /\ versions' = versions \ {r}
    /\ files' = WithoutFilesOf({r.id})
    /\ props' = {q \in props : q.ref # r.id}
    /\ UNCHANGED <<packages, blobs, seq, lastId, storage, pc, req, locals, outcome,
                   started, lostRace>>

\* DeletePackage: one transaction.
DeletePackage(k) ==
    LET ids == {r.id : r \in {s \in versions : s.pkg = k.id}} IN
    /\ packages' = packages \ {k}
    /\ versions' = {r \in versions : r.pkg # k.id}
    /\ files' = WithoutFilesOf(ids)
    /\ props' = {q \in props : q.ref \notin ids}
    /\ UNCHANGED <<blobs, seq, lastId, storage, pc, req, locals, outcome, started,
                   lostRace>>

\* SetPackageCreatedVia, the admin's provenance flip.
SetPackageCreatedVia(k, v) ==
    /\ packages' = (packages \ {k}) \cup {[k EXCEPT !.via = v]}
    /\ UNCHANGED <<versions, blobs, files, props, seq, lastId, storage, pc, req,
                   locals, outcome, started, lostRace>>

\* One step of a call of the service.
ServiceStep(p) ==
    \/ GetPackageByLookup(p)
    \/ GetVersion(p)
    \/ Save(p)
    \/ GetBlobBySHA256(p)
    \/ \E c \in Conns : \/ InsertPackage(p, c)
                        \/ CreateVersion(p, c)
                        \/ SetProperty(p, c)
                        \/ InsertBlob(p, c)
                        \/ CreateFile(p, c)

Environment ==
    \/ Crash
    \/ \E c \in Conns : Reconnect(c)
    \/ \E f \in files : DeleteFile(f)
    \/ \E r \in versions : DeleteVersion(r)
    \/ \E k \in packages : DeletePackage(k)
    \/ \E k \in packages, v \in CreatedVia : SetPackageCreatedVia(k, v)

Next ==
    \/ \E p \in Procs : \/ \E r \in Requests : Start(p, r)
                        \/ ServiceStep(p)
                        \/ Fail(p)
    \/ Environment

Spec == Init /\ [][Next]_vars

-----------------------------------------------------------------------------
\* The bytes of every blob row are in the object store, whatever failed, crashed
\* or raced: OpenFile never reports "blob ... missing from storage".
BlobBytesStored == \A b \in blobs : b.sha \in storage

\* Foreign keys: a file row always leads to a version, a package and a blob.
FileRowsResolve == \A f \in files :
    /\ \E r \in versions : r.id = f.ver /\ \E k \in packages : k.id = r.pkg
    /\ \E b \in blobs : b.id = f.blob

\* A file row is what its uploader asked for: its blob holds the bytes that
\* were sent, and it sits under the package and version that were named.
FileIsWhatWasSent(f) ==
    /\ \A b \in blobs : b.id = f.blob => b.sha = f.want.sha
    /\ \A r \in versions, k \in packages :
          r.id = f.ver /\ k.id = r.pkg => r.ver = f.want.ver /\ k.name = f.want.name

\* GetOrCreatePackage "returns the package ... matching (type, name)" and
\* GetOrCreateBlob the blob "with the same SHA-256" (models.go), so every file
\* row is what was sent.  The LastInsertId of an INSERT that did nothing breaks it.
FilesAreWhatWasSent == \A f \in files : FileIsWhatWasSent(f)

\* Without that case every interleaving of requests, deletions, failures and
\* crashes keeps file rows what was sent.
SentUnlessLostRace == lostRace \/ FilesAreWhatWasSent

-----------------------------------------------------------------------------
\* Strengthening of the properties above to an inductive invariant.

\* AUTOINCREMENT: ids are distinct and never above the table's counter.
IdsUnique ==
    /\ \A k, l \in packages : k.id = l.id => k = l
    /\ \A r, t \in versions : r.id = t.id => r = t
    /\ \A d, e \in blobs : d.id = e.id => d = e

IdsBounded ==
    /\ \A k \in packages : k.id <= seq["packages"]
    /\ \A r \in versions : r.id <= seq["versions"]
    /\ \A d \in blobs : d.id <= seq["blobs"]

\* Every version has its package (FileRowsResolve is the same for files).
VersionRowsResolve == \A r \in versions : \E k \in packages : k.id = r.pkg

\* A request that got past Save has its bytes in the store.
SavedBeforeBlob == \A p \in Procs :
    pc[p] \in {"getBlob", "insertBlob", "regetBlob", "createFile"} =>
        req[p].sha \in storage

\* What a request's locals stand for, as long as no race was lost.  A row they
\* point to may have been deleted, but its id does not come back.
HavePackage == {"getVersion", "insertVersion", "regetVersion"}
HaveVersion == {"setProperty", "save", "getBlob", "insertBlob", "regetBlob", "createFile"}

PackageLocal(p) ==
    /\ pkgId[p] <= seq["packages"]
    /\ \A k \in packages : k.id = pkgId[p] => k.name = req[p].name

VersionLocal(p) ==
    /\ verId[p] <= seq["versions"]
    /\ \A r \in versions : r.id = verId[p] =>
          /\ r.ver = req[p].ver
          /\ \A k \in packages : k.id = r.pkg => k.name = req[p].name

BlobLocal(p) ==
    /\ blobId[p] <= seq["blobs"]
    /\ \A d \in blobs : d.id = blobId[p] => d.sha = req[p].sha

LocalsAreRight == \A p \in Procs :
    /\ pc[p] \in HavePackage => PackageLocal(p)
    /\ pc[p] \in HaveVersion => VersionLocal(p)
    /\ pc[p] = "createFile" => BlobLocal(p)

IInv ==
    /\ TypeOK
    /\ IdsUnique
    /\ IdsBounded
    /\ VersionRowsResolve
    /\ FileRowsResolve
    /\ SavedBeforeBlob
    /\ BlobBytesStored
    /\ lostRace \/ LocalsAreRight
    /\ SentUnlessLostRace
=============================================================================
