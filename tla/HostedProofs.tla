---------------------------- MODULE HostedProofs ----------------------------
(***************************************************************************)
(* Proofs about HostedFormats, for any number of requests, names, versions *)
(* and repositories of the eight formats.                                  *)
(*                                                                         *)
(* The formats are put together from the same few steps.  Kinds names      *)
(* them, NextKinds shows that every step of every format is of one kind,   *)
(* and from there on the proofs go kind by kind.                           *)
(***************************************************************************)
EXTENDS HostedFormats, FiniteSetTheorems, TLAPS

Signed == fmt \in {"debian", "rpm", "alpine"}

\* Where a request goes for the key: Alpine takes no lock.
KeyEntry == IF fmt = "alpine" THEN "keyPackage" ELSE "keyCheckIn"

\* The property without which an entry of the index is bare.
Describes == IF fmt = "debian" THEN "control" ELSE "metadata"

ListOps == {"packages", "release", "repodata", "index"}

LocalFields == {"op", "name", "sha", "pkgId", "verId", "fileId", "todo", "rest", "ids",
                "tagIds", "one", "priv", "pub", "met"}
IsLocal(r) == r = [k \in LocalFields |-> r[k]]

\* Everything but the requests stays.
Still == UNCHANGED <<repo, pkg, versions, files, keys, verdict, events>>

-----------------------------------------------------------------------------
(* The kinds of steps. *)

\* A request arrives: r are its locals, doomed the names it asks to delete.
Arrives(l, r, doomed) ==
    /\ IsLocal(r) /\ r.ids = {} /\ r.tagIds = {} /\ r.one = FALSE
    /\ \/ /\ r.op = "upload" /\ r.name \in Names /\ doomed = {}
          /\ \/ l = "svcPackage" /\ fmt \notin {"maven", "nuget", "alpine"} /\ r.rest = {}
             \/ l = "mvnCheckIn" /\ fmt = "maven" /\ r.rest = {}
             \/ l = "nugetCheckIn" /\ fmt = "nuget" /\ r.name = Nupkg /\ r.rest = {Nuspec}
       \/ /\ r.op = "upload" /\ r.name \in Names \cup {None} /\ doomed = {}
          /\ l = "arches" /\ fmt = "alpine" /\ r.rest = {}
       \/ /\ r.op = "checksum" /\ doomed = {} /\ l = "mvnCheckIn" /\ fmt = "maven" /\ r.rest = {}
       \/ /\ r.op = "delete" /\ r.name \in Names /\ r.rest = {} /\ fmt \notin {"npm", "maven"}
          /\ \/ l = "delFile" /\ r.name \in doomed
             \/ l = "delVersion" /\ \A m \in Names : VerOf[fmt][m] = VerOf[fmt][r.name] => m \in doomed
       \/ /\ r.op \in ListOps /\ Signed /\ doomed = {} /\ r.rest = {}
          /\ l \in {"listRows", "distinct"}
       \/ /\ r.op = "key" /\ Signed /\ doomed = {} /\ r.rest = {}
          /\ l = KeyEntry
       \/ /\ fmt = "npm" /\ doomed = {} /\ r.rest = {}
          /\ \/ r.op = "tag" /\ l = "tagLookup" /\ r.name \in Names
             \/ r.op = "untag" /\ l = "tagList"

Arrival(p) == \E l, r, doomed : BeginDelete(p, l, r, doomed) /\ Arrives(l, r, doomed)

\* One query answers: what is listed may be a version without files.
AtOnce(p) ==
    \E a, b : /\ a = [code |-> a.code, bare |-> b, met |-> FALSE]
              /\ b \in BOOLEAN
              /\ b => \E v \in versions : \A f \in files : f.vid # v.id
              /\ AnswerAtOnce(p, a)

\* A request is answered and nothing else happens: an upload that finds its file
\* there or its version gone, or one that has not stored anything.
Quits(p) ==
    /\ pc[p] \notin {"idle", "setProps", "setLicense", "npmTag", "tagClear", "tagSet"}
    /\ pc[p] = "svcFile" => \/ \E f \in files : f.vid = rq[p].verId
                            \/ \A v \in versions : v.id # rq[p].verId
    /\ pc[p] = "mvnBackfill" => \A v \in versions : v.id # rq[p].verId
    /\ \E code : Respond(p, code)
    /\ Still

\* A request goes on to l with locals r.
Hop(p, l, r) ==
    \/ pc[p] = "distinct" /\ l = "listRows" /\ r = rq[p]
    \/ /\ pc[p] = "listRows" /\ l = "listProps"
       /\ \E s : r = [rq[p] EXCEPT !.ids = s] /\ \A i \in s : \E f \in files : f.id = i
    \/ /\ pc[p] = "listProps" /\ l = KeyEntry /\ Signed
       /\ r = [[rq[p] EXCEPT !.one = ListProps(p, Describes)] EXCEPT !.ids = {}]
    \/ /\ pc[p] = "delFile" /\ l = "delCount"
       /\ \E f \in files : /\ f.name = rq[p].name
                           /\ r = [[rq[p] EXCEPT !.verId = f.vid] EXCEPT !.fileId = f.id]
    \/ /\ pc[p] = "delCount" /\ l = "delApply"
       /\ r = [rq[p] EXCEPT !.one = IsLast(rq[p].verId)]
    \/ /\ pc[p] = "delVersion" /\ l = "delApply"
       /\ \E v \in versions : /\ v.ver = VersionOf(p)
                              /\ r = [[rq[p] EXCEPT !.verId = v.id] EXCEPT !.one = TRUE]
    \/ /\ pc[p] = "svcVersion" /\ l = "svcFile"
       /\ \E v \in versions : v.ver = VersionOf(p) /\ r = [rq[p] EXCEPT !.verId = v.id]
    \/ /\ pc[p] = "arches" /\ l = "nextArch" /\ fmt = "alpine"
       /\ \E s : /\ r = [rq[p] EXCEPT !.rest = s]
                 /\ \A n \in s : \/ n = rq[p].name /\ n # None
                                 \/ n = DefaultName
                                 \/ \E f \in files : f.name = n
    \/ /\ pc[p] = "nextArch" /\ l = "svcPackage" /\ fmt = "alpine"
       /\ \E n \in rq[p].rest : r = [[rq[p] EXCEPT !.name = n] EXCEPT !.rest = rq[p].rest \ {n}]
    \/ pc[p] = "mvnParse" /\ l = "svcPackage" /\ r = rq[p]
    \/ /\ pc[p] = "tagLookup" /\ l = "tagList"
       /\ \E v \in versions : v.ver = VersionOf(p) /\ r = [rq[p] EXCEPT !.verId = v.id]
    \/ /\ pc[p] = "tagList" /\ l = "tagClear"
       /\ r = [rq[p] EXCEPT !.tagIds = {v.id : v \in versions}]
    \/ pc[p] = "tagClear" /\ l = "tagSet" /\ rq[p].tagIds = {} /\ r = rq[p]

Moves(p) == \E l, r : Continue(p, l, r) /\ Hop(p, l, r) /\ Still

\* A request is let in to the format's ExclusivePool.
Locks(p) ==
    /\ holder = None /\ holder' = p
    /\ \E l : /\ Goto(p, l)
              /\ \/ pc[p] = "mvnCheckIn" /\ l = IF rq[p].op = "checksum" THEN "mvnVerify" ELSE "mvnParse"
                 \/ pc[p] = "nugetCheckIn" /\ l = "svcPackage"
                 \/ pc[p] = "keyCheckIn" /\ l = "keyPackage"
    /\ answer' = NoAnswer
    /\ UNCHANGED <<rq, hist>> /\ Still

Uploading(p) == rq[p].op = "upload"

Inserts(p) ==
    /\ Uploading(p)
    /\ pc[p] = "svcVersion"
    /\ pkg = rq[p].pkgId
    /\ VersionRows(VersionOf(p)) = {}
    /\ \E m : /\ fmt = "maven" => m = MvnMeta(p)
              /\ versions' = versions \cup {[id |-> FreshVersion, ver |-> VersionOf(p),
                    quar |-> FALSE, lic |-> FALSE, meta |-> m, tag |-> FALSE]}
    /\ Continue(p, "svcFile", [rq[p] EXCEPT !.verId = FreshVersion])
    /\ UNCHANGED <<repo, pkg, files, keys, verdict, events>>

\* What comes after a file was stored.
Stored(p) ==
    \/ /\ Created(p, {rq[p].name})
       /\ fmt = "generic" \/ (fmt = "maven" /\ rq[p].name # Pom)
    \/ /\ Signed
       /\ Continue(p, "setProps", [[rq[p] EXCEPT !.fileId = FreshFile(rq[p].name)]
                                       EXCEPT !.todo = <<"coordinates", Describes>>])
    \/ fmt = "cran" /\ Continue(p, "setLicense", [rq[p] EXCEPT !.fileId = FreshFile(rq[p].name)])
    \/ fmt = "npm" /\ Continue(p, "setLicense", rq[p])
    \/ fmt = "maven" /\ rq[p].name = Pom /\ Continue(p, "mvnBackfill", rq[p])
    \/ /\ fmt = "nuget" /\ rq[p].rest # {}
       /\ Continue(p, "svcPackage", [[rq[p] EXCEPT !.name = Nuspec] EXCEPT !.rest = {}])
    \/ fmt = "nuget" /\ rq[p].rest = {} /\ Created(p, {Nupkg, Nuspec})

Stores(p) ==
    /\ Uploading(p)
    /\ pc[p] = "svcFile"
    /\ ~ \E f \in files : f.vid = rq[p].verId /\ f.name = rq[p].name
    /\ \E v \in versions : v.id = rq[p].verId
    /\ files' = files \cup {[id |-> FreshFile(rq[p].name), vid |-> rq[p].verId,
                             name |-> rq[p].name, sha |-> rq[p].sha, props |-> {}]}
    /\ Stored(p)
    /\ UNCHANGED <<repo, pkg, versions, keys, verdict, events>>

\* The .nuspec is there already, or cannot be buffered.
Settles(p) ==
    /\ fmt = "nuget" /\ Uploading(p) /\ rq[p].rest = {} /\ rq[p].name = Nuspec
    /\ \/ /\ Created(p, {Nupkg, Nuspec})
          /\ pc[p] = "svcFile"
          /\ \E f \in files : f.vid = rq[p].verId /\ f.name = rq[p].name
       \/ /\ Created(p, {Nupkg})
          /\ pc[p] = "svcPackage"
    /\ UNCHANGED <<repo, pkg, versions, files, keys, verdict>>

Describing(p) ==
    /\ Uploading(p)
    /\ Signed \/ fmt = "cran"
    /\ \/ SetProperties(p, Created(p, {rq[p].name}))
       \/ SetProperties(p, Continue(p, "setLicense", rq[p])) /\ fmt # "cran"

Licenses(p) ==
    /\ \/ SetLicense(p, Created(p, {rq[p].name}))
       \/ fmt = "alpine" /\ SetLicense(p, Continue(p, "nextArch", rq[p]))
       \/ fmt = "cran" /\ SetLicense(p, Continue(p, "setProps", [rq[p] EXCEPT !.todo = CranProps]))
       \/ fmt = "npm" /\ SetLicense(p, Continue(p, "npmTag", rq[p]))

\* UpdateVersionMetadata found the version.
Backfills(p) ==
    /\ fmt = "maven"
    /\ pc[p] = "mvnBackfill"
    /\ LET mine == {v \in versions : v.id = rq[p].verId} IN
         /\ mine # {}
         /\ versions' = (versions \ mine) \cup {[v EXCEPT !.meta = rq[p].sha] : v \in mine}
    /\ Continue(p, "setLicense", rq[p])
    /\ UNCHANGED <<repo, pkg, files, keys, verdict, events>>

\* setDistTag and deleteDistTag take the tag from one more version.
Untags(p) ==
    /\ pc[p] = "tagClear"
    /\ \E i \in rq[p].tagIds :
          /\ versions' = WithTag(i, FALSE)
          /\ Continue(p, "tagClear", [rq[p] EXCEPT !.tagIds = rq[p].tagIds \ {i}])
    /\ UNCHANGED <<repo, pkg, files, keys, verdict, events>>

Tags(p) == fmt = "npm" /\ (NpmPublishTag(p) \/ Untags(p) \/ NpmTagSet(p))

\* An index that is not signed.
Lists(p) == fmt = "debian" /\ Index(p, "control")

KeyKinds(p) == Signed /\ (KeyPackage(p) \/ KeyPrivate(p) \/ KeyPublic(p)
                            \/ KeySetPrivate(p) \/ KeySetPublic(p))

Kinds(p) ==
    \/ Arrival(p) \/ AtOnce(p) \/ Quits(p) \/ Moves(p) \/ Locks(p)
    \/ Uploading(p) /\ GetOrCreatePackage(p)
    \/ Inserts(p) \/ Stores(p) \/ Settles(p) \/ Describing(p) \/ Licenses(p) \/ Backfills(p)
    \/ DeleteApply(p) /\ fmt \notin {"npm", "maven"}
    \/ Tags(p) \/ Lists(p) \/ KeyKinds(p)

\* A request is answered before it has stored anything.
LEMMA QuitKind ==
  ASSUME NEW p \in Procs, NEW code, Respond(p, code), Still,
         pc[p] \notin {"idle", "setProps", "setLicense", "npmTag", "tagClear", "tagSet", "svcFile",
                      "mvnBackfill"}
  PROVE  Quits(p)
  BY Zenon DEF Quits

\* A request of one of the forms in Arrives.
LEMMA ArrivalKind ==
  ASSUME NEW p \in Procs, NEW l, NEW r, NEW doomed,
         Arrives(l, r, doomed), BeginDelete(p, l, r, doomed)
  PROVE  Arrival(p)
  BY Zenon DEF Arrival

\* An answer that lists nothing.
LEMMA StatusKind ==
  ASSUME NEW p \in Procs, NEW code, AnswerAtOnce(p, Status(code))
  PROVE  AtOnce(p)
<1>1. PICK a : a = Status(code)
  OBVIOUS
<1>2. a = [code |-> a.code, bare |-> FALSE, met |-> FALSE]
  BY <1>1 DEF Status, NoAnswer
<1> QED
  BY <1>1, <1>2, Zenon DEF AtOnce

\* A download.
LEMMA ServeKind ==
  ASSUME NEW p \in Procs, NEW found, ServeFile(p, found)
  PROVE  AtOnce(p)
  BY StatusKind, Zenon DEF ServeFile

\* A list of the versions, some perhaps without files.
LEMMA BareKind ==
  ASSUME NEW p \in Procs, NEW code, NEW b \in BOOLEAN,
         AnswerAtOnce(p, [Status(code) EXCEPT !.bare = b]),
         b => \E v \in versions : \A f \in files : f.vid # v.id
  PROVE  AtOnce(p)
<1>1. PICK a : a = [Status(code) EXCEPT !.bare = b]
  OBVIOUS
<1>2. a = [code |-> a.code, bare |-> b, met |-> FALSE]
  BY <1>1 DEF Status, NoAnswer
<1> QED
  BY <1>1, <1>2, Zenon DEF AtOnce

\* The steps of a deletion before the last.
LEMMA DeleteKinds ==
  ASSUME NEW p \in Procs,
         \/ DeleteLookup(p, FileRows(rq[p].name)) \/ DeleteCount(p)
         \/ DeleteLookupVersion(p, VersionOf(p))
  PROVE  Quits(p) \/ Moves(p)
<1>1. Still
  BY DEF Still, DeleteLookup, DeleteCount, DeleteLookupVersion, rows
<1>2. ASSUME pc[p] \in {"delFile", "delVersion"}, Respond(p, "404") PROVE Quits(p)
  BY <1>1, <1>2, QuitKind
<1>3. ASSUME NEW f \in FileRows(rq[p].name), pc[p] = "delFile",
             Continue(p, "delCount", [rq[p] EXCEPT !.verId = f.vid, !.fileId = f.id])
      PROVE  Moves(p)
  <2>1. PICK r : r = [[rq[p] EXCEPT !.verId = f.vid] EXCEPT !.fileId = f.id]
    OBVIOUS
  <2>2. PICK l : l = "delCount"
    OBVIOUS
  <2>3. Continue(p, l, r)
    BY <1>3, <2>1, <2>2
  <2>4. f \in files /\ f.name = rq[p].name
    BY DEF FileRows
  <2>5. Hop(p, l, r)
    BY <1>3, <2>1, <2>2, <2>4 DEF Hop
  <2> QED
    BY <1>1, <2>3, <2>5, Zenon DEF Moves
<1>4. ASSUME pc[p] = "delCount",
             Continue(p, "delApply", [rq[p] EXCEPT !.one = IsLast(rq[p].verId)])
      PROVE  Moves(p)
  <2>1. PICK r : r = [rq[p] EXCEPT !.one = IsLast(rq[p].verId)]
    OBVIOUS
  <2>2. PICK l : l = "delApply"
    OBVIOUS
  <2>3. Continue(p, l, r) /\ Hop(p, l, r)
    BY <1>4, <2>1, <2>2 DEF Hop
  <2> QED
    BY <1>1, <2>3, Zenon DEF Moves
<1>5. ASSUME NEW v \in VersionRows(VersionOf(p)), pc[p] = "delVersion",
             Continue(p, "delApply", [rq[p] EXCEPT !.verId = v.id, !.one = TRUE])
      PROVE  Moves(p)
  <2>1. PICK r : r = [[rq[p] EXCEPT !.verId = v.id] EXCEPT !.one = TRUE]
    OBVIOUS
  <2>2. PICK l : l = "delApply"
    OBVIOUS
  <2>3. v \in versions /\ v.ver = VersionOf(p)
    BY DEF VersionRows
  <2>4. Continue(p, l, r) /\ Hop(p, l, r)
    BY <1>5, <2>1, <2>2, <2>3 DEF Hop
  <2> QED
    BY <1>1, <2>4, Zenon DEF Moves
<1> QED
  BY <1>2, <1>3, <1>4, <1>5 DEF DeleteLookup, DeleteCount, DeleteLookupVersion

\* The rows of an index, and the way to the key.
LEMMA ListKinds ==
  ASSUME NEW p \in Procs,
         \/ \E n : ListRows(p, Listed(n))
         \/ Signed /\ SignIndex(p, KeyEntry, Describes)
  PROVE  Quits(p) \/ Moves(p)
<1>1. Still
  BY DEF Still, ListRows, SignIndex, rows
<1>2. ASSUME pc[p] = "listRows", Respond(p, "404") PROVE Quits(p)
  BY <1>1, <1>2, QuitKind
<1>3. ASSUME NEW n, pc[p] = "listRows", NEW s, s = {f.id : f \in Listed(n)},
             Continue(p, "listProps", [rq[p] EXCEPT !.ids = s])
      PROVE  Moves(p)
  <2>1. PICK r : r = [rq[p] EXCEPT !.ids = s]
    OBVIOUS
  <2>2. PICK l : l = "listProps"
    OBVIOUS
  <2>3. \A i \in s : \E f \in files : f.id = i
    BY <1>3 DEF Listed
  <2>4. Continue(p, l, r) /\ Hop(p, l, r)
    BY <1>3, <2>1, <2>2, <2>3 DEF Hop
  <2> QED
    BY <1>1, <2>4, Zenon DEF Moves
<1>4. ASSUME pc[p] = "listProps", Signed,
             Continue(p, KeyEntry, [rq[p] EXCEPT !.one = ListProps(p, Describes), !.ids = {}])
      PROVE  Moves(p)
  <2>1. PICK r : r = [[rq[p] EXCEPT !.one = ListProps(p, Describes)] EXCEPT !.ids = {}]
    OBVIOUS
  <2>2. PICK l : l = KeyEntry
    OBVIOUS
  <2>3. Continue(p, l, r) /\ Hop(p, l, r)
    BY <1>4, <2>1, <2>2 DEF Hop
  <2> QED
    BY <1>1, <2>3, Zenon DEF Moves
<1>5. ASSUME NEW n, ListRows(p, Listed(n)) PROVE Quits(p) \/ Moves(p)
  <2>1. PICK s : s = {f.id : f \in Listed(n)}
    OBVIOUS
  <2>2. /\ pc[p] = "listRows"
        /\ Respond(p, "404") \/ Continue(p, "listProps", [rq[p] EXCEPT !.ids = s])
    BY <1>5, <2>1 DEF ListRows
  <2> QED
    BY <1>2, <1>3, <2>1, <2>2
<1> QED
  BY <1>4, <1>5 DEF SignIndex

\* The version of an upload, which exists, is inserted, or cannot be.
LEMMA VersionKinds ==
  ASSUME NEW p \in Procs, Uploading(p), NEW m, fmt = "maven" => m = MvnMeta(p),
         GetOrAddVersion(p, m) \/ AddVersion(p, m)
  PROVE  Quits(p) \/ Moves(p) \/ Inserts(p)
<1>1. /\ UNCHANGED <<repo, pkg, files, keys, verdict, events>> /\ pc[p] = "svcVersion"
  BY DEF GetOrAddVersion, AddVersion
<1>2. ASSUME NEW code, Respond(p, code), UNCHANGED versions PROVE Quits(p)
  BY <1>1, <1>2, QuitKind DEF Still
<1>3. ASSUME NEW v \in VersionRows(VersionOf(p)), UNCHANGED versions,
             Continue(p, "svcFile", [rq[p] EXCEPT !.verId = v.id])
      PROVE  Moves(p)
  <2>1. PICK r : r = [rq[p] EXCEPT !.verId = v.id]
    OBVIOUS
  <2>2. PICK l : l = "svcFile"
    OBVIOUS
  <2>3. v \in versions /\ v.ver = VersionOf(p)
    BY DEF VersionRows
  <2>4. Continue(p, l, r) /\ Hop(p, l, r)
    BY <1>1, <1>3, <2>1, <2>2, <2>3 DEF Hop
  <2> QED
    BY <1>1, <1>3, <2>4, Zenon DEF Moves, Still
<1>4. ASSUME VersionRows(VersionOf(p)) = {}, CreateVersion(p, m) PROVE Quits(p) \/ Inserts(p)
  BY <1>1, <1>2, <1>4 DEF CreateVersion, Inserts
<1> QED
  BY <1>2, <1>3, <1>4 DEF GetOrAddVersion, AddVersion

\* The file of an upload is not stored.
LEMMA NotStored ==
  ASSUME NEW p \in Procs, NEW code, Respond(p, code), pc[p] = "svcFile", UNCHANGED files,
         UNCHANGED <<repo, pkg, versions, keys, verdict, events>>,
         \/ \E f \in files : f.vid = rq[p].verId
         \/ \A v \in versions : v.id # rq[p].verId
  PROVE  Quits(p)
  BY Zenon DEF Quits, Still

\* The names clients use are names.
LEMMA NamesAreNames == ASSUME repo \in Repos PROVE repo.names \subseteq Names
  BY HostedAssumption

\* uploads that go to the service at once.
LEMMA UploadArrives ==
  ASSUME repo \in Repos, NEW p \in Procs, NEW n \in repo.names, NEW c,
         fmt \notin {"maven", "nuget", "alpine"},
         Begin(p, "svcPackage", [NoLocal EXCEPT !.op = "upload", !.name = n, !.sha = c])
  PROVE  Arrival(p)
<1>1. PICK r : r = [NoLocal EXCEPT !.op = "upload", !.name = n, !.sha = c]
  OBVIOUS
<1>3. /\ IsLocal(r) /\ r.ids = {} /\ r.tagIds = {} /\ r.one = FALSE
      /\ r.op = "upload" /\ r.name = n /\ r.rest = {}
  BY <1>1 DEF NoLocal, IsLocal, LocalFields
<1>4. Arrives("svcPackage", r, {})
  BY <1>3, NamesAreNames DEF Arrives
<1> QED
  BY <1>1, <1>4, ArrivalKind DEF Begin

\* Deletions of one file.
LEMMA DeleteArrives ==
  ASSUME repo \in Repos, NEW p \in Procs, NEW n \in repo.names, fmt \notin {"npm", "maven"},
         BeginDelete(p, "delFile", [NoLocal EXCEPT !.op = "delete", !.name = n], {n})
  PROVE  Arrival(p)
<1>1. PICK r : r = [NoLocal EXCEPT !.op = "delete", !.name = n]
  OBVIOUS
<1>3. /\ IsLocal(r) /\ r.ids = {} /\ r.tagIds = {} /\ r.one = FALSE
      /\ r.op = "delete" /\ r.name = n /\ r.rest = {}
  BY <1>1 DEF NoLocal, IsLocal, LocalFields
<1>4. Arrives("delFile", r, {n})
  BY <1>3, NamesAreNames DEF Arrives
<1> QED
  BY <1>1, <1>4, ArrivalKind

\* Deletions of a version.
LEMMA DeleteVersionArrives ==
  ASSUME NEW p \in Procs, NEW n \in Names, fmt \notin {"npm", "maven"}, NEW doomed,
         \A m \in Names : VerOf[fmt][m] = VerOf[fmt][n] => m \in doomed,
         BeginDelete(p, "delVersion", [NoLocal EXCEPT !.op = "delete", !.name = n], doomed)
  PROVE  Arrival(p)
<1>1. PICK r : r = [NoLocal EXCEPT !.op = "delete", !.name = n]
  OBVIOUS
<1>3. /\ IsLocal(r) /\ r.ids = {} /\ r.tagIds = {} /\ r.one = FALSE
      /\ r.op = "delete" /\ r.name = n /\ r.rest = {}
  BY <1>1 DEF NoLocal, IsLocal, LocalFields
<1>4. Arrives("delVersion", r, doomed)
  BY <1>3, NamesAreNames DEF Arrives
<1> QED
  BY <1>1, <1>4, ArrivalKind

\* Requests for an index.
LEMMA ListArrives ==
  ASSUME NEW p \in Procs, NEW l \in {"listRows", "distinct"}, NEW op \in ListOps, NEW n, Signed,
         \/ Begin(p, l, [NoLocal EXCEPT !.op = op, !.name = n])
         \/ Begin(p, l, [NoLocal EXCEPT !.op = op])
  PROVE  Arrival(p)
<1>1. PICK r : /\ Begin(p, l, r)
               /\ \/ r = [NoLocal EXCEPT !.op = op, !.name = n]
                  \/ r = [NoLocal EXCEPT !.op = op]
  BY Zenon
<1>3. /\ IsLocal(r) /\ r.ids = {} /\ r.tagIds = {} /\ r.one = FALSE
      /\ r.op = op /\ r.rest = {}
  BY <1>1 DEF NoLocal, IsLocal, LocalFields
<1>4. Arrives(l, r, {})
  BY <1>3 DEF Arrives
<1> QED
  BY <1>1, <1>4, ArrivalKind DEF Begin

\* Requests for the key.
LEMMA KeyArrives ==
  ASSUME NEW p \in Procs, Signed, Begin(p, KeyEntry, [NoLocal EXCEPT !.op = "key"])
  PROVE  Arrival(p)
<1>1. PICK r : r = [NoLocal EXCEPT !.op = "key"]
  OBVIOUS
<1>2. PICK l : l = KeyEntry
  OBVIOUS
<1>3. /\ IsLocal(r) /\ r.ids = {} /\ r.tagIds = {} /\ r.one = FALSE
      /\ r.op = "key" /\ r.rest = {}
  BY <1>1 DEF NoLocal, IsLocal, LocalFields
<1>4. Arrives(l, r, {})
  BY <1>2, <1>3 DEF Arrives
<1> QED
  BY <1>1, <1>2, <1>4, ArrivalKind DEF Begin

\* The lock of the key.
LEMMA KeyStepKinds ==
  ASSUME NEW p \in Procs, Signed, KeyStep(p)
  PROVE  Locks(p) \/ KeyKinds(p)
<1>1. CASE KeyCheckIn(p)
  <2>1. PICK l : l = "keyPackage"
    OBVIOUS
  <2>2. Goto(p, l) /\ pc[p] = "keyCheckIn"
    BY <1>1, <2>1 DEF KeyCheckIn
  <2>3. holder = None /\ holder' = p /\ answer' = NoAnswer /\ UNCHANGED <<rq, hist>> /\ Still
    BY <1>1 DEF KeyCheckIn, Still, rows
  <2> QED
    BY <2>1, <2>2, <2>3, Zenon DEF Locks
<1> QED
  BY <1>1, Zenon DEF KeyStep, KeyKinds

-----------------------------------------------------------------------------
\* Every step of a Debian request (upload, delete, index, key) is of one of the kinds.
LEMMA DebKinds ==
  ASSUME repo \in Repos, NEW p \in Procs, fmt = "debian", DebNext(p)
  PROVE  Kinds(p)
<1>1. Signed /\ KeyEntry = "keyCheckIn" /\ Describes = "control"
  BY DEF Signed, KeyEntry, Describes
<1>2. ASSUME NEW n \in repo.names, NEW c, DebUpload(p, n, c) PROVE AtOnce(p) \/ Arrival(p)
  BY <1>2, StatusKind, UploadArrives DEF DebUpload
<1>3. ASSUME NEW n \in repo.names, DebDownload(p, n) \/ DebDelete(p, n) \/ DebPackages(p, n)
      PROVE  AtOnce(p) \/ Arrival(p)
  <2>1. CASE DebPackages(p, n)
    BY <1>1, <2>1, ListArrives DEF DebPackages, ListOps
  <2> QED
    BY <1>3, <2>1, ServeKind, DeleteArrives DEF DebDownload, DebDelete
<1>4. CASE DebRelease(p)
  <2>1. PICK n : n = None
    OBVIOUS
  <2> QED
    BY <1>1, <1>4, <2>1, ListArrives DEF DebRelease, ListOps, Kinds
<1>5. CASE DebGetKey(p)
  BY <1>1, <1>5, KeyArrives DEF DebGetKey, DebKeyEntry, Kinds
<1>6. CASE DebStore(p)
  <2>1. Uploading(p)
    BY <1>6 DEF DebStore, Uploading
  <2>2. PICK m : m = None
    OBVIOUS
  <2>3. CASE GetOrAddVersion(p, None)
    BY <2>1, <2>2, <2>3, VersionKinds DEF Kinds
  <2>4. CASE CreateFile(p, Continue(p, "setProps", [rq[p] EXCEPT !.fileId = FreshFile(rq[p].name),
                                                              !.todo = DebProps]),
                     Respond(p, "409"))
    <3>1. PICK r : r = [rq[p] EXCEPT !.fileId = FreshFile(rq[p].name), !.todo = DebProps]
      OBVIOUS
    <3>2. r = [[rq[p] EXCEPT !.fileId = FreshFile(rq[p].name)]
                                       EXCEPT !.todo = <<"coordinates", Describes>>]
      BY <1>1, <3>1 DEF DebProps
    <3>3. Continue(p, "setProps", r) => Stored(p)
      BY <1>1, <3>2 DEF Stored
    <3>4. Quits(p) \/ Stores(p)
      BY <2>1, <2>4, <3>1, <3>3, NotStored DEF CreateFile, Stores
    <3> QED
      BY <3>4 DEF Kinds
  <2>5. CASE SetProperties(p, Created(p, {rq[p].name}))
    BY <1>1, <2>1, <2>5, Zenon DEF Kinds, Describing
  <2>6. CASE GetOrCreatePackage(p)
    BY <2>1, <2>6, Zenon DEF Kinds
  <2> QED
    BY <1>6, <2>3, <2>4, <2>5, <2>6, Zenon DEF DebStore
<1>7. CASE DebDeleteStep(p)
  BY <1>7, DeleteKinds, Zenon DEF DebDeleteStep, DebFound, Kinds
<1>8. CASE DebIndex(p)
  <2>1. CASE DebDistinct(p)
    <3>1. Still /\ pc[p] = "distinct"
      BY <2>1 DEF DebDistinct, Still, rows
    <3>2. CASE Respond(p, "404")
      BY <3>1, <3>2, QuitKind DEF Kinds
    <3>3. CASE Continue(p, "listRows", rq[p])
      <4>1. PICK l, r : l = "listRows" /\ r = rq[p]
        OBVIOUS
      <4>2. Continue(p, l, r) /\ Hop(p, l, r)
        BY <3>1, <3>3, <4>1 DEF Hop
      <4> QED
        BY <3>1, <4>2, Zenon DEF Moves, Kinds
    <3> QED
      BY <2>1, <3>2, <3>3, Zenon DEF DebDistinct
  <2>2. CASE ListRows(p, DebEntries(rq[p].name)) \/ SignIndex(p, DebKeyEntry, "control")
    BY <1>1, <2>2, ListKinds, Zenon DEF DebEntries, DebKeyEntry, Kinds
  <2>3. CASE Index(p, "control")
    BY <2>3, Zenon DEF Lists, Kinds
  <2> QED
    BY <1>8, <2>1, <2>2, <2>3, Zenon DEF DebIndex
<1>9. CASE KeyStep(p)
  BY <1>1, <1>9, KeyStepKinds, Zenon DEF Kinds
<1> QED
  BY <1>2, <1>3, <1>4, <1>5, <1>6, <1>7, <1>8, <1>9, Zenon DEF DebNext, Kinds

\* The same for RPM.
LEMMA RpmKinds ==
  ASSUME repo \in Repos, NEW p \in Procs, fmt = "rpm", RpmNext(p)
  PROVE  Kinds(p)
<1>1. Signed /\ KeyEntry = "keyCheckIn" /\ Describes = "metadata"
  BY DEF Signed, KeyEntry, Describes
<1>2. ASSUME NEW n \in repo.names, NEW c, RpmUpload(p, n, c) PROVE AtOnce(p) \/ Arrival(p)
  BY <1>2, StatusKind, UploadArrives DEF RpmUpload
<1>3. ASSUME NEW n \in repo.names, RpmDownload(p, n) \/ RpmDelete(p, n)
      PROVE  AtOnce(p) \/ Arrival(p)
  BY <1>3, ServeKind, DeleteArrives DEF RpmDownload, RpmDelete
<1>4. CASE RpmRepoConfig(p)
  BY <1>4, StatusKind DEF RpmRepoConfig, Kinds
<1>5. CASE RpmRepoFile(p)
  <2>1. PICK n : n = None
    OBVIOUS
  <2> QED
    BY <1>1, <1>5, <2>1, ListArrives DEF RpmRepoFile, ListOps, Kinds
<1>6. CASE RpmGetKey(p)
  BY <1>1, <1>6, KeyArrives DEF RpmGetKey, RpmKeyEntry, Kinds
<1>7. CASE RpmStore(p)
  <2>1. Uploading(p)
    BY <1>7 DEF RpmStore, Uploading
  <2>2. PICK m : m = None
    OBVIOUS
  <2>3. CASE GetOrAddVersion(p, None)
    BY <2>1, <2>2, <2>3, VersionKinds DEF Kinds
  <2>4. CASE CreateFile(p, Continue(p, "setProps", [rq[p] EXCEPT !.fileId = FreshFile(rq[p].name),
                                                              !.todo = RpmProps]),
                     Respond(p, "409"))
    <3>1. PICK r : r = [rq[p] EXCEPT !.fileId = FreshFile(rq[p].name), !.todo = RpmProps]
      OBVIOUS
    <3>2. r = [[rq[p] EXCEPT !.fileId = FreshFile(rq[p].name)]
                                       EXCEPT !.todo = <<"coordinates", Describes>>]
      BY <1>1, <3>1 DEF RpmProps
    <3>3. Continue(p, "setProps", r) => Stored(p)
      BY <1>1, <3>2 DEF Stored
    <3>4. Quits(p) \/ Stores(p)
      BY <2>1, <2>4, <3>1, <3>3, NotStored DEF CreateFile, Stores
    <3> QED
      BY <3>4 DEF Kinds
  <2>5. CASE SetProperties(p, Continue(p, "setLicense", rq[p]))
    BY <1>1, <2>1, <2>5, Zenon DEF Kinds, Describing
  <2>6. CASE SetLicense(p, Created(p, {rq[p].name}))
    BY <2>6, Zenon DEF Kinds, Licenses
  <2>7. CASE GetOrCreatePackage(p)
    BY <2>1, <2>7, Zenon DEF Kinds
  <2> QED
    BY <1>7, <2>3, <2>4, <2>5, <2>6, <2>7, Zenon DEF RpmStore
<1>8. CASE RpmDeleteStep(p)
  BY <1>8, DeleteKinds, Zenon DEF RpmDeleteStep, RpmFound, Kinds
<1>9. CASE RpmBundle(p)
  BY <1>1, <1>9, ListKinds, Zenon DEF RpmBundle, RpmEntries, RpmKeyEntry, Kinds
<1>10. CASE KeyStep(p)
  BY <1>1, <1>10, KeyStepKinds, Zenon DEF Kinds
<1> QED
  BY <1>2, <1>3, <1>4, <1>5, <1>6, <1>7, <1>8, <1>9, <1>10, Zenon DEF RpmNext, Kinds

\* The same for Alpine, where a noarch package is uploaded once per architecture.
LEMMA ApkKinds ==
  ASSUME repo \in Repos, NEW p \in Procs, fmt = "alpine", ApkNext(p)
  PROVE  Kinds(p)
<1>1. Signed /\ KeyEntry = "keyPackage" /\ Describes = "metadata"
  BY DEF Signed, KeyEntry, Describes
<1>2. ASSUME NEW n \in repo.names \cup {None}, NEW c, ApkUpload(p, n, c)
      PROVE  AtOnce(p) \/ Arrival(p)
  <2>1. PICK r : r = [NoLocal EXCEPT !.op = "upload", !.name = n, !.sha = c]
    OBVIOUS
  <2>2. /\ IsLocal(r) /\ r.ids = {} /\ r.tagIds = {} /\ r.one = FALSE
        /\ r.op = "upload" /\ r.name = n /\ r.rest = {}
    BY <2>1 DEF NoLocal, IsLocal, LocalFields
  <2>3. Arrives("arches", r, {})
    BY <2>2, NamesAreNames DEF Arrives
  <2> QED
    BY <1>2, <2>1, <2>3, ArrivalKind, StatusKind DEF Begin, ApkUpload
<1>3. ASSUME NEW n \in repo.names, ApkDownload(p, n) \/ ApkDelete(p, n) \/ ApkRepositoryFile(p, n)
      PROVE  AtOnce(p) \/ Arrival(p)
  <2>1. CASE ApkRepositoryFile(p, n)
    BY <1>1, <2>1, ListArrives DEF ApkRepositoryFile, ListOps
  <2> QED
    BY <1>3, <2>1, ServeKind, DeleteArrives DEF ApkDownload, ApkDelete
<1>4. CASE ApkGetKey(p)
  BY <1>1, <1>4, KeyArrives DEF ApkGetKey, Kinds
<1>5. CASE ApkArches(p)
  <2>1. PICK s : s = IF rq[p].name # None THEN {rq[p].name}
                     ELSE IF DistinctNames = {} THEN {DefaultName} ELSE DistinctNames
    OBVIOUS
  <2>2. PICK r : r = [rq[p] EXCEPT !.rest = s]
    OBVIOUS
  <2>3. PICK l : l = "nextArch"
    OBVIOUS
  <2>4. Continue(p, l, r) /\ pc[p] = "arches" /\ Still
    BY <1>5, <2>1, <2>2, <2>3 DEF ApkArches, Still, rows
  <2>5. \A n \in s : (n = rq[p].name /\ n # None) \/ n = DefaultName \/ \E f \in files : f.name = n
    BY <2>1 DEF DistinctNames
  <2>6. Hop(p, l, r)
    BY <2>2, <2>3, <2>4, <2>5 DEF Hop
  <2> QED
    BY <2>4, <2>6, Zenon DEF Moves, Kinds
<1>6. CASE ApkNextArch(p)
  <2>1. pc[p] = "nextArch" /\ Still
    BY <1>6 DEF ApkNextArch, Still, rows
  <2>2. CASE Respond(p, "403")
    BY <2>1, <2>2, QuitKind DEF Kinds
  <2>3. ASSUME NEW n \in rq[p].rest,
               Continue(p, "svcPackage", [rq[p] EXCEPT !.name = n, !.rest = @ \ {n}])
        PROVE  Kinds(p)
    <3>1. PICK r : r = [[rq[p] EXCEPT !.name = n] EXCEPT !.rest = rq[p].rest \ {n}]
      OBVIOUS
    <3>2. r = [rq[p] EXCEPT !.name = n, !.rest = @ \ {n}]
      BY <3>1
    <3>3. PICK l : l = "svcPackage"
      OBVIOUS
    <3>4. Continue(p, l, r)
      BY <2>3, <3>2, <3>3
    <3>5. Hop(p, l, r)
      BY <2>1, <3>1, <3>3 DEF Hop
    <3> QED
      BY <2>1, <3>4, <3>5, Zenon DEF Moves, Kinds
  <2> QED
    BY <1>6, <2>2, <2>3, Zenon DEF ApkNextArch
<1>7. CASE ApkStore(p)
  <2>1. Uploading(p)
    BY <1>7 DEF ApkStore, Uploading
  <2>2. PICK m : m = None
    OBVIOUS
  <2>3. CASE GetOrAddVersion(p, None)
    BY <2>1, <2>2, <2>3, VersionKinds DEF Kinds
  <2>4. CASE CreateFile(p, Continue(p, "setProps", [rq[p] EXCEPT !.fileId = FreshFile(rq[p].name),
                                                              !.todo = ApkProps]),
                     Respond(p, "409"))
    <3>1. PICK r : r = [rq[p] EXCEPT !.fileId = FreshFile(rq[p].name), !.todo = ApkProps]
      OBVIOUS
    <3>2. r = [[rq[p] EXCEPT !.fileId = FreshFile(rq[p].name)]
                                       EXCEPT !.todo = <<"coordinates", Describes>>]
      BY <1>1, <3>1 DEF ApkProps
    <3>3. Continue(p, "setProps", r) => Stored(p)
      BY <1>1, <3>2 DEF Stored
    <3>4. Quits(p) \/ Stores(p)
      BY <2>1, <2>4, <3>1, <3>3, NotStored DEF CreateFile, Stores
    <3> QED
      BY <3>4 DEF Kinds
  <2>5. CASE SetProperties(p, Continue(p, "setLicense", rq[p]))
    BY <1>1, <2>1, <2>5, Zenon DEF Kinds, Describing
  <2>6. CASE SetLicense(p, IF rq[p].rest = {} THEN Created(p, {rq[p].name})
                        ELSE Continue(p, "nextArch", rq[p]))
    <3>1. Licenses(p)
      BY <2>6 DEF Licenses, SetLicense
    <3> QED
      BY <3>1 DEF Kinds
  <2>7. CASE GetOrCreatePackage(p)
    BY <2>1, <2>7, Zenon DEF Kinds
  <2> QED
    BY <1>7, <2>3, <2>4, <2>5, <2>6, <2>7, Zenon DEF ApkStore
<1>8. CASE ApkDeleteStep(p)
  BY <1>8, DeleteKinds, Zenon DEF ApkDeleteStep, ApkFound, Kinds
<1>9. CASE ApkIndex(p)
  BY <1>1, <1>9, ListKinds, Zenon DEF ApkIndex, ApkEntries, Kinds
<1>10. CASE KeyStep(p)
  BY <1>1, <1>10, KeyStepKinds, Zenon DEF Kinds
<1> QED
  BY <1>2, <1>3, <1>4, <1>5, <1>6, <1>7, <1>8, <1>9, <1>10, Zenon DEF ApkNext, Kinds

\* The same for CRAN, which has no repository key.
LEMMA CranKinds ==
  ASSUME repo \in Repos, NEW p \in Procs, fmt = "cran", CranNext(p)
  PROVE  Kinds(p)
<1>1. ASSUME NEW n \in repo.names, NEW c, CranUpload(p, n, c) PROVE AtOnce(p) \/ Arrival(p)
  BY <1>1, StatusKind, UploadArrives DEF CranUpload
<1>2. ASSUME NEW n \in repo.names, CranDownload(p, n) PROVE AtOnce(p)
  BY <1>2, ServeKind DEF CranDownload
<1>3. ASSUME NEW n \in repo.names, CranDelete(p, n) PROVE Arrival(p)
  <2>1. PICK d : d = {m \in Names : VerOf[fmt][m] = VerOf[fmt][n]}
    OBVIOUS
  <2>2. \A m \in Names : VerOf[fmt][m] = VerOf[fmt][n] => m \in d
    BY <2>1
  <2>3. BeginDelete(p, "delVersion", [NoLocal EXCEPT !.op = "delete", !.name = n], d)
    BY <1>3, <2>1 DEF CranDelete
  <2> QED
    BY <2>2, <2>3, NamesAreNames, DeleteVersionArrives
<1>4. CASE CranIndex(p)
  BY <1>4, StatusKind DEF CranIndex, Kinds
<1>5. CASE CranStore(p)
  <2>1. Uploading(p)
    BY <1>5 DEF CranStore, Uploading
  <2>2. PICK m : m = None
    OBVIOUS
  <2>3. CASE GetOrAddVersion(p, None)
    BY <2>1, <2>2, <2>3, VersionKinds DEF Kinds
  <2>4. CASE CreateFile(p, Continue(p, "setLicense", [rq[p] EXCEPT !.fileId = FreshFile(rq[p].name)]),
                     Respond(p, "409"))
    <3>1. PICK r : r = [rq[p] EXCEPT !.fileId = FreshFile(rq[p].name)]
      OBVIOUS
    <3>2. Continue(p, "setLicense", r) => Stored(p)
      BY <3>1 DEF Stored
    <3>3. Quits(p) \/ Stores(p)
      BY <2>1, <2>4, <3>1, <3>2, NotStored DEF CreateFile, Stores
    <3> QED
      BY <3>3 DEF Kinds
  <2>5. CASE SetLicense(p, Continue(p, "setProps", [rq[p] EXCEPT !.todo = CranProps]))
    BY <2>5, Zenon DEF Kinds, Licenses
  <2>6. CASE SetProperties(p, Created(p, {rq[p].name}))
    BY <2>1, <2>6, Zenon DEF Kinds, Describing
  <2>7. CASE GetOrCreatePackage(p)
    BY <2>1, <2>7, Zenon DEF Kinds
  <2> QED
    BY <1>5, <2>3, <2>4, <2>5, <2>6, <2>7, Zenon DEF CranStore
<1>6. CASE CranDeleteStep(p)
  <2>1. fmt \notin {"npm", "maven"}
    OBVIOUS
  <2> QED
    BY <1>6, <2>1, DeleteKinds, Zenon DEF CranDeleteStep, Kinds
<1> QED
  BY <1>1, <1>2, <1>3, <1>4, <1>5, <1>6, Zenon DEF CranNext, Kinds

\* The same for the generic format.
LEMMA GenKinds ==
  ASSUME repo \in Repos, NEW p \in Procs, fmt = "generic", GenNext(p)
  PROVE  Kinds(p)
<1>1. ASSUME NEW n \in repo.names, NEW c, GenUpload(p, n, c) PROVE AtOnce(p) \/ Arrival(p)
  BY <1>1, StatusKind, UploadArrives DEF GenUpload
<1>2. ASSUME NEW n \in repo.names, GenDownload(p, n) \/ GenDeleteFile(p, n)
      PROVE  AtOnce(p) \/ Arrival(p)
  BY <1>2, ServeKind, DeleteArrives DEF GenDownload, GenDeleteFile
<1>3. ASSUME NEW n \in repo.names, GenDeleteVersion(p, n) PROVE Arrival(p)
  <2>1. PICK d : d = {m \in Names : VerOf[fmt][m] = VerOf[fmt][n]}
    OBVIOUS
  <2>2. \A m \in Names : VerOf[fmt][m] = VerOf[fmt][n] => m \in d
    BY <2>1
  <2>3. BeginDelete(p, "delVersion", [NoLocal EXCEPT !.op = "delete", !.name = n], d)
    BY <1>3, <2>1 DEF GenDeleteVersion
  <2> QED
    BY <2>2, <2>3, NamesAreNames, DeleteVersionArrives
<1>4. CASE GenRefuse(p)
  BY <1>4, StatusKind DEF GenRefuse, Kinds
<1>5. CASE GenStore(p)
  <2>1. Uploading(p)
    BY <1>5 DEF GenStore, Uploading
  <2>2. PICK m : m = None
    OBVIOUS
  <2>3. CASE GetOrAddVersion(p, None)
    BY <2>1, <2>2, <2>3, VersionKinds DEF Kinds
  <2>4. CASE CreateFile(p, Created(p, {rq[p].name}), Respond(p, "409"))
    <3>1. Created(p, {rq[p].name}) => Stored(p)
      BY DEF Stored
    <3>2. Quits(p) \/ Stores(p)
      BY <2>1, <2>4, <3>1, NotStored DEF CreateFile, Stores
    <3> QED
      BY <3>2 DEF Kinds
  <2>5. CASE GetOrCreatePackage(p)
    BY <2>1, <2>5, Zenon DEF Kinds
  <2> QED
    BY <1>5, <2>3, <2>4, <2>5, Zenon DEF GenStore
<1>6. CASE GenDeleteStep(p) \/ GenDeleteVersionStep(p)
  <2>1. fmt \notin {"npm", "maven"}
    OBVIOUS
  <2> QED
    BY <1>6, <2>1, DeleteKinds, Zenon DEF GenDeleteStep, GenDeleteVersionStep, GenFound, Kinds
<1> QED
  BY <1>1, <1>2, <1>3, <1>4, <1>5, <1>6, Zenon DEF GenNext, Kinds

\* The same for Maven, with the backfill of the pom's metadata.
LEMMA MvnKinds ==
  ASSUME repo \in Repos, NEW p \in Procs, fmt = "maven", MvnNext(p)
  PROVE  Kinds(p)
<1>1. ASSUME NEW n \in repo.names, NEW c, MvnUpload(p, n, c) \/ MvnChecksumUpload(p, n, c)
      PROVE  Arrival(p)
  <2>1. PICK op \in {"upload", "checksum"} :
          Begin(p, "mvnCheckIn", [NoLocal EXCEPT !.op = op, !.name = n, !.sha = c])
    BY <1>1 DEF MvnUpload, MvnChecksumUpload
  <2>2. PICK r : r = [NoLocal EXCEPT !.op = op, !.name = n, !.sha = c]
    OBVIOUS
  <2>3. /\ IsLocal(r) /\ r.ids = {} /\ r.tagIds = {} /\ r.one = FALSE
        /\ r.op = op /\ r.name = n /\ r.rest = {}
    BY <2>2 DEF NoLocal, IsLocal, LocalFields
  <2>4. Arrives("mvnCheckIn", r, {})
    BY <2>3, NamesAreNames DEF Arrives
  <2> QED
    BY <2>1, <2>2, <2>4, ArrivalKind DEF Begin
<1>2. ASSUME NEW n \in repo.names, MvnDownload(p, n) PROVE AtOnce(p)
  BY <1>2, ServeKind DEF MvnDownload
<1>3. CASE MvnMetadataUpload(p) \/ MvnBadPath(p)
  BY <1>3, StatusKind DEF MvnMetadataUpload, MvnBadPath, Kinds
<1>4. CASE MvnMetadata(p)
  <2>1. PICK b : b = (\E v \in MvnVisible : \A f \in files : f.vid # v.id)
    OBVIOUS
  <2>2. b \in BOOLEAN /\ (b => \E v \in versions : \A f \in files : f.vid # v.id)
    BY <2>1 DEF MvnVisible
  <2>3. PICK code : code = IF MvnVisible = {} THEN "404" ELSE "200"
    OBVIOUS
  <2>4. AnswerAtOnce(p, [Status(code) EXCEPT !.bare = b])
    BY <1>4, <2>1, <2>3 DEF MvnMetadata
  <2> QED
    BY <2>2, <2>4, BareKind DEF Kinds
<1>5. CASE MvnCheckIn(p)
  <2>1. PICK l : l = IF rq[p].op = "checksum" THEN "mvnVerify" ELSE "mvnParse"
    OBVIOUS
  <2>2. Goto(p, l) /\ pc[p] = "mvnCheckIn"
    BY <1>5, <2>1 DEF MvnCheckIn
  <2>3. holder = None /\ holder' = p /\ answer' = NoAnswer /\ UNCHANGED <<rq, hist>> /\ Still
    BY <1>5 DEF MvnCheckIn, Still, rows
  <2>4. Locks(p)
    BY <2>1, <2>2, <2>3, Zenon DEF Locks
  <2> QED
    BY <2>4 DEF Kinds
<1>6. CASE MvnVerifyChecksum(p)
  <2>1. Still /\ pc[p] = "mvnVerify"
    BY <1>6 DEF MvnVerifyChecksum, Still, rows
  <2>2. \E code : Respond(p, code)
    BY <1>6, Zenon DEF MvnVerifyChecksum
  <2> QED
    BY <2>1, <2>2, QuitKind DEF Kinds
<1>7. CASE MvnParse(p)
  <2>1. Still /\ pc[p] = "mvnParse"
    BY <1>7 DEF MvnParse, Still, rows
  <2>2. ASSUME NEW code, Respond(p, code) PROVE Kinds(p)
    BY <2>1, <2>2, QuitKind DEF Kinds
  <2>3. CASE Continue(p, "svcPackage", rq[p])
    <3>1. PICK l, r : l = "svcPackage" /\ r = rq[p]
      OBVIOUS
    <3>2. Continue(p, l, r) /\ Hop(p, l, r)
      BY <2>1, <2>3, <3>1 DEF Hop
    <3> QED
      BY <2>1, <3>2, Zenon DEF Moves, Kinds
  <2> QED
    BY <1>7, <2>2, <2>3, Zenon DEF MvnParse
<1>8. CASE MvnStore(p)
  <2>1. Uploading(p)
    BY <1>8 DEF MvnStore, Uploading
  <2>2. PICK m : m = MvnMeta(p)
    OBVIOUS
  <2>3. CASE GetOrAddVersion(p, MvnMeta(p))
    BY <2>1, <2>2, <2>3, VersionKinds DEF Kinds
  <2>4. CASE CreateFile(p, IF rq[p].name = Pom THEN Continue(p, "mvnBackfill", rq[p])
                        ELSE Created(p, {rq[p].name}),
                     Respond(p, "409"))
    <3>1. (IF rq[p].name = Pom THEN Continue(p, "mvnBackfill", rq[p])
                        ELSE Created(p, {rq[p].name})) => Stored(p)
      BY DEF Stored
    <3>2. Quits(p) \/ Stores(p)
      BY <2>1, <2>4, <3>1, NotStored DEF CreateFile, Stores
    <3> QED
      BY <3>2 DEF Kinds
  <2>5. CASE GetOrCreatePackage(p)
    BY <2>1, <2>5, Zenon DEF Kinds
  <2> QED
    BY <1>8, <2>3, <2>4, <2>5, Zenon DEF MvnStore
<1>9. CASE MvnBackfill(p)
  <2>1. /\ UNCHANGED <<repo, pkg, files, keys, verdict, events>>
        /\ pc[p] = "mvnBackfill"
    BY <1>9 DEF MvnBackfill
  <2>2. CASE Respond(p, "500") /\ UNCHANGED versions /\ \A v \in versions : v.id # rq[p].verId
    BY <2>1, <2>2, Zenon DEF Quits, Still, Kinds
  <2>3. \/ Respond(p, "500") /\ UNCHANGED versions /\ \A v \in versions : v.id # rq[p].verId
        \/ Backfills(p)
    BY <1>9 DEF MvnBackfill, Backfills
  <2> QED
    BY <2>2, <2>3 DEF Kinds
<1>10. CASE MvnLicense(p)
  BY <1>10, Zenon DEF MvnLicense, Licenses, Kinds
<1> QED
  BY <1>1, <1>2, <1>3, <1>4, <1>5, <1>6, <1>7, <1>8, <1>9, <1>10, Zenon DEF MvnNext, Kinds

\* A .nuspec is stored after its .nupkg: names and rest of a push go together.
NugetNames(p) == rq[p].op = "upload" =>
    \/ rq[p].name = Nupkg /\ rq[p].rest = {Nuspec}
    \/ rq[p].name = Nuspec /\ rq[p].rest = {}

\* The same for NuGet, whose upload stores the nupkg and then the nuspec.
LEMMA NugetKinds ==
  ASSUME repo \in Repos, NEW p \in Procs, fmt = "nuget", NugetNames(p), NugetNext(p)
  PROVE  Kinds(p)
<1>1. ASSUME NEW c, NugetUpload(p, c) PROVE AtOnce(p) \/ Arrival(p)
  <2>1. PICK r : r = [NoLocal EXCEPT !.op = "upload", !.name = Nupkg, !.sha = c, !.rest = {Nuspec}]
    OBVIOUS
  <2>2. /\ IsLocal(r) /\ r.ids = {} /\ r.tagIds = {} /\ r.one = FALSE
        /\ r.op = "upload" /\ r.name = Nupkg /\ r.rest = {Nuspec}
    BY <2>1 DEF NoLocal, IsLocal, LocalFields
  <2>3. Arrives("nugetCheckIn", r, {})
    BY <2>2, NugetAssumption DEF Arrives
  <2>4. CASE Begin(p, "nugetCheckIn", r)
    BY <2>3, <2>4, ArrivalKind DEF Begin
  <2> QED
    BY <1>1, <2>1, <2>4, StatusKind DEF NugetUpload
<1>2. ASSUME NEW n, NugetDownload(p, n) PROVE AtOnce(p)
  BY <1>2, ServeKind DEF NugetDownload
<1>3. CASE NugetDelete(p)
  <2>1. Arrival(p)
    BY <1>3, NugetAssumption, DeleteVersionArrives DEF NugetDelete
  <2> QED
    BY <2>1 DEF Kinds
<1>4. CASE NugetServiceIndex(p)
  BY <1>4, StatusKind DEF NugetServiceIndex, Kinds
<1>5. CASE NugetRegistration(p) \/ NugetPackageVersions(p) \/ NugetSearch(p)
  <2>1. PICK b : b = NugetBare
    OBVIOUS
  <2>2. b \in BOOLEAN /\ (b => \E v \in versions : \A f \in files : f.vid # v.id)
    BY <2>1 DEF NugetVisible, NugetBare
  <2>3. \E code : AnswerAtOnce(p, [Status(code) EXCEPT !.bare = b])
    BY <1>5, <2>1, Zenon DEF NugetRegistration, NugetPackageVersions, NugetSearch
  <2> QED
    BY <2>2, <2>3, BareKind DEF Kinds
<1>6. CASE NugetCheckIn(p)
  <2>1. pc[p] = "nugetCheckIn" /\ holder = None /\ Still
    BY <1>6 DEF NugetCheckIn, Still, rows
  <2>2. CASE Respond(p, "403")
    BY <2>1, <2>2, QuitKind DEF Kinds
  <2>3. CASE holder' = p /\ Goto(p, "svcPackage") /\ answer' = NoAnswer /\ UNCHANGED <<rq, hist>>
    <3>1. PICK l : l = "svcPackage"
      OBVIOUS
    <3>2. Goto(p, l)
      BY <2>3, <3>1
    <3>3. Locks(p)
      BY <2>1, <2>3, <3>1, <3>2, Zenon DEF Locks
    <3> QED
      BY <3>3 DEF Kinds
  <2> QED
    BY <1>6, <2>2, <2>3, Zenon DEF NugetCheckIn
<1>7. CASE NugetStore(p)
  <2>1. Uploading(p)
    BY <1>7 DEF NugetStore, Uploading
  <2>2. PICK m : m = None
    OBVIOUS
  <2>3. CASE GetOrAddVersion(p, None)
    BY <2>1, <2>2, <2>3, VersionKinds DEF Kinds
  <2>4. CASE CreateFile(p, NugetStored(p), NugetDuplicate(p))
    <3>1. PICK r : r = [[rq[p] EXCEPT !.name = Nuspec] EXCEPT !.rest = {}]
      OBVIOUS
    <3>2. NugetStored(p) => Stored(p)
      BY DEF Stored, NugetStored
    <3>3. ASSUME NugetDuplicate(p), \E f \in files : f.vid = rq[p].verId /\ f.name = rq[p].name,
                 pc[p] = "svcFile",
                 UNCHANGED <<repo, pkg, versions, files, keys, verdict, events>>
          PROVE  Quits(p) \/ Settles(p)
      <4>1. CASE Respond(p, "409")
        BY <3>3, <4>1, NotStored
      <4>2. CASE rq[p].rest = {} /\ Created(p, {Nupkg, Nuspec})
        <5>1. rq[p].name = Nuspec
          BY <2>1, <4>2 DEF NugetNames, Uploading
        <5> QED
          BY <2>1, <3>3, <4>2, <5>1 DEF Settles
      <4> QED
        BY <3>3, <4>1, <4>2 DEF NugetDuplicate
    <3>4. Quits(p) \/ Stores(p) \/ Settles(p)
      BY <2>1, <2>4, <3>2, <3>3, NotStored DEF CreateFile, Stores
    <3> QED
      BY <3>4 DEF Kinds
  <2>5. CASE GetOrCreatePackage(p)
    BY <2>1, <2>5, Zenon DEF Kinds
  <2> QED
    BY <1>7, <2>3, <2>4, <2>5, Zenon DEF NugetStore
<1>8. CASE NugetNoBuffer(p)
  <2>1. /\ pc[p] = "svcPackage" /\ rq[p].op = "upload" /\ rq[p].name = Nuspec
        /\ Created(p, {Nupkg}) /\ UNCHANGED <<repo, pkg, versions, files, keys, verdict>>
    BY <1>8 DEF NugetNoBuffer, Event, rows
  <2>2. rq[p].rest = {}
    BY <2>1, NugetAssumption DEF NugetNames
  <2>3. Settles(p)
    BY <2>1, <2>2 DEF Settles, Uploading
  <2> QED
    BY <2>3 DEF Kinds
<1>9. CASE NugetDeleteStep(p)
  <2>1. fmt \notin {"npm", "maven"}
    OBVIOUS
  <2> QED
    BY <1>9, <2>1, DeleteKinds, Zenon DEF NugetDeleteStep, Kinds
<1> QED
  BY <1>1, <1>2, <1>3, <1>4, <1>5, <1>6, <1>7, <1>8, <1>9, Zenon DEF NugetNext, Kinds

\* The same for npm, with its dist-tags.
LEMMA NpmKinds ==
  ASSUME repo \in Repos, NEW p \in Procs, fmt = "npm", NpmNext(p)
  PROVE  Kinds(p)
<1>1. ASSUME NEW n \in repo.names, NEW c, NpmPublish(p, n, c) PROVE AtOnce(p) \/ Arrival(p)
  BY <1>1, StatusKind, UploadArrives DEF NpmPublish
<1>2. ASSUME NEW n \in repo.names, NpmDownload(p, n) PROVE AtOnce(p)
  BY <1>2, ServeKind DEF NpmDownload
<1>3. ASSUME NEW n \in repo.names, NpmSetTag(p, n) PROVE Arrival(p)
  <2>1. PICK r : r = [NoLocal EXCEPT !.op = "tag", !.name = n]
    OBVIOUS
  <2>2. /\ IsLocal(r) /\ r.ids = {} /\ r.tagIds = {} /\ r.one = FALSE
        /\ r.op = "tag" /\ r.name = n /\ r.rest = {}
    BY <2>1 DEF NoLocal, IsLocal, LocalFields
  <2>3. Arrives("tagLookup", r, {})
    BY <2>2, NamesAreNames DEF Arrives
  <2> QED
    BY <1>3, <2>1, <2>3, ArrivalKind DEF Begin, NpmSetTag
<1>4. CASE NpmDeleteTag(p)
  <2>1. PICK r : r = [NoLocal EXCEPT !.op = "untag"]
    OBVIOUS
  <2>2. /\ IsLocal(r) /\ r.ids = {} /\ r.tagIds = {} /\ r.one = FALSE
        /\ r.op = "untag" /\ r.rest = {}
    BY <2>1 DEF NoLocal, IsLocal, LocalFields
  <2>3. Arrives("tagList", r, {})
    BY <2>2 DEF Arrives
  <2> QED
    BY <1>4, <2>1, <2>3, ArrivalKind DEF Begin, NpmDeleteTag, Kinds
<1>5. CASE NpmPackument(p) \/ NpmListTags(p)
  BY <1>5, StatusKind, Zenon DEF NpmPackument, NpmListTags, Kinds
<1>6. CASE NpmStore(p)
  <2>1. Uploading(p)
    BY <1>6 DEF NpmStore, Uploading
  <2>2. PICK m : m = None
    OBVIOUS
  <2>3. CASE AddVersion(p, None)
    BY <2>1, <2>2, <2>3, VersionKinds DEF Kinds
  <2>4. CASE CreateFile(p, Continue(p, "setLicense", rq[p]), Respond(p, "500"))
    <3>1. Continue(p, "setLicense", rq[p]) => Stored(p)
      BY DEF Stored
    <3>2. Quits(p) \/ Stores(p)
      BY <2>1, <2>4, <3>1, NotStored DEF CreateFile, Stores
    <3> QED
      BY <3>2 DEF Kinds
  <2>5. CASE SetLicense(p, Continue(p, "npmTag", rq[p]))
    BY <2>5, Zenon DEF Kinds, Licenses
  <2>6. CASE GetOrCreatePackage(p)
    BY <2>1, <2>6, Zenon DEF Kinds
  <2> QED
    BY <1>6, <2>3, <2>4, <2>5, <2>6, Zenon DEF NpmStore
<1>7. CASE NpmPublishTag(p) \/ NpmTagSet(p)
  BY <1>7, Zenon DEF Tags, Kinds
<1>8. CASE NpmTagLookup(p)
  <2>1. Still /\ pc[p] = "tagLookup"
    BY <1>8 DEF NpmTagLookup, Still, rows
  <2>2. CASE Respond(p, "404")
    BY <2>1, <2>2, QuitKind DEF Kinds
  <2>3. ASSUME NEW v \in VersionRows(VersionOf(p)),
               Continue(p, "tagList", [rq[p] EXCEPT !.verId = v.id])
        PROVE  Moves(p)
    <3>1. PICK r : r = [rq[p] EXCEPT !.verId = v.id]
      OBVIOUS
    <3>2. PICK l : l = "tagList"
      OBVIOUS
    <3>3. v \in versions /\ v.ver = VersionOf(p)
      BY DEF VersionRows
    <3>4. Continue(p, l, r) /\ Hop(p, l, r)
      BY <2>1, <2>3, <3>1, <3>2, <3>3 DEF Hop
    <3> QED
      BY <2>1, <3>4, Zenon DEF Moves
  <2> QED
    BY <1>8, <2>2, <2>3, Zenon DEF NpmTagLookup, Kinds
<1>9. CASE NpmTagList(p)
  <2>1. Still /\ pc[p] = "tagList"
    BY <1>9 DEF NpmTagList, Still, rows
  <2>2. CASE Respond(p, "404")
    BY <2>1, <2>2, QuitKind DEF Kinds
  <2>3. CASE Continue(p, "tagClear", [rq[p] EXCEPT !.tagIds = {v.id : v \in versions}])
    <3>1. PICK r : r = [rq[p] EXCEPT !.tagIds = {v.id : v \in versions}]
      OBVIOUS
    <3>2. PICK l : l = "tagClear"
      OBVIOUS
    <3>3. Continue(p, l, r) /\ Hop(p, l, r)
      BY <2>1, <2>3, <3>1, <3>2 DEF Hop
    <3> QED
      BY <2>1, <3>3, Zenon DEF Moves, Kinds
  <2> QED
    BY <1>9, <2>2, <2>3, Zenon DEF NpmTagList
<1>10. CASE NpmClearTag(p)
  <2>1. UNCHANGED <<repo, pkg, files, keys, verdict, events>> /\ pc[p] = "tagClear"
    BY <1>10 DEF NpmClearTag
  <2>2. ASSUME NEW i \in rq[p].tagIds, versions' = WithTag(i, FALSE),
               Continue(p, "tagClear", [rq[p] EXCEPT !.tagIds = @ \ {i}])
        PROVE  Tags(p)
    <3>1. [rq[p] EXCEPT !.tagIds = @ \ {i}] = [rq[p] EXCEPT !.tagIds = rq[p].tagIds \ {i}]
      OBVIOUS
    <3> QED
      BY <2>1, <2>2, <3>1, Zenon DEF Tags, Untags
  <2>3. CASE rq[p].tagIds = {} /\ Continue(p, "tagSet", rq[p]) /\ UNCHANGED versions
    <3>1. PICK l, r : l = "tagSet" /\ r = rq[p]
      OBVIOUS
    <3>2. Continue(p, l, r) /\ Hop(p, l, r)
      BY <2>1, <2>3, <3>1 DEF Hop
    <3> QED
      BY <2>1, <2>3, <3>2, Zenon DEF Moves, Still, Kinds
  <2> QED
    BY <1>10, <2>2, <2>3, Zenon DEF NpmClearTag, Kinds
<1> QED
  BY <1>1, <1>2, <1>3, <1>4, <1>5, <1>6, <1>7, <1>8, <1>9, <1>10, Zenon DEF NpmNext, Kinds

\* Every step of every format is of one of the kinds.
LEMMA NextKinds ==
  ASSUME repo \in Repos, \A p \in Procs : fmt = "nuget" => NugetNames(p), Next
  PROVE  Environment \/ \E p \in Procs : Kinds(p)
  BY DebKinds, RpmKinds, ApkKinds, GenKinds, CranKinds, MvnKinds, NugetKinds, NpmKinds, Zenon
     DEF Next

-----------------------------------------------------------------------------
(* Rows and requests in shape. *)

HistFields == {"acked", "given", "tagged", "sole", "crossed", "twoKeys", "rekeyed", "broken"}
IsHist(h) == h = [k \in HistFields |-> h[k]]
VersionFields == {"id", "ver", "quar", "lic", "meta", "tag"}
IsVersion(v) == v = [k \in VersionFields |-> v[k]]
FileFields == {"id", "vid", "name", "sha", "props"}
IsFile(f) == f = [k \in FileFields |-> f[k]]

Shape ==
    /\ repo \in Repos
    /\ pc = [p \in Procs |-> pc[p]]
    /\ rq = [p \in Procs |-> rq[p]] /\ \A p \in Procs : IsLocal(rq[p])
    /\ IsHist(hist)

\* Where the requests of each sort can be.
UploadPcs == {"svcPackage", "svcVersion", "svcFile", "setProps", "setLicense", "npmTag",
              "mvnCheckIn", "mvnParse", "mvnBackfill", "nugetCheckIn"}
DeletePcs == {"delFile", "delCount", "delVersion", "delApply"}
ListPcs == {"distinct", "listRows", "listProps"}
TagPcs == {"tagLookup", "tagList", "tagClear", "tagSet"}

ReqOk(l, r) ==
    /\ r.rest \subseteq Names /\ IsFiniteSet(r.ids) /\ IsFiniteSet(r.tagIds)
    /\ \/ l = "idle" /\ r.op = "none"
       \/ l \in UploadPcs /\ r.op = "upload" /\ r.name \in Names
       \/ /\ l \in {"arches", "nextArch"} /\ r.op = "upload" /\ fmt = "alpine"
          /\ r.name \in Names \cup {None}
       \/ l \in {"mvnCheckIn", "mvnVerify"} /\ r.op = "checksum"
       \/ l \in DeletePcs /\ r.op = "delete" /\ r.name \in Names /\ fmt \notin {"npm", "maven"}
       \/ l \in ListPcs /\ r.op \in ListOps /\ Signed
       \/ l \in KeyPcs \cup {"keyCheckIn"} /\ r.op \in ListOps \cup {"key"} /\ Signed
       \/ l \in TagPcs /\ r.op \in {"tag", "untag"} /\ fmt = "npm" /\ (l = "tagLookup" => r.op = "tag")
    /\ l \in {"mvnCheckIn", "mvnParse", "mvnBackfill"} => fmt = "maven"
    /\ l = "npmTag" => fmt = "npm"
    /\ fmt = "nuget" /\ r.op = "upload" =>
          \/ r.name = Nupkg /\ r.rest = {Nuspec}
          \/ r.name = Nuspec /\ r.rest = {}

\* The version a request looked up or made is that of its name.
Picked(l, r) == l = "svcFile" \/ (l \in {"tagList", "tagClear", "tagSet"} /\ r.op = "tag")
VerOk(l, r) == Picked(l, r) =>
    \A v \in versions : v.id = r.verId => v.ver = VerOf[fmt][r.name]

VersionsOk ==
    /\ IsFiniteSet(versions)
    /\ \A v \in versions : IsVersion(v)
    /\ \A v, w \in versions : v.id = w.id => v = w

FilesOk ==
    /\ IsFiniteSet(files)
    /\ \A f \in files : /\ IsFile(f) /\ f.name \in Names
                        /\ \E v \in versions : v.id = f.vid /\ v.ver = VerOf[fmt][f.name]
    /\ \A f, g \in files : f.id = g.id => f = g
    /\ \A f, g \in files : f.vid = g.vid /\ f.name = g.name => f = g

Base == /\ Shape /\ VersionsOk /\ FilesOk
        /\ \A p \in Procs : ReqOk(pc[p], rq[p]) /\ VerOk(pc[p], rq[p])

\* The rows after an UPDATE: the same ones, with other columns.
Twin(w, v) == IsVersion(w) /\ w.id = v.id /\ w.ver = v.ver
SameVersions ==
    /\ IsFiniteSet(versions')
    /\ \A w \in versions' : \E v \in versions : Twin(w, v)
    /\ \A v \in versions : \E w \in versions' : Twin(w, v)
    /\ \A v, w \in versions' : v.id = w.id => v = w

Copy(g, f) == /\ IsFile(g) /\ g.id = f.id /\ g.vid = f.vid /\ g.name = f.name /\ g.sha = f.sha
              /\ f.props \subseteq g.props
SameFiles ==
    /\ IsFiniteSet(files')
    /\ \A g \in files' : \E f \in files : Copy(g, f)
    /\ \A f \in files : \E g \in files' : Copy(g, f)
    /\ \A f, g \in files' : f.id = g.id => f = g

\* A request that does not move at most learns that it met a write.
Kept(s, r) ==
    /\ IsLocal(s)
    /\ s.op = r.op /\ s.name = r.name /\ s.sha = r.sha /\ s.pkgId = r.pkgId /\ s.verId = r.verId
    /\ s.fileId = r.fileId /\ s.todo = r.todo /\ s.rest = r.rest /\ s.ids = r.ids
    /\ s.tagIds = r.tagIds /\ s.one = r.one /\ s.priv = r.priv /\ s.pub = r.pub
    /\ Watched(r) /\ r.met => s.met
Waits(q) == pc'[q] = pc[q] /\ Kept(rq'[q], rq[q])

\* Version rows that did not change are the same rows.
LEMMA UnchangedVersions ==
  ASSUME VersionsOk, UNCHANGED versions PROVE SameVersions
  BY DEF VersionsOk, SameVersions, Twin

\* File rows that did not change are the same rows.
LEMMA UnchangedFiles ==
  ASSUME FilesOk, UNCHANGED files PROVE SameFiles
  BY DEF FilesOk, SameFiles, Copy

\* A local record keeps what it has.
LEMMA KeptItself ==
  ASSUME NEW r, IsLocal(r) PROVE Kept(r, r)
  BY DEF Kept

\* Rows and requests stay in shape when rows are at most updated.
LEMMA BaseStep ==
  ASSUME Base, Shape', UNCHANGED repo, SameVersions, SameFiles,
         \A q \in Procs : Waits(q) \/ (ReqOk(pc'[q], rq'[q]) /\ VerOk(pc'[q], rq'[q]))
  PROVE  Base'
<1>1. UNCHANGED <<fmt, Signed>>
  BY DEF fmt, Signed
<1>2. VersionsOk'
  BY DEF SameVersions, VersionsOk, Twin
<1>3. FilesOk'
  <2>1. \A f \in files' : IsFile(f) /\ f.name \in Names
    BY DEF Base, FilesOk, SameFiles, Copy
  <2>2. ASSUME NEW f \in files' PROVE \E v \in versions' : v.id = f.vid /\ v.ver = VerOf[fmt][f.name]
    <3>1. PICK g \in files : Copy(f, g)
      BY DEF SameFiles
    <3>2. PICK v \in versions : v.id = g.vid /\ v.ver = VerOf[fmt][g.name]
      BY DEF Base, FilesOk
    <3>3. PICK w \in versions' : Twin(w, v)
      BY DEF SameVersions
    <3> QED
      BY <3>1, <3>2, <3>3 DEF Copy, Twin
  <2>3. ASSUME NEW f \in files', NEW g \in files', f.vid = g.vid, f.name = g.name PROVE f = g
    <3>1. PICK f0 \in files : Copy(f, f0)
      BY DEF SameFiles
    <3>2. PICK g0 \in files : Copy(g, g0)
      BY DEF SameFiles
    <3>3. f0 = g0
      BY <2>3, <3>1, <3>2 DEF Copy, Base, FilesOk
    <3> QED
      BY <3>1, <3>2, <3>3 DEF Copy, SameFiles
  <2> QED
    BY <1>1, <2>1, <2>2, <2>3 DEF FilesOk, SameFiles
<1>4. ASSUME NEW q \in Procs PROVE ReqOk(pc[q], rq[q])' /\ VerOk(pc[q], rq[q])'
  <2>1. ReqOk(pc[q], rq[q]) /\ VerOk(pc[q], rq[q])
    BY DEF Base
  <2>2. ReqOk(pc'[q], rq'[q]) /\ VerOk(pc'[q], rq'[q])
    <3>1. CASE Waits(q)
      BY <2>1, <3>1 DEF Waits, Kept, ReqOk, VerOk, Picked
    <3> QED
      BY <3>1
  <2>3. PICK l, r : l = pc'[q] /\ r = rq'[q]
    OBVIOUS
  <2>4. ReqOk(l, r)' /\ VerOk(l, r)'
    <3>1. ReqOk(l, r) /\ VerOk(l, r)
      BY <2>2, <2>3
    <3>2. ReqOk(l, r)'
      BY <1>1, <3>1 DEF ReqOk
    <3>3. VerOk(l, r)'
      BY <1>1, <3>1 DEF VerOk, Picked, SameVersions, Twin
    <3> QED
      BY <3>2, <3>3
  <2> QED
    BY <2>3, <2>4
<1> QED
  BY <1>2, <1>3, <1>4 DEF Base

\* How a step assigns the requests: one goes on, ...
LEMMA ContinueStep ==
  ASSUME Shape, UNCHANGED repo, NEW p \in Procs, NEW l, NEW r, IsLocal(r), Continue(p, l, r)
  PROVE  /\ Shape' /\ pc'[p] = l /\ rq'[p] = r
         /\ hist' = hist /\ holder' = holder /\ answer' = NoAnswer
         /\ \A q \in Procs \ {p} : Waits(q)
<1>1. pc' = [pc EXCEPT ![p] = l] /\ rq' = [rq EXCEPT ![p] = r] /\ answer' = NoAnswer
      /\ hist' = hist /\ holder' = holder
  BY DEF Continue, Goto, Set
<1>2. \A q \in Procs \ {p} : pc'[q] = pc[q] /\ rq'[q] = rq[q]
  BY <1>1 DEF Shape
<1>3. \A q \in Procs \ {p} : Waits(q)
  BY <1>2, KeptItself DEF Shape, Waits
<1>4. Shape'
  BY <1>1 DEF Shape
<1> QED
  BY <1>1, <1>3, <1>4 DEF Shape

\* What an idle request remembers: nothing.
LEMMA NoLocalFacts ==
  /\ IsLocal(NoLocal) /\ NoLocal.op = "none" /\ NoLocal.rest = {} /\ NoLocal.ids = {}
  /\ NoLocal.tagIds = {} /\ NoLocal.one = FALSE
  BY DEF NoLocal, IsLocal, LocalFields

\* ... one is answered, ...
LEMMA AnswerStep ==
  ASSUME Shape, UNCHANGED repo, NEW p \in Procs, NEW a, Answer(p, a), IsHist(hist')
  PROVE  /\ Shape' /\ pc'[p] = "idle" /\ rq'[p] = NoLocal
         /\ holder' = IF holder = p THEN None ELSE holder
         /\ \A q \in Procs \ {p} : Waits(q)
<1>1. /\ pc' = [pc EXCEPT ![p] = "idle"] /\ rq' = [rq EXCEPT ![p] = NoLocal]
      /\ holder' = IF holder = p THEN None ELSE holder
  BY DEF Answer, Goto, Set
<1>2. \A q \in Procs \ {p} : pc'[q] = pc[q] /\ rq'[q] = rq[q]
  BY <1>1 DEF Shape
<1>3. \A q \in Procs \ {p} : Waits(q)
  BY <1>2, KeptItself DEF Shape, Waits
<1>4. Shape'
  BY <1>1, NoLocalFacts DEF Shape
<1> QED
  BY <1>1, <1>3, <1>4 DEF Shape

\* ... one is let in, ...
LEMMA LockStep ==
  ASSUME Shape, NEW p \in Procs, Locks(p)
  PROVE  /\ Shape' /\ Still /\ rq' = rq /\ hist' = hist /\ holder' = p /\ holder = None
         /\ answer' = NoAnswer
         /\ \/ pc[p] = "mvnCheckIn" /\ pc'[p] = IF rq[p].op = "checksum" THEN "mvnVerify" ELSE "mvnParse"
            \/ pc[p] = "nugetCheckIn" /\ pc'[p] = "svcPackage"
            \/ pc[p] = "keyCheckIn" /\ pc'[p] = "keyPackage"
         /\ \A q \in Procs \ {p} : Waits(q)
<1>1. PICK l : /\ Goto(p, l)
               /\ \/ pc[p] = "mvnCheckIn" /\ l = IF rq[p].op = "checksum" THEN "mvnVerify" ELSE "mvnParse"
                  \/ pc[p] = "nugetCheckIn" /\ l = "svcPackage"
                  \/ pc[p] = "keyCheckIn" /\ l = "keyPackage"
  BY Zenon DEF Locks
<1>2. Still /\ rq' = rq /\ hist' = hist /\ holder' = p /\ holder = None /\ answer' = NoAnswer
  BY Zenon DEF Locks
<1>3. pc' = [pc EXCEPT ![p] = l]
  BY <1>1 DEF Goto
<1>4. pc'[p] = l /\ Shape' /\ \A q \in Procs \ {p} : pc'[q] = pc[q] /\ rq'[q] = rq[q]
  BY <1>2, <1>3 DEF Shape, Still
<1>5. \A q \in Procs \ {p} : Waits(q)
  BY <1>4, KeptItself DEF Shape, Waits
<1> QED
  BY <1>1, <1>2, <1>4, <1>5

\* ... or one arrives, and the others may have met a write.
LEMMA ArriveStep ==
  ASSUME Shape, NEW p \in Procs, NEW l, NEW r, NEW doomed, BeginDelete(p, l, r, doomed), IsLocal(r)
  PROVE  /\ Shape' /\ Still /\ pc[p] = "idle" /\ pc'[p] = l /\ holder' = holder /\ answer' = NoAnswer
         /\ Kept(rq'[p], [r EXCEPT !.met = FALSE])
         /\ rq'[p].met <=> Watched(r) /\ InFlight(Writes)
         /\ \A q \in Procs \ {p} : /\ Waits(q)
                                   /\ Watched(rq[q]) /\ r.op \in Writes => rq'[q].met
                                   /\ ~(Watched(rq[q]) /\ r.op \in Writes) => (rq'[q].met <=> rq[q].met)
         /\ hist'.acked = hist.acked \ doomed
         /\ hist'.crossed <=> \/ hist.crossed
                              \/ (r.op = "delete" /\ InFlight(Writes))
                              \/ (r.op \in Writes /\ InFlight({"delete"}))
         /\ hist'.tagged <=> hist.tagged /\ r.op # "untag"
         /\ hist'.sole = IF r.op \in Writes THEN None ELSE hist.sole
         /\ UNCHANGED <<hist.given, hist.twoKeys, hist.rekeyed, hist.broken>>
<1>1. /\ pc' = [pc EXCEPT ![p] = l] /\ pc[p] = "idle" /\ holder' = holder /\ answer' = NoAnswer
      /\ Still
  BY DEF BeginDelete, Goto, Still, rows
<1>2. PICK inw \in BOOLEAN, ind \in BOOLEAN : inw = InFlight(Writes) /\ ind = InFlight({"delete"})
  BY DEF InFlight
<1>3. rq' = [q \in Procs |->
                IF q = p THEN [r EXCEPT !.met = Watched(r) /\ inw]
                ELSE [rq[q] EXCEPT !.met = rq[q].met \/ (Watched(rq[q]) /\ r.op \in Writes)]]
  BY <1>2 DEF BeginDelete
<1>4. hist' = [hist EXCEPT
          !.acked = hist.acked \ doomed,
          !.crossed = hist.crossed \/ (r.op = "delete" /\ inw) \/ (r.op \in Writes /\ ind),
          !.tagged = hist.tagged /\ r.op # "untag",
          !.sole = IF r.op \in Writes THEN None ELSE hist.sole]
  BY <1>2 DEF BeginDelete
<1>5. ASSUME NEW s, IsLocal(s), NEW b
      PROVE  /\ IsLocal([s EXCEPT !.met = b]) /\ [s EXCEPT !.met = b].met = b
             /\ (Watched(s) /\ s.met => b) => Kept([s EXCEPT !.met = b], s)
  BY <1>5 DEF IsLocal, LocalFields, Kept
<1>6. rq'[p] = [r EXCEPT !.met = Watched(r) /\ inw]
  BY <1>3
<1>7. /\ IsLocal(rq'[p]) /\ rq'[p].met = (Watched(r) /\ inw)
  BY <1>5, <1>6
<1>8. Kept(rq'[p], [r EXCEPT !.met = FALSE])
  BY <1>6 DEF IsLocal, LocalFields, Kept
<1>9. ASSUME NEW q \in Procs \ {p}
      PROVE  /\ IsLocal(rq'[q]) /\ Waits(q)
             /\ rq'[q].met = (rq[q].met \/ (Watched(rq[q]) /\ r.op \in Writes))
  <2>1. PICK b \in BOOLEAN : b = (rq[q].met \/ (Watched(rq[q]) /\ r.op \in Writes))
    OBVIOUS
  <2>2. rq'[q] = [rq[q] EXCEPT !.met = b] /\ pc'[q] = pc[q]
    BY <1>1, <1>3, <2>1 DEF Shape
  <2>3. IsLocal(rq[q])
    BY DEF Shape
  <2>4. Watched(rq[q]) /\ rq[q].met => b
    BY <2>1
  <2> QED
    BY <1>5, <2>1, <2>2, <2>3, <2>4 DEF Waits, Kept
<1>10. /\ hist'.acked = hist.acked \ doomed
       /\ hist'.crossed = (hist.crossed \/ (r.op = "delete" /\ inw) \/ (r.op \in Writes /\ ind))
       /\ hist'.tagged = (hist.tagged /\ r.op # "untag")
       /\ hist'.sole = IF r.op \in Writes THEN None ELSE hist.sole
       /\ UNCHANGED <<hist.given, hist.twoKeys, hist.rekeyed, hist.broken>>
       /\ IsHist(hist')
  BY <1>4 DEF Shape, IsHist, HistFields
<1>11. Shape'
  <2>1. \A q \in Procs : IsLocal(rq'[q])
    BY <1>7, <1>9
  <2> QED
    BY <1>1, <1>3, <1>10, <2>1 DEF Shape, Still
<1>12. pc'[p] = l
  BY <1>1 DEF Shape
<1> QED
  BY <1>1, <1>2, <1>7, <1>8, <1>9, <1>10, <1>11, <1>12

\* A column of finitely many rows is finite.
LEMMA FiniteColumn ==
  ASSUME NEW S, IsFiniteSet(S), NEW g PROVE IsFiniteSet({g[x] : x \in S})
<1>1. PICK h : h = [x \in S |-> g[x]]
  OBVIOUS
<1>2. PICK T : T = {g[x] : x \in S}
  OBVIOUS
<1>3. h \in Surjection(S, T)
  BY <1>1, <1>2 DEF Surjection
<1> QED
  BY <1>2, <1>3, FS_Surjection

\* An UPDATE of version rows, g[v] the row that v becomes.
LEMMA UpdateVersions ==
  ASSUME VersionsOk, NEW g, versions' = {g[v] : v \in versions}, \A v \in versions : Twin(g[v], v)
  PROVE  SameVersions
<1>1. IsFiniteSet(versions')
  <2>1. IsFiniteSet({g[v] : v \in versions})
    BY FiniteColumn DEF VersionsOk
  <2> QED
    BY <2>1
<1>2. \A v, w \in versions' : v.id = w.id => v = w
  BY DEF VersionsOk, Twin
<1> QED
  BY <1>1, <1>2 DEF SameVersions

\* An UPDATE of file rows.
LEMMA UpdateFiles ==
  ASSUME FilesOk, NEW g, files' = {g[f] : f \in files}, \A f \in files : Copy(g[f], f)
  PROVE  SameFiles
<1>1. IsFiniteSet(files')
  <2>1. IsFiniteSet({g[f] : f \in files})
    BY FiniteColumn DEF FilesOk
  <2> QED
    BY <2>1
<1>2. \A f, h \in files' : f.id = h.id => f = h
  BY DEF FilesOk, Copy
<1> QED
  BY <1>1, <1>2 DEF SameFiles

\* Columns that the key of a row does not depend on.
LEMMA TwinColumns ==
  ASSUME NEW v, IsVersion(v), NEW b
  PROVE  /\ Twin(v, v) /\ Twin([v EXCEPT !.lic = b], v) /\ Twin([v EXCEPT !.tag = b], v)
         /\ Twin([v EXCEPT !.meta = b], v) /\ Twin([v EXCEPT !.quar = b], v)
         /\ [v EXCEPT !.lic = b].meta = v.meta /\ [v EXCEPT !.tag = b].meta = v.meta
         /\ [v EXCEPT !.quar = b].meta = v.meta /\ [v EXCEPT !.meta = b].meta = b
         /\ [v EXCEPT !.lic = b].tag = v.tag /\ [v EXCEPT !.meta = b].tag = v.tag
         /\ [v EXCEPT !.quar = b].tag = v.tag /\ [v EXCEPT !.tag = b].tag = b
  BY DEF Twin, IsVersion, VersionFields

\* A property is added to a file.
LEMMA CopyColumns ==
  ASSUME NEW f, IsFile(f), NEW s
  PROVE  Copy(f, f) /\ Copy([f EXCEPT !.props = f.props \cup s], f)
  BY DEF Copy, IsFile, FileFields

\* Columns other than the license and the quarantine stay.
SameMeta ==
    /\ SameVersions
    /\ \A w \in versions' : \E v \in versions : Twin(w, v) /\ w.meta = v.meta /\ w.tag = v.tag
    /\ \A v \in versions : \E w \in versions' : Twin(w, v) /\ w.meta = v.meta /\ w.tag = v.tag

\* Version rows that did not change have the metadata they had.
LEMMA UnchangedMeta == ASSUME VersionsOk, UNCHANGED versions PROVE SameMeta
  BY UnchangedVersions DEF SameMeta, VersionsOk, Twin

\* The rows after SetLicense, ...
LEMMA LicenseRows ==
  ASSUME VersionsOk, NEW i,
         versions' = {IF v.id = i THEN [v EXCEPT !.lic = TRUE] ELSE v : v \in versions}
  PROVE  SameMeta
<1>1. PICK g : g = [v \in versions |-> IF v.id = i THEN [v EXCEPT !.lic = TRUE] ELSE v]
  OBVIOUS
<1>2. \A v \in versions : Twin(g[v], v) /\ g[v].meta = v.meta /\ g[v].tag = v.tag
  BY <1>1, TwinColumns DEF VersionsOk
<1>3. versions' = {g[v] : v \in versions}
  BY <1>1
<1>4. SameVersions
  BY <1>2, <1>3, UpdateVersions
<1> QED
  BY <1>2, <1>3, <1>4 DEF SameMeta

\* ... after an admin's quarantine, ...
LEMMA QuarantineRows ==
  ASSUME VersionsOk, NEW r \in versions, NEW b,
         versions' = (versions \ {r}) \cup {[r EXCEPT !.quar = b]}
  PROVE  SameMeta
<1>1. PICK g : g = [v \in versions |-> IF v = r THEN [v EXCEPT !.quar = b] ELSE v]
  OBVIOUS
<1>2. \A v \in versions : Twin(g[v], v) /\ g[v].meta = v.meta /\ g[v].tag = v.tag
  BY <1>1, TwinColumns DEF VersionsOk
<1>3. versions' = {g[v] : v \in versions}
  BY <1>1
<1>4. SameVersions
  BY <1>2, <1>3, UpdateVersions
<1> QED
  BY <1>2, <1>3, <1>4 DEF SameMeta

\* ... after the dist-tag of one version was set or taken, ...
LEMMA TagRows ==
  ASSUME VersionsOk, NEW i, NEW b, versions' = WithTag(i, b)
  PROVE  /\ SameVersions
         /\ \A w \in versions' : \E v \in versions : Twin(w, v) /\ w.tag = IF v.id = i THEN b ELSE v.tag
         /\ \A v \in versions : \E w \in versions' : Twin(w, v) /\ w.tag = IF v.id = i THEN b ELSE v.tag
<1>1. PICK g : g = [v \in versions |-> IF v.id = i THEN [v EXCEPT !.tag = b] ELSE v]
  OBVIOUS
<1>2. ASSUME NEW v \in versions PROVE Twin(g[v], v) /\ g[v].tag = IF v.id = i THEN b ELSE v.tag
  <2>1. /\ Twin(v, v) /\ Twin([v EXCEPT !.tag = b], v) /\ [v EXCEPT !.tag = b].tag = b
    BY DEF VersionsOk, Twin, IsVersion, VersionFields
  <2>2. CASE v.id = i
    BY <1>1, <2>1, <2>2
  <2>3. CASE v.id # i
    BY <1>1, <2>1, <2>3
  <2> QED
    BY <2>2, <2>3
<1>3. versions' = {g[v] : v \in versions}
  BY <1>1 DEF WithTag
<1>4. SameVersions
  BY <1>2, <1>3, UpdateVersions
<1> QED
  BY <1>2, <1>3, <1>4

\* ... and after UpdateVersionMetadata.
LEMMA MetaRows ==
  ASSUME VersionsOk, NEW i, NEW b,
         \A w : w \in versions' <=> \/ w \in versions /\ w.id # i
                                   \/ \E v \in versions : v.id = i /\ w = [v EXCEPT !.meta = b]
  PROVE  /\ SameVersions
         /\ \A w \in versions' : \E v \in versions : Twin(w, v) /\ w.meta = IF v.id = i THEN b ELSE v.meta
         /\ \A v \in versions : \E w \in versions' : Twin(w, v) /\ w.meta = IF v.id = i THEN b ELSE v.meta
<1>1. PICK g : g = [v \in versions |-> IF v.id = i THEN [v EXCEPT !.meta = b] ELSE v]
  OBVIOUS
<1>2. ASSUME NEW v \in versions PROVE Twin(g[v], v) /\ g[v].meta = IF v.id = i THEN b ELSE v.meta
  <2>1. /\ Twin(v, v) /\ Twin([v EXCEPT !.meta = b], v) /\ [v EXCEPT !.meta = b].meta = b
    BY DEF VersionsOk, Twin, IsVersion, VersionFields
  <2>2. CASE v.id = i
    BY <1>1, <2>1, <2>2
  <2>3. CASE v.id # i
    BY <1>1, <2>1, <2>3
  <2> QED
    BY <2>2, <2>3
<1>3. versions' = {g[v] : v \in versions}
  BY <1>1
<1>4. SameVersions
  BY <1>2, <1>3, UpdateVersions
<1> QED
  BY <1>2, <1>3, <1>4

\* AUTOINCREMENT never gives an id in use, nor 0.
LEMMA UnusedId ==
  ASSUME NEW S, IsFiniteSet(S)
  PROVE  Unused(S) \notin S /\ Unused(S) \in Nat \ {0}
<1>1. PICK c \in Nat : c = Cardinality(S)
  BY FS_CardinalityType
<1>2. IsFiniteSet(1 .. c + 1) /\ Cardinality(1 .. c + 1) = c + 1
  BY FS_Interval
<1>3. \E n \in 1 .. c + 1 : n \notin S
  <2> SUFFICES ASSUME \A n \in 1 .. c + 1 : n \in S PROVE FALSE
    OBVIOUS
  <2>1. (1 .. c + 1) \in SUBSET S
    OBVIOUS
  <2>2. c + 1 <= c
    BY <1>1, <1>2, <2>1, FS_Subset
  <2> QED
    BY <1>1, <2>2
<1>4. Unused(S) \in 1 .. c + 1 /\ Unused(S) \notin S
  BY <1>1, <1>3 DEF Unused
<1> QED
  BY <1>1, <1>4

\* The id of a new version is no row's and no request's.
LEMMA FreshVersionId ==
  ASSUME Base
  PROVE  /\ \A v \in versions : v.id # FreshVersion
         /\ \A q \in Procs : rq[q].verId # FreshVersion /\ FreshVersion \notin rq[q].tagIds
<1>1. IsFiniteSet({v.id : v \in versions})
  <2>1. PICK g : g = [v \in versions |-> v.id]
    OBVIOUS
  <2>2. IsFiniteSet({g[v] : v \in versions})
    BY FiniteColumn DEF Base, VersionsOk
  <2> QED
    BY <2>1, <2>2
<1>2. IsFiniteSet({rq[q].verId : q \in Procs})
  <2>1. PICK g : g = [q \in Procs |-> rq[q].verId]
    OBVIOUS
  <2>2. IsFiniteSet({g[q] : q \in Procs})
    BY FiniteColumn, HostedAssumption
  <2> QED
    BY <2>1, <2>2
<1>3. IsFiniteSet(UNION {rq[q].tagIds : q \in Procs})
  <2>1. PICK g : g = [q \in Procs |-> rq[q].tagIds]
    OBVIOUS
  <2>2. IsFiniteSet({g[q] : q \in Procs})
    BY FiniteColumn, HostedAssumption
  <2>3. {rq[q].tagIds : q \in Procs} = {g[q] : q \in Procs}
    BY <2>1
  <2>4. \A T \in {rq[q].tagIds : q \in Procs} : IsFiniteSet(T)
    BY DEF Base, ReqOk
  <2> QED
    BY <2>2, <2>3, <2>4, FS_UNION
<1>4. PICK S : S = {v.id : v \in versions} \cup {rq[q].verId : q \in Procs}
                         \cup UNION {rq[q].tagIds : q \in Procs}
  OBVIOUS
<1>5. IsFiniteSet(S)
  BY <1>1, <1>2, <1>3, <1>4, FS_Union
<1>6. FreshVersion \notin S
  BY <1>4, <1>5, UnusedId DEF FreshVersion
<1> QED
  BY <1>4, <1>6

\* The id of a new file is no row's and no request's.
LEMMA FreshFileId ==
  ASSUME Base, NEW n
  PROVE  /\ \A f \in files : f.id # FreshFile(n)
         /\ \A q \in Procs : rq[q].fileId # FreshFile(n) /\ FreshFile(n) \notin rq[q].ids
<1>1. IsFiniteSet({f.id : f \in files})
  <2>1. PICK g : g = [f \in files |-> f.id]
    OBVIOUS
  <2>2. IsFiniteSet({g[f] : f \in files})
    BY FiniteColumn DEF Base, FilesOk
  <2> QED
    BY <2>1, <2>2
<1>2. IsFiniteSet({rq[q].fileId : q \in Procs})
  <2>1. PICK g : g = [q \in Procs |-> rq[q].fileId]
    OBVIOUS
  <2>2. IsFiniteSet({g[q] : q \in Procs})
    BY FiniteColumn, HostedAssumption
  <2> QED
    BY <2>1, <2>2
<1>3. IsFiniteSet(UNION {rq[q].ids : q \in Procs})
  <2>1. PICK g : g = [q \in Procs |-> rq[q].ids]
    OBVIOUS
  <2>2. IsFiniteSet({g[q] : q \in Procs})
    BY FiniteColumn, HostedAssumption
  <2>3. {rq[q].ids : q \in Procs} = {g[q] : q \in Procs}
    BY <2>1
  <2>4. \A T \in {rq[q].ids : q \in Procs} : IsFiniteSet(T)
    BY DEF Base, ReqOk
  <2> QED
    BY <2>2, <2>3, <2>4, FS_UNION
<1>4. PICK used : used = {f.id : f \in files} \cup {rq[q].fileId : q \in Procs}
                           \cup UNION {rq[q].ids : q \in Procs}
  OBVIOUS
<1>5. PICK own : own = {j \in used : j[1] = n}
  OBVIOUS
<1>6. IsFiniteSet(used)
  BY <1>1, <1>2, <1>3, <1>4, FS_Union
<1>7. IsFiniteSet(own)
  BY <1>5, <1>6, FS_Subset
<1>8. PICK S : S = {i[2] : i \in own}
  OBVIOUS
<1>9. IsFiniteSet(S)
  <2>1. PICK g : g = [i \in own |-> i[2]]
    OBVIOUS
  <2>2. IsFiniteSet({g[i] : i \in own})
    BY <1>7, FiniteColumn
  <2> QED
    BY <1>8, <2>1, <2>2
<1>10. FreshFile(n) = <<n, Unused(S)>> /\ Unused(S) \notin S
  BY <1>4, <1>5, <1>8, <1>9, UnusedId DEF FreshFile
<1>11. FreshFile(n) \notin used
  <2>1. PICK k : k = Unused(S)
    OBVIOUS
  <2>2. PICK id : id = <<n, k>>
    OBVIOUS
  <2>3. id[1] = n /\ id[2] = k
    BY <2>2
  <2>4. id \notin own
    BY <1>8, <1>10, <2>1, <2>3
  <2> QED
    BY <1>5, <1>10, <2>1, <2>2, <2>3, <2>4
<1> QED
  BY <1>4, <1>11

\* A request that was answered.
LEMMA IdleOk == ReqOk("idle", NoLocal) /\ VerOk("idle", NoLocal)
<1>1. IsFiniteSet({})
  BY FS_EmptySet
<1> QED
  BY <1>1, NoLocalFacts DEF ReqOk, VerOk, Picked

\* One request moved and no row changed.
LEMMA StillBase ==
  ASSUME Base, Shape', Still, NEW p \in Procs, \A q \in Procs \ {p} : Waits(q),
         ReqOk(pc'[p], rq'[p]) /\ VerOk(pc'[p], rq'[p])
  PROVE  Base'
<1>1. SameVersions /\ SameFiles /\ UNCHANGED repo
  BY UnchangedVersions, UnchangedFiles DEF Base, Still
<1>2. \A q \in Procs : Waits(q) \/ (ReqOk(pc'[q], rq'[q]) /\ VerOk(pc'[q], rq'[q]))
  OBVIOUS
<1> QED
  BY <1>1, <1>2, BaseStep

\* Locals after an assignment to one of them.
LEMMA LocalFieldsKept ==
  ASSUME NEW r, IsLocal(r), NEW x
  PROVE  /\ IsLocal([r EXCEPT !.ids = x]) /\ IsLocal([r EXCEPT !.one = x])
         /\ IsLocal([r EXCEPT !.verId = x]) /\ IsLocal([r EXCEPT !.fileId = x])
         /\ IsLocal([r EXCEPT !.rest = x]) /\ IsLocal([r EXCEPT !.name = x])
         /\ IsLocal([r EXCEPT !.tagIds = x]) /\ IsLocal([r EXCEPT !.pkgId = x])
         /\ IsLocal([r EXCEPT !.todo = x]) /\ IsLocal([r EXCEPT !.priv = x])
         /\ IsLocal([r EXCEPT !.pub = x])
  BY DEF IsLocal, LocalFields

\* A request that goes on without touching rows stays in shape.
LEMMA HopOk ==
  ASSUME Base, NEW p \in Procs, NEW l, NEW r, Hop(p, l, r)
  PROVE  IsLocal(r) /\ ReqOk(l, r) /\ VerOk(l, r)
<1>1. IsLocal(rq[p]) /\ ReqOk(pc[p], rq[p]) /\ VerOk(pc[p], rq[p])
  BY DEF Base, Shape
<1>3. ASSUME pc[p] = "listRows", l = "listProps", NEW s, r = [rq[p] EXCEPT !.ids = s],
             \A i \in s : \E f \in files : f.id = i
      PROVE  IsLocal(r) /\ ReqOk(l, r)
  <2>1. PICK g : g = [f \in files |-> f.id]
    OBVIOUS
  <2>2. IsFiniteSet({g[f] : f \in files})
    BY FiniteColumn DEF Base, FilesOk
  <2>3. s \subseteq {g[f] : f \in files}
    BY <1>3, <2>1
  <2>4. IsFiniteSet(s)
    BY <2>2, <2>3, FS_Subset
  <2> QED
    BY <1>1, <1>3, <2>4 DEF IsLocal, LocalFields, ReqOk, UploadPcs, DeletePcs, ListPcs, TagPcs, KeyPcs
<1>4. ASSUME pc[p] = "listProps", l = KeyEntry, Signed,
             r = [[rq[p] EXCEPT !.one = ListProps(p, Describes)] EXCEPT !.ids = {}]
      PROVE  IsLocal(r) /\ ReqOk(l, r)
  <2>1. PICK x : x = ListProps(p, Describes)
    OBVIOUS
  <2>2. IsFiniteSet({})
    BY FS_EmptySet
  <2> QED
    BY <1>1, <1>4, <2>1, <2>2
       DEF IsLocal, LocalFields, ReqOk, UploadPcs, DeletePcs, ListPcs, TagPcs, KeyPcs, KeyEntry
<1>5. ASSUME pc[p] = "delCount", l = "delApply", r = [rq[p] EXCEPT !.one = IsLast(rq[p].verId)]
      PROVE  IsLocal(r) /\ ReqOk(l, r)
  <2>1. PICK x : x = IsLast(rq[p].verId)
    OBVIOUS
  <2> QED
    BY <1>1, <1>5, <2>1
       DEF IsLocal, LocalFields, ReqOk, UploadPcs, DeletePcs, ListPcs, TagPcs, KeyPcs
<1>6. ASSUME pc[p] = "arches", l = "nextArch", fmt = "alpine", NEW s, r = [rq[p] EXCEPT !.rest = s],
             \A n \in s : (n = rq[p].name /\ n # None) \/ n = DefaultName \/ \E f \in files : f.name = n
      PROVE  IsLocal(r) /\ ReqOk(l, r)
  <2>1. s \subseteq Names
    BY <1>1, <1>6, DefaultNameAssumption
       DEF ReqOk, UploadPcs, DeletePcs, ListPcs, TagPcs, KeyPcs, Base, FilesOk
  <2> QED
    BY <1>1, <1>6, <2>1
       DEF IsLocal, LocalFields, ReqOk, UploadPcs, DeletePcs, ListPcs, TagPcs, KeyPcs
<1>7. ASSUME pc[p] = "tagList", l = "tagClear", r = [rq[p] EXCEPT !.tagIds = {v.id : v \in versions}]
      PROVE  IsLocal(r) /\ ReqOk(l, r)
  <2>1. PICK s : s = {v.id : v \in versions}
    OBVIOUS
  <2>2. PICK g : g = [v \in versions |-> v.id]
    OBVIOUS
  <2>3. IsFiniteSet({g[v] : v \in versions})
    BY FiniteColumn DEF Base, VersionsOk
  <2>4. IsFiniteSet(s)
    BY <2>1, <2>2, <2>3
  <2> QED
    BY <1>1, <1>7, <2>1, <2>4
       DEF IsLocal, LocalFields, ReqOk, UploadPcs, DeletePcs, ListPcs, TagPcs, KeyPcs
<1>8. ASSUME pc[p] = "nextArch", l = "svcPackage", fmt = "alpine",
             NEW n \in rq[p].rest, r = [[rq[p] EXCEPT !.name = n] EXCEPT !.rest = rq[p].rest \ {n}]
      PROVE  IsLocal(r) /\ ReqOk(l, r)
  BY <1>1, <1>8 DEF IsLocal, LocalFields, ReqOk, UploadPcs, DeletePcs, ListPcs, TagPcs, KeyPcs
<1>9. ASSUME NEW x, \/ pc[p] \in {"svcVersion", "tagLookup"} /\ r = [rq[p] EXCEPT !.verId = x]
                          /\ l = IF pc[p] = "svcVersion" THEN "svcFile" ELSE "tagList"
                    \/ /\ pc[p] = "delVersion" /\ l = "delApply"
                       /\ r = [[rq[p] EXCEPT !.verId = x] EXCEPT !.one = TRUE]
      PROVE  IsLocal(r) /\ ReqOk(l, r)
  BY <1>1, <1>9 DEF IsLocal, LocalFields, ReqOk, UploadPcs, DeletePcs, ListPcs, TagPcs, KeyPcs
<1>10. ASSUME NEW x, NEW y, pc[p] = "delFile", l = "delCount",
              r = [[rq[p] EXCEPT !.verId = x] EXCEPT !.fileId = y]
       PROVE  IsLocal(r) /\ ReqOk(l, r)
  BY <1>1, <1>10 DEF IsLocal, LocalFields, ReqOk, UploadPcs, DeletePcs, ListPcs, TagPcs, KeyPcs
<1>11. ASSUME r = rq[p], \/ pc[p] = "distinct" /\ l = "listRows"
                         \/ pc[p] = "mvnParse" /\ l = "svcPackage"
                         \/ pc[p] = "tagClear" /\ l = "tagSet"
       PROVE  IsLocal(r) /\ ReqOk(l, r)
  BY <1>1, <1>11 DEF ReqOk, UploadPcs, DeletePcs, ListPcs, TagPcs, KeyPcs
<1>12. IsLocal(r) /\ ReqOk(l, r)
  BY <1>3, <1>4, <1>5, <1>6, <1>7, <1>8, <1>9, <1>10, <1>11 DEF Hop
<1>13. VerOk(l, r)
  <2>1. ASSUME NEW v \in versions, v.ver = VersionOf(p), r = [rq[p] EXCEPT !.verId = v.id]
        PROVE  VerOk(l, r)
    BY <1>1, <2>1 DEF VerOk, IsLocal, LocalFields, Base, VersionsOk, VersionOf
  <2>2. ASSUME pc[p] \in {"tagList", "tagClear"}, l \in {"tagClear", "tagSet"},
               NEW s, r = [rq[p] EXCEPT !.tagIds = s] \/ r = rq[p]
        PROVE  VerOk(l, r)
    BY <1>1, <2>2 DEF VerOk, Picked, IsLocal, LocalFields
  <2>3. CASE l \notin {"svcFile", "tagList", "tagClear", "tagSet"}
    BY <2>3 DEF VerOk, Picked
  <2>4. KeyEntry \notin {"svcFile", "tagList", "tagClear", "tagSet"}
    BY DEF KeyEntry
  <2> QED
    BY <2>1, <2>2, <2>3, <2>4 DEF Hop
<1> QED
  BY <1>12, <1>13

-----------------------------------------------------------------------------
(* What each kind of step does to the requests. *)

\* p goes on to l with locals r, the others wait.
Goes(p, l, r) ==
    /\ Shape' /\ repo' = repo
    /\ pc'[p] = l /\ rq'[p] = r
    /\ \A q \in Procs \ {p} : Waits(q)

\* p is answered.
Leaves(p) == Goes(p, "idle", NoLocal) /\ holder' = IF holder = p THEN None ELSE holder

SameHist == hist' = hist

\* A response that changes no history.
LEMMA RespondStep ==
  ASSUME Shape, UNCHANGED repo, NEW p \in Procs, NEW code, Respond(p, code)
  PROVE  Leaves(p) /\ SameHist /\ answer'.bare = FALSE
<1>1. Answer(p, Status(code)) /\ hist' = hist
  BY DEF Respond
<1>2. PICK a : a = Status(code)
  OBVIOUS
<1>3. answer'.bare = FALSE
  BY <1>1 DEF Answer, Status, NoAnswer
<1>4. IsHist(hist')
  BY <1>1 DEF Shape
<1> QED
  BY <1>1, <1>2, <1>3, <1>4, AnswerStep DEF Leaves, Goes, SameHist

\* A 201: the names are recorded.
LEMMA CreatedStep ==
  ASSUME Shape, UNCHANGED repo, NEW p \in Procs, NEW S, Created(p, S)
  PROVE  /\ Leaves(p) /\ answer'.bare = FALSE
         /\ hist'.acked = hist.acked \cup S
         /\ hist'.given = hist.given /\ hist'.tagged = hist.tagged /\ hist'.sole = hist.sole
         /\ hist'.crossed = hist.crossed /\ hist'.twoKeys = hist.twoKeys
         /\ hist'.rekeyed = hist.rekeyed /\ hist'.broken = hist.broken
<1>1. Answer(p, Status("201")) /\ hist' = [hist EXCEPT !.acked = hist.acked \cup S]
  BY DEF Created
<1>2. PICK a : a = Status("201")
  OBVIOUS
<1>3. answer'.bare = FALSE
  BY <1>1 DEF Answer, Status, NoAnswer
<1>4. /\ IsHist(hist') /\ hist'.acked = hist.acked \cup S
      /\ hist'.given = hist.given /\ hist'.tagged = hist.tagged /\ hist'.sole = hist.sole
      /\ hist'.crossed = hist.crossed /\ hist'.twoKeys = hist.twoKeys
      /\ hist'.rekeyed = hist.rekeyed /\ hist'.broken = hist.broken
  BY <1>1 DEF Shape, IsHist, HistFields
<1> QED
  BY <1>1, <1>2, <1>3, <1>4, AnswerStep DEF Leaves, Goes

\* A request that is refused leaves without a trace; past its file row that is only a
\* backfill whose version is gone.
LEMMA QuitsStep ==
  ASSUME Base, NEW p \in Procs, Quits(p)
  PROVE  /\ Leaves(p) /\ SameHist /\ Still /\ answer'.bare = FALSE
         /\ pc[p] \notin {"idle", "setProps", "setLicense", "npmTag", "tagClear", "tagSet"}
         /\ pc[p] = "svcFile" => \/ \E f \in files : f.vid = rq[p].verId
                                 \/ \A v \in versions : v.id # rq[p].verId
         /\ pc[p] = "mvnBackfill" => \A v \in versions : v.id # rq[p].verId
<1>1. PICK code : Respond(p, code)
  BY Zenon DEF Quits
<1>2. /\ Still
      /\ pc[p] \notin {"idle", "setProps", "setLicense", "npmTag", "tagClear", "tagSet"}
      /\ pc[p] = "svcFile" => \/ \E f \in files : f.vid = rq[p].verId
                              \/ \A v \in versions : v.id # rq[p].verId
      /\ pc[p] = "mvnBackfill" => \A v \in versions : v.id # rq[p].verId
  BY Zenon DEF Quits
<1> QED
  BY <1>1, <1>2, RespondStep DEF Base, Still

\* A step that only reads moves its request one hop and leaves every row alone.
LEMMA MovesStep ==
  ASSUME Base, NEW p \in Procs, Moves(p)
  PROVE  /\ \E l, r : Hop(p, l, r) /\ Goes(p, l, r) /\ ReqOk(l, r) /\ VerOk(l, r)
         /\ Still /\ SameHist /\ holder' = holder /\ answer' = NoAnswer
<1>1. PICK l, r : Continue(p, l, r) /\ Hop(p, l, r)
  BY Zenon DEF Moves
<1>2. Still
  BY Zenon DEF Moves
<1>3. IsLocal(r) /\ ReqOk(l, r) /\ VerOk(l, r)
  BY <1>1, HopOk
<1>4. Goes(p, l, r) /\ hist' = hist /\ holder' = holder /\ answer' = NoAnswer
  BY <1>1, <1>2, <1>3, ContinueStep DEF Goes, Base, Still
<1> QED
  BY <1>1, <1>2, <1>3, <1>4, Zenon DEF SameHist

\* GetOrCreatePackage: the request has the id of the package and goes on to the version.
LEMMA PackageStep ==
  ASSUME Base, NEW p \in Procs, Uploading(p), GetOrCreatePackage(p)
  PROVE  /\ \E r : r = [rq[p] EXCEPT !.pkgId = pkg'] /\ Goes(p, "svcVersion", r) /\ ReqOk("svcVersion", r)
         /\ pc[p] = "svcPackage" /\ SameHist /\ holder' = holder /\ answer' = NoAnswer
         /\ UNCHANGED <<repo, versions, files, keys, verdict, events>>
<1>1. PICK x : x = pkg'
  OBVIOUS
<1>2. PICK r : r = [rq[p] EXCEPT !.pkgId = x]
  OBVIOUS
<1>3. Continue(p, "svcVersion", r) /\ UNCHANGED <<repo, versions, files, keys, verdict, events>>
      /\ pc[p] = "svcPackage"
  BY <1>1, <1>2 DEF GetOrCreatePackage
<1>4. IsLocal(rq[p]) /\ ReqOk(pc[p], rq[p])
  BY DEF Base, Shape
<1>5. IsLocal(r)
  BY <1>2, <1>4, LocalFieldsKept
<1>6. ReqOk("svcVersion", r)
  BY <1>2, <1>3, <1>4
     DEF IsLocal, LocalFields, ReqOk, UploadPcs, DeletePcs, ListPcs, TagPcs, KeyPcs
<1>7. Goes(p, "svcVersion", r) /\ SameHist /\ holder' = holder /\ answer' = NoAnswer
  BY <1>3, <1>5, ContinueStep DEF Goes, Base, SameHist
<1> QED
  BY <1>1, <1>2, <1>3, <1>6, <1>7

\* CreateVersion inserts one version row with a fresh id and no tag.
LEMMA InsertsStep ==
  ASSUME Base, NEW p \in Procs, Inserts(p)
  PROVE  /\ \E r : /\ r = [rq[p] EXCEPT !.verId = FreshVersion]
                   /\ Goes(p, "svcFile", r) /\ ReqOk("svcFile", r) /\ r.verId = FreshVersion
         /\ \E w : /\ versions' = versions \cup {w} /\ IsVersion(w)
                   /\ w.id = FreshVersion /\ w.ver = VersionOf(p) /\ w.tag = FALSE
                   /\ fmt = "maven" => w.meta = MvnMeta(p)
         /\ pc[p] = "svcVersion" /\ SameHist /\ holder' = holder /\ answer' = NoAnswer
         /\ UNCHANGED <<repo, pkg, files, keys, verdict, events>>
<1>1. PICK x : x = FreshVersion
  OBVIOUS
<1>2. PICK r : r = [rq[p] EXCEPT !.verId = x]
  OBVIOUS
<1>3. PICK m : /\ fmt = "maven" => m = MvnMeta(p)
               /\ versions' = versions \cup {[id |-> FreshVersion, ver |-> VersionOf(p),
                    quar |-> FALSE, lic |-> FALSE, meta |-> m, tag |-> FALSE]}
  BY Zenon DEF Inserts
<1>4. PICK w : w = [id |-> FreshVersion, ver |-> VersionOf(p),
                    quar |-> FALSE, lic |-> FALSE, meta |-> m, tag |-> FALSE]
  OBVIOUS
<1>5. IsVersion(w) /\ w.id = FreshVersion /\ w.ver = VersionOf(p) /\ w.tag = FALSE /\ w.meta = m
  BY <1>4 DEF IsVersion, VersionFields
<1>6. Continue(p, "svcFile", r) /\ UNCHANGED <<repo, pkg, files, keys, verdict, events>>
      /\ pc[p] = "svcVersion"
  BY <1>1, <1>2 DEF Inserts
<1>7. IsLocal(rq[p]) /\ ReqOk(pc[p], rq[p])
  BY DEF Base, Shape
<1>8. IsLocal(r)
  BY <1>2, <1>7, LocalFieldsKept
<1>9. ReqOk("svcFile", r) /\ r.verId = x
  BY <1>2, <1>6, <1>7
     DEF IsLocal, LocalFields, ReqOk, UploadPcs, DeletePcs, ListPcs, TagPcs, KeyPcs
<1>10. Goes(p, "svcFile", r) /\ SameHist /\ holder' = holder /\ answer' = NoAnswer
  BY <1>6, <1>8, ContinueStep DEF Goes, Base, SameHist
<1> QED
  BY <1>1, <1>2, <1>3, <1>4, <1>5, <1>6, <1>9, <1>10

\* The histories that a 201 leaves alone.
OnlyAcked ==
    /\ hist'.given = hist.given /\ hist'.tagged = hist.tagged /\ hist'.sole = hist.sole
    /\ hist'.crossed = hist.crossed /\ hist'.twoKeys = hist.twoKeys
    /\ hist'.rekeyed = hist.rekeyed /\ hist'.broken = hist.broken

SameUpload(p, r) ==
    /\ r.op = "upload" /\ r.verId = rq[p].verId /\ r.pkgId = rq[p].pkgId /\ r.sha = rq[p].sha

\* Where an upload goes once its file is there.
AfterFile(p, l, r) ==
    \/ /\ l = "idle" /\ r = NoLocal /\ Leaves(p) /\ OnlyAcked
       /\ \/ /\ fmt = "generic" \/ (fmt = "maven" /\ rq[p].name # Pom)
             /\ hist'.acked = hist.acked \cup {rq[p].name}
          \/ /\ fmt = "nuget" /\ rq[p].rest = {}
             /\ hist'.acked = hist.acked \cup {Nupkg, Nuspec}
    \/ /\ SameUpload(p, r) /\ r.name = rq[p].name /\ r.rest = rq[p].rest /\ SameHist /\ holder' = holder
       /\ \/ l = "setProps" /\ Signed /\ r.fileId = FreshFile(rq[p].name)
               /\ r.todo = <<"coordinates", Describes>>
          \/ l = "setLicense" /\ fmt = "cran" /\ r.fileId = FreshFile(rq[p].name)
          \/ l = "setLicense" /\ fmt = "npm"
          \/ l = "mvnBackfill" /\ fmt = "maven" /\ rq[p].name = Pom
    \/ /\ SameUpload(p, r) /\ SameHist /\ holder' = holder
       /\ l = "svcPackage" /\ fmt = "nuget" /\ rq[p].rest # {} /\ r.name = Nuspec /\ r.rest = {}

\* CreateFile inserts one file row, under a version that is there, where no file of
\* that name was; the request answers or goes on to what the format writes after it.
LEMMA StoresStep ==
  ASSUME Base, NEW p \in Procs, Stores(p)
  PROVE  /\ \E l, r : Goes(p, l, r) /\ ReqOk(l, r) /\ VerOk(l, r) /\ AfterFile(p, l, r)
         /\ \E f : /\ files' = files \cup {f} /\ IsFile(f) /\ f.id = FreshFile(rq[p].name)
                   /\ f.vid = rq[p].verId /\ f.name = rq[p].name /\ f.sha = rq[p].sha
         /\ \A f \in files : ~(f.vid = rq[p].verId /\ f.name = rq[p].name)
         /\ \E v \in versions : v.id = rq[p].verId /\ v.ver = VersionOf(p)
         /\ Uploading(p) /\ pc[p] = "svcFile" /\ rq[p].name \in Names
         /\ answer'.bare = FALSE
         /\ UNCHANGED <<repo, pkg, versions, keys, verdict, events>>
<1>1. /\ Uploading(p) /\ pc[p] = "svcFile" /\ Stored(p)
      /\ UNCHANGED <<repo, pkg, versions, keys, verdict, events>>
      /\ \A f \in files : ~(f.vid = rq[p].verId /\ f.name = rq[p].name)
  BY DEF Stores
<1>2. IsLocal(rq[p]) /\ ReqOk(pc[p], rq[p]) /\ VerOk(pc[p], rq[p]) /\ Shape
  BY DEF Base, Shape
<1>3. \E v \in versions : v.id = rq[p].verId /\ v.ver = VersionOf(p)
  BY <1>1, <1>2 DEF Stores, VerOk, Picked, VersionOf
<1>4. rq[p].name \in Names
  BY <1>1, <1>2 DEF ReqOk, UploadPcs, DeletePcs, ListPcs, TagPcs, KeyPcs
<1>5. \E f : /\ files' = files \cup {f} /\ IsFile(f) /\ f.id = FreshFile(rq[p].name)
             /\ f.vid = rq[p].verId /\ f.name = rq[p].name /\ f.sha = rq[p].sha
  <2>1. PICK k : k = FreshFile(rq[p].name)
    OBVIOUS
  <2>2. PICK f : f = [id |-> k, vid |-> rq[p].verId, name |-> rq[p].name, sha |-> rq[p].sha, props |-> {}]
    OBVIOUS
  <2>3. files' = files \cup {f}
    BY <2>1, <2>2 DEF Stores
  <2> QED
    BY <2>1, <2>2, <2>3 DEF IsFile, FileFields
<1>6. ASSUME NEW S, Created(p, S),
             \/ (fmt = "generic" \/ (fmt = "maven" /\ rq[p].name # Pom)) /\ S = {rq[p].name}
             \/ fmt = "nuget" /\ rq[p].rest = {} /\ S = {Nupkg, Nuspec}
      PROVE  /\ \E l, r : Goes(p, l, r) /\ ReqOk(l, r) /\ VerOk(l, r) /\ AfterFile(p, l, r)
             /\ answer'.bare = FALSE
  <2>1. Leaves(p) /\ OnlyAcked /\ hist'.acked = hist.acked \cup S /\ answer'.bare = FALSE
    BY <1>1, <1>2, <1>6, CreatedStep DEF OnlyAcked
  <2>2. PICK l, r : l = "idle" /\ r = NoLocal
    OBVIOUS
  <2>3. AfterFile(p, l, r) /\ Goes(p, l, r)
    BY <1>6, <2>1, <2>2 DEF AfterFile, Leaves
  <2> QED
    BY <2>1, <2>2, <2>3, IdleOk
<1>7. ASSUME NEW l, NEW r, Continue(p, l, r), IsLocal(r), ReqOk(l, r), l # "svcFile",
             l \notin {"tagList", "tagClear", "tagSet"},
             SameHist /\ holder' = holder => AfterFile(p, l, r)
      PROVE  /\ \E ll, rr : Goes(p, ll, rr) /\ ReqOk(ll, rr) /\ VerOk(ll, rr) /\ AfterFile(p, ll, rr)
             /\ answer'.bare = FALSE
  <2>1. Goes(p, l, r) /\ SameHist /\ holder' = holder /\ answer' = NoAnswer
    BY <1>1, <1>2, <1>7, ContinueStep DEF Goes, SameHist
  <2>2. VerOk(l, r)
    BY <1>7 DEF VerOk, Picked
  <2>3. answer'.bare = FALSE
    BY <2>1 DEF NoAnswer
  <2> QED
    BY <1>7, <2>1, <2>2, <2>3
<1>8. CASE /\ Signed
           /\ Continue(p, "setProps", [[rq[p] EXCEPT !.fileId = FreshFile(rq[p].name)]
                                       EXCEPT !.todo = <<"coordinates", Describes>>])
  <2>1. PICK k, t : k = FreshFile(rq[p].name) /\ t = <<"coordinates", Describes>>
    OBVIOUS
  <2>2. PICK l, r : l = "setProps" /\ r = [[rq[p] EXCEPT !.fileId = k] EXCEPT !.todo = t]
    OBVIOUS
  <2>3. IsLocal(r) /\ ReqOk(l, r) /\ SameUpload(p, r) /\ r.name = rq[p].name /\ r.rest = rq[p].rest
        /\ r.fileId = k /\ r.todo = t
    BY <1>1, <1>2, <2>2 DEF IsLocal, LocalFields, ReqOk, UploadPcs, DeletePcs, ListPcs, TagPcs, KeyPcs,
       SameUpload, Uploading
  <2>4. SameHist /\ holder' = holder => AfterFile(p, l, r)
    BY <1>8, <2>1, <2>2, <2>3 DEF AfterFile
  <2>5. Continue(p, l, r)
    BY <1>8, <2>1, <2>2
  <2>6. /\ \E ll, rr : Goes(p, ll, rr) /\ ReqOk(ll, rr) /\ VerOk(ll, rr) /\ AfterFile(p, ll, rr)
        /\ answer'.bare = FALSE
    BY <1>7, <2>2, <2>2, <2>3, <2>4, <2>5
  <2> QED
    BY <1>1, <1>3, <1>4, <1>5, <2>6
<1>9. CASE fmt = "cran" /\ Continue(p, "setLicense", [rq[p] EXCEPT !.fileId = FreshFile(rq[p].name)])
  <2>1. PICK k : k = FreshFile(rq[p].name)
    OBVIOUS
  <2>2. PICK l, r : l = "setLicense" /\ r = [rq[p] EXCEPT !.fileId = k]
    OBVIOUS
  <2>3. IsLocal(r) /\ ReqOk(l, r) /\ SameUpload(p, r) /\ r.name = rq[p].name /\ r.rest = rq[p].rest
        /\ r.fileId = k
    BY <1>1, <1>2, <2>2 DEF IsLocal, LocalFields, ReqOk, UploadPcs, DeletePcs, ListPcs, TagPcs, KeyPcs,
       SameUpload, Uploading
  <2>4. SameHist /\ holder' = holder => AfterFile(p, l, r)
    BY <1>9, <2>1, <2>2, <2>3 DEF AfterFile
  <2>5. Continue(p, l, r)
    BY <1>9, <2>1, <2>2
  <2>6. /\ \E ll, rr : Goes(p, ll, rr) /\ ReqOk(ll, rr) /\ VerOk(ll, rr) /\ AfterFile(p, ll, rr)
        /\ answer'.bare = FALSE
    BY <1>7, <2>2, <2>2, <2>3, <2>4, <2>5
  <2> QED
    BY <1>1, <1>3, <1>4, <1>5, <2>6
<1>10. CASE \/ fmt = "npm" /\ Continue(p, "setLicense", rq[p])
            \/ fmt = "maven" /\ rq[p].name = Pom /\ Continue(p, "mvnBackfill", rq[p])
  <2>1. PICK l, r : /\ l = IF fmt = "npm" THEN "setLicense" ELSE "mvnBackfill"
                    /\ r = rq[p]
    OBVIOUS
  <2>2. Continue(p, l, r)
    BY <1>10, <2>1
  <2>3. ReqOk(l, r) /\ SameUpload(p, r)
    BY <1>1, <1>2, <1>10, <2>1
       DEF ReqOk, UploadPcs, DeletePcs, ListPcs, TagPcs, KeyPcs, SameUpload, Uploading
  <2>4. SameHist /\ holder' = holder => AfterFile(p, l, r)
    BY <1>10, <2>1, <2>3 DEF AfterFile
  <2> QED
    BY <1>3, <1>1, <1>2, <1>4, <1>5, <1>7, <2>1, <2>2, <2>3, <2>4
<1>11. CASE /\ fmt = "nuget" /\ rq[p].rest # {}
            /\ Continue(p, "svcPackage", [[rq[p] EXCEPT !.name = Nuspec] EXCEPT !.rest = {}])
  <2>1. PICK l, r : l = "svcPackage" /\ r = [[rq[p] EXCEPT !.name = Nuspec] EXCEPT !.rest = {}]
    OBVIOUS
  <2>2. IsLocal(r) /\ SameUpload(p, r) /\ r.name = Nuspec /\ r.rest = {}
        /\ r.ids = rq[p].ids /\ r.tagIds = rq[p].tagIds
    BY <1>1, <1>2, <2>1 DEF IsLocal, LocalFields, SameUpload, Uploading
  <2>3. ReqOk(l, r)
    BY <1>2, <1>11, <2>1, <2>2, NugetAssumption DEF ReqOk, UploadPcs, SameUpload
  <2>4. SameHist /\ holder' = holder => AfterFile(p, l, r)
    BY <1>11, <2>1, <2>2 DEF AfterFile
  <2>5. Continue(p, l, r) /\ l # "svcFile" /\ l \notin {"tagList", "tagClear", "tagSet"} /\ IsLocal(r)
    BY <1>11, <2>1, <2>2
  <2>6. /\ \E ll, rr : Goes(p, ll, rr) /\ ReqOk(ll, rr) /\ VerOk(ll, rr) /\ AfterFile(p, ll, rr)
        /\ answer'.bare = FALSE
    BY <1>7, <2>3, <2>4, <2>5
  <2> QED
    BY <1>1, <1>3, <1>4, <1>5, <2>6
<1> QED
  BY <1>1, <1>3, <1>4, <1>5, <1>6, <1>8, <1>9, <1>10, <1>11 DEF Stored

\* NuGet's push ends well when the nuspec is stored or was there before.
LEMMA SettlesStep ==
  ASSUME Base, NEW p \in Procs, Settles(p)
  PROVE  /\ Leaves(p) /\ OnlyAcked /\ answer'.bare = FALSE
         /\ fmt = "nuget" /\ Uploading(p) /\ rq[p].rest = {} /\ rq[p].name = Nuspec
         /\ pc[p] \in {"svcFile", "svcPackage"}
         /\ \/ /\ hist'.acked = hist.acked \cup {Nupkg, Nuspec}
               /\ \E f \in files : f.vid = rq[p].verId /\ f.name = Nuspec
            \/ hist'.acked = hist.acked \cup {Nupkg} /\ pc[p] = "svcPackage"
         /\ UNCHANGED <<repo, pkg, versions, files, keys, verdict>>
<1>1. /\ fmt = "nuget" /\ Uploading(p) /\ rq[p].rest = {} /\ rq[p].name = Nuspec
      /\ UNCHANGED <<repo, pkg, versions, files, keys, verdict>> /\ Shape
  BY DEF Settles, Base
<1>2. PICK S : /\ Created(p, S)
               /\ \/ /\ S = {Nupkg, Nuspec} /\ pc[p] = "svcFile"
                     /\ \E f \in files : f.vid = rq[p].verId /\ f.name = Nuspec
                  \/ S = {Nupkg} /\ pc[p] = "svcPackage"
  BY <1>1 DEF Settles
<1>3. Leaves(p) /\ OnlyAcked /\ answer'.bare = FALSE /\ hist'.acked = hist.acked \cup S
  BY <1>1, <1>2, CreatedStep DEF OnlyAcked
<1> QED
  BY <1>1, <1>2, <1>3

\* Where an upload goes after a SetProperty.
AfterProperty(p, l, r) ==
    \/ /\ l = "setProps" /\ Len(rq[p].todo) > 1 /\ r = [rq[p] EXCEPT !.todo = Tail(rq[p].todo)]
       /\ SameHist /\ holder' = holder
    \/ /\ l = "setLicense" /\ ~(Len(rq[p].todo) > 1) /\ fmt # "cran" /\ r = rq[p]
       /\ SameHist /\ holder' = holder
    \/ /\ l = "idle" /\ r = NoLocal /\ ~(Len(rq[p].todo) > 1) /\ Leaves(p) /\ OnlyAcked
       /\ hist'.acked = hist.acked \cup {rq[p].name}

WithProperty(i, x) == {IF f.id = i THEN [f EXCEPT !.props = @ \cup {x}] ELSE f : f \in files}

\* SetProperty on the file: the next property of the list is added, and no other row
\* changes.
LEMMA DescribingStep ==
  ASSUME Base, NEW p \in Procs, Describing(p)
  PROVE  /\ \E l, r : Goes(p, l, r) /\ ReqOk(l, r) /\ VerOk(l, r) /\ AfterProperty(p, l, r)
         /\ Uploading(p) /\ pc[p] = "setProps" /\ (Signed \/ fmt = "cran")
         /\ files' = WithProperty(rq[p].fileId, Head(rq[p].todo)) /\ SameFiles
         /\ answer'.bare = FALSE
         /\ UNCHANGED <<repo, pkg, versions, keys, verdict, events>>
<1>1. /\ Uploading(p) /\ pc[p] = "setProps" /\ (Signed \/ fmt = "cran")
      /\ UNCHANGED <<repo, pkg, versions, keys, verdict, events>>
      /\ files' = WithProperty(rq[p].fileId, Head(rq[p].todo))
  BY DEF Describing, SetProperties, WithProperty
<1>2. IsLocal(rq[p]) /\ ReqOk(pc[p], rq[p]) /\ Shape
  BY DEF Base, Shape
<1>3. SameFiles
  <2>1. PICK i, x : i = rq[p].fileId /\ x = Head(rq[p].todo)
    OBVIOUS
  <2>2. PICK g : g = [f \in files |-> IF f.id = i THEN [f EXCEPT !.props = f.props \cup {x}] ELSE f]
    OBVIOUS
  <2>3. \A f \in files : Copy(g[f], f)
    BY <2>2, CopyColumns DEF Base, FilesOk
  <2>4. files' = {g[f] : f \in files}
    BY <1>1, <2>1, <2>2 DEF WithProperty
  <2> QED
    BY <2>3, <2>4, UpdateFiles DEF Base
<1>4. ASSUME Len(rq[p].todo) > 1, Continue(p, "setProps", [rq[p] EXCEPT !.todo = Tail(rq[p].todo)])
      PROVE  /\ \E l, r : Goes(p, l, r) /\ ReqOk(l, r) /\ VerOk(l, r) /\ AfterProperty(p, l, r)
             /\ answer'.bare = FALSE
  <2>1. PICK t : t = Tail(rq[p].todo)
    OBVIOUS
  <2>2. PICK l, r : l = "setProps" /\ r = [rq[p] EXCEPT !.todo = t]
    OBVIOUS
  <2>3. IsLocal(r) /\ ReqOk(l, r) /\ VerOk(l, r)
    BY <1>1, <1>2, <2>2 DEF IsLocal, LocalFields, ReqOk, UploadPcs, DeletePcs, ListPcs, TagPcs, KeyPcs,
       VerOk, Picked
  <2>4. Continue(p, l, r)
    BY <1>4, <2>1, <2>2
  <2>5. Goes(p, l, r) /\ SameHist /\ holder' = holder /\ answer' = NoAnswer
    BY <1>1, <1>2, <2>3, <2>4, ContinueStep DEF Goes, SameHist
  <2>6. AfterProperty(p, l, r) /\ answer'.bare = FALSE
    BY <1>4, <2>1, <2>2, <2>5 DEF AfterProperty, NoAnswer
  <2> QED
    BY <2>3, <2>5, <2>6
<1>5. ASSUME ~(Len(rq[p].todo) > 1), Continue(p, "setLicense", rq[p]), fmt # "cran"
      PROVE  /\ \E l, r : Goes(p, l, r) /\ ReqOk(l, r) /\ VerOk(l, r) /\ AfterProperty(p, l, r)
             /\ answer'.bare = FALSE
  <2>1. PICK l, r : l = "setLicense" /\ r = rq[p]
    OBVIOUS
  <2>2. ReqOk(l, r) /\ VerOk(l, r)
    BY <1>1, <1>2, <2>1 DEF ReqOk, UploadPcs, DeletePcs, ListPcs, TagPcs, KeyPcs, VerOk, Picked
  <2>3. Goes(p, l, r) /\ SameHist /\ holder' = holder /\ answer' = NoAnswer
    BY <1>1, <1>2, <1>5, <2>1, ContinueStep DEF Goes, SameHist
  <2>4. AfterProperty(p, l, r) /\ answer'.bare = FALSE
    BY <1>5, <2>1, <2>3 DEF AfterProperty, NoAnswer
  <2> QED
    BY <2>2, <2>3, <2>4
<1>6. ASSUME ~(Len(rq[p].todo) > 1), Created(p, {rq[p].name})
      PROVE  /\ \E l, r : Goes(p, l, r) /\ ReqOk(l, r) /\ VerOk(l, r) /\ AfterProperty(p, l, r)
             /\ answer'.bare = FALSE
  <2>1. PICK l, r : l = "idle" /\ r = NoLocal
    OBVIOUS
  <2>2. /\ Leaves(p) /\ OnlyAcked /\ hist'.acked = hist.acked \cup {rq[p].name}
        /\ answer'.bare = FALSE
    BY <1>1, <1>2, <1>6, CreatedStep DEF OnlyAcked
  <2>3. AfterProperty(p, l, r) /\ Goes(p, l, r)
    BY <1>6, <2>1, <2>2 DEF AfterProperty, Leaves
  <2> QED
    BY <2>1, <2>2, <2>3, IdleOk
<1>7. [rq[p] EXCEPT !.todo = Tail(@)] = [rq[p] EXCEPT !.todo = Tail(rq[p].todo)]
  OBVIOUS
<1>8. /\ \E l, r : Goes(p, l, r) /\ ReqOk(l, r) /\ VerOk(l, r) /\ AfterProperty(p, l, r)
      /\ answer'.bare = FALSE
  <2>1. CASE Len(rq[p].todo) > 1
    BY <1>4, <1>7, <2>1 DEF Describing, SetProperties
  <2>2. CASE ~(Len(rq[p].todo) > 1)
    BY <1>5, <1>6, <2>2 DEF Describing, SetProperties
  <2> QED
    BY <2>1, <2>2
<1> QED
  BY <1>1, <1>3, <1>8

\* Where an upload goes after SetLicense.
AfterLicense(p, l, r) ==
    \/ /\ l = "idle" /\ r = NoLocal /\ Leaves(p) /\ OnlyAcked
       /\ hist'.acked = hist.acked \cup {rq[p].name}
    \/ /\ SameHist /\ holder' = holder
       /\ \/ l = "nextArch" /\ fmt = "alpine" /\ r = rq[p]
          \/ l = "setProps" /\ fmt = "cran" /\ r = [rq[p] EXCEPT !.todo = CranProps]
          \/ l = "npmTag" /\ fmt = "npm" /\ r = rq[p]

\* SetLicense writes a column that the other properties do not read.
LEMMA LicensesStep ==
  ASSUME Base, NEW p \in Procs, Licenses(p)
  PROVE  /\ \E l, r : Goes(p, l, r) /\ ReqOk(l, r) /\ VerOk(l, r) /\ AfterLicense(p, l, r)
         /\ Uploading(p) /\ pc[p] = "setLicense" /\ SameMeta
         /\ answer'.bare = FALSE
         /\ UNCHANGED <<repo, pkg, files, keys, verdict>>
<1>1. /\ pc[p] = "setLicense" /\ UNCHANGED <<repo, pkg, files, keys, verdict>>
      /\ \/ versions' = {IF v.id = rq[p].verId THEN [v EXCEPT !.lic = TRUE] ELSE v : v \in versions}
         \/ versions' = versions
  BY DEF Licenses, SetLicense, Event
<1>2. IsLocal(rq[p]) /\ ReqOk(pc[p], rq[p]) /\ Shape
  BY DEF Base, Shape
<1>3. Uploading(p) /\ rq[p].name \in Names
  BY <1>1, <1>2 DEF ReqOk, UploadPcs, DeletePcs, ListPcs, TagPcs, KeyPcs, Uploading
<1>4. SameMeta
  <2>1. CASE versions' = versions
    BY <2>1, UnchangedMeta DEF Base
  <2>2. CASE versions' = {IF v.id = rq[p].verId THEN [v EXCEPT !.lic = TRUE] ELSE v : v \in versions}
    <3>1. PICK i : i = rq[p].verId
      OBVIOUS
    <3> QED
      BY <2>2, <3>1, LicenseRows DEF Base
  <2> QED
    BY <1>1, <2>1, <2>2
<1>5. ASSUME Created(p, {rq[p].name})
      PROVE  /\ \E l, r : Goes(p, l, r) /\ ReqOk(l, r) /\ VerOk(l, r) /\ AfterLicense(p, l, r)
             /\ answer'.bare = FALSE
  <2>1. PICK l, r : l = "idle" /\ r = NoLocal
    OBVIOUS
  <2>2. /\ Leaves(p) /\ OnlyAcked /\ hist'.acked = hist.acked \cup {rq[p].name}
        /\ answer'.bare = FALSE
    BY <1>1, <1>2, <1>5, CreatedStep DEF OnlyAcked
  <2>3. AfterLicense(p, l, r) /\ Goes(p, l, r)
    BY <2>1, <2>2 DEF AfterLicense, Leaves
  <2> QED
    BY <2>1, <2>2, <2>3, IdleOk
<1>6. ASSUME NEW l, NEW r, Continue(p, l, r),
             \/ l = "nextArch" /\ fmt = "alpine" /\ r = rq[p]
             \/ l = "setProps" /\ fmt = "cran" /\ r = [rq[p] EXCEPT !.todo = CranProps]
             \/ l = "npmTag" /\ fmt = "npm" /\ r = rq[p]
      PROVE  /\ \E ll, rr : Goes(p, ll, rr) /\ ReqOk(ll, rr) /\ VerOk(ll, rr) /\ AfterLicense(p, ll, rr)
             /\ answer'.bare = FALSE
  <2>1. IsLocal(r) /\ VerOk(l, r)
    <3>1. ASSUME NEW t PROVE IsLocal([rq[p] EXCEPT !.todo = t])
      BY <1>2, LocalFieldsKept
    <3> QED
      BY <1>2, <1>6, <3>1 DEF VerOk, Picked
  <2>2. ReqOk(l, r)
    <3>1. CASE r = rq[p] /\ l \in {"nextArch", "npmTag"}
      BY <1>1, <1>2, <1>3, <1>6, <3>1 DEF ReqOk, UploadPcs, DeletePcs, ListPcs, TagPcs, KeyPcs, Uploading
    <3>2. ASSUME NEW t, l = "setProps", fmt = "cran", r = [rq[p] EXCEPT !.todo = t] PROVE ReqOk(l, r)
      BY <1>1, <1>2, <3>2
         DEF IsLocal, LocalFields, ReqOk, UploadPcs, DeletePcs, ListPcs, TagPcs, KeyPcs
    <3> QED
      BY <1>6, <3>1, <3>2
  <2>3. Goes(p, l, r) /\ SameHist /\ holder' = holder /\ answer' = NoAnswer
    BY <1>1, <1>2, <1>6, <2>1, ContinueStep DEF Goes, SameHist
  <2>4. AfterLicense(p, l, r) /\ answer'.bare = FALSE
    BY <1>6, <2>3 DEF AfterLicense, NoAnswer
  <2> QED
    BY <2>1, <2>2, <2>3, <2>4
<1>7. CASE fmt = "cran" /\ Continue(p, "setProps", [rq[p] EXCEPT !.todo = CranProps])
  <2>1. PICK l, r : l = "setProps" /\ r = [rq[p] EXCEPT !.todo = CranProps]
    OBVIOUS
  <2> QED
    BY <1>1, <1>3, <1>4, <1>6, <1>7, <2>1
<1>8. CASE \/ fmt = "alpine" /\ Continue(p, "nextArch", rq[p])
           \/ fmt = "npm" /\ Continue(p, "npmTag", rq[p])
  <2>1. PICK l, r : l = IF fmt = "npm" THEN "npmTag" ELSE "nextArch" /\ r = rq[p]
    OBVIOUS
  <2>2. PICK s : s = rq[p]
    OBVIOUS
  <2> QED
    BY <1>1, <1>3, <1>4, <1>6, <1>8, <2>2
<1> QED
  BY <1>1, <1>3, <1>4, <1>5, <1>7, <1>8 DEF Licenses, SetLicense

\* UpdateVersionMetadata of Maven: the version of the pom gets the pom's metadata.
LEMMA BackfillsStep ==
  ASSUME Base, NEW p \in Procs, Backfills(p)
  PROVE  /\ Goes(p, "setLicense", rq[p]) /\ ReqOk("setLicense", rq[p]) /\ VerOk("setLicense", rq[p])
         /\ pc[p] = "mvnBackfill" /\ fmt = "maven" /\ Uploading(p)
         /\ SameVersions
         /\ \A w \in versions' : \E v \in versions :
               Twin(w, v) /\ w.meta = IF v.id = rq[p].verId THEN rq[p].sha ELSE v.meta
         /\ SameHist /\ holder' = holder /\ answer' = NoAnswer
         /\ UNCHANGED <<repo, pkg, files, keys, verdict, events>>
<1>1. /\ pc[p] = "mvnBackfill" /\ fmt = "maven" /\ Continue(p, "setLicense", rq[p])
      /\ UNCHANGED <<repo, pkg, files, keys, verdict, events>>
  BY DEF Backfills
<1>2. IsLocal(rq[p]) /\ ReqOk(pc[p], rq[p]) /\ Shape
  BY DEF Base, Shape
<1>3. PICK i, b : i = rq[p].verId /\ b = rq[p].sha
  OBVIOUS
<1>4. \A w : w \in versions' <=> \/ w \in versions /\ w.id # i
                                \/ \E v \in versions : v.id = i /\ w = [v EXCEPT !.meta = b]
  BY <1>3 DEF Backfills
<1>5. /\ SameVersions
      /\ \A w \in versions' : \E v \in versions : Twin(w, v) /\ w.meta = IF v.id = i THEN b ELSE v.meta
  BY <1>4, MetaRows DEF Base
<1>6. /\ ReqOk("setLicense", rq[p]) /\ VerOk("setLicense", rq[p]) /\ Uploading(p)
  BY <1>1, <1>2 DEF ReqOk, UploadPcs, DeletePcs, ListPcs, TagPcs, KeyPcs, VerOk, Picked, Uploading
<1>7. Goes(p, "setLicense", rq[p]) /\ SameHist /\ holder' = holder /\ answer' = NoAnswer
  <2>1. PICK r : r = rq[p]
    OBVIOUS
  <2>2. Goes(p, "setLicense", r) /\ SameHist /\ holder' = holder /\ answer' = NoAnswer
    BY <1>1, <1>2, <2>1, ContinueStep DEF Goes, SameHist
  <2> QED
    BY <2>1, <2>2
<1> QED
  BY <1>1, <1>3, <1>5, <1>6, <1>7

\* The dist-tag that comes with a publish.
LEMMA PublishTagStep ==
  ASSUME Base, NEW p \in Procs, NpmPublishTag(p)
  PROVE  /\ Leaves(p) /\ pc[p] = "npmTag" /\ Uploading(p) /\ fmt = "npm"
         /\ hist'.acked = hist.acked \cup {rq[p].name}
         /\ hist'.given = hist.given /\ hist'.sole = hist.sole /\ hist'.crossed = hist.crossed
         /\ hist'.twoKeys = hist.twoKeys /\ hist'.rekeyed = hist.rekeyed /\ hist'.broken = hist.broken
         /\ \/ versions' = WithTag(rq[p].verId, TRUE) /\ hist'.tagged = StaysTagged(rq[p].verId)
            \/ versions' = versions /\ hist'.tagged = hist.tagged
         /\ SameVersions /\ answer'.bare = FALSE
         /\ UNCHANGED <<repo, pkg, files, keys, verdict, events>>
<1>1. /\ pc[p] = "npmTag" /\ Answer(p, Status("201"))
      /\ UNCHANGED <<repo, pkg, files, keys, verdict, events>>
  BY DEF NpmPublishTag
<1>2. IsLocal(rq[p]) /\ ReqOk(pc[p], rq[p]) /\ Shape
  BY DEF Base, Shape
<1>3. Uploading(p) /\ fmt = "npm"
  BY <1>1, <1>2 DEF ReqOk, UploadPcs, DeletePcs, ListPcs, TagPcs, KeyPcs, Uploading
<1>4. PICK t : /\ \/ versions' = WithTag(rq[p].verId, TRUE) /\ t = StaysTagged(rq[p].verId)
                  \/ versions' = versions /\ t = hist.tagged
               /\ hist' = [[hist EXCEPT !.acked = hist.acked \cup {rq[p].name}] EXCEPT !.tagged = t]
  <2>1. [hist EXCEPT !.acked = @ \cup {rq[p].name}]
          = [[hist EXCEPT !.acked = hist.acked \cup {rq[p].name}] EXCEPT !.tagged = hist.tagged]
    BY <1>2 DEF Shape, IsHist, HistFields
  <2>2. PICK s : s = StaysTagged(rq[p].verId)
    OBVIOUS
  <2>3. [hist EXCEPT !.acked = @ \cup {rq[p].name}, !.tagged = s]
          = [[hist EXCEPT !.acked = hist.acked \cup {rq[p].name}] EXCEPT !.tagged = s]
    BY <1>2 DEF Shape, IsHist, HistFields
  <2> QED
    BY <2>1, <2>2, <2>3 DEF NpmPublishTag
<1>5. /\ IsHist(hist')
      /\ hist'.acked = hist.acked \cup {rq[p].name}
      /\ hist'.given = hist.given /\ hist'.sole = hist.sole /\ hist'.crossed = hist.crossed
      /\ hist'.twoKeys = hist.twoKeys /\ hist'.rekeyed = hist.rekeyed /\ hist'.broken = hist.broken
      /\ hist'.tagged = t
  BY <1>2, <1>4 DEF Shape, IsHist, HistFields
<1>6. PICK a : a = Status("201")
  OBVIOUS
<1>7. Leaves(p)
  BY <1>1, <1>2, <1>5, <1>6, AnswerStep DEF Leaves, Goes
<1>8. SameVersions
  <2>1. PICK i, b : i = rq[p].verId /\ b = TRUE
    OBVIOUS
  <2> QED
    BY <1>4, <2>1, TagRows, UnchangedVersions DEF Base
<1>9. answer'.bare = FALSE
  BY <1>1 DEF Answer, Status, NoAnswer
<1> QED
  BY <1>1, <1>3, <1>4, <1>5, <1>7, <1>8, <1>9

\* The loop of setDistTag and deleteDistTag.
LEMMA UntagsStep ==
  ASSUME Base, NEW p \in Procs, Untags(p)
  PROVE  /\ \E i \in rq[p].tagIds :
              /\ versions' = WithTag(i, FALSE)
              /\ \E r : /\ r = [rq[p] EXCEPT !.tagIds = rq[p].tagIds \ {i}]
                        /\ Goes(p, "tagClear", r) /\ ReqOk("tagClear", r) /\ VerOk("tagClear", r)
         /\ pc[p] = "tagClear" /\ rq[p].op \in {"tag", "untag"}
         /\ SameVersions /\ SameHist /\ holder' = holder /\ answer' = NoAnswer
         /\ UNCHANGED <<repo, pkg, files, keys, verdict, events>>
<1>1. pc[p] = "tagClear" /\ UNCHANGED <<repo, pkg, files, keys, verdict, events>>
  BY DEF Untags
<1>2. IsLocal(rq[p]) /\ ReqOk(pc[p], rq[p]) /\ VerOk(pc[p], rq[p]) /\ Shape
  BY DEF Base, Shape
<1>3. PICK i \in rq[p].tagIds :
         /\ versions' = WithTag(i, FALSE)
         /\ Continue(p, "tagClear", [rq[p] EXCEPT !.tagIds = rq[p].tagIds \ {i}])
  BY Zenon DEF Untags
<1>4. PICK T : T = rq[p].tagIds \ {i}
  OBVIOUS
<1>5. PICK r : r = [rq[p] EXCEPT !.tagIds = T]
  OBVIOUS
<1>6. IsFiniteSet(T)
  BY <1>2, <1>4, FS_RemoveElement DEF ReqOk
<1>7. IsLocal(r) /\ ReqOk("tagClear", r) /\ VerOk("tagClear", r)
  BY <1>1, <1>2, <1>5, <1>6
     DEF IsLocal, LocalFields, ReqOk, UploadPcs, DeletePcs, ListPcs, TagPcs, KeyPcs, VerOk, Picked
<1>8. rq[p].op \in {"tag", "untag"}
  BY <1>1, <1>2 DEF ReqOk, UploadPcs, DeletePcs, ListPcs, TagPcs, KeyPcs
<1>9. Continue(p, "tagClear", r)
  BY <1>3, <1>4, <1>5
<1>10. Goes(p, "tagClear", r) /\ SameHist /\ holder' = holder /\ answer' = NoAnswer
  BY <1>1, <1>2, <1>7, <1>9, ContinueStep DEF Goes, SameHist
<1>11. SameVersions
  <2>1. PICK b : b = FALSE
    OBVIOUS
  <2> QED
    BY <1>3, <2>1, TagRows DEF Base
<1> QED
  BY <1>1, <1>3, <1>4, <1>5, <1>7, <1>8, <1>10, <1>11

\* The end of setDistTag and deleteDistTag.
LEMMA TagSetStep ==
  ASSUME Base, NEW p \in Procs, NpmTagSet(p)
  PROVE  /\ Leaves(p) /\ pc[p] = "tagSet" /\ rq[p].op \in {"tag", "untag"} /\ fmt = "npm"
         /\ hist'.acked = hist.acked
         /\ hist'.given = hist.given /\ hist'.crossed = hist.crossed
         /\ hist'.twoKeys = hist.twoKeys /\ hist'.rekeyed = hist.rekeyed /\ hist'.broken = hist.broken
         /\ \/ /\ rq[p].op = "untag" /\ versions' = versions
               /\ hist'.tagged = hist.tagged /\ hist'.sole = hist.sole
            \/ /\ rq[p].op = "tag" /\ versions' = WithTag(rq[p].verId, TRUE)
               /\ hist'.tagged = StaysTagged(rq[p].verId)
               /\ hist'.sole = IF Alive(rq[p].verId) /\ ~rq[p].met THEN VersionOf(p) ELSE None
         /\ SameVersions /\ answer'.bare = FALSE
         /\ UNCHANGED <<repo, pkg, files, keys, verdict, events>>
<1>1. /\ pc[p] = "tagSet" /\ Answer(p, Status("200"))
      /\ UNCHANGED <<repo, pkg, files, keys, verdict, events>>
  BY DEF NpmTagSet
<1>2. IsLocal(rq[p]) /\ ReqOk(pc[p], rq[p]) /\ Shape
  BY DEF Base, Shape
<1>3. rq[p].op \in {"tag", "untag"} /\ fmt = "npm"
  BY <1>1, <1>2 DEF ReqOk, UploadPcs, DeletePcs, ListPcs, TagPcs, KeyPcs
<1>4. PICK t, u :
         /\ \/ rq[p].op = "untag" /\ versions' = versions /\ t = hist.tagged /\ u = hist.sole
            \/ /\ rq[p].op = "tag" /\ versions' = WithTag(rq[p].verId, TRUE)
               /\ t = StaysTagged(rq[p].verId)
               /\ u = IF Alive(rq[p].verId) /\ ~rq[p].met THEN VersionOf(p) ELSE None
         /\ hist' = [[hist EXCEPT !.tagged = t] EXCEPT !.sole = u]
  <2>1. hist = [[hist EXCEPT !.tagged = hist.tagged] EXCEPT !.sole = hist.sole]
    BY <1>2 DEF Shape, IsHist, HistFields
  <2>2. PICK t, u : /\ t = StaysTagged(rq[p].verId)
                    /\ u = IF Alive(rq[p].verId) /\ ~rq[p].met THEN VersionOf(p) ELSE None
    OBVIOUS
  <2>3. [hist EXCEPT !.tagged = t, !.sole = u] = [[hist EXCEPT !.tagged = t] EXCEPT !.sole = u]
    BY <1>2 DEF Shape, IsHist, HistFields
  <2>4. \/ rq[p].op = "untag" /\ versions' = versions /\ hist' = hist
        \/ /\ rq[p].op = "tag" /\ versions' = WithTag(rq[p].verId, TRUE)
           /\ hist' = [hist EXCEPT !.tagged = t, !.sole = u]
    BY <2>2, Zenon DEF NpmTagSet
  <2>5. CASE rq[p].op = "untag" /\ versions' = versions /\ hist' = hist
    BY <2>1, <2>5, Zenon
  <2>6. CASE /\ rq[p].op = "tag" /\ versions' = WithTag(rq[p].verId, TRUE)
             /\ hist' = [[hist EXCEPT !.tagged = t] EXCEPT !.sole = u]
    BY <2>2, <2>6, Zenon
  <2> QED
    BY <2>3, <2>4, <2>5, <2>6
<1>5. /\ IsHist(hist') /\ hist'.acked = hist.acked
      /\ hist'.given = hist.given /\ hist'.crossed = hist.crossed
      /\ hist'.twoKeys = hist.twoKeys /\ hist'.rekeyed = hist.rekeyed /\ hist'.broken = hist.broken
      /\ hist'.tagged = t /\ hist'.sole = u
  BY <1>2, <1>4 DEF Shape, IsHist, HistFields
<1>6. PICK a : a = Status("200")
  OBVIOUS
<1>7. Leaves(p)
  BY <1>1, <1>2, <1>5, <1>6, AnswerStep DEF Leaves, Goes
<1>8. SameVersions
  <2>1. PICK i, b : i = rq[p].verId /\ b = TRUE
    OBVIOUS
  <2> QED
    BY <1>4, <2>1, TagRows, UnchangedVersions DEF Base
<1>9. answer'.bare = FALSE
  BY <1>1 DEF Answer, Status, NoAnswer
<1> QED
  BY <1>1, <1>3, <1>4, <1>5, <1>7, <1>8, <1>9

\* An index that is sent as it is.
LEMMA ListsStep ==
  ASSUME Base, NEW p \in Procs, Lists(p)
  PROVE  /\ Leaves(p) /\ SameHist /\ Still /\ fmt = "debian" /\ pc[p] = "listProps"
         /\ answer'.bare = ListProps(p, "control")
         /\ answer'.met = (ListProps(p, "control") /\ rq[p].met)
<1>1. /\ fmt = "debian" /\ pc[p] = "listProps" /\ hist' = hist /\ Still
      /\ Answer(p, [Status("200") EXCEPT !.bare = ListProps(p, "control")])
  BY DEF Lists, Index, Still, rows
<1>2. PICK b : b = ListProps(p, "control")
  OBVIOUS
<1>3. PICK a : a = [Status("200") EXCEPT !.bare = b]
  OBVIOUS
<1>4. a.bare = b
  BY <1>3 DEF Status, NoAnswer
<1>5. Answer(p, a)
  BY <1>1, <1>2, <1>3
<1>6. answer'.bare = b /\ answer'.met = (b /\ rq[p].met)
  BY <1>3, <1>4, <1>5 DEF Answer, Status, NoAnswer
<1>7. Leaves(p)
  BY <1>1, <1>5, AnswerStep DEF Leaves, Goes, Base, Shape, Still
<1> QED
  BY <1>1, <1>2, <1>6, <1>7 DEF SameHist

\* The synthetic package is found or made.
LEMMA KeyPackageStep ==
  ASSUME Base, Signed, NEW p \in Procs, KeyPackage(p)
  PROVE  /\ \E r : /\ r = [rq[p] EXCEPT !.pkgId = keys'.pkg]
                   /\ Goes(p, "keyPrivate", r) /\ ReqOk("keyPrivate", r) /\ r.pkgId = keys'.pkg
         /\ pc[p] = "keyPackage"
         /\ keys' = IF keys.pkg = 0
                      THEN [NoKeys EXCEPT !.pkg = Unused({0} \cup {rq[q].pkgId : q \in Procs})] ELSE keys
         /\ hist'.given = hist.given /\ hist'.rekeyed = hist.rekeyed
         /\ hist'.twoKeys <=> \/ hist.twoKeys
                              \/ 0 \in {keys.priv, keys.pub} /\ \E q \in Procs \ {p} : pc[q] \in KeyPcs
         /\ hist'.acked = hist.acked /\ hist'.tagged = hist.tagged /\ hist'.sole = hist.sole
         /\ hist'.crossed = hist.crossed /\ hist'.broken = hist.broken
         /\ holder' = holder /\ answer' = NoAnswer
         /\ UNCHANGED <<repo, pkg, versions, files, verdict, events>>
<1>1. /\ pc[p] = "keyPackage" /\ holder' = holder /\ answer' = NoAnswer
      /\ keys' = IF keys.pkg = 0
                   THEN [NoKeys EXCEPT !.pkg = Unused({0} \cup {rq[q].pkgId : q \in Procs})] ELSE keys
      /\ UNCHANGED <<repo, pkg, versions, files, verdict, events>>
  BY DEF KeyPackage, rows
<1>2. IsLocal(rq[p]) /\ ReqOk(pc[p], rq[p]) /\ Shape
  BY DEF Base, Shape
<1>3. PICK x : x = keys'.pkg
  OBVIOUS
<1>4. PICK r : r = [rq[p] EXCEPT !.pkgId = x]
  OBVIOUS
<1>5. pc' = [pc EXCEPT ![p] = "keyPrivate"] /\ rq' = [rq EXCEPT ![p] = r]
  BY <1>3, <1>4 DEF KeyPackage, Goto, Set
<1>6. PICK t : /\ t \in BOOLEAN
               /\ t <=> \/ hist.twoKeys
                        \/ 0 \in {keys.priv, keys.pub} /\ \E q \in Procs \ {p} : pc[q] \in KeyPcs
               /\ hist' = [hist EXCEPT !.twoKeys = t]
  BY DEF KeyPackage
<1>7. /\ IsHist(hist') /\ hist'.twoKeys = t
      /\ hist'.given = hist.given /\ hist'.rekeyed = hist.rekeyed
      /\ hist'.acked = hist.acked /\ hist'.tagged = hist.tagged /\ hist'.sole = hist.sole
      /\ hist'.crossed = hist.crossed /\ hist'.broken = hist.broken
  BY <1>2, <1>6 DEF Shape, IsHist, HistFields
<1>8. IsLocal(r) /\ ReqOk("keyPrivate", r) /\ r.pkgId = x
  BY <1>1, <1>2, <1>4
     DEF IsLocal, LocalFields, ReqOk, UploadPcs, DeletePcs, ListPcs, TagPcs, KeyPcs
<1>9. \A q \in Procs \ {p} : pc'[q] = pc[q] /\ rq'[q] = rq[q]
  BY <1>2, <1>5 DEF Shape
<1>10. \A q \in Procs \ {p} : Waits(q)
  BY <1>2, <1>9, KeptItself DEF Shape, Waits
<1>11. Goes(p, "keyPrivate", r)
  BY <1>1, <1>2, <1>5, <1>7, <1>8, <1>10 DEF Goes, Shape
<1> QED
  BY <1>1, <1>3, <1>4, <1>6, <1>7, <1>8, <1>11

\* The private half of the key is read, or found missing.
LEMMA KeyPrivateStep ==
  ASSUME Base, Signed, NEW p \in Procs, KeyPrivate(p)
  PROVE  /\ \E r : /\ r = [rq[p] EXCEPT !.priv = KeyOf(p, keys.priv)]
                   /\ Goes(p, "keyPublic", r) /\ ReqOk("keyPublic", r)
                   /\ r.pkgId = rq[p].pkgId /\ r.priv = KeyOf(p, keys.priv)
                   /\ r.one = rq[p].one /\ r.met = rq[p].met
         /\ pc[p] = "keyPrivate" /\ Still /\ SameHist /\ holder' = holder /\ answer' = NoAnswer
<1>1. pc[p] = "keyPrivate" /\ Still
  BY DEF KeyPrivate, Still, rows
<1>2. IsLocal(rq[p]) /\ ReqOk(pc[p], rq[p]) /\ Shape
  BY DEF Base, Shape
<1>3. PICK x : x = KeyOf(p, keys.priv)
  OBVIOUS
<1>4. PICK r : r = [rq[p] EXCEPT !.priv = x]
  OBVIOUS
<1>5. /\ IsLocal(r) /\ ReqOk("keyPublic", r) /\ r.pkgId = rq[p].pkgId /\ r.priv = x
      /\ r.one = rq[p].one /\ r.met = rq[p].met
  BY <1>1, <1>2, <1>4
     DEF IsLocal, LocalFields, ReqOk, UploadPcs, DeletePcs, ListPcs, TagPcs, KeyPcs
<1>6. Continue(p, "keyPublic", r)
  BY <1>3, <1>4 DEF KeyPrivate
<1>7. Goes(p, "keyPublic", r) /\ SameHist /\ holder' = holder /\ answer' = NoAnswer
  BY <1>1, <1>2, <1>5, <1>6, ContinueStep DEF Goes, SameHist, Still
<1> QED
  BY <1>1, <1>3, <1>4, <1>5, <1>7

\* A key is used: the request is answered with it.
LEMMA KeyUsedStep ==
  ASSUME Base, NEW p \in Procs, UNCHANGED repo, NEW x, NEW y, NEW b, KeyUsed(p, x, y, b)
  PROVE  /\ Leaves(p) /\ hist'.given = hist.given \cup {IF rq[p].op = "key" THEN y ELSE x}
         /\ hist'.rekeyed = hist.rekeyed /\ hist'.twoKeys = hist.twoKeys
         /\ hist'.acked = hist.acked /\ hist'.tagged = hist.tagged /\ hist'.sole = hist.sole
         /\ hist'.crossed = hist.crossed /\ hist'.broken = hist.broken
         /\ answer'.bare = b /\ answer'.met = (b /\ rq[p].met)
<1>1. PICK a : a = [Status("200") EXCEPT !.bare = b]
  OBVIOUS
<1>2. Answer(p, a) /\ hist' = [hist EXCEPT !.given = hist.given \cup {IF rq[p].op = "key" THEN y ELSE x}]
  BY <1>1 DEF KeyUsed
<1>3. a.bare = b
  BY <1>1 DEF Status, NoAnswer
<1>4. answer'.bare = b /\ answer'.met = (b /\ rq[p].met)
  BY <1>1, <1>2, <1>3 DEF Answer, Status, NoAnswer
<1>5. /\ IsHist(hist') /\ hist'.given = hist.given \cup {IF rq[p].op = "key" THEN y ELSE x}
      /\ hist'.rekeyed = hist.rekeyed /\ hist'.twoKeys = hist.twoKeys
      /\ hist'.acked = hist.acked /\ hist'.tagged = hist.tagged /\ hist'.sole = hist.sole
      /\ hist'.crossed = hist.crossed /\ hist'.broken = hist.broken
  BY <1>2 DEF Base, Shape, IsHist, HistFields
<1>6. Leaves(p)
  BY <1>2, <1>5, AnswerStep DEF Leaves, Goes, Base
<1> QED
  BY <1>4, <1>5, <1>6

\* The histories that using a key leaves alone.
OnlyGiven ==
    /\ hist'.rekeyed = hist.rekeyed /\ hist'.twoKeys = hist.twoKeys
    /\ hist'.acked = hist.acked /\ hist'.tagged = hist.tagged /\ hist'.sole = hist.sole
    /\ hist'.crossed = hist.crossed /\ hist'.broken = hist.broken

\* The public half is read: both halves there means the request is served with them,
\* otherwise it makes a new pair.
LEMMA KeyPublicStep ==
  ASSUME Base, Signed, NEW p \in Procs, KeyPublic(p)
  PROVE  /\ pc[p] = "keyPublic" /\ Still
         /\ \/ /\ rq[p].priv # 0 /\ KeyOf(p, keys.pub) # 0 /\ Leaves(p) /\ OnlyGiven
               /\ hist'.given = hist.given \cup {IF rq[p].op = "key" THEN KeyOf(p, keys.pub) ELSE rq[p].priv}
               /\ answer'.bare = rq[p].one /\ answer'.met = (rq[p].one /\ rq[p].met)
            \/ /\ rq[p].priv = 0 \/ KeyOf(p, keys.pub) = 0
               /\ \E r : /\ Goes(p, "keySetPrivate", r) /\ ReqOk("keySetPrivate", r)
                         /\ r.pkgId = rq[p].pkgId /\ r.priv = FreshKey /\ r.pub = FreshKey
                         /\ r.one = rq[p].one /\ r.met = rq[p].met /\ r.op = rq[p].op
               /\ SameHist /\ holder' = holder /\ answer' = NoAnswer
<1>1. pc[p] = "keyPublic" /\ Still
  BY DEF KeyPublic, Still, rows
<1>2. IsLocal(rq[p]) /\ ReqOk(pc[p], rq[p]) /\ Shape
  BY DEF Base, Shape
<1>3. PICK pub, prv, b, k : /\ pub = KeyOf(p, keys.pub) /\ prv = rq[p].priv /\ b = rq[p].one
                            /\ k = FreshKey
  OBVIOUS
<1>4. CASE prv # 0 /\ pub # 0
  <2>1. KeyUsed(p, prv, pub, b) /\ UNCHANGED repo
    BY <1>1, <1>3, <1>4 DEF KeyPublic, Still
  <2>2. /\ Leaves(p) /\ hist'.given = hist.given \cup {IF rq[p].op = "key" THEN pub ELSE prv}
        /\ OnlyGiven
        /\ answer'.bare = b /\ answer'.met = (b /\ rq[p].met)
    BY <2>1, KeyUsedStep DEF OnlyGiven
  <2> QED
    BY <1>1, <1>3, <1>4, <2>2
<1>5. CASE ~(prv # 0 /\ pub # 0)
  <2>1. Continue(p, "keySetPrivate", [rq[p] EXCEPT !.priv = k, !.pub = k])
    BY <1>3, <1>5 DEF KeyPublic
  <2>2. PICK r : r = [[rq[p] EXCEPT !.priv = k] EXCEPT !.pub = k]
    OBVIOUS
  <2>3. /\ IsLocal(r) /\ ReqOk("keySetPrivate", r) /\ r.pkgId = rq[p].pkgId /\ r.priv = k
        /\ r.one = rq[p].one /\ r.met = rq[p].met /\ r.pub = k /\ r.op = rq[p].op
    BY <1>1, <1>2, <2>2
       DEF IsLocal, LocalFields, ReqOk, UploadPcs, DeletePcs, ListPcs, TagPcs, KeyPcs
  <2>4. Continue(p, "keySetPrivate", r)
    BY <2>1, <2>2
  <2>5. Goes(p, "keySetPrivate", r) /\ SameHist /\ holder' = holder /\ answer' = NoAnswer
    BY <1>1, <1>2, <2>3, <2>4, ContinueStep DEF Goes, SameHist, Still
  <2> QED
    BY <1>1, <1>3, <1>5, <2>3, <2>5
<1> QED
  BY <1>4, <1>5

\* The new private half is written to the package the request looked up.
LEMMA KeySetPrivateStep ==
  ASSUME Base, Signed, NEW p \in Procs, KeySetPrivate(p)
  PROVE  /\ Goes(p, "keySetPublic", rq[p]) /\ ReqOk("keySetPublic", rq[p]) /\ pc[p] = "keySetPrivate"
         /\ keys' = IF keys.pkg = rq[p].pkgId THEN [keys EXCEPT !.priv = rq[p].priv] ELSE keys
         /\ SameHist /\ holder' = holder /\ answer' = NoAnswer
         /\ UNCHANGED <<repo, pkg, versions, files, verdict, events>>
<1>1. /\ pc[p] = "keySetPrivate" /\ UNCHANGED <<repo, pkg, versions, files, verdict, events>>
      /\ keys' = IF keys.pkg = rq[p].pkgId THEN [keys EXCEPT !.priv = rq[p].priv] ELSE keys
  BY DEF KeySetPrivate, rows
<1>2. IsLocal(rq[p]) /\ ReqOk(pc[p], rq[p]) /\ Shape
  BY DEF Base, Shape
<1>3. PICK r : r = rq[p]
  OBVIOUS
<1>4. ReqOk("keySetPublic", r)
  BY <1>1, <1>2, <1>3 DEF ReqOk, UploadPcs, DeletePcs, ListPcs, TagPcs, KeyPcs
<1>5. Continue(p, "keySetPublic", r)
  BY <1>3 DEF KeySetPrivate
<1>6. Goes(p, "keySetPublic", r) /\ SameHist /\ holder' = holder /\ answer' = NoAnswer
  BY <1>1, <1>2, <1>3, <1>5, ContinueStep DEF Goes, SameHist
<1> QED
  BY <1>1, <1>3, <1>4, <1>6

\* The new public half is written, and the request is served with its own pair.
LEMMA KeySetPublicStep ==
  ASSUME Base, Signed, NEW p \in Procs, KeySetPublic(p)
  PROVE  /\ Leaves(p) /\ pc[p] = "keySetPublic" /\ OnlyGiven
         /\ keys' = IF keys.pkg = rq[p].pkgId THEN [keys EXCEPT !.pub = rq[p].pub] ELSE keys
         /\ hist'.given = hist.given \cup {IF rq[p].op = "key" THEN rq[p].pub ELSE rq[p].priv}
         /\ answer'.bare = rq[p].one /\ answer'.met = (rq[p].one /\ rq[p].met)
         /\ UNCHANGED <<repo, pkg, versions, files, verdict, events>>
<1>1. /\ pc[p] = "keySetPublic" /\ UNCHANGED <<repo, pkg, versions, files, verdict, events>>
      /\ keys' = IF keys.pkg = rq[p].pkgId THEN [keys EXCEPT !.pub = rq[p].pub] ELSE keys
  BY DEF KeySetPublic, rows
<1>2. PICK x, y, b : x = rq[p].priv /\ y = rq[p].pub /\ b = rq[p].one
  OBVIOUS
<1>3. KeyUsed(p, x, y, b)
  BY <1>2 DEF KeySetPublic
<1>4. /\ Leaves(p) /\ hist'.given = hist.given \cup {IF rq[p].op = "key" THEN y ELSE x}
      /\ OnlyGiven
      /\ answer'.bare = b /\ answer'.met = (b /\ rq[p].met)
  BY <1>1, <1>3, KeyUsedStep DEF OnlyGiven
<1> QED
  BY <1>1, <1>2, <1>4

\* The end of a delete: the version with all it has, or one file.
LEMMA DeleteStep ==
  ASSUME Base, NEW p \in Procs, DeleteApply(p)
  PROVE  /\ Leaves(p) /\ SameHist /\ pc[p] = "delApply" /\ rq[p].op = "delete" /\ answer'.bare = FALSE
         /\ \/ rq[p].one /\ RemoveVersion(rq[p].verId)
            \/ ~rq[p].one /\ files' = {f \in files : f.id # rq[p].fileId} /\ versions' = versions
         /\ UNCHANGED <<repo, pkg, keys, verdict, events>>
<1>1. /\ pc[p] = "delApply" /\ Respond(p, "204") /\ UNCHANGED <<repo, pkg, keys, verdict, events>>
      /\ \/ rq[p].one /\ RemoveVersion(rq[p].verId)
         \/ ~rq[p].one /\ files' = {f \in files : f.id # rq[p].fileId} /\ versions' = versions
  BY DEF DeleteApply
<1>2. rq[p].op = "delete"
  BY <1>1 DEF Base, ReqOk, UploadPcs, DeletePcs, ListPcs, TagPcs, KeyPcs
<1> QED
  BY <1>1, <1>2, RespondStep DEF Base

\* The administrator's deletes: every request has met a write.
LEMMA DisturbStep ==
  ASSUME Base, UNCHANGED repo, Disturb, IsHist(hist')
  PROVE  /\ Shape' /\ holder' = holder /\ pc' = pc /\ answer' = NoAnswer
         /\ \A q \in Procs : Waits(q) /\ (Watched(rq[q]) => rq'[q].met)
<1>1. /\ rq' = [q \in Procs |-> [rq[q] EXCEPT !.met = Watched(rq[q])]]
      /\ pc' = pc /\ holder' = holder /\ answer' = NoAnswer
  BY DEF Disturb
<1>2. ASSUME NEW q \in Procs
      PROVE  IsLocal(rq'[q]) /\ Kept(rq'[q], rq[q]) /\ rq'[q].met = Watched(rq[q])
  <2>1. IsLocal(rq[q])
    BY DEF Base, Shape
  <2>2. PICK b : b = Watched(rq[q])
    OBVIOUS
  <2>3. rq'[q] = [rq[q] EXCEPT !.met = b]
    BY <1>1, <2>2
  <2> QED
    BY <2>1, <2>2, <2>3 DEF IsLocal, LocalFields, Kept
<1>3. Shape'
  BY <1>1, <1>2 DEF Base, Shape
<1> QED
  BY <1>1, <1>2, <1>3 DEF Waits

\* Only what the administrator's deletes record.
Gone(acked) ==
    /\ hist'.acked = acked /\ hist'.tagged = FALSE /\ hist'.sole = None
    /\ hist'.crossed <=> hist.crossed \/ InFlight(Writes)
    /\ hist'.given = hist.given /\ hist'.twoKeys = hist.twoKeys
    /\ hist'.rekeyed = hist.rekeyed /\ hist'.broken = hist.broken

\* The administrator deletes a version and its files; requests stay where they are.
LEMMA DeleteVersionStep ==
  ASSUME Base, NEW v \in versions, DeleteVersion(v)
  PROVE  /\ Shape' /\ holder' = holder /\ pc' = pc /\ answer' = NoAnswer
         /\ \A q \in Procs : Waits(q) /\ (Watched(rq[q]) => rq'[q].met)
         /\ RemoveVersion(v.id) /\ Gone(hist.acked \ NamesIn(v.id))
         /\ UNCHANGED <<repo, pkg, keys, verdict>>
<1>1. PICK b, a : b = InFlight(Writes) /\ a = hist.acked \ NamesIn(v.id)
  OBVIOUS
<1>2. /\ RemoveVersion(v.id) /\ Disturb /\ UNCHANGED <<repo, pkg, keys, verdict>>
      /\ hist' = [hist EXCEPT !.acked = a, !.tagged = FALSE, !.sole = None,
                              !.crossed = hist.crossed \/ b]
  BY <1>1 DEF DeleteVersion, Event
<1>3. IsHist(hist') /\ Gone(a)
  BY <1>1, <1>2 DEF Base, Shape, IsHist, HistFields, Gone
<1> QED
  BY <1>1, <1>2, <1>3, DisturbStep

\* The administrator deletes the package with all its rows.
LEMMA DeletePackageStep ==
  ASSUME Base, DeletePackage
  PROVE  /\ Shape' /\ holder' = holder /\ pc' = pc /\ answer' = NoAnswer
         /\ \A q \in Procs : Waits(q) /\ (Watched(rq[q]) => rq'[q].met)
         /\ versions' = {} /\ files' = {} /\ Gone({})
         /\ UNCHANGED <<repo, keys, verdict>>
<1>1. PICK b, a : b = InFlight(Writes) /\ a = {}
  OBVIOUS
<1>2. /\ versions' = {} /\ files' = {} /\ Disturb /\ UNCHANGED <<repo, keys, verdict>>
      /\ hist' = [hist EXCEPT !.acked = a, !.tagged = FALSE, !.sole = None,
                              !.crossed = hist.crossed \/ b]
  BY <1>1 DEF DeletePackage, Event
<1>3. IsHist(hist') /\ Gone(a)
  BY <1>1, <1>2 DEF Base, Shape, IsHist, HistFields, Gone
<1> QED
  BY <1>1, <1>2, <1>3, DisturbStep

\* Every request stays where it is.
Idle == /\ Shape' /\ pc' = pc /\ rq' = rq /\ holder' = holder
        /\ \A q \in Procs : Waits(q)

\* A step of nobody leaves every request where it is.
LEMMA IdleStep ==
  ASSUME Base, UNCHANGED <<repo, pc, rq, holder>>, IsHist(hist')
  PROVE  Idle
<1>1. Shape'
  BY DEF Base, Shape
<1>2. \A q \in Procs : IsLocal(rq[q])
  BY DEF Base, Shape
<1> QED
  BY <1>1, <1>2, KeptItself DEF Idle, Waits

\* A listing answered in one step lists a version without files only if there is one,
\* and then says whether a write is in flight.
LEMMA AtOnceStep ==
  ASSUME Base, NEW p \in Procs, AtOnce(p)
  PROVE  /\ Idle /\ SameHist /\ Still
         /\ answer'.bare => \E v \in versions : \A f \in files : f.vid # v.id
         /\ answer'.bare => (InFlight(Writes) => answer'.met)
<1>1. PICK a, b : /\ a = [code |-> a.code, bare |-> b, met |-> FALSE]
                  /\ b \in BOOLEAN
                  /\ b => \E v \in versions : \A f \in files : f.vid # v.id
                  /\ AnswerAtOnce(p, a)
  BY Zenon DEF AtOnce
<1>2. /\ UNCHANGED <<repo, pkg, versions, files, keys, verdict, events>> /\ hist' = hist
      /\ UNCHANGED <<repo, pc, rq, holder>>
  BY <1>1 DEF AnswerAtOnce, rows
<1>3. a.bare = b
  BY <1>1
<1>4. answer'.bare = b /\ (b => (InFlight(Writes) => answer'.met))
  BY <1>1, <1>3 DEF AnswerAtOnce
<1>5. IsHist(hist')
  BY <1>2 DEF Base, Shape
<1> QED
  BY <1>1, <1>2, <1>4, <1>5, IdleStep DEF SameHist, Still

\* A rule changes.
LEMMA VerdictStep ==
  ASSUME Base, NEW v, ChangeVerdict(v)
  PROVE  Idle /\ SameHist /\ UNCHANGED <<repo, pkg, versions, files, keys>> /\ answer' = NoAnswer
<1>1. UNCHANGED <<repo, pkg, versions, files, keys, pc, rq, holder>> /\ hist' = hist /\ answer' = NoAnswer
  BY DEF ChangeVerdict, Event, rows, ctl
<1> QED
  BY <1>1, IdleStep DEF Base, Shape, SameHist

\* A version is quarantined or released.
LEMMA QuarantineStep ==
  ASSUME Base, NEW v \in versions, SetQuarantine(v)
  PROVE  Idle /\ SameHist /\ SameMeta /\ UNCHANGED <<repo, pkg, files, keys>> /\ answer' = NoAnswer
<1>1. UNCHANGED <<repo, pkg, files, keys, pc, rq, holder>> /\ hist' = hist /\ answer' = NoAnswer
  BY DEF SetQuarantine, Event, ctl
<1>2. PICK b : b = ~v.quar
  OBVIOUS
<1>3. versions' = (versions \ {v}) \cup {[v EXCEPT !.quar = b]}
  BY <1>2 DEF SetQuarantine
<1>4. SameMeta
  BY <1>3, QuarantineRows DEF Base
<1> QED
  BY <1>1, <1>4, IdleStep DEF Base, Shape, SameHist

\* The synthetic package is deleted.
LEMMA DeleteKeyStep ==
  ASSUME Base, DeleteKeyPackage
  PROVE  /\ Idle /\ keys' = NoKeys /\ answer' = NoAnswer
         /\ hist'.rekeyed = TRUE /\ hist'.twoKeys = hist.twoKeys /\ hist'.given = hist.given
         /\ hist'.acked = hist.acked /\ hist'.tagged = hist.tagged /\ hist'.sole = hist.sole
         /\ hist'.crossed = hist.crossed /\ hist'.broken = hist.broken
         /\ UNCHANGED <<repo, pkg, versions, files>>
<1>1. /\ UNCHANGED <<repo, pkg, versions, files, pc, rq, holder>> /\ answer' = NoAnswer /\ keys' = NoKeys
      /\ hist' = [hist EXCEPT !.rekeyed = TRUE]
  BY DEF DeleteKeyPackage, Event, ctl, rows
<1>2. /\ IsHist(hist')
      /\ hist'.rekeyed = TRUE /\ hist'.twoKeys = hist.twoKeys /\ hist'.given = hist.given
      /\ hist'.acked = hist.acked /\ hist'.tagged = hist.tagged /\ hist'.sole = hist.sole
      /\ hist'.crossed = hist.crossed /\ hist'.broken = hist.broken
  BY <1>1 DEF Base, Shape, IsHist, HistFields
<1> QED
  BY <1>1, <1>2, IdleStep

\* Only that a request broke off is recorded.
Breaks ==
    /\ hist'.broken = TRUE /\ hist'.rekeyed = hist.rekeyed /\ hist'.twoKeys = hist.twoKeys
    /\ hist'.given = hist.given /\ hist'.acked = hist.acked /\ hist'.tagged = hist.tagged
    /\ hist'.sole = hist.sole /\ hist'.crossed = hist.crossed

\* A database or storage error ends the request and is recorded; rows stay as they are.
LEMMA FailStep ==
  ASSUME Base, NEW p \in Procs, Fail(p)
  PROVE  Leaves(p) /\ Breaks /\ UNCHANGED <<repo, pkg, versions, files, keys>> /\ answer'.bare = FALSE
<1>1. /\ UNCHANGED <<repo, pkg, versions, files, keys>> /\ Answer(p, Status("500"))
      /\ hist' = [hist EXCEPT !.broken = TRUE]
  BY DEF Fail, Event, rows
<1>2. IsHist(hist') /\ Breaks
  BY <1>1 DEF Base, Shape, IsHist, HistFields, Breaks
<1>3. PICK a : a = Status("500")
  OBVIOUS
<1>4. Leaves(p)
  BY <1>1, <1>2, <1>3, AnswerStep DEF Leaves, Goes, Base
<1>5. answer'.bare = FALSE
  BY <1>1 DEF Answer, Status, NoAnswer
<1> QED
  BY <1>1, <1>2, <1>4, <1>5

\* A crash ends all requests and releases the lock; rows stay as they are.
LEMMA CrashStep ==
  ASSUME Base, Crash
  PROVE  /\ Shape' /\ Breaks /\ holder' = None /\ answer' = NoAnswer
         /\ \A q \in Procs : pc'[q] = "idle" /\ rq'[q] = NoLocal
         /\ UNCHANGED <<repo, pkg, versions, files, keys>>
<1>1. /\ UNCHANGED <<repo, pkg, versions, files, keys>> /\ holder' = None /\ answer' = NoAnswer
      /\ pc' = [p \in Procs |-> "idle"] /\ rq' = [p \in Procs |-> NoLocal]
      /\ hist' = [hist EXCEPT !.broken = TRUE]
  BY DEF Crash, Event, rows
<1>2. IsHist(hist') /\ Breaks
  BY <1>1 DEF Base, Shape, IsHist, HistFields, Breaks
<1>3. Shape'
  BY <1>1, <1>2, NoLocalFacts DEF Base, Shape
<1> QED
  BY <1>1, <1>2, <1>3

\* A request that has just arrived.
LEMMA ArrivalStep ==
  ASSUME Base, NEW p \in Procs, NEW l, NEW r, NEW doomed, BeginDelete(p, l, r, doomed), Arrives(l, r, doomed)
  PROVE  ReqOk(pc'[p], rq'[p]) /\ VerOk(pc'[p], rq'[p]) /\ pc'[p] = l
         /\ rq'[p].op = r.op /\ rq'[p].name = r.name /\ rq'[p].rest = r.rest /\ rq'[p].one = FALSE
         /\ rq'[p].ids = {}
<1>1. IsLocal(r)
  BY DEF Arrives
<1>2. Kept(rq'[p], [r EXCEPT !.met = FALSE]) /\ pc'[p] = l
  BY <1>1, ArriveStep DEF Base
<1>3. /\ rq'[p].op = r.op /\ rq'[p].name = r.name /\ rq'[p].rest = r.rest /\ rq'[p].ids = r.ids
      /\ rq'[p].tagIds = r.tagIds /\ rq'[p].one = r.one
  BY <1>1, <1>2 DEF Kept, IsLocal, LocalFields
<1>4. IsFiniteSet({})
  BY FS_EmptySet
<1>5. ReqOk(l, rq'[p])
  <2>1. rq'[p].rest \subseteq Names /\ IsFiniteSet(rq'[p].ids) /\ IsFiniteSet(rq'[p].tagIds)
    BY <1>3, <1>4, NugetAssumption DEF Arrives
  <2>2. l \in {"mvnCheckIn", "mvnParse", "mvnBackfill"} => fmt = "maven"
    BY DEF Arrives, KeyEntry
  <2>3. l # "npmTag"
    BY DEF Arrives, KeyEntry
  <2>4. fmt = "nuget" /\ r.op = "upload" => r.name = Nupkg /\ r.rest = {Nuspec}
    BY DEF Arrives, Signed, ListOps
  <2>5. \/ l \in UploadPcs /\ r.op = "upload" /\ r.name \in Names
        \/ /\ l \in {"arches", "nextArch"} /\ r.op = "upload" /\ fmt = "alpine"
           /\ r.name \in Names \cup {None}
        \/ l \in {"mvnCheckIn", "mvnVerify"} /\ r.op = "checksum"
        \/ l \in DeletePcs /\ r.op = "delete" /\ r.name \in Names /\ fmt \notin {"npm", "maven"}
        \/ l \in ListPcs /\ r.op \in ListOps /\ Signed
        \/ l \in KeyPcs \cup {"keyCheckIn"} /\ r.op \in ListOps \cup {"key"} /\ Signed
        \/ l \in TagPcs /\ r.op \in {"tag", "untag"} /\ fmt = "npm" /\ (l = "tagLookup" => r.op = "tag")
    BY DEF Arrives, KeyEntry, UploadPcs, DeletePcs, ListPcs, TagPcs, KeyPcs
  <2> QED
    BY <1>3, <2>1, <2>2, <2>3, <2>4, <2>5 DEF ReqOk
<1>6. VerOk(l, rq'[p])
  <2>1. l # "svcFile" /\ l \notin {"tagClear", "tagSet"} /\ (l = "tagList" => r.op = "untag")
    BY DEF Arrives, KeyEntry
  <2> QED
    BY <1>3, <2>1 DEF VerOk, Picked
<1> QED
  BY <1>2, <1>3, <1>5, <1>6 DEF Arrives

\* A version's row is added.
LEMMA BaseInsert ==
  ASSUME Base, Shape', UNCHANGED <<repo, files>>,
         NEW w, versions' = versions \cup {w}, IsVersion(w), w.id = FreshVersion,
         NEW p \in Procs, \A q \in Procs \ {p} : Waits(q), pc'[p] = "svcFile", rq'[p].verId = w.id,
         w.ver = VerOf[fmt][rq'[p].name], ReqOk("svcFile", rq'[p])
  PROVE  Base'
<1>1. UNCHANGED <<fmt, Signed>>
  BY DEF fmt, Signed
<1>2. /\ \A v \in versions : v.id # w.id
      /\ \A q \in Procs : rq[q].verId # w.id
  BY FreshVersionId
<1>3. VersionsOk'
  BY <1>2, FS_AddElement DEF Base, VersionsOk
<1>4. FilesOk'
  BY <1>1, <1>3 DEF Base, FilesOk
<1>5. ASSUME NEW q \in Procs PROVE ReqOk(pc[q], rq[q])' /\ VerOk(pc[q], rq[q])'
  <2>1. ReqOk(pc[q], rq[q]) /\ VerOk(pc[q], rq[q])
    BY DEF Base
  <2>2. PICK l, r : l = pc'[q] /\ r = rq'[q]
    OBVIOUS
  <2>3. ReqOk(l, r)
    <3>1. CASE q = p
      BY <2>2, <3>1
    <3>2. CASE q # p
      BY <2>1, <2>2, <3>2 DEF Waits, Kept, ReqOk
    <3> QED
      BY <3>1, <3>2
  <2>4. ReqOk(l, r)'
    BY <1>1, <2>3 DEF ReqOk
  <2>5. VerOk(l, r)'
    <3>1. CASE q = p
      BY <1>1, <1>2, <2>2, <3>1 DEF VerOk
    <3>2. CASE q # p
      BY <1>1, <1>2, <2>1, <2>2, <3>2 DEF Waits, Kept, VerOk, Picked
    <3> QED
      BY <3>1, <3>2
  <2> QED
    BY <2>2, <2>4, <2>5
<1> QED
  BY <1>3, <1>4, <1>5 DEF Base

\* A file's row is added.
LEMMA BaseStore ==
  ASSUME Base, Shape', UNCHANGED <<repo, versions>>,
         NEW f, files' = files \cup {f}, IsFile(f), f.id = FreshFile(f.name), f.name \in Names,
         \A g \in files : ~(g.vid = f.vid /\ g.name = f.name),
         \E v \in versions : v.id = f.vid /\ v.ver = VerOf[fmt][f.name],
         NEW p \in Procs, \A q \in Procs \ {p} : Waits(q),
         ReqOk(pc'[p], rq'[p]), VerOk(pc'[p], rq'[p])
  PROVE  Base'
<1>1. UNCHANGED <<fmt, Signed>>
  BY DEF fmt, Signed
<1>2. \A g \in files : g.id # f.id
  BY FreshFileId
<1>3. VersionsOk'
  BY DEF Base, VersionsOk
<1>4. FilesOk'
  BY <1>1, <1>2, FS_AddElement DEF Base, FilesOk
<1>5. ASSUME NEW q \in Procs PROVE ReqOk(pc[q], rq[q])' /\ VerOk(pc[q], rq[q])'
  <2>1. ReqOk(pc[q], rq[q]) /\ VerOk(pc[q], rq[q])
    BY DEF Base
  <2>2. PICK l, r : l = pc'[q] /\ r = rq'[q]
    OBVIOUS
  <2>3. ReqOk(l, r) /\ VerOk(l, r)
    <3>1. CASE q = p
      BY <2>2, <3>1
    <3>2. CASE q # p
      BY <2>1, <2>2, <3>2 DEF Waits, Kept, ReqOk, VerOk, Picked
    <3> QED
      BY <3>1, <3>2
  <2>4. ReqOk(l, r)' /\ VerOk(l, r)'
    BY <1>1, <2>3 DEF ReqOk, VerOk, Picked
  <2> QED
    BY <2>2, <2>4
<1> QED
  BY <1>3, <1>4, <1>5 DEF Base

\* Rows are removed, files with their version.
LEMMA BaseRemove ==
  ASSUME Base, Shape', UNCHANGED repo, versions' \subseteq versions, files' \subseteq files,
         \A f \in files' : \E v \in versions' : v.id = f.vid,
         \A q \in Procs : Waits(q) \/ (ReqOk(pc'[q], rq'[q]) /\ VerOk(pc'[q], rq'[q]))
  PROVE  Base'
<1>1. UNCHANGED <<fmt, Signed>>
  BY DEF fmt, Signed
<1>2. VersionsOk'
  BY FS_Subset DEF Base, VersionsOk
<1>3. FilesOk'
  <2>1. ASSUME NEW f \in files' PROVE \E v \in versions' : v.id = f.vid /\ v.ver = VerOf[fmt][f.name]
    <3>1. PICK v \in versions' : v.id = f.vid
      OBVIOUS
    <3> QED
      BY <3>1 DEF Base, FilesOk, VersionsOk
  <2> QED
    BY <1>1, <2>1, FS_Subset DEF Base, FilesOk
<1>4. ASSUME NEW q \in Procs PROVE ReqOk(pc[q], rq[q])' /\ VerOk(pc[q], rq[q])'
  <2>1. ReqOk(pc[q], rq[q]) /\ VerOk(pc[q], rq[q])
    BY DEF Base
  <2>2. PICK l, r : l = pc'[q] /\ r = rq'[q]
    OBVIOUS
  <2>3. ReqOk(l, r) /\ VerOk(l, r)
    <3>1. CASE Waits(q)
      BY <2>1, <2>2, <3>1 DEF Waits, Kept, ReqOk, VerOk, Picked
    <3> QED
      BY <2>2, <3>1
  <2>4. ReqOk(l, r)' /\ VerOk(l, r)'
    BY <1>1, <2>3 DEF ReqOk, VerOk, Picked
  <2> QED
    BY <2>2, <2>4
<1> QED
  BY <1>2, <1>3, <1>4 DEF Base

\* One request moved and rows were at most updated.
LEMMA GoesBase ==
  ASSUME Base, NEW p \in Procs, NEW l, NEW r, Goes(p, l, r), ReqOk(l, r), VerOk(l, r),
         SameVersions, SameFiles
  PROVE  Base'
<1>1. \A q \in Procs : Waits(q) \/ (ReqOk(pc'[q], rq'[q]) /\ VerOk(pc'[q], rq'[q]))
  BY DEF Goes
<1> QED
  BY <1>1, BaseStep DEF Goes

\* A request's step keeps rows and requests in shape.
LEMMA BaseKinds == ASSUME Base, NEW p \in Procs, Kinds(p) PROVE Base'
<1>0. /\ UNCHANGED versions => SameVersions
      /\ UNCHANGED files => SameFiles
      /\ ReqOk("idle", NoLocal) /\ VerOk("idle", NoLocal)
  BY UnchangedVersions, UnchangedFiles, IdleOk DEF Base
<1>1. CASE Arrival(p)
  <2>1. PICK l, r, doomed : BeginDelete(p, l, r, doomed) /\ Arrives(l, r, doomed)
    BY <1>1, Zenon DEF Arrival
  <2>2. IsLocal(r)
    BY <2>1 DEF Arrives
  <2>3. Shape' /\ Still /\ \A q \in Procs \ {p} : Waits(q)
    BY <2>1, <2>2, ArriveStep DEF Base
  <2> QED
    BY <2>1, <2>3, ArrivalStep, StillBase
<1>2. CASE AtOnce(p)
  BY <1>0, <1>2, AtOnceStep, BaseStep DEF Idle, Still
<1>3. CASE Quits(p)
  BY <1>0, <1>3, QuitsStep, GoesBase DEF Leaves, Still
<1>4. CASE Moves(p)
  BY <1>0, <1>4, MovesStep, GoesBase DEF Still
<1>5. CASE Locks(p)
  <2>1. /\ Shape' /\ Still /\ \A q \in Procs \ {p} : Waits(q)
        /\ rq' = rq
        /\ \/ pc[p] = "mvnCheckIn" /\ pc'[p] = IF rq[p].op = "checksum" THEN "mvnVerify" ELSE "mvnParse"
           \/ pc[p] = "nugetCheckIn" /\ pc'[p] = "svcPackage"
           \/ pc[p] = "keyCheckIn" /\ pc'[p] = "keyPackage"
    BY <1>5, LockStep DEF Base
  <2>2. ReqOk(pc[p], rq[p])
    BY DEF Base
  <2>3. ReqOk(pc'[p], rq'[p])
    BY <2>1, <2>2 DEF ReqOk, UploadPcs, DeletePcs, ListPcs, TagPcs, KeyPcs
  <2>4. VerOk(pc'[p], rq'[p])
    BY <2>1 DEF VerOk, Picked
  <2> QED
    BY <2>1, <2>3, <2>4, StillBase
<1>6. CASE Uploading(p) /\ GetOrCreatePackage(p)
  <2>1. PICK r : Goes(p, "svcVersion", r) /\ ReqOk("svcVersion", r)
    BY <1>6, PackageStep
  <2>2. UNCHANGED <<versions, files>>
    BY <1>6, PackageStep
  <2>3. VerOk("svcVersion", r)
    BY DEF VerOk, Picked
  <2> QED
    BY <1>0, <2>1, <2>2, <2>3, GoesBase
<1>7. CASE Inserts(p)
  <2>1. PICK r : /\ r = [rq[p] EXCEPT !.verId = FreshVersion] /\ Goes(p, "svcFile", r)
                 /\ ReqOk("svcFile", r) /\ r.verId = FreshVersion
    BY <1>7, InsertsStep
  <2>2. PICK w : versions' = versions \cup {w} /\ IsVersion(w) /\ w.id = FreshVersion /\ w.ver = VersionOf(p)
    BY <1>7, InsertsStep
  <2>3. UNCHANGED <<repo, files>>
    BY <1>7, InsertsStep
  <2>4. r.name = rq[p].name
    BY <2>1 DEF Base, Shape, IsLocal, LocalFields
  <2>5. w.ver = VerOf[fmt][r.name]
    BY <2>2, <2>4 DEF VersionOf
  <2>6. rq'[p] = r /\ pc'[p] = "svcFile" /\ Shape' /\ \A q \in Procs \ {p} : Waits(q)
    BY <2>1 DEF Goes
  <2> QED
    BY <2>1, <2>2, <2>3, <2>5, <2>6, BaseInsert
<1>8. CASE Stores(p)
  <2>1. PICK l, r : Goes(p, l, r) /\ ReqOk(l, r) /\ VerOk(l, r)
    BY <1>8, StoresStep
  <2>2. PICK f : /\ files' = files \cup {f} /\ IsFile(f) /\ f.id = FreshFile(rq[p].name)
                 /\ f.vid = rq[p].verId /\ f.name = rq[p].name
    BY <1>8, StoresStep
  <2>3. /\ \A g \in files : ~(g.vid = f.vid /\ g.name = f.name)
        /\ \E v \in versions : v.id = f.vid /\ v.ver = VerOf[fmt][f.name]
        /\ f.name \in Names /\ UNCHANGED <<repo, versions>> /\ f.id = FreshFile(f.name)
    <3>1. /\ \A g \in files : ~(g.vid = rq[p].verId /\ g.name = rq[p].name)
          /\ \E v \in versions : v.id = rq[p].verId /\ v.ver = VersionOf(p)
          /\ rq[p].name \in Names /\ UNCHANGED <<repo, versions>>
      BY <1>8, StoresStep
    <3>2. f.id = FreshFile(f.name)
      BY <2>2
    <3> QED
      BY <2>2, <3>1, <3>2 DEF VersionOf
  <2>4. rq'[p] = r /\ pc'[p] = l /\ Shape' /\ \A q \in Procs \ {p} : Waits(q)
    BY <2>1 DEF Goes
  <2> QED
    BY <2>1, <2>2, <2>3, <2>4, BaseStore
<1>9. CASE Settles(p)
  BY <1>0, <1>9, SettlesStep, GoesBase DEF Leaves
<1>10. CASE Describing(p)
  BY <1>0, <1>10, DescribingStep, GoesBase
<1>11. CASE Licenses(p)
  BY <1>0, <1>11, LicensesStep, GoesBase DEF SameMeta
<1>12. CASE Backfills(p)
  BY <1>0, <1>12, BackfillsStep, GoesBase
<1>13. CASE DeleteApply(p)
  <2>1. /\ Leaves(p) /\ UNCHANGED repo
        /\ \/ RemoveVersion(rq[p].verId)
           \/ files' = {f \in files : f.id # rq[p].fileId} /\ versions' = versions
    BY <1>13, DeleteStep
  <2>2. versions' \subseteq versions /\ files' \subseteq files
    BY <2>1 DEF RemoveVersion
  <2>3. \A f \in files' : \E v \in versions' : v.id = f.vid
    <3>1. CASE RemoveVersion(rq[p].verId)
      BY <3>1 DEF RemoveVersion, Base, FilesOk
    <3>2. CASE files' \subseteq files /\ versions' = versions
      BY <3>2 DEF Base, FilesOk
    <3> QED
      BY <2>1, <2>2, <3>1, <3>2
  <2>4. \A q \in Procs : Waits(q) \/ (ReqOk(pc'[q], rq'[q]) /\ VerOk(pc'[q], rq'[q]))
    BY <1>0, <2>1 DEF Leaves, Goes
  <2>5. Shape'
    BY <2>1 DEF Leaves, Goes
  <2> QED
    BY <2>1, <2>2, <2>3, <2>4, <2>5, BaseRemove
<1>14. CASE Tags(p)
  <2>1. CASE NpmPublishTag(p)
    BY <1>0, <2>1, PublishTagStep, GoesBase DEF Leaves
  <2>2. CASE NpmTagSet(p)
    BY <1>0, <2>2, TagSetStep, GoesBase DEF Leaves
  <2>3. CASE Untags(p)
    BY <1>0, <2>3, UntagsStep, GoesBase
  <2> QED
    BY <1>14, <2>1, <2>2, <2>3 DEF Tags
<1>15. CASE Lists(p)
  BY <1>0, <1>15, ListsStep, GoesBase DEF Leaves, Still
<1>16. CASE KeyKinds(p)
  <2>0. /\ \A r : VerOk("keyPrivate", r) /\ VerOk("keyPublic", r) /\ VerOk("keySetPrivate", r)
                  /\ VerOk("keySetPublic", r)
        /\ Signed
    BY <1>16 DEF VerOk, Picked, KeyKinds
  <2>1. CASE KeyPackage(p)
    BY <1>0, <2>0, <2>1, KeyPackageStep, GoesBase
  <2>2. CASE KeyPrivate(p)
    BY <1>0, <2>0, <2>2, KeyPrivateStep, GoesBase DEF Still
  <2>3. CASE KeyPublic(p)
    BY <1>0, <2>0, <2>3, KeyPublicStep, GoesBase DEF Still, Leaves
  <2>4. CASE KeySetPrivate(p)
    BY <1>0, <2>0, <2>4, KeySetPrivateStep, GoesBase
  <2>5. CASE KeySetPublic(p)
    BY <1>0, <2>0, <2>5, KeySetPublicStep, GoesBase DEF Leaves
  <2> QED
    BY <1>16, <2>1, <2>2, <2>3, <2>4, <2>5 DEF KeyKinds
<1> QED
  BY <1>1, <1>2, <1>3, <1>4, <1>5, <1>6, <1>7, <1>8, <1>9, <1>10, <1>11, <1>12, <1>13, <1>14,
     <1>15, <1>16 DEF Kinds

\* So does what the administrator and failures do.
LEMMA BaseEnvironment == ASSUME Base, Environment PROVE Base'
<1>0. /\ UNCHANGED versions => SameVersions
      /\ UNCHANGED files => SameFiles
      /\ ReqOk("idle", NoLocal) /\ VerOk("idle", NoLocal)
  BY UnchangedVersions, UnchangedFiles, IdleOk DEF Base
<1>1. ASSUME NEW v, ChangeVerdict(v) PROVE Base'
  BY <1>0, <1>1, VerdictStep, BaseStep DEF Idle
<1>2. ASSUME NEW v \in versions, DeleteVersion(v) PROVE Base'
  <2>1. /\ Shape' /\ \A q \in Procs : Waits(q)
        /\ RemoveVersion(v.id) /\ UNCHANGED repo
    BY <1>2, DeleteVersionStep
  <2>2. /\ versions' \subseteq versions /\ files' \subseteq files
        /\ \A f \in files' : \E w \in versions' : w.id = f.vid
    BY <2>1 DEF RemoveVersion, Base, FilesOk
  <2> QED
    BY <2>1, <2>2, BaseRemove
<1>3. ASSUME NEW v \in versions, SetQuarantine(v) PROVE Base'
  BY <1>0, <1>3, QuarantineStep, BaseStep DEF Idle, SameMeta
<1>4. CASE DeletePackage
  <2>1. /\ Shape' /\ \A q \in Procs : Waits(q)
        /\ versions' = {} /\ files' = {} /\ UNCHANGED repo
    BY <1>4, DeletePackageStep
  <2> QED
    BY <2>1, BaseRemove
<1>5. CASE DeleteKeyPackage
  BY <1>0, <1>5, DeleteKeyStep, BaseStep DEF Idle
<1>6. ASSUME NEW p \in Procs, Fail(p) PROVE Base'
  BY <1>0, <1>6, FailStep, GoesBase DEF Leaves
<1>7. CASE Crash
  BY <1>0, <1>7, CrashStep, BaseStep
<1> QED
  BY <1>1, <1>2, <1>3, <1>4, <1>5, <1>6, <1>7 DEF Environment

\* The requests for a NuGet package carry its two names.
LEMMA BaseNugetNames == ASSUME Base, fmt = "nuget", NEW p \in Procs PROVE NugetNames(p)
  BY DEF Base, ReqOk, NugetNames

\* A step is of one of the kinds.
LEMMA StepKinds == ASSUME Base, Next PROVE Environment \/ \E p \in Procs : Kinds(p)
<1>1. repo \in Repos /\ \A p \in Procs : fmt = "nuget" => NugetNames(p)
  BY BaseNugetNames DEF Base, Shape
<1> QED
  BY <1>1, NextKinds

\* Init gives the shapes.
LEMMA BaseInit == ASSUME Init PROVE Base
<1>1. IsFiniteSet({})
  BY FS_EmptySet
<1>2. /\ repo \in Repos /\ versions = {} /\ files = {} /\ pc = [p \in Procs |-> "idle"]
      /\ rq = [p \in Procs |-> NoLocal]
  BY DEF Init
<1>3. PICK g : g = {keys.pub} \ {0}
  OBVIOUS
<1>4. hist = [NoHist EXCEPT !.given = g]
  BY <1>3 DEF Init
<1>5. IsHist(hist)
  BY <1>4 DEF NoHist, IsHist, HistFields
<1>6. Shape
  BY <1>2, <1>5, NoLocalFacts DEF Shape
<1> QED
  BY <1>1, <1>2, <1>6, IdleOk DEF Base, VersionsOk, FilesOk

\* Base is inductive.
LEMMA BaseNext == ASSUME Base, [Next]_vars PROVE Base'
<1>1. CASE Next
  BY <1>1, StepKinds, BaseKinds, BaseEnvironment
<1>2. CASE UNCHANGED vars
  <2>1. UNCHANGED <<repo, versions, files, pc, rq, hist, fmt, Signed>>
    BY <1>2 DEF vars, rows, ctl, fmt, Signed
  <2> QED
    BY <2>1 DEF Base, Shape, VersionsOk, FilesOk, ReqOk, VerOk, Picked
<1> QED
  BY <1>1, <1>2

\* Whatever the requests of any format and the administrator do, a file row belongs
\* to one version row of its own version string, a version has no two files of a
\* name, and a request is only where its sort of request can be: what the foreign
\* keys and unique indexes of the tables and the handlers' control flow promise.
THEOREM BaseHolds == Spec => []Base
<1>1. Init => Base
  BY BaseInit
<1>2. Base /\ [Next]_vars => Base'
  BY BaseNext
<1> QED
  BY <1>1, <1>2, PTL DEF Spec

-----------------------------------------------------------------------------
(* Who is between CheckIn and CheckOut. *)

LockPcs ==
    CASE fmt \in {"debian", "rpm"} -> KeyPcs
      [] fmt = "maven" -> {"mvnVerify", "mvnParse", "svcPackage", "svcVersion", "svcFile", "mvnBackfill",
                           "setLicense"}
      [] fmt = "nuget" -> {"svcPackage", "svcVersion", "svcFile"}
      [] OTHER -> {}

\* One request at a time is inside the pool.
LockInv == \A p \in Procs : pc[p] \in LockPcs => holder = p

\* A request moves without entering.
LEMMA LockGoes ==
  ASSUME LockInv, NEW p \in Procs, NEW l, NEW r, Goes(p, l, r),
         \/ holder' = holder /\ (l \in LockPcs => pc[p] \in LockPcs)
         \/ Leaves(p)
  PROVE  LockInv'
<1>1. UNCHANGED LockPcs
  BY DEF Goes, LockPcs, fmt
<1>2. \A q \in Procs \ {p} : pc'[q] = pc[q]
  BY DEF Goes, Waits
<1>3. "idle" \notin LockPcs
  BY DEF LockPcs, KeyPcs
<1>4. CASE Leaves(p)
  BY <1>1, <1>2, <1>3, <1>4 DEF LockInv, Leaves, Goes
<1>5. CASE holder' = holder /\ (l \in LockPcs => pc[p] \in LockPcs)
  BY <1>1, <1>2, <1>5 DEF LockInv, Goes
<1> QED
  BY <1>4, <1>5

\* Nobody moves.
LEMMA LockIdle == ASSUME LockInv, UNCHANGED <<repo, pc, holder>> PROVE LockInv'
  BY DEF LockInv, LockPcs, fmt

\* Who holds the lock of the pool keeps it until its response, and nobody else enters.
LEMMA LockKinds == ASSUME Base, LockInv, NEW p \in Procs, Kinds(p) PROVE LockInv'
<1>0. None \notin Procs /\ ReqOk(pc[p], rq[p])
  BY HostedAssumption DEF Base
<1>1. CASE Arrival(p)
  <2>1. PICK l, r, doomed : BeginDelete(p, l, r, doomed) /\ Arrives(l, r, doomed)
    BY <1>1, Zenon DEF Arrival
  <2>2. IsLocal(r)
    BY <2>1 DEF Arrives
  <2>3. Shape' /\ Still /\ pc'[p] = l /\ holder' = holder /\ \A q \in Procs \ {p} : Waits(q)
    BY <2>1, <2>2, ArriveStep DEF Base
  <2>4. l \notin LockPcs
    BY <2>1 DEF Arrives, LockPcs, KeyEntry, KeyPcs, Signed
  <2>5. PICK s : s = rq'[p]
    OBVIOUS
  <2>6. Goes(p, l, s)
    BY <2>3, <2>5 DEF Goes, Still
  <2> QED
    BY <2>3, <2>4, <2>6, LockGoes
<1>2. CASE AtOnce(p)
  BY <1>2, AtOnceStep, LockIdle DEF Idle, Still
<1>3. CASE Quits(p)
  BY <1>3, QuitsStep, LockGoes DEF Leaves
<1>4. CASE Moves(p)
  <2>1. PICK l, r : Hop(p, l, r) /\ Goes(p, l, r)
    BY <1>4, MovesStep
  <2>2. holder' = holder
    BY <1>4, MovesStep
  <2>3. l \in LockPcs => pc[p] \in LockPcs
    BY <1>0, <2>1 DEF Hop, LockPcs, KeyEntry, KeyPcs, Signed, ReqOk, UploadPcs, DeletePcs, ListPcs, TagPcs
  <2> QED
    BY <2>1, <2>2, <2>3, LockGoes
<1>5. CASE Locks(p)
  <2>1. /\ Shape' /\ Still /\ \A q \in Procs \ {p} : Waits(q)
        /\ holder = None /\ holder' = p
    BY <1>5, LockStep DEF Base
  <2>2. \A q \in Procs \ {p} : pc'[q] = pc[q] /\ pc[q] \notin LockPcs
    BY <1>0, <2>1 DEF Waits, LockInv
  <2>3. UNCHANGED LockPcs
    BY <2>1 DEF LockPcs, fmt, Still
  <2> QED
    BY <2>1, <2>2, <2>3 DEF LockInv
<1>6. CASE Uploading(p) /\ GetOrCreatePackage(p)
  <2>1. PICK r : Goes(p, "svcVersion", r)
    BY <1>6, PackageStep
  <2>2. holder' = holder /\ pc[p] = "svcPackage"
    BY <1>6, PackageStep
  <2>3. "svcVersion" \in LockPcs => pc[p] \in LockPcs
    BY <2>2 DEF LockPcs, KeyPcs
  <2> QED
    BY <2>1, <2>2, <2>3, LockGoes
<1>7. CASE Inserts(p)
  <2>1. PICK r : Goes(p, "svcFile", r)
    BY <1>7, InsertsStep
  <2>2. holder' = holder /\ pc[p] = "svcVersion"
    BY <1>7, InsertsStep
  <2>3. "svcFile" \in LockPcs => pc[p] \in LockPcs
    BY <2>2 DEF LockPcs, KeyPcs
  <2> QED
    BY <2>1, <2>2, <2>3, LockGoes
<1>8. CASE Stores(p)
  <2>1. PICK l, r : Goes(p, l, r) /\ AfterFile(p, l, r)
    BY <1>8, StoresStep
  <2>2. pc[p] = "svcFile"
    BY <1>8, StoresStep
  <2>3. Leaves(p) \/ (holder' = holder /\ (l \in LockPcs => pc[p] \in LockPcs))
    BY <2>1, <2>2 DEF AfterFile, LockPcs, KeyPcs, Signed
  <2> QED
    BY <2>1, <2>3, LockGoes
<1>9. CASE Settles(p)
  BY <1>9, SettlesStep, LockGoes DEF Leaves
<1>10. CASE Describing(p)
  <2>1. PICK l, r : Goes(p, l, r) /\ AfterProperty(p, l, r)
    BY <1>10, DescribingStep
  <2>2. Signed \/ fmt = "cran"
    BY <1>10, DescribingStep
  <2>3. Leaves(p) \/ (holder' = holder /\ l \notin LockPcs)
    BY <2>1, <2>2 DEF AfterProperty, LockPcs, KeyPcs, Signed
  <2> QED
    BY <2>1, <2>3, LockGoes
<1>11. CASE Licenses(p)
  <2>1. PICK l, r : Goes(p, l, r) /\ AfterLicense(p, l, r)
    BY <1>11, LicensesStep
  <2>2. Leaves(p) \/ (holder' = holder /\ l \notin LockPcs)
    BY <2>1 DEF AfterLicense, LockPcs, KeyPcs
  <2> QED
    BY <2>1, <2>2, LockGoes
<1>12. CASE Backfills(p)
  <2>1. PICK r : r = rq[p] /\ Goes(p, "setLicense", r)
    BY <1>12, BackfillsStep
  <2>2. pc[p] = "mvnBackfill" /\ holder' = holder /\ fmt = "maven"
    BY <1>12, BackfillsStep
  <2>3. pc[p] \in LockPcs
    BY <2>2 DEF LockPcs
  <2> QED
    BY <2>1, <2>2, <2>3, LockGoes
<1>13. CASE DeleteApply(p)
  BY <1>13, DeleteStep, LockGoes DEF Leaves
<1>14. CASE Tags(p)
  <2>1. CASE NpmPublishTag(p)
    BY <2>1, PublishTagStep, LockGoes DEF Leaves
  <2>2. CASE NpmTagSet(p)
    BY <2>2, TagSetStep, LockGoes DEF Leaves
  <2>3. CASE Untags(p)
    <3>1. PICK r : Goes(p, "tagClear", r)
      BY <2>3, UntagsStep
    <3>2. holder' = holder
      BY <2>3, UntagsStep
    <3>3. "tagClear" \notin LockPcs
      BY DEF LockPcs, KeyPcs
    <3> QED
      BY <3>1, <3>2, <3>3, LockGoes
  <2> QED
    BY <1>14, <2>1, <2>2, <2>3 DEF Tags
<1>15. CASE Lists(p)
  BY <1>15, ListsStep, LockGoes DEF Leaves
<1>16. CASE KeyKinds(p)
  <2>0. Signed
    BY <1>16 DEF KeyKinds
  <2>1. ASSUME NEW l \in KeyPcs, NEW r, Goes(p, l, r), pc[p] \in KeyPcs, holder' = holder PROVE LockInv'
    <3>1. l \in LockPcs => pc[p] \in LockPcs
      BY <2>0, <2>1 DEF LockPcs, Signed
    <3> QED
      BY <2>1, <3>1, LockGoes
  <2>2. CASE KeyPackage(p)
    BY <2>0, <2>1, <2>2, KeyPackageStep DEF KeyPcs
  <2>3. CASE KeyPrivate(p)
    BY <2>0, <2>1, <2>3, KeyPrivateStep DEF KeyPcs
  <2>4. CASE KeyPublic(p)
    <3>1. CASE Leaves(p)
      BY <3>1, LockGoes DEF Leaves
    <3> QED
      BY <2>0, <2>1, <2>4, <3>1, KeyPublicStep DEF KeyPcs
  <2>5. CASE KeySetPrivate(p)
    <3>1. PICK r : r = rq[p] /\ Goes(p, "keySetPublic", r)
      BY <2>0, <2>5, KeySetPrivateStep
    <3>2. holder' = holder /\ pc[p] = "keySetPrivate"
      BY <2>0, <2>5, KeySetPrivateStep
    <3> QED
      BY <2>1, <3>1, <3>2 DEF KeyPcs
  <2>6. CASE KeySetPublic(p)
    BY <2>0, <2>6, KeySetPublicStep, LockGoes DEF Leaves
  <2> QED
    BY <1>16, <2>2, <2>3, <2>4, <2>5, <2>6 DEF KeyKinds
<1> QED
  BY <1>1, <1>2, <1>3, <1>4, <1>5, <1>6, <1>7, <1>8, <1>9, <1>10, <1>11, <1>12, <1>13, <1>14,
     <1>15, <1>16 DEF Kinds

\* LockInv is inductive.
LEMMA LockNext == ASSUME Base, LockInv, [Next]_vars PROVE LockInv'
<1>1. ASSUME NEW p \in Procs, Kinds(p) PROVE LockInv'
  BY <1>1, LockKinds
<1>2. CASE Environment
  <2>1. ASSUME NEW v, ChangeVerdict(v) PROVE LockInv'
    BY <2>1, VerdictStep, LockIdle DEF Idle
  <2>2. ASSUME NEW v \in versions, DeleteVersion(v) PROVE LockInv'
    BY <2>2, DeleteVersionStep, LockIdle
  <2>3. ASSUME NEW v \in versions, SetQuarantine(v) PROVE LockInv'
    BY <2>3, QuarantineStep, LockIdle DEF Idle
  <2>4. CASE DeletePackage
    BY <2>4, DeletePackageStep, LockIdle
  <2>5. CASE DeleteKeyPackage
    BY <2>5, DeleteKeyStep, LockIdle DEF Idle
  <2>6. ASSUME NEW p \in Procs, Fail(p) PROVE LockInv'
    BY <2>6, FailStep, LockGoes DEF Leaves
  <2>7. CASE Crash
    BY <2>7, CrashStep DEF LockInv, LockPcs, KeyPcs
  <2> QED
    BY <1>2, <2>1, <2>2, <2>3, <2>4, <2>5, <2>6, <2>7 DEF Environment
<1>3. CASE UNCHANGED vars
  BY <1>3, LockIdle DEF vars, ctl
<1> QED
  BY <1>1, <1>2, <1>3, StepKinds

-----------------------------------------------------------------------------
(* One repository key. *)

\* After the synthetic package was found.
KeyLocals == KeyPcs \ {"keyPackage"}

KeyShape == keys = [k \in {"pkg", "priv", "pub"} |-> keys[k]]

\* Where a request is in GetOrCreateKeyPair while there is one pair.
KeyAt(p) == pc[p] \in KeyLocals =>
    /\ rq[p].pkgId = keys.pkg /\ keys.pkg # 0
    /\ pc[p] = "keyPublic" /\ keys.pub # 0 => rq[p].priv = keys.priv
    /\ pc[p] = "keySetPrivate" => keys.pub = 0 /\ rq[p].priv = rq[p].pub /\ rq[p].pub # 0
    /\ pc[p] = "keySetPublic" => /\ keys.pub = 0 /\ rq[p].priv = rq[p].pub /\ rq[p].pub # 0
                                 /\ rq[p].pub = keys.priv

OneKey ==
    /\ keys.pub # 0 => keys.priv = keys.pub
    /\ keys.pkg = 0 => keys.priv = 0 /\ keys.pub = 0
    /\ hist.given \subseteq {keys.pub} \ {0}
    /\ \A p \in Procs : KeyAt(p)
    /\ keys.pub = 0 => \A p, q \in Procs : pc[p] \in KeyLocals /\ pc[q] \in KeyLocals => p = q

KeyInv == KeyShape /\ (hist.rekeyed \/ (fmt = "alpine" /\ hist.twoKeys) \/ OneKey)

\* Steps of requests that are not after the key.
LEMMA KeyQuiet ==
  ASSUME KeyInv, UNCHANGED <<repo, keys>>, NEW p \in Procs, pc'[p] \notin KeyLocals,
         \A q \in Procs \ {p} : Waits(q),
         hist'.given = hist.given, hist'.rekeyed = hist.rekeyed, hist'.twoKeys = hist.twoKeys
  PROVE  KeyInv'
<1>1. UNCHANGED <<fmt, KeyShape>>
  BY DEF fmt, KeyShape
<1>2. ASSUME OneKey PROVE OneKey'
  <2>1. \A q \in Procs \ {p} : pc'[q] = pc[q] /\ rq'[q].pkgId = rq[q].pkgId
                               /\ rq'[q].priv = rq[q].priv /\ rq'[q].pub = rq[q].pub
    BY DEF Waits, Kept
  <2>2. ASSUME NEW q \in Procs PROVE KeyAt(q)'
    BY <1>2, <2>1, <2>2 DEF KeyAt, OneKey
  <2> QED
    BY <1>2, <2>1, <2>2 DEF OneKey
<1> QED
  BY <1>1, <1>2 DEF KeyInv

\* A step of the environment that leaves the key's rows alone keeps KeyInv.
LEMMA KeyQuietAll ==
  ASSUME KeyInv, UNCHANGED <<repo, keys>>, \A q \in Procs : Waits(q),
         hist'.given = hist.given, hist'.rekeyed = hist.rekeyed, hist'.twoKeys = hist.twoKeys
  PROVE  KeyInv'
<1>1. UNCHANGED <<fmt, KeyShape>>
  BY DEF fmt, KeyShape
<1>2. ASSUME OneKey PROVE OneKey'
  <2>1. \A q \in Procs : pc'[q] = pc[q] /\ rq'[q].pkgId = rq[q].pkgId
                         /\ rq'[q].priv = rq[q].priv /\ rq'[q].pub = rq[q].pub
    BY DEF Waits, Kept
  <2>2. ASSUME NEW q \in Procs PROVE KeyAt(q)'
    BY <1>2, <2>1, <2>2 DEF KeyAt, OneKey
  <2> QED
    BY <1>2, <2>1, <2>2 DEF OneKey
<1> QED
  BY <1>1, <1>2 DEF KeyInv

\* A new key is none that is around, and not 0.
LEMMA FreshKeyId == ASSUME OneKey PROVE FreshKey # 0
<1>1. IsFiniteSet({keys.priv, keys.pub}) /\ IsFiniteSet({keys.pub})
  BY FS_Singleton, FS_AddElement, FS_EmptySet, FS_Union
<1>2. IsFiniteSet(hist.given)
  BY <1>1, FS_Subset DEF OneKey
<1>3. PICK g : g = [q \in Procs |-> {rq[q].priv, rq[q].pub}]
  OBVIOUS
<1>4. PICK S : S = {g[q] : q \in Procs}
  OBVIOUS
<1>5. IsFiniteSet(S)
  BY <1>4, FiniteColumn, HostedAssumption
<1>6. \A x, y : IsFiniteSet({x, y})
  <2>1. ASSUME NEW x, NEW y PROVE IsFiniteSet({x, y})
    <3>1. IsFiniteSet({x}) /\ IsFiniteSet({y}) /\ {x, y} = {x} \cup {y}
      BY FS_Singleton
    <3> QED
      BY <3>1, FS_Union
  <2> QED
    BY <2>1
<1>7. IsFiniteSet(UNION S)
  <2>1. ASSUME NEW T \in S PROVE IsFiniteSet(T)
    <3>1. PICK q \in Procs : T = {rq[q].priv, rq[q].pub}
      BY <1>3, <1>4
    <3> QED
      BY <1>6, <3>1
  <2> QED
    BY <1>5, <2>1, FS_UNION
<1>8. UNION {{rq[q].priv, rq[q].pub} : q \in Procs} = UNION S
  BY <1>3, <1>4
<1>9. PICK T : T = {keys.priv, keys.pub} \cup hist.given
                     \cup UNION {{rq[q].priv, rq[q].pub} : q \in Procs}
  OBVIOUS
<1>10. IsFiniteSet(T)
  BY <1>1, <1>2, <1>7, <1>8, <1>9, FS_Union
<1> QED
  BY <1>9, <1>10, UnusedId DEF FreshKey

\* The id of a new synthetic package.
LEMMA FreshKeyPackage == Unused({0} \cup {rq[q].pkgId : q \in Procs}) # 0
<1>1. PICK g : g = [q \in Procs |-> rq[q].pkgId]
  OBVIOUS
<1>2. IsFiniteSet({g[q] : q \in Procs})
  BY FiniteColumn, HostedAssumption
<1>3. PICK T : T = {0} \cup {rq[q].pkgId : q \in Procs}
  OBVIOUS
<1>4. {rq[q].pkgId : q \in Procs} = {g[q] : q \in Procs}
  BY <1>1
<1>5. IsFiniteSet({0})
  BY FS_Singleton
<1>6. IsFiniteSet(T)
  BY <1>2, <1>3, <1>4, <1>5, FS_Union
<1> QED
  BY <1>3, <1>6, UnusedId

\* The steps of GetOrCreateKeyPair.
LEMMA KeyKindsKeep ==
  ASSUME Base, LockInv, KeyInv, NEW p \in Procs, KeyKinds(p)
  PROVE  KeyInv'
<1>0. Signed
  BY DEF KeyKinds
<1>1. ASSUME NEW l, NEW r, Goes(p, l, r)
      PROVE  /\ UNCHANGED fmt /\ pc'[p] = l /\ rq'[p] = r
             /\ \A q \in Procs \ {p} : pc'[q] = pc[q] /\ rq'[q].pkgId = rq[q].pkgId
                                       /\ rq'[q].priv = rq[q].priv /\ rq'[q].pub = rq[q].pub
  BY <1>1 DEF Goes, Waits, Kept, fmt
<1>2. CASE KeyPackage(p)
  <2>1. PICK r : Goes(p, "keyPrivate", r) /\ r.pkgId = keys'.pkg
    BY <1>0, <1>2, KeyPackageStep
  <2>2. /\ pc[p] = "keyPackage"
        /\ keys' = IF keys.pkg = 0
                      THEN [NoKeys EXCEPT !.pkg = Unused({0} \cup {rq[q].pkgId : q \in Procs})] ELSE keys
        /\ hist'.given = hist.given /\ hist'.rekeyed = hist.rekeyed
        /\ hist'.twoKeys <=> \/ hist.twoKeys
                             \/ 0 \in {keys.priv, keys.pub} /\ \E q \in Procs \ {p} : pc[q] \in KeyPcs
    BY <1>0, <1>2, KeyPackageStep
  <2>3. PICK k : k = Unused({0} \cup {rq[q].pkgId : q \in Procs}) /\ k # 0
    BY FreshKeyPackage
  <2>4. keys' = IF keys.pkg = 0 THEN [pkg |-> k, priv |-> 0, pub |-> 0] ELSE keys
    BY <2>2, <2>3 DEF NoKeys
  <2>5. KeyShape'
    BY <2>4 DEF KeyShape, KeyInv
  <2>6. ASSUME OneKey, ~(fmt = "alpine" /\ hist'.twoKeys) PROVE OneKey'
    <3>1. keys.pub = 0 => \A q \in Procs \ {p} : pc[q] \notin KeyLocals
      <4>1. CASE fmt = "alpine"
        BY <2>2, <2>6, <4>1 DEF KeyLocals
      <4>2. CASE fmt # "alpine"
        <5>1. LockPcs = KeyPcs
          BY <1>0, <4>2 DEF Signed, LockPcs
        <5> QED
          BY <2>2, <5>1 DEF LockInv, KeyLocals, KeyPcs
      <4> QED
        BY <4>1, <4>2
    <3>2. keys'.pub = keys.pub /\ keys'.priv = keys.priv /\ keys'.pkg # 0
          /\ (keys.pkg # 0 => keys' = keys)
      BY <2>3, <2>4, <2>6 DEF OneKey
    <3>3. KeyAt(p)'
      BY <1>1, <2>1, <3>2 DEF KeyAt, KeyLocals, KeyPcs
    <3>4. ASSUME NEW q \in Procs \ {p} PROVE KeyAt(q)'
      BY <1>1, <2>1, <2>6, <3>2 DEF KeyAt, OneKey
    <3>5. keys'.pub = 0 => \A x, y \in Procs : pc'[x] \in KeyLocals /\ pc'[y] \in KeyLocals => x = y
      BY <1>1, <2>1, <3>1, <3>2
    <3> QED
      BY <2>2, <2>6, <3>2, <3>3, <3>4, <3>5 DEF OneKey
  <2> QED
    BY <1>1, <2>1, <2>2, <2>5, <2>6 DEF KeyInv
<1>3. CASE KeyPrivate(p)
  <2>1. PICK r : Goes(p, "keyPublic", r) /\ r.pkgId = rq[p].pkgId /\ r.priv = KeyOf(p, keys.priv)
    BY <1>0, <1>3, KeyPrivateStep
  <2>2. pc[p] = "keyPrivate" /\ keys' = keys /\ hist' = hist
    BY <1>0, <1>3, KeyPrivateStep DEF Still, SameHist
  <2>3. ASSUME OneKey PROVE OneKey'
    <3>1. KeyAt(p)'
      BY <1>1, <2>1, <2>2, <2>3 DEF KeyAt, OneKey, KeyLocals, KeyPcs, KeyOf
    <3>2. ASSUME NEW q \in Procs \ {p} PROVE KeyAt(q)'
      BY <1>1, <2>1, <2>2, <2>3 DEF KeyAt, OneKey
    <3>3. keys'.pub = 0 => \A x, y \in Procs : pc'[x] \in KeyLocals /\ pc'[y] \in KeyLocals => x = y
      BY <1>1, <2>1, <2>2, <2>3 DEF OneKey, KeyLocals, KeyPcs
    <3> QED
      BY <2>2, <2>3, <3>1, <3>2, <3>3 DEF OneKey
  <2> QED
    BY <1>1, <2>1, <2>2, <2>3 DEF KeyInv, KeyShape
<1>4. CASE KeyPublic(p)
  <2>1. pc[p] = "keyPublic" /\ keys' = keys /\ UNCHANGED repo
    BY <1>0, <1>4, KeyPublicStep DEF Still
  <2>2. ASSUME Leaves(p), OnlyGiven, rq[p].priv # 0, KeyOf(p, keys.pub) # 0,
               hist'.given = hist.given \cup {IF rq[p].op = "key" THEN KeyOf(p, keys.pub) ELSE rq[p].priv}
        PROVE  KeyInv'
    <3>1. Goes(p, "idle", NoLocal)
      BY <2>2 DEF Leaves
    <3>2. ASSUME OneKey PROVE OneKey'
      <4>1. keys.pub # 0 /\ KeyOf(p, keys.pub) = keys.pub /\ rq[p].priv = keys.pub
        BY <2>1, <2>2, <3>2 DEF OneKey, KeyAt, KeyLocals, KeyPcs, KeyOf
      <4>2. hist'.given \subseteq {keys'.pub} \ {0}
        BY <2>1, <2>2, <3>2, <4>1 DEF OneKey
      <4>3. ASSUME NEW q \in Procs PROVE KeyAt(q)'
        BY <1>1, <2>1, <3>1, <3>2 DEF KeyAt, OneKey, KeyLocals, KeyPcs
      <4> QED
        BY <2>1, <3>2, <4>1, <4>2, <4>3 DEF OneKey
    <3> QED
      BY <1>1, <2>1, <2>2, <3>1, <3>2 DEF KeyInv, KeyShape, OnlyGiven
  <2>3. ASSUME NEW r, Goes(p, "keySetPrivate", r), r.pkgId = rq[p].pkgId, r.priv = FreshKey,
               r.pub = FreshKey, SameHist, rq[p].priv = 0 \/ KeyOf(p, keys.pub) = 0
        PROVE  KeyInv'
    <3>1. ASSUME OneKey PROVE OneKey'
      <4>1. keys.pub = 0 /\ rq[p].pkgId = keys.pkg /\ keys.pkg # 0
        BY <2>1, <2>3, <3>1 DEF OneKey, KeyAt, KeyLocals, KeyPcs, KeyOf
      <4>2. FreshKey # 0
        BY <3>1, FreshKeyId
      <4>3. KeyAt(p)'
        BY <1>1, <2>1, <2>3, <4>1, <4>2 DEF KeyAt
      <4>4. ASSUME NEW q \in Procs \ {p} PROVE KeyAt(q)'
        BY <1>1, <2>1, <2>3, <3>1 DEF KeyAt, OneKey
      <4>5. \A x, y \in Procs : pc'[x] \in KeyLocals /\ pc'[y] \in KeyLocals => x = y
        BY <1>1, <2>1, <2>3, <3>1, <4>1 DEF OneKey, KeyLocals, KeyPcs
      <4> QED
        BY <2>1, <2>3, <3>1, <4>1, <4>3, <4>4, <4>5 DEF OneKey, SameHist
    <3> QED
      BY <1>1, <2>1, <2>3, <3>1 DEF KeyInv, KeyShape, SameHist
  <2> QED
    BY <1>0, <1>4, <2>2, <2>3, KeyPublicStep
<1>5. CASE KeySetPrivate(p)
  <2>1. PICK r : r = rq[p] /\ Goes(p, "keySetPublic", r)
    BY <1>0, <1>5, KeySetPrivateStep
  <2>2. /\ pc[p] = "keySetPrivate" /\ hist' = hist
        /\ keys' = IF keys.pkg = rq[p].pkgId THEN [keys EXCEPT !.priv = rq[p].priv] ELSE keys
    BY <1>0, <1>5, KeySetPrivateStep DEF SameHist
  <2>3. KeyShape'
    BY <2>2 DEF KeyShape, KeyInv
  <2>4. ASSUME OneKey PROVE OneKey'
    <3>1. /\ keys.pkg = rq[p].pkgId /\ keys.pkg # 0 /\ keys.pub = 0 /\ rq[p].priv = rq[p].pub
          /\ rq[p].pub # 0
      BY <2>2, <2>4 DEF OneKey, KeyAt, KeyLocals, KeyPcs
    <3>2. keys'.pub = 0 /\ keys'.pkg = keys.pkg /\ keys'.priv = rq[p].priv
      BY <2>2, <3>1 DEF KeyInv, KeyShape
    <3>3. \A q \in Procs \ {p} : pc[q] \notin KeyLocals
      BY <2>2, <2>4, <3>1 DEF OneKey, KeyLocals, KeyPcs
    <3>4. KeyAt(p)'
      BY <1>1, <2>1, <3>1, <3>2 DEF KeyAt
    <3>5. \A q \in Procs \ {p} : pc'[q] \notin KeyLocals
      BY <1>1, <2>1, <3>3
    <3>6. \A q \in Procs : KeyAt(q)'
      BY <3>4, <3>5 DEF KeyAt
    <3> QED
      BY <2>2, <2>4, <3>1, <3>2, <3>5, <3>6 DEF OneKey
  <2> QED
    BY <1>1, <2>1, <2>2, <2>3, <2>4 DEF KeyInv
<1>6. CASE KeySetPublic(p)
  <2>1. /\ Leaves(p) /\ pc[p] = "keySetPublic" /\ OnlyGiven
        /\ keys' = IF keys.pkg = rq[p].pkgId THEN [keys EXCEPT !.pub = rq[p].pub] ELSE keys
        /\ hist'.given = hist.given \cup {IF rq[p].op = "key" THEN rq[p].pub ELSE rq[p].priv}
    BY <1>0, <1>6, KeySetPublicStep
  <2>2. Goes(p, "idle", NoLocal)
    BY <2>1 DEF Leaves
  <2>3. KeyShape'
    BY <2>1 DEF KeyShape, KeyInv
  <2>4. ASSUME OneKey PROVE OneKey'
    <3>1. /\ keys.pkg = rq[p].pkgId /\ keys.pkg # 0 /\ keys.pub = 0 /\ rq[p].priv = rq[p].pub
          /\ rq[p].pub # 0 /\ rq[p].pub = keys.priv
      BY <2>1, <2>4 DEF OneKey, KeyAt, KeyLocals, KeyPcs
    <3>2. keys'.pub = rq[p].pub /\ keys'.pkg = keys.pkg /\ keys'.priv = keys.priv
      BY <2>1, <3>1 DEF KeyInv, KeyShape
    <3>3. \A q \in Procs \ {p} : pc[q] \notin KeyLocals
      BY <2>1, <2>4, <3>1 DEF OneKey, KeyLocals, KeyPcs
    <3>4. \A q \in Procs : pc'[q] \notin KeyLocals
      BY <1>1, <2>2, <3>3 DEF KeyLocals, KeyPcs
    <3>5. \A q \in Procs : KeyAt(q)'
      BY <3>4 DEF KeyAt
    <3>6. hist'.given \subseteq {keys'.pub} \ {0}
      BY <2>1, <2>4, <3>1, <3>2 DEF OneKey
    <3> QED
      BY <3>1, <3>2, <3>4, <3>5, <3>6 DEF OneKey
  <2> QED
    BY <1>1, <2>1, <2>2, <2>3, <2>4 DEF KeyInv, OnlyGiven
<1> QED
  BY <1>2, <1>3, <1>4, <1>5, <1>6 DEF KeyKinds

\* A step of a request that neither reads nor writes keys keeps KeyInv.
LEMMA KeyQuietGoes ==
  ASSUME KeyInv, UNCHANGED keys, NEW p \in Procs, NEW l, NEW r, Goes(p, l, r), l \notin KeyLocals,
         SameHist \/ OnlyAcked \/ Breaks
  PROVE  KeyInv'
<1>1. /\ pc'[p] = l /\ UNCHANGED repo /\ \A q \in Procs \ {p} : Waits(q)
      /\ hist'.given = hist.given /\ hist'.rekeyed = hist.rekeyed /\ hist'.twoKeys = hist.twoKeys
  BY DEF Goes, SameHist, OnlyAcked, Breaks
<1> QED
  BY <1>1, KeyQuiet

\* Each kind of step keeps KeyInv.
LEMMA KeyInvKinds == ASSUME Base, LockInv, KeyInv, NEW p \in Procs, Kinds(p) PROVE KeyInv'
<1>0. "idle" \notin KeyLocals
  BY DEF KeyLocals, KeyPcs
<1>1. CASE Arrival(p)
  <2>1. PICK l, r, doomed : BeginDelete(p, l, r, doomed) /\ Arrives(l, r, doomed)
    BY <1>1, Zenon DEF Arrival
  <2>2. IsLocal(r)
    BY <2>1 DEF Arrives
  <2>3. /\ Shape' /\ Still /\ pc'[p] = l /\ \A q \in Procs \ {p} : Waits(q)
        /\ UNCHANGED <<hist.given, hist.twoKeys, hist.rekeyed, hist.broken>>
    BY <2>1, <2>2, ArriveStep DEF Base
  <2>4. l \notin KeyLocals
    BY <2>1 DEF Arrives, KeyEntry, KeyPcs, KeyLocals
  <2> QED
    BY <2>3, <2>4, KeyQuiet DEF Still
<1>2. CASE AtOnce(p)
  BY <1>2, AtOnceStep, KeyQuietAll DEF Idle, Still, SameHist
<1>3. CASE Quits(p)
  BY <1>0, <1>3, QuitsStep, KeyQuietGoes DEF Leaves, Still
<1>4. CASE Moves(p)
  <2>1. PICK l, r : Hop(p, l, r) /\ Goes(p, l, r)
    BY <1>4, MovesStep
  <2>2. SameHist /\ keys' = keys
    BY <1>4, MovesStep DEF Still
  <2>3. l \notin KeyLocals
    BY <2>1 DEF Hop, KeyEntry, KeyPcs, KeyLocals
  <2> QED
    BY <2>1, <2>2, <2>3, KeyQuietGoes
<1>5. CASE Locks(p)
  <2>1. /\ Still /\ hist' = hist /\ \A q \in Procs \ {p} : Waits(q)
        /\ pc'[p] \in {"mvnVerify", "mvnParse", "svcPackage", "keyPackage"}
    BY <1>5, LockStep DEF Base
  <2> QED
    BY <2>1, KeyQuiet DEF Still, KeyLocals, KeyPcs
<1>6. CASE Uploading(p) /\ GetOrCreatePackage(p)
  <2>1. "svcVersion" \notin KeyLocals
    BY DEF KeyPcs, KeyLocals
  <2> QED
    BY <1>6, <2>1, PackageStep, KeyQuietGoes
<1>7. CASE Inserts(p)
  <2>1. "svcFile" \notin KeyLocals
    BY DEF KeyPcs, KeyLocals
  <2> QED
    BY <1>7, <2>1, InsertsStep, KeyQuietGoes
<1>8. CASE Stores(p)
  <2>1. PICK l, r : Goes(p, l, r) /\ AfterFile(p, l, r)
    BY <1>8, StoresStep
  <2>2. keys' = keys
    BY <1>8, StoresStep
  <2>3. l \notin KeyLocals /\ (SameHist \/ OnlyAcked)
    BY <2>1 DEF AfterFile, KeyPcs, KeyLocals
  <2> QED
    BY <2>1, <2>2, <2>3, KeyQuietGoes
<1>9. CASE Settles(p)
  BY <1>0, <1>9, SettlesStep, KeyQuietGoes DEF Leaves
<1>10. CASE Describing(p)
  <2>1. PICK l, r : Goes(p, l, r) /\ AfterProperty(p, l, r)
    BY <1>10, DescribingStep
  <2>2. keys' = keys
    BY <1>10, DescribingStep
  <2>3. l \notin KeyLocals /\ (SameHist \/ OnlyAcked)
    BY <2>1 DEF AfterProperty, KeyPcs, KeyLocals
  <2> QED
    BY <2>1, <2>2, <2>3, KeyQuietGoes
<1>11. CASE Licenses(p)
  <2>1. PICK l, r : Goes(p, l, r) /\ AfterLicense(p, l, r)
    BY <1>11, LicensesStep
  <2>2. keys' = keys
    BY <1>11, LicensesStep
  <2>3. l \notin KeyLocals /\ (SameHist \/ OnlyAcked)
    BY <2>1 DEF AfterLicense, KeyPcs, KeyLocals
  <2> QED
    BY <2>1, <2>2, <2>3, KeyQuietGoes
<1>12. CASE Backfills(p)
  <2>1. PICK r : r = rq[p] /\ Goes(p, "setLicense", r)
    BY <1>12, BackfillsStep
  <2>2. keys' = keys /\ SameHist
    BY <1>12, BackfillsStep
  <2>3. "setLicense" \notin KeyLocals
    BY DEF KeyPcs, KeyLocals
  <2> QED
    BY <2>1, <2>2, <2>3, KeyQuietGoes
<1>13. CASE DeleteApply(p)
  BY <1>0, <1>13, DeleteStep, KeyQuietGoes DEF Leaves
<1>14. CASE Tags(p)
  <2>1. CASE NpmPublishTag(p)
    BY <1>0, <2>1, PublishTagStep, KeyQuiet DEF Leaves, Goes
  <2>2. CASE NpmTagSet(p)
    BY <1>0, <2>2, TagSetStep, KeyQuiet DEF Leaves, Goes
  <2>3. CASE Untags(p)
    <3>1. "tagClear" \notin KeyLocals
      BY DEF KeyPcs, KeyLocals
    <3> QED
      BY <2>3, <3>1, UntagsStep, KeyQuietGoes
  <2> QED
    BY <1>14, <2>1, <2>2, <2>3 DEF Tags
<1>15. CASE Lists(p)
  BY <1>0, <1>15, ListsStep, KeyQuietGoes DEF Leaves, Still
<1>16. CASE KeyKinds(p)
  BY <1>16, KeyKindsKeep
<1> QED
  BY <1>1, <1>2, <1>3, <1>4, <1>5, <1>6, <1>7, <1>8, <1>9, <1>10, <1>11, <1>12, <1>13, <1>14,
     <1>15, <1>16 DEF Kinds

\* KeyInv is inductive, given the lock.
LEMMA KeyNext == ASSUME Base, LockInv, KeyInv, [Next]_vars PROVE KeyInv'
<1>1. ASSUME NEW p \in Procs, Kinds(p) PROVE KeyInv'
  BY <1>1, KeyInvKinds
<1>2. CASE Environment
  <2>1. ASSUME NEW v, ChangeVerdict(v) PROVE KeyInv'
    BY <2>1, VerdictStep, KeyQuietAll DEF Idle, SameHist
  <2>2. ASSUME NEW v \in versions, DeleteVersion(v) PROVE KeyInv'
    BY <2>2, DeleteVersionStep, KeyQuietAll DEF Gone
  <2>3. ASSUME NEW v \in versions, SetQuarantine(v) PROVE KeyInv'
    BY <2>3, QuarantineStep, KeyQuietAll DEF Idle, SameHist
  <2>4. CASE DeletePackage
    BY <2>4, DeletePackageStep, KeyQuietAll DEF Gone
  <2>5. CASE DeleteKeyPackage
    <3>1. keys' = NoKeys /\ hist'.rekeyed = TRUE
      BY <2>5, DeleteKeyStep
    <3> QED
      BY <3>1 DEF KeyInv, KeyShape, NoKeys
  <2>6. ASSUME NEW p \in Procs, Fail(p) PROVE KeyInv'
    <3>1. "idle" \notin KeyLocals
      BY DEF KeyLocals, KeyPcs
    <3> QED
      BY <2>6, <3>1, FailStep, KeyQuietGoes DEF Leaves
  <2>7. CASE Crash
    <3>1. /\ UNCHANGED <<repo, keys, fmt>> /\ Breaks
          /\ \A q \in Procs : pc'[q] = "idle"
      BY <2>7, CrashStep DEF fmt
    <3>2. \A q \in Procs : pc'[q] \notin KeyLocals
      BY <3>1 DEF KeyLocals, KeyPcs
    <3>3. \A q \in Procs : KeyAt(q)'
      BY <3>2 DEF KeyAt
    <3>4. OneKey => OneKey'
      BY <3>1, <3>2, <3>3 DEF OneKey, Breaks
    <3> QED
      BY <3>1, <3>4 DEF KeyInv, KeyShape, Breaks
  <2> QED
    BY <1>2, <2>1, <2>2, <2>3, <2>4, <2>5, <2>6, <2>7 DEF Environment
<1>3. CASE UNCHANGED vars
  <2>1. UNCHANGED <<repo, keys, pc, rq, hist, holder>> /\ IsHist(hist')
    BY <1>3 DEF vars, ctl, rows, Base, Shape
  <2>2. \A q \in Procs : Waits(q)
    BY <2>1, IdleStep DEF Idle
  <2> QED
    BY <2>1, <2>2, KeyQuietAll
<1> QED
  BY <1>1, <1>2, <1>3, StepKinds

\* Before any request no key was handed out.
LEMMA KeyInit == ASSUME Init PROVE KeyInv
<1>1. /\ repo \in Repos /\ pc = [p \in Procs |-> "idle"]
      /\ keys = IF repo.keyed THEN [pkg |-> 1, priv |-> 1, pub |-> 1] ELSE NoKeys
  BY DEF Init
<1>2. PICK g : g = {keys.pub} \ {0}
  OBVIOUS
<1>3. hist = [NoHist EXCEPT !.given = g]
  BY <1>2 DEF Init
<1>4. hist.given = g
  BY <1>3 DEF NoHist
<1>5. \A p \in Procs : pc[p] \notin KeyLocals
  BY <1>1 DEF KeyLocals, KeyPcs
<1>6. OneKey
  BY <1>1, <1>2, <1>4, <1>5 DEF OneKey, KeyAt, NoKeys
<1> QED
  BY <1>1, <1>6 DEF KeyInv, KeyShape, NoKeys

\* A key pair, once handed out or used, is the only one.
LEMMA KeyImplies == ASSUME KeyInv PROVE OneRepositoryKey
<1>1. ASSUME OneKey PROVE Cardinality(hist.given) <= 1
  <2>1. IsFiniteSet({keys.pub}) /\ Cardinality({keys.pub}) = 1
    BY FS_Singleton
  <2>2. hist.given \in SUBSET {keys.pub}
    BY <1>1 DEF OneKey
  <2> QED
    BY <2>1, <2>2, FS_Subset
<1> QED
  BY <1>1 DEF KeyInv, OneRepositoryKey

\* Clients pin the repository key: as long as the administrator does not delete it,
\* all that GetOrCreateKeyPair ever signs with or hands out is one pair, for any number
\* of concurrent first requests behind the ExclusivePool of debian and rpm, and for
\* alpine, which has no pool, while first requests do not overlap.
THEOREM OneRepositoryKeyHolds == Spec => []OneRepositoryKey
<1>1. Init => Base /\ LockInv /\ KeyInv
  <2>1. ASSUME Init PROVE LockInv
    BY <2>1 DEF Init, LockInv, LockPcs, KeyPcs
  <2> QED
    BY <2>1, BaseInit, KeyInit
<1>2. Base /\ LockInv /\ KeyInv /\ [Next]_vars => (Base /\ LockInv /\ KeyInv)'
  BY BaseNext, LockNext, KeyNext
<1>3. KeyInv => OneRepositoryKey
  BY KeyImplies
<1> QED
  BY <1>1, <1>2, <1>3, PTL DEF Spec

-----------------------------------------------------------------------------
(* The metadata of a Maven version. *)

\* The pom behind an UpdateVersionMetadata is the version's.
PomAhead == \A p \in Procs : pc[p] = "mvnBackfill" =>
    \A f \in files : f.vid = rq[p].verId /\ f.name = Pom => f.sha = rq[p].sha

\* A pom describes its version, or is about to.
PomSettles == \A f \in files : f.name = Pom => \A v \in versions : v.id = f.vid =>
    v.meta = f.sha \/ \E p \in Procs : pc[p] = "mvnBackfill" /\ rq[p].verId = f.vid

PomInv == fmt = "maven" => PomAhead /\ (~hist.broken => PomSettles)

\* No file is new, no metadata changes.
FilesLeft == \A g \in files' : \E f \in files : g.vid = f.vid /\ g.name = f.name /\ g.sha = f.sha
MetaLeft == \A w \in versions' : \E v \in versions : w.id = v.id /\ w.meta = v.meta

\* A request that is not about to write metadata, and will not be.
Unrelated(q) ==
    /\ pc'[q] # "mvnBackfill"
    /\ pc[q] = "mvnBackfill" => hist'.broken \/ \A v \in versions : v.id # rq[q].verId

\* A step that adds no file and changes no metadata keeps PomInv, if no backfill is
\* given up while its version is there.
LEMMA PomQuiet ==
  ASSUME Base, PomInv, UNCHANGED repo, FilesLeft, MetaLeft, hist.broken => hist'.broken,
         \A q \in Procs : Waits(q) \/ Unrelated(q)
  PROVE  PomInv'
<1>1. UNCHANGED fmt
  BY DEF fmt
<1> SUFFICES ASSUME fmt = "maven" PROVE PomAhead' /\ (~hist'.broken => PomSettles')
  BY <1>1 DEF PomInv
<1>2. PomAhead'
  <2>1. ASSUME NEW p \in Procs, pc'[p] = "mvnBackfill", NEW g \in files', g.vid = rq'[p].verId, g.name = Pom
        PROVE  g.sha = rq'[p].sha
    <3>1. Waits(p)
      BY <2>1 DEF Unrelated
    <3>2. PICK f \in files : g.vid = f.vid /\ g.name = f.name /\ g.sha = f.sha
      BY DEF FilesLeft
    <3> QED
      BY <2>1, <3>1, <3>2 DEF Waits, Kept, PomInv, PomAhead
  <2> QED
    BY <2>1 DEF PomAhead
<1>3. ASSUME ~hist'.broken PROVE PomSettles'
  <2>1. ASSUME NEW g \in files', g.name = Pom, NEW w \in versions', w.id = g.vid
        PROVE  w.meta = g.sha \/ \E p \in Procs : pc'[p] = "mvnBackfill" /\ rq'[p].verId = g.vid
    <3>1. PICK f \in files : g.vid = f.vid /\ g.name = f.name /\ g.sha = f.sha
      BY DEF FilesLeft
    <3>2. PICK v \in versions : w.id = v.id /\ w.meta = v.meta
      BY DEF MetaLeft
    <3>3. CASE v.meta = f.sha
      BY <3>1, <3>2, <3>3
    <3>4. ASSUME NEW p \in Procs, pc[p] = "mvnBackfill", rq[p].verId = f.vid
          PROVE  \E q \in Procs : pc'[q] = "mvnBackfill" /\ rq'[q].verId = g.vid
      <4>1. Waits(p)
        BY <1>3, <2>1, <3>1, <3>2, <3>4 DEF Unrelated
      <4> QED
        BY <3>1, <3>4, <4>1 DEF Waits, Kept
    <3> QED
      BY <1>3, <2>1, <3>1, <3>2, <3>3, <3>4 DEF PomInv, PomSettles
  <2> QED
    BY <2>1 DEF PomSettles
<1> QED
  BY <1>2, <1>3

\* The kinds of steps that leave files and metadata.
LEMMA Leftovers ==
  ASSUME Base
  PROVE  /\ UNCHANGED versions \/ versions' \subseteq versions \/ SameMeta => MetaLeft
         /\ UNCHANGED files \/ files' \subseteq files \/ SameFiles => FilesLeft
  BY DEF MetaLeft, FilesLeft, SameMeta, SameFiles, Twin, Copy

\* One request moves, unrelated.
LEMMA PomGoes ==
  ASSUME Base, PomInv, FilesLeft, MetaLeft, hist'.broken = hist.broken,
         NEW p \in Procs, NEW l, NEW r, Goes(p, l, r), l # "mvnBackfill",
         pc[p] = "mvnBackfill" => \A v \in versions : v.id # rq[p].verId
  PROVE  PomInv'
<1>1. \A q \in Procs : Waits(q) \/ Unrelated(q)
  BY DEF Goes, Unrelated
<1> QED
  BY <1>1, PomQuiet DEF Goes

\* Each kind of step keeps PomInv.
LEMMA PomKinds == ASSUME Base, LockInv, PomInv, NEW p \in Procs, Kinds(p) PROVE PomInv'
<1>0. UNCHANGED versions \/ SameMeta => MetaLeft
  BY Leftovers
<1>00. UNCHANGED files \/ SameFiles => FilesLeft
  BY Leftovers
<1>1. CASE Arrival(p)
  <2>1. PICK l, r, doomed : BeginDelete(p, l, r, doomed) /\ Arrives(l, r, doomed)
    BY <1>1, Zenon DEF Arrival
  <2>2. IsLocal(r)
    BY <2>1 DEF Arrives
  <2>3. /\ Shape' /\ Still /\ pc'[p] = l /\ pc[p] = "idle" /\ \A q \in Procs \ {p} : Waits(q)
        /\ hist'.broken = hist.broken
    BY <2>1, <2>2, ArriveStep DEF Base
  <2>4. l # "mvnBackfill"
    BY <2>1 DEF Arrives, KeyEntry
  <2>5. \A q \in Procs : Waits(q) \/ Unrelated(q)
    BY <2>3, <2>4 DEF Unrelated
  <2> QED
    BY <1>0, <1>00, <2>3, <2>5, PomQuiet DEF Still
<1>2. CASE AtOnce(p)
  BY <1>0, <1>00, <1>2, AtOnceStep, PomQuiet DEF Idle, Still, SameHist
<1>3. CASE Quits(p)
  BY <1>0, <1>00, <1>3, QuitsStep, PomGoes DEF Leaves, Still, SameHist
<1>4. CASE Moves(p)
  <2>1. PICK l, r : Hop(p, l, r) /\ Goes(p, l, r)
    BY <1>4, MovesStep
  <2>2. SameHist /\ Still
    BY <1>4, MovesStep
  <2>3. l # "mvnBackfill" /\ pc[p] # "mvnBackfill"
    BY <2>1 DEF Hop, KeyEntry
  <2> QED
    BY <1>0, <1>00, <2>1, <2>2, <2>3, PomGoes DEF SameHist, Still
<1>5. CASE Locks(p)
  <2>1. /\ Shape' /\ Still /\ hist' = hist /\ \A q \in Procs \ {p} : Waits(q)
        /\ pc'[p] # "mvnBackfill" /\ pc[p] # "mvnBackfill"
    BY <1>5, LockStep DEF Base
  <2>2. \A q \in Procs : Waits(q) \/ Unrelated(q)
    BY <2>1 DEF Unrelated
  <2> QED
    BY <1>0, <1>00, <2>1, <2>2, PomQuiet DEF Still
<1>6. CASE Uploading(p) /\ GetOrCreatePackage(p)
  BY <1>0, <1>00, <1>6, PackageStep, PomGoes DEF SameHist
<1>7. CASE Inserts(p)
  <2>1. PICK r : Goes(p, "svcFile", r)
    BY <1>7, InsertsStep
  <2>2. PICK w : versions' = versions \cup {w} /\ w.id = FreshVersion
    BY <1>7, InsertsStep
  <2>3. pc[p] = "svcVersion" /\ hist' = hist /\ files' = files /\ repo' = repo
    BY <1>7, InsertsStep DEF SameHist
  <2>4. \A f \in files : f.vid # w.id
    BY <2>2, FreshVersionId DEF Base, FilesOk
  <2>5. \A q \in Procs \ {p} : Waits(q)
    BY <2>1 DEF Goes
  <2>6. \A q \in Procs : pc[q] = "mvnBackfill" => pc'[q] = "mvnBackfill" /\ rq'[q].verId = rq[q].verId
                                                  /\ rq'[q].sha = rq[q].sha
    BY <2>3, <2>5 DEF Waits, Kept
  <2>7. \A q \in Procs : pc'[q] = "mvnBackfill" => pc[q] = "mvnBackfill"
    BY <2>1, <2>5 DEF Goes, Waits
  <2>8. PomAhead => PomAhead'
    BY <2>3, <2>6, <2>7 DEF PomAhead
  <2>9. PomSettles => PomSettles'
    BY <2>2, <2>3, <2>4, <2>6 DEF PomSettles
  <2> QED
    BY <2>3, <2>8, <2>9 DEF PomInv, fmt
<1>8. CASE Stores(p)
  <2>1. PICK l, r : Goes(p, l, r) /\ AfterFile(p, l, r)
    BY <1>8, StoresStep
  <2>2. PICK f : /\ files' = files \cup {f}
                 /\ f.vid = rq[p].verId /\ f.name = rq[p].name /\ f.sha = rq[p].sha
    BY <1>8, StoresStep
  <2>3. pc[p] = "svcFile" /\ versions' = versions /\ repo' = repo
    BY <1>8, StoresStep
  <2>4. hist'.broken = hist.broken
    BY <2>1 DEF AfterFile, SameHist, OnlyAcked
  <2>5. \A q \in Procs \ {p} : Waits(q)
    BY <2>1 DEF Goes
  <2> SUFFICES ASSUME fmt = "maven" PROVE PomAhead' /\ (~hist'.broken => PomSettles')
    BY <2>3 DEF PomInv, fmt
  <2>6. \A q \in Procs \ {p} : pc'[q] # "mvnBackfill" /\ pc[q] # "mvnBackfill"
    BY <2>3, <2>5 DEF LockInv, LockPcs, Waits
  <2>7. rq[p].name = Pom => l = "mvnBackfill" /\ r.verId = rq[p].verId /\ r.sha = rq[p].sha
    BY <2>1 DEF AfterFile, Signed, SameUpload
  <2>8. l = "mvnBackfill" => r.verId = rq[p].verId /\ r.sha = rq[p].sha
    BY <2>1 DEF AfterFile, Signed, SameUpload
  <2>9. \A g \in files : ~(g.vid = rq[p].verId /\ g.name = rq[p].name)
    BY <1>8, StoresStep
  <2>10. pc'[p] = l /\ rq'[p] = r
    BY <2>1 DEF Goes
  <2>11. l = "mvnBackfill" => rq[p].name = Pom
    BY <2>1 DEF AfterFile
  <2>12. PomAhead'
    BY <2>2, <2>6, <2>8, <2>9, <2>10, <2>11 DEF PomAhead
  <2>13. ASSUME ~hist'.broken PROVE PomSettles'
    <3>1. PomSettles
      BY <2>4, <2>13 DEF PomInv
    <3>2. ASSUME NEW g \in files', g.name = Pom, NEW v \in versions', v.id = g.vid
          PROVE  v.meta = g.sha \/ \E q \in Procs : pc'[q] = "mvnBackfill" /\ rq'[q].verId = g.vid
      <4>1. CASE g = f
        BY <2>2, <2>7, <2>10, <3>2, <4>1
      <4>2. CASE g \in files
        BY <2>3, <2>6, <3>1, <3>2, <4>2 DEF PomSettles
      <4> QED
        BY <2>2, <4>1, <4>2
    <3> QED
      BY <3>2 DEF PomSettles
  <2> QED
    BY <2>12, <2>13
<1>9. CASE Settles(p)
  <2>1. pc[p] # "mvnBackfill" /\ hist'.broken = hist.broken /\ UNCHANGED <<versions, files>>
    BY <1>9, SettlesStep DEF OnlyAcked
  <2> QED
    BY <1>0, <1>00, <1>9, <2>1, SettlesStep, PomGoes DEF Leaves
<1>10. CASE Describing(p)
  <2>1. PICK l, r : Goes(p, l, r) /\ AfterProperty(p, l, r)
    BY <1>10, DescribingStep
  <2>2. pc[p] = "setProps" /\ SameFiles /\ UNCHANGED versions
    BY <1>10, DescribingStep
  <2>3. l # "mvnBackfill" /\ hist'.broken = hist.broken
    BY <2>1 DEF AfterProperty, SameHist, OnlyAcked
  <2> QED
    BY <1>0, <1>00, <2>1, <2>2, <2>3, PomGoes
<1>11. CASE Licenses(p)
  <2>1. PICK l, r : Goes(p, l, r) /\ AfterLicense(p, l, r)
    BY <1>11, LicensesStep
  <2>2. pc[p] = "setLicense" /\ SameMeta /\ UNCHANGED files
    BY <1>11, LicensesStep
  <2>3. l # "mvnBackfill" /\ hist'.broken = hist.broken
    BY <2>1 DEF AfterLicense, SameHist, OnlyAcked
  <2> QED
    BY <1>0, <1>00, <2>1, <2>2, <2>3, PomGoes
<1>12. CASE Backfills(p)
  <2>1. PICK r : r = rq[p] /\ Goes(p, "setLicense", r)
    BY <1>12, BackfillsStep
  <2>2. /\ pc[p] = "mvnBackfill" /\ fmt = "maven" /\ hist' = hist /\ files' = files
        /\ \A w \in versions' : \E v \in versions :
               Twin(w, v) /\ w.meta = IF v.id = rq[p].verId THEN rq[p].sha ELSE v.meta
    BY <1>12, BackfillsStep DEF SameHist
  <2>3. \A q \in Procs \ {p} : pc[q] # "mvnBackfill" /\ pc'[q] # "mvnBackfill"
    BY <2>1, <2>2 DEF LockInv, LockPcs, Waits, Goes
  <2>4. PomAhead'
    BY <2>1, <2>3 DEF PomAhead, Goes
  <2>5. ASSUME ~hist'.broken PROVE PomSettles'
    <3>1. PomSettles /\ PomAhead
      BY <2>2, <2>5 DEF PomInv
    <3>2. ASSUME NEW g \in files, g.name = Pom, NEW w \in versions', w.id = g.vid
          PROVE  w.meta = g.sha
      <4>1. PICK v \in versions : Twin(w, v) /\ w.meta = IF v.id = rq[p].verId THEN rq[p].sha ELSE v.meta
        BY <2>2
      <4>2. CASE v.id = rq[p].verId
        BY <2>2, <3>1, <3>2, <4>1, <4>2 DEF Twin, PomAhead
      <4>3. CASE v.id # rq[p].verId
        BY <2>3, <3>1, <3>2, <4>1, <4>3 DEF Twin, PomSettles
      <4> QED
        BY <4>2, <4>3
    <3> QED
      BY <2>2, <3>2 DEF PomSettles
  <2> QED
    BY <2>4, <2>5 DEF PomInv
<1>13. CASE DeleteApply(p)
  <2>1. /\ Leaves(p) /\ SameHist /\ pc[p] = "delApply"
        /\ \/ RemoveVersion(rq[p].verId)
           \/ files' = {f \in files : f.id # rq[p].fileId} /\ versions' = versions
    BY <1>13, DeleteStep
  <2>2. versions' \subseteq versions /\ files' \subseteq files
    BY <2>1 DEF RemoveVersion
  <2>3. FilesLeft /\ MetaLeft
    BY <2>2, Leftovers
  <2> QED
    BY <2>1, <2>3, PomGoes DEF Leaves, SameHist
<1>14. CASE Tags(p)
  <2>1. fmt = "npm" /\ UNCHANGED repo
    BY <1>14 DEF Tags, NpmPublishTag, Untags, NpmTagSet
  <2> QED
    BY <2>1 DEF PomInv, fmt
<1>15. CASE Lists(p)
  BY <1>0, <1>00, <1>15, ListsStep, PomGoes DEF Leaves, Still, SameHist
<1>16. CASE KeyKinds(p)
  <2>1. fmt # "maven" /\ UNCHANGED repo
    BY <1>16 DEF KeyKinds, Signed, KeyPackage, KeyPrivate, KeyPublic, KeySetPrivate, KeySetPublic
  <2> QED
    BY <2>1 DEF PomInv, fmt
<1> QED
  BY <1>1, <1>2, <1>3, <1>4, <1>5, <1>6, <1>7, <1>8, <1>9, <1>10, <1>11, <1>12, <1>13, <1>14,
     <1>15, <1>16 DEF Kinds

\* PomInv is inductive, given the lock.
LEMMA PomNext == ASSUME Base, LockInv, PomInv, [Next]_vars PROVE PomInv'
<1>0. UNCHANGED versions \/ versions' \subseteq versions \/ SameMeta => MetaLeft
  BY Leftovers
<1>00. UNCHANGED files \/ files' \subseteq files \/ SameFiles => FilesLeft
  BY Leftovers
<1>1. ASSUME NEW p \in Procs, Kinds(p) PROVE PomInv'
  BY <1>1, PomKinds
<1>2. CASE Environment
  <2>1. ASSUME NEW v, ChangeVerdict(v) PROVE PomInv'
    BY <1>0, <1>00, <2>1, VerdictStep, PomQuiet DEF Idle, SameHist
  <2>2. ASSUME NEW v \in versions, DeleteVersion(v) PROVE PomInv'
    <3>1. versions' \subseteq versions /\ files' \subseteq files
      BY <2>2, DeleteVersionStep DEF RemoveVersion
    <3> QED
      BY <1>0, <1>00, <2>2, <3>1, DeleteVersionStep, PomQuiet DEF Gone
  <2>3. ASSUME NEW v \in versions, SetQuarantine(v) PROVE PomInv'
    BY <1>0, <1>00, <2>3, QuarantineStep, PomQuiet DEF Idle, SameHist
  <2>4. CASE DeletePackage
    <3>1. versions' \subseteq versions /\ files' \subseteq files
      BY <2>4, DeletePackageStep
    <3> QED
      BY <1>0, <1>00, <2>4, <3>1, DeletePackageStep, PomQuiet DEF Gone
  <2>5. CASE DeleteKeyPackage
    BY <1>0, <1>00, <2>5, DeleteKeyStep, PomQuiet DEF Idle
  <2>6. ASSUME NEW p \in Procs, Fail(p) PROVE PomInv'
    <3>1. Goes(p, "idle", NoLocal) /\ Breaks /\ UNCHANGED <<repo, versions, files>>
      BY <2>6, FailStep DEF Leaves
    <3>2. \A q \in Procs : Waits(q) \/ Unrelated(q)
      BY <3>1 DEF Goes, Unrelated, Breaks
    <3> QED
      BY <1>0, <1>00, <3>1, <3>2, PomQuiet DEF Breaks
  <2>7. CASE Crash
    <3>1. /\ Breaks /\ UNCHANGED <<repo, versions, files>>
          /\ \A q \in Procs : pc'[q] = "idle"
      BY <2>7, CrashStep
    <3>2. \A q \in Procs : Waits(q) \/ Unrelated(q)
      BY <3>1 DEF Unrelated, Breaks
    <3> QED
      BY <1>0, <1>00, <3>1, <3>2, PomQuiet DEF Breaks
  <2> QED
    BY <1>2, <2>1, <2>2, <2>3, <2>4, <2>5, <2>6, <2>7 DEF Environment
<1>3. CASE UNCHANGED vars
  <2>1. UNCHANGED <<repo, versions, files, pc, rq, hist, holder>> /\ IsHist(hist')
    BY <1>3 DEF vars, ctl, rows, Base, Shape
  <2>2. \A q \in Procs : Waits(q)
    BY <2>1, IdleStep DEF Idle
  <2> QED
    BY <1>0, <1>00, <2>1, <2>2, PomQuiet
<1> QED
  BY <1>1, <1>2, <1>3, StepKinds

\* For any number of concurrent uploads of a Maven version's files, in any order:
\* once no upload is under way the metadata of the version is that of its pom.  The
\* pool's lock is what the proof needs, between the file row and UpdateVersionMetadata.
THEOREM PomDescribesVersionHolds == Spec => []PomDescribesVersion
<1>1. Init => Base /\ LockInv /\ PomInv
  <2>1. ASSUME Init PROVE LockInv /\ PomInv
    BY <2>1 DEF Init, LockInv, LockPcs, KeyPcs, PomInv, PomAhead, PomSettles
  <2> QED
    BY <2>1, BaseInit
<1>2. Base /\ LockInv /\ PomInv /\ [Next]_vars => (Base /\ LockInv /\ PomInv)'
  BY BaseNext, LockNext, PomNext
<1>3. Base /\ PomInv => PomDescribesVersion
  <2> SUFFICES ASSUME Base, PomInv, fmt = "maven", ~hist.broken, ~InFlight({"upload"}),
                      NEW f \in files, f.name = Pom, NEW v \in versions, v.id = f.vid
               PROVE  v.meta = f.sha
    BY DEF PomDescribesVersion
  <2>1. ASSUME NEW p \in Procs, pc[p] = "mvnBackfill" PROVE FALSE
    <3>1. rq[p].op = "upload"
      BY <2>1 DEF Base, ReqOk, UploadPcs, DeletePcs, ListPcs, TagPcs, KeyPcs
    <3> QED
      BY <2>1, <3>1 DEF InFlight, Busy
  <2> QED
    BY <2>1 DEF PomInv, PomSettles
<1> QED
  BY <1>1, <1>2, <1>3, PTL DEF Spec

-----------------------------------------------------------------------------
(* Versions have files, and acknowledged files stay. *)

HasFile(n) == \E f \in files : f.name = n
Filled(i) == \E f \in files : f.vid = i
Manned(i) == \E q \in Procs : pc[q] = "svcFile" /\ rq[q].verId = i

\* A delete is the only write in flight.
Alone == \A p, q \in Procs : p # q /\ rq[p].op = "delete" => rq[q].op \notin Writes

\* What an upload will acknowledge is there once it is past its file row.
Owed(q) ==
    /\ pc[q] \in {"setProps", "setLicense", "mvnBackfill", "npmTag"} => HasFile(rq[q].name)
    /\ fmt = "nuget" /\ rq[q].op = "upload" /\ rq[q].rest = {} => HasFile(Nupkg)

\* What a delete is about to remove is not acknowledged, and it leaves no version
\* without files.
Doom(q) == rq[q].op = "delete" =>
    /\ pc[q] \in {"delFile", "delCount"} => rq[q].name \notin hist.acked
    /\ pc[q] = "delVersion" =>
          \A m \in Names : VerOf[fmt][m] = VerOf[fmt][rq[q].name] => m \notin hist.acked
    /\ pc[q] = "delCount" =>
          \E f \in files : f.id = rq[q].fileId /\ f.vid = rq[q].verId /\ f.name = rq[q].name
    /\ pc[q] = "delApply" /\ rq[q].one =>
          \A f \in files : f.vid = rq[q].verId => f.name \notin hist.acked
    /\ pc[q] = "delApply" /\ ~rq[q].one =>
          \A f \in files : f.id = rq[q].fileId =>
             f.name \notin hist.acked /\ \E g \in files : g.vid = f.vid /\ g.id # f.id

AckedThere == \A n \in hist.acked : HasFile(n)
Peopled == \A v \in versions : Filled(v.id) \/ Manned(v.id)

FileInv == ~hist.crossed =>
    /\ Alone /\ AckedThere
    /\ \A q \in Procs : Owed(q) /\ Doom(q)
    /\ ~hist.broken => Peopled

\* Files stay, under their names and versions; while a delete is in flight none is
\* new and no name is newly acknowledged.
FilesStay == \A f \in files : \E g \in files' : g.id = f.id /\ g.vid = f.vid /\ g.name = f.name
NoNewFile == \A g \in files' : \E f \in files : g.id = f.id /\ g.vid = f.vid /\ g.name = f.name
Calm == \/ NoNewFile /\ hist'.acked \subseteq hist.acked
        \/ \A q \in Procs : rq'[q].op # "delete"

\* A request that moves on, and how an upload leaves the version it made.
Proceeds(q) ==
    /\ Owed(q)' /\ Doom(q)'
    /\ pc[q] = "svcFile" => \/ hist'.broken \/ \E f \in files' : f.vid = rq[q].verId
                            \/ \A w \in versions' : w.id # rq[q].verId

\* A step that removes no file keeps FileInv.
LEMMA FileQuiet ==
  ASSUME Base, FileInv, UNCHANGED repo, FilesStay, Calm,
         hist.crossed => hist'.crossed, hist.broken => hist'.broken,
         ~hist'.crossed => Alone',
         ~hist'.crossed => \A n \in hist'.acked : n \in hist.acked \/ HasFile(n)',
         \A w \in versions' : Manned(w.id)' \/ \E v \in versions : v.id = w.id,
         ~hist'.crossed => \A q \in Procs : Waits(q) \/ Proceeds(q)
  PROVE  FileInv'
<1> SUFFICES ASSUME ~hist'.crossed
             PROVE  /\ AckedThere' /\ \A q \in Procs : Owed(q)' /\ Doom(q)'
                    /\ ~hist'.broken => Peopled'
  BY DEF FileInv
<1>0. UNCHANGED fmt
  BY DEF fmt
<1>1. /\ AckedThere /\ \A q \in Procs : Owed(q) /\ Doom(q)
      /\ ~hist.broken => Peopled
  BY DEF FileInv
<1>2. \A n : HasFile(n) => HasFile(n)'
  BY DEF HasFile, FilesStay
<1>3. \A i : Filled(i) => Filled(i)'
  BY DEF Filled, FilesStay
<1>4. AckedThere'
  BY <1>1, <1>2 DEF AckedThere
<1>5. ASSUME NEW q \in Procs, Waits(q) PROVE Owed(q)'
  BY <1>0, <1>1, <1>2, <1>5 DEF Owed, Waits, Kept
<1>6. ASSUME NEW q \in Procs, Waits(q) PROVE Doom(q)'
  <2>1. CASE rq'[q].op # "delete"
    BY <2>1 DEF Doom
  <2>2. CASE rq'[q].op = "delete"
    <3>1. NoNewFile /\ hist'.acked \subseteq hist.acked
      BY <2>2 DEF Calm
    <3>2. /\ rq[q].op = "delete" /\ pc'[q] = pc[q] /\ rq'[q].name = rq[q].name
          /\ rq'[q].fileId = rq[q].fileId /\ rq'[q].verId = rq[q].verId /\ rq'[q].one = rq[q].one
      BY <1>6, <2>2 DEF Waits, Kept
    <3>3. Doom(q)
      BY <1>1
    <3>4. pc'[q] \in {"delFile", "delCount"} => rq'[q].name \notin hist'.acked
      BY <3>1, <3>2, <3>3 DEF Doom
    <3>5. pc'[q] = "delVersion" =>
            \A m \in Names : VerOf[fmt'][m] = VerOf[fmt'][rq'[q].name] => m \notin hist'.acked
      BY <1>0, <3>1, <3>2, <3>3 DEF Doom
    <3>6. pc'[q] = "delCount" =>
            \E f \in files' : f.id = rq'[q].fileId /\ f.vid = rq'[q].verId /\ f.name = rq'[q].name
      BY <3>2, <3>3 DEF Doom, FilesStay
    <3>7. pc'[q] = "delApply" /\ rq'[q].one =>
            \A f \in files' : f.vid = rq'[q].verId => f.name \notin hist'.acked
      BY <3>1, <3>2, <3>3 DEF Doom, NoNewFile
    <3>8. ASSUME pc'[q] = "delApply", ~rq'[q].one, NEW g \in files', g.id = rq'[q].fileId
          PROVE  g.name \notin hist'.acked /\ \E h \in files' : h.vid = g.vid /\ h.id # g.id
      <4>1. PICK f \in files : g.id = f.id /\ g.vid = f.vid /\ g.name = f.name
        BY <3>1 DEF NoNewFile
      <4>2. f.name \notin hist.acked /\ \E h \in files : h.vid = f.vid /\ h.id # f.id
        BY <3>2, <3>3, <3>8, <4>1 DEF Doom
      <4> QED
        BY <3>1, <4>1, <4>2 DEF FilesStay
    <3> QED
      BY <3>4, <3>5, <3>6, <3>7, <3>8 DEF Doom
  <2> QED
    BY <2>1, <2>2
<1>7. ASSUME ~hist'.broken PROVE Peopled'
  <2>1. ASSUME NEW w \in versions' PROVE Filled(w.id)' \/ Manned(w.id)'
    <3>1. CASE Manned(w.id)'
      BY <3>1
    <3>2. ASSUME NEW v \in versions, v.id = w.id PROVE Filled(w.id)' \/ Manned(w.id)'
      <4>1. Filled(w.id) \/ Manned(w.id)
        BY <1>1, <1>7, <3>2 DEF Peopled
      <4>2. CASE Filled(w.id)
        BY <1>3, <4>2
      <4>3. ASSUME NEW q \in Procs, pc[q] = "svcFile", rq[q].verId = w.id
            PROVE  Filled(w.id)' \/ Manned(w.id)'
        <5>1. CASE Waits(q)
          BY <4>3, <5>1 DEF Waits, Kept, Manned
        <5>2. CASE Proceeds(q)
          BY <1>7, <2>1, <4>3, <5>2 DEF Proceeds, Filled
        <5> QED
          BY <5>1, <5>2
      <4> QED
        BY <4>1, <4>2, <4>3 DEF Manned
    <3> QED
      BY <3>1, <3>2
  <2> QED
    BY <2>1 DEF Peopled
<1> QED
  BY <1>4, <1>5, <1>6, <1>7 DEF Proceeds

\* When nobody writes, no request is a write: idle ones are nothing.
LEMMA NoneInFlight ==
  ASSUME Base, ~InFlight(Writes), NEW q \in Procs PROVE rq[q].op \notin Writes
<1>1. CASE pc[q] = "idle"
  <2>1. rq[q].op = "none"
    BY <1>1 DEF Base, ReqOk, UploadPcs, DeletePcs, ListPcs, TagPcs, KeyPcs
  <2> QED
    BY <2>1 DEF Writes
<1>2. CASE pc[q] # "idle"
  BY <1>2 DEF InFlight, Busy
<1> QED
  BY <1>1, <1>2

\* No request becomes a write.
LEMMA AloneKept ==
  ASSUME FileInv, hist.crossed => hist'.crossed,
         \A q \in Procs : rq'[q].op \in Writes => rq'[q].op = rq[q].op
  PROVE  ~hist'.crossed => Alone'
  BY DEF FileInv, Alone, Writes

\* One request moves on; nothing is removed, nothing acknowledged.
LEMMA FileGoes ==
  ASSUME Base, FileInv, FilesStay, NoNewFile,
         hist'.acked = hist.acked, hist'.crossed = hist.crossed, hist'.broken = hist.broken,
         \A w \in versions' : \E v \in versions : v.id = w.id,
         NEW p \in Procs, NEW l, NEW r, Goes(p, l, r),
         r.op \in {"none", rq[p].op},
         ~hist.crossed => Proceeds(p)
  PROVE  FileInv'
<1>1. \A q \in Procs : rq'[q].op \in Writes => rq'[q].op = rq[q].op
  BY DEF Goes, Waits, Kept, Writes
<1>2. ~hist'.crossed => Alone'
  BY <1>1, AloneKept
<1>3. \A q \in Procs : q # p => Waits(q)
  BY DEF Goes
<1> QED
  BY <1>2, <1>3, FileQuiet DEF Goes, Calm

\* One upload is acknowledged, with S.
LEMMA FileAcks ==
  ASSUME Base, FileInv, FilesStay,
         NEW S, hist'.acked = hist.acked \cup S, hist'.crossed = hist.crossed, hist'.broken = hist.broken,
         ~hist.crossed => \A n \in S : HasFile(n)',
         \A w \in versions' : \E v \in versions : v.id = w.id,
         NEW p \in Procs, Leaves(p), rq[p].op = "upload",
         pc[p] = "svcFile" => \E f \in files' : f.vid = rq[p].verId
  PROVE  FileInv'
<1>1. \A q \in Procs : q # p => Waits(q)
  BY DEF Leaves, Goes
<1>2. pc'[p] = "idle" /\ rq'[p] = NoLocal /\ repo' = repo
  BY DEF Leaves, Goes
<1>3. \A q \in Procs : rq'[q].op \in Writes => rq'[q].op = rq[q].op
  BY <1>1, <1>2, NoLocalFacts DEF Waits, Kept, Writes
<1>4. ~hist'.crossed => Alone'
  BY <1>3, AloneKept
<1>5. Proceeds(p)
  BY <1>2, NoLocalFacts DEF Proceeds, Owed, Doom
<1>6. ~hist'.crossed => Calm
  <2> SUFFICES ASSUME ~hist'.crossed, NEW q \in Procs, rq'[q].op = "delete" PROVE FALSE
    BY DEF Calm
  <2>1. q # p /\ rq[q].op = "delete"
    BY <1>1, <1>2, NoLocalFacts DEF Waits, Kept
  <2> QED
    BY <2>1 DEF FileInv, Alone, Writes
<1>7. CASE hist'.crossed
  BY <1>7 DEF FileInv
<1>8. CASE ~hist'.crossed
  BY <1>1, <1>2, <1>4, <1>5, <1>6, <1>8, FileQuiet
<1> QED
  BY <1>7, <1>8

\* A read moves a request on: a delete looks its file up, counts its siblings.
LEMMA FileHop ==
  ASSUME Base, FileInv, ~hist.crossed, NEW p \in Procs, NEW l, NEW r, Hop(p, l, r), Goes(p, l, r),
         Still, SameHist
  PROVE  r.op = rq[p].op /\ Proceeds(p)
<1>1. IsLocal(rq[p]) /\ ReqOk(pc[p], rq[p]) /\ Owed(p) /\ Doom(p)
  BY DEF Base, Shape, FileInv
<1>2. pc'[p] = l /\ rq'[p] = r /\ UNCHANGED <<files, versions, fmt>> /\ hist' = hist
  BY DEF Goes, Still, SameHist, fmt
<1>3. r.op = rq[p].op /\ (fmt # "alpine" => r.rest = rq[p].rest)
  BY <1>1 DEF Hop, IsLocal, LocalFields
<1>4. pc[p] # "svcFile" /\ l \notin {"setProps", "setLicense", "mvnBackfill", "npmTag"}
  BY DEF Hop, KeyEntry
<1>5. Owed(p)'
  BY <1>1, <1>2, <1>3, <1>4 DEF Owed, HasFile
<1>6. Doom(p)'
  <2> SUFFICES ASSUME r.op = "delete" PROVE Doom(p)'
    BY <1>2 DEF Doom
  <2>1. CASE pc[p] = "delFile" /\ l = "delCount"
    <3>1. PICK f \in files : /\ f.name = rq[p].name
                             /\ r = [[rq[p] EXCEPT !.verId = f.vid] EXCEPT !.fileId = f.id]
      BY <2>1 DEF Hop, KeyEntry
    <3>2. r.name = rq[p].name /\ r.verId = f.vid /\ r.fileId = f.id
      BY <1>1, <3>1 DEF IsLocal, LocalFields
    <3> QED
      BY <1>1, <1>2, <1>3, <2>1, <3>1, <3>2 DEF Doom
  <2>2. CASE pc[p] = "delCount" /\ l = "delApply"
    <3>1. r = [rq[p] EXCEPT !.one = IsLast(rq[p].verId)]
      BY <2>2 DEF Hop, KeyEntry
    <3>2. r.verId = rq[p].verId /\ r.fileId = rq[p].fileId /\ r.one = IsLast(rq[p].verId)
      BY <1>1, <3>1 DEF IsLocal, LocalFields
    <3>3. PICK f \in files : f.id = rq[p].fileId /\ f.vid = rq[p].verId /\ f.name = rq[p].name
      BY <1>1, <1>3, <2>2 DEF Doom
    <3>4. f.name \notin hist.acked
      BY <1>1, <1>3, <2>2, <3>3 DEF Doom
    <3>5. PICK S : S = {g \in files : g.vid = rq[p].verId}
      OBVIOUS
    <3>6. IsFiniteSet(S) /\ f \in S
      BY <3>3, <3>5, FS_Subset DEF Base, FilesOk
    <3>7. IsLast(rq[p].verId) <=> Cardinality(S) = 1
      BY <3>5 DEF IsLast
    <3>8. Cardinality(S) = 1 <=> \E x : S = {x}
      BY <3>6, FS_Singleton
    <3>9. CASE r.one
      <4>1. \A g \in files : g.vid = rq[p].verId => g = f
        BY <3>2, <3>5, <3>6, <3>7, <3>8, <3>9
      <4> QED
        BY <1>2, <1>3, <2>2, <3>2, <3>4, <3>9, <4>1 DEF Doom
    <3>10. CASE ~r.one
      <4>1. S # {f}
        BY <3>2, <3>7, <3>8, <3>10
      <4>2. PICK g \in files : g.vid = rq[p].verId /\ g # f
        BY <3>5, <3>6, <4>1
      <4>3. \A h \in files : h.id = rq[p].fileId => h = f
        BY <3>3 DEF Base, FilesOk
      <4>4. g.id # f.id
        BY <4>2 DEF Base, FilesOk
      <4> QED
        BY <1>2, <1>3, <2>2, <3>2, <3>3, <3>4, <3>10, <4>2, <4>3, <4>4 DEF Doom
    <3> QED
      BY <3>9, <3>10
  <2>3. CASE pc[p] = "delVersion" /\ l = "delApply"
    <3>1. PICK v \in versions : /\ v.ver = VersionOf(p)
                                /\ r = [[rq[p] EXCEPT !.verId = v.id] EXCEPT !.one = TRUE]
      BY <2>3 DEF Hop, KeyEntry
    <3>2. r.verId = v.id /\ r.one = TRUE
      BY <1>1, <3>1 DEF IsLocal, LocalFields
    <3>3. ASSUME NEW f \in files, f.vid = v.id PROVE f.name \notin hist.acked
      <4>1. f.name \in Names /\ v.ver = VerOf[fmt][f.name]
        BY <3>3 DEF Base, FilesOk, VersionsOk
      <4> QED
        BY <1>1, <1>3, <2>3, <3>1, <4>1 DEF Doom, VersionOf
    <3> QED
      BY <1>2, <1>3, <2>3, <3>2, <3>3 DEF Doom
  <2>4. pc[p] \in DeletePcs
    BY <1>1, <1>3 DEF ReqOk, ListOps
  <2> QED
    BY <2>1, <2>2, <2>3, <2>4 DEF Hop, DeletePcs, KeyEntry
<1> QED
  BY <1>3, <1>4, <1>5, <1>6 DEF Proceeds

\* A delete that finishes.
LEMMA FileDelete ==
  ASSUME Base, FileInv, NEW p \in Procs, DeleteApply(p)
  PROVE  FileInv'
<1>1. /\ Leaves(p) /\ SameHist /\ pc[p] = "delApply" /\ rq[p].op = "delete"
      /\ \/ rq[p].one /\ RemoveVersion(rq[p].verId)
         \/ ~rq[p].one /\ files' = {f \in files : f.id # rq[p].fileId} /\ versions' = versions
      /\ UNCHANGED fmt
  BY DeleteStep DEF fmt
<1> SUFFICES ASSUME ~hist.crossed
             PROVE  /\ Alone' /\ AckedThere' /\ \A q \in Procs : Owed(q)' /\ Doom(q)'
                    /\ ~hist.broken => Peopled'
  BY <1>1 DEF FileInv, SameHist
<1>2. /\ Alone /\ AckedThere /\ \A q \in Procs : Owed(q) /\ Doom(q)
      /\ ~hist.broken => Peopled
  BY DEF FileInv
<1>3. pc'[p] = "idle" /\ rq'[p] = NoLocal /\ hist' = hist /\ \A q \in Procs : q # p => Waits(q)
  BY <1>1 DEF Leaves, Goes, SameHist
<1>4. \A q \in Procs : rq'[q].op \notin Writes
  BY <1>1, <1>2, <1>3, NoLocalFacts DEF Alone, Waits, Kept, Writes
<1>5. \A q \in Procs : Doom(q)'
  BY <1>4 DEF Doom, Writes
<1>6. \A q \in Procs : pc[q] = "svcFile" \/ pc[q] \in {"setProps", "setLicense", "mvnBackfill", "npmTag"}
                         => rq[q].op = "upload"
  BY DEF Base, ReqOk, UploadPcs, DeletePcs, ListPcs, TagPcs, KeyPcs
<1>7. \A q \in Procs : pc[q] # "svcFile" /\ pc'[q] \notin {"setProps", "setLicense", "mvnBackfill", "npmTag"}
  BY <1>1, <1>2, <1>3, <1>4, <1>6 DEF Alone, Writes, Waits, Kept
<1>8. \A q \in Procs : Owed(q)'
  BY <1>4, <1>7 DEF Owed, Writes
<1>9. Alone'
  BY <1>4 DEF Alone
<1>10. CASE rq[p].one /\ RemoveVersion(rq[p].verId)
  <2>1. \A f \in files : f.vid = rq[p].verId => f.name \notin hist.acked
    BY <1>1, <1>2, <1>10 DEF Doom
  <2>2. AckedThere'
    BY <1>2, <1>3, <1>10, <2>1 DEF AckedThere, HasFile, RemoveVersion
  <2>3. ASSUME ~hist.broken PROVE Peopled'
    BY <1>2, <1>7, <1>10, <2>3 DEF Peopled, Filled, Manned, RemoveVersion
  <2> QED
    BY <1>5, <1>8, <1>9, <2>2, <2>3
<1>11. CASE ~rq[p].one /\ files' = {f \in files : f.id # rq[p].fileId} /\ versions' = versions
  <2>1. \A f \in files : f.id = rq[p].fileId =>
             f.name \notin hist.acked /\ \E g \in files : g.vid = f.vid /\ g.id # f.id
    BY <1>1, <1>2, <1>11 DEF Doom
  <2>2. AckedThere'
    BY <1>2, <1>3, <1>11, <2>1 DEF AckedThere, HasFile
  <2>3. ASSUME ~hist.broken PROVE Peopled'
    BY <1>2, <1>7, <1>11, <2>1, <2>3 DEF Peopled, Filled, Manned
  <2> QED
    BY <1>5, <1>8, <1>9, <2>2, <2>3
<1> QED
  BY <1>1, <1>10, <1>11

\* The administrator removes rows while nobody writes.
LEMMA FileRemoves ==
  ASSUME Base, FileInv, UNCHANGED repo, \A q \in Procs : Waits(q),
         hist'.crossed <=> hist.crossed \/ InFlight(Writes), hist'.broken = hist.broken,
         versions' \subseteq versions, hist'.acked \subseteq hist.acked,
         \A n \in hist'.acked : HasFile(n) => HasFile(n)',
         \A v \in versions' : Filled(v.id) => Filled(v.id)'
  PROVE  FileInv'
<1> SUFFICES ASSUME ~hist'.crossed
             PROVE  /\ Alone' /\ AckedThere' /\ \A q \in Procs : Owed(q)' /\ Doom(q)'
                    /\ ~hist.broken => Peopled'
  BY DEF FileInv
<1>1. ~hist.crossed /\ ~InFlight(Writes)
  OBVIOUS
<1>2. \A q \in Procs : rq[q].op \notin Writes
  BY <1>1, NoneInFlight
<1>3. \A q \in Procs : rq'[q].op \notin Writes /\ pc'[q] = pc[q]
  BY <1>2 DEF Waits, Kept
<1>4. \A q \in Procs : pc[q] \notin {"svcFile", "setProps", "setLicense", "mvnBackfill", "npmTag"}
  BY <1>2 DEF Base, ReqOk, UploadPcs, DeletePcs, ListPcs, TagPcs, KeyPcs, Writes
<1>5. Alone' /\ \A q \in Procs : Owed(q)' /\ Doom(q)'
  BY <1>3, <1>4 DEF Alone, Owed, Doom, Writes
<1>6. AckedThere'
  BY <1>1 DEF AckedThere, FileInv
<1>7. ASSUME ~hist.broken PROVE Peopled'
  BY <1>1, <1>4, <1>7 DEF FileInv, Peopled, Manned
<1> QED
  BY <1>5, <1>6, <1>7

\* The rows of a step that leaves files and versions, or changes other columns.
LEMMA FileRows0 ==
  ASSUME Base
  PROVE  /\ UNCHANGED files \/ SameFiles => FilesStay /\ NoNewFile
         /\ UNCHANGED versions \/ SameVersions => \A w \in versions' : \E v \in versions : v.id = w.id
  BY DEF FilesStay, NoNewFile, SameVersions, SameFiles, Twin, Copy

\* A request that is answered and leaves.
LEMMA FileLeaves ==
  ASSUME Base, FileInv, FilesStay, NoNewFile,
         hist'.acked = hist.acked, hist'.crossed = hist.crossed, hist'.broken = hist.broken,
         \A w \in versions' : \E v \in versions : v.id = w.id,
         NEW p \in Procs, Leaves(p),
         pc[p] = "svcFile" => \/ \E f \in files' : f.vid = rq[p].verId
                              \/ \A w \in versions' : w.id # rq[p].verId
  PROVE  FileInv'
<1>1. Goes(p, "idle", NoLocal) /\ NoLocal.op = "none"
  BY NoLocalFacts DEF Leaves
<1>2. Proceeds(p)
  BY <1>1, NoLocalFacts DEF Proceeds, Owed, Doom, Goes
<1> QED
  BY <1>1, <1>2, FileGoes

\* Each kind of step keeps FileInv.
LEMMA FileKinds == ASSUME Base, FileInv, NEW p \in Procs, Kinds(p) PROVE FileInv'
<1>0. UNCHANGED files \/ SameFiles => FilesStay /\ NoNewFile
  BY FileRows0
<1>00. UNCHANGED versions \/ SameVersions => \A w \in versions' : \E v \in versions : v.id = w.id
  BY FileRows0
<1>000. ReqOk(pc[p], rq[p]) /\ IsLocal(rq[p]) /\ (~hist.crossed => Owed(p) /\ Doom(p))
  BY DEF Base, Shape, FileInv
<1>1. CASE Arrival(p)
  <2>1. PICK l, r, doomed : BeginDelete(p, l, r, doomed) /\ Arrives(l, r, doomed)
    BY <1>1, Zenon DEF Arrival
  <2>2. IsLocal(r)
    BY <2>1 DEF Arrives
  <2>3. /\ Still /\ pc'[p] = l /\ pc[p] = "idle" /\ \A q \in Procs \ {p} : Waits(q)
        /\ hist'.broken = hist.broken /\ hist'.acked = hist.acked \ doomed
        /\ hist'.crossed <=> \/ hist.crossed
                             \/ (r.op = "delete" /\ InFlight(Writes))
                             \/ (r.op \in Writes /\ InFlight({"delete"}))
    BY <2>1, <2>2, ArriveStep DEF Base
  <2>4. rq'[p].op = r.op /\ rq'[p].name = r.name /\ rq'[p].rest = r.rest
    <3>1. Kept(rq'[p], [r EXCEPT !.met = FALSE])
      BY <2>1, <2>2, ArriveStep DEF Base
    <3> QED
      BY <2>2, <3>1 DEF Kept, IsLocal, LocalFields
  <2>5. UNCHANGED <<repo, versions, files, fmt>>
    BY <2>3 DEF Still, fmt
  <2>6. Owed(p)'
    <3>1. l \notin {"setProps", "setLicense", "mvnBackfill", "npmTag"}
      BY <2>1 DEF Arrives, KeyEntry
    <3>2. fmt = "nuget" /\ r.op = "upload" => r.rest = {Nuspec}
      BY <2>1 DEF Arrives, Signed, ListOps
    <3> QED
      BY <2>3, <2>4, <2>5, <3>1, <3>2 DEF Owed
  <2>7. Doom(p)'
    BY <2>1, <2>3, <2>4, <2>5 DEF Doom, Arrives, KeyEntry, ListOps
  <2>8. Proceeds(p)
    BY <2>3, <2>6, <2>7 DEF Proceeds
  <2>9. ASSUME ~hist'.crossed PROVE Alone'
    <3>1. Alone
      BY <2>3, <2>9 DEF FileInv
    <3>2. ASSUME NEW q \in Procs, q # p
          PROVE  /\ r.op = "delete" => rq'[q].op \notin Writes
                 /\ r.op \in Writes => rq'[q].op # "delete"
      <4>1. rq'[q].op = rq[q].op
        BY <2>3, <3>2 DEF Waits, Kept
      <4>2. r.op = "delete" => rq[q].op \notin Writes
        BY <2>3, <2>9, NoneInFlight
      <4>3. r.op \in Writes => rq[q].op # "delete"
        <5>1. pc[q] = "idle" => rq[q].op = "none"
          BY DEF Base, ReqOk, UploadPcs, DeletePcs, ListPcs, TagPcs, KeyPcs
        <5> QED
          BY <2>3, <2>9, <5>1 DEF InFlight, Busy
      <4> QED
        BY <4>1, <4>2, <4>3
    <3>3. \A q \in Procs : q # p => rq'[q].op = rq[q].op
      BY <2>3 DEF Waits, Kept
    <3>4. ASSUME NEW a \in Procs, NEW b \in Procs, a # b, rq'[a].op = "delete"
          PROVE  rq'[b].op \notin Writes
      <4>1. CASE a = p
        <5>1. r.op = "delete"
          BY <2>4, <3>4, <4>1
        <5> QED
          BY <3>2, <3>4, <4>1, <5>1
      <4>2. CASE b = p
        <5>1. a # p
          BY <3>4, <4>2
        <5>2. r.op \notin Writes
          BY <3>2, <3>4, <5>1
        <5>3. rq'[b].op = r.op
          BY <2>4, <4>2
        <5> QED
          BY <5>2, <5>3
      <4>3. CASE a # p /\ b # p
        BY <3>1, <3>3, <3>4, <4>3 DEF Alone
      <4> QED
        BY <4>1, <4>2, <4>3
    <3> QED
      BY <3>4 DEF Alone
  <2>10. Calm
    BY <1>0, <2>3, <2>5 DEF Calm
  <2> QED
    BY <1>0, <1>00, <2>3, <2>5, <2>8, <2>9, <2>10, FileQuiet
<1>2. CASE AtOnce(p)
  <2>1. Idle /\ hist' = hist /\ UNCHANGED <<repo, versions, files>>
    BY <1>2, AtOnceStep DEF SameHist, Still
  <2>2. ~hist'.crossed => Alone'
    BY <2>1, AloneKept DEF Idle
  <2> QED
    BY <1>0, <1>00, <2>1, <2>2, FileQuiet DEF Idle, Calm
<1>3. CASE Quits(p)
  BY <1>0, <1>00, <1>3, QuitsStep, FileLeaves DEF SameHist, Still
<1>4. CASE Moves(p)
  <2>1. PICK l, r : Hop(p, l, r) /\ Goes(p, l, r)
    BY <1>4, MovesStep
  <2>2. SameHist /\ Still /\ UNCHANGED <<versions, files>>
    BY <1>4, MovesStep DEF Still
  <2>3. CASE hist.crossed
    BY <2>2, <2>3 DEF FileInv, SameHist
  <2>4. CASE ~hist.crossed
    <3>1. r.op = rq[p].op /\ Proceeds(p)
      BY <2>1, <2>2, <2>4, FileHop
    <3> QED
      BY <1>0, <1>00, <2>1, <2>2, <3>1, FileGoes DEF SameHist
  <2> QED
    BY <2>3, <2>4
<1>5. CASE Locks(p)
  <2>1. /\ Still /\ hist' = hist /\ rq' = rq /\ \A q \in Procs \ {p} : Waits(q)
        /\ pc'[p] \in {"mvnVerify", "mvnParse", "svcPackage", "keyPackage"}
        /\ pc[p] # "svcFile"
    BY <1>5, LockStep DEF Base
  <2>2. UNCHANGED <<repo, versions, files, fmt>>
    BY <2>1 DEF Still, fmt
  <2>3. ~hist'.crossed => Proceeds(p)
    BY <1>000, <2>1, <2>2 DEF Proceeds, Owed, Doom, HasFile
  <2>4. ~hist'.crossed => Alone'
    BY <2>1, AloneKept
  <2> QED
    BY <1>0, <1>00, <2>1, <2>2, <2>3, <2>4, FileQuiet DEF Calm
<1>6. CASE Uploading(p) /\ GetOrCreatePackage(p)
  <2>1. PICK k : k = pkg'
    OBVIOUS
  <2>2. PICK r : r = [rq[p] EXCEPT !.pkgId = k] /\ Goes(p, "svcVersion", r)
    BY <1>6, <2>1, PackageStep
  <2>3. pc[p] = "svcPackage" /\ hist' = hist /\ UNCHANGED <<repo, versions, files, fmt>>
    BY <1>6, PackageStep DEF SameHist, fmt
  <2>4. r.op = rq[p].op /\ r.rest = rq[p].rest /\ rq[p].op = "upload"
    BY <1>6, <1>000, <2>2 DEF IsLocal, LocalFields, Uploading
  <2>5. ~hist.crossed => Proceeds(p)
    BY <1>000, <2>2, <2>3, <2>4 DEF Proceeds, Owed, Doom, HasFile, Goes
  <2> QED
    BY <1>0, <1>00, <2>2, <2>3, <2>4, <2>5, FileGoes
<1>7. CASE Inserts(p)
  <2>1. PICK i : i = FreshVersion
    OBVIOUS
  <2>2. PICK r : r = [rq[p] EXCEPT !.verId = i] /\ Goes(p, "svcFile", r)
    BY <1>7, <2>1, InsertsStep
  <2>3. PICK w : versions' = versions \cup {w} /\ w.id = i
    BY <1>7, <2>1, InsertsStep
  <2>4. pc[p] = "svcVersion" /\ hist' = hist /\ UNCHANGED <<repo, files, fmt>> /\ rq[p].op = "upload"
    BY <1>7, InsertsStep DEF SameHist, fmt, Inserts, Uploading
  <2>5. r.op = rq[p].op /\ r.rest = rq[p].rest /\ r.verId = i
    BY <1>000, <2>2 DEF IsLocal, LocalFields
  <2>6. ~hist.crossed => Proceeds(p)
    BY <1>000, <2>2, <2>4, <2>5 DEF Proceeds, Owed, Doom, HasFile, Goes
  <2>7. \A x \in versions' : Manned(x.id)' \/ \E v \in versions : v.id = x.id
    BY <2>2, <2>3, <2>5 DEF Manned, Goes
  <2>8. \A q \in Procs : q # p => Waits(q)
    BY <2>2 DEF Goes
  <2>9. ~hist'.crossed => Alone'
    BY <2>2, <2>4, <2>5, <2>8, AloneKept DEF Goes, Waits, Kept
  <2> QED
    BY <1>0, <2>4, <2>6, <2>7, <2>8, <2>9, FileQuiet DEF Calm
<1>8. CASE Stores(p)
  <2>1. PICK l, r : Goes(p, l, r) /\ AfterFile(p, l, r)
    BY <1>8, StoresStep
  <2>2. PICK f : files' = files \cup {f} /\ f.vid = rq[p].verId /\ f.name = rq[p].name
    BY <1>8, StoresStep
  <2>3. pc[p] = "svcFile" /\ UNCHANGED <<repo, versions, fmt>> /\ rq[p].op = "upload"
    BY <1>8, StoresStep DEF fmt, Uploading
  <2>4. FilesStay /\ \A n : HasFile(n) => HasFile(n)'
    BY <2>2 DEF FilesStay, HasFile
  <2>6. \E g \in files' : g.vid = rq[p].verId /\ g.name = rq[p].name
    BY <2>2
  <2>7. CASE l = "idle"
    <3>1. Leaves(p) /\ hist'.crossed = hist.crossed /\ hist'.broken = hist.broken
      BY <2>1, <2>7 DEF AfterFile, OnlyAcked
    <3>2. PICK S : /\ hist'.acked = hist.acked \cup S
                   /\ \/ S = {rq[p].name}
                      \/ S = {Nupkg, Nuspec} /\ fmt = "nuget" /\ rq[p].rest = {}
      BY <2>1, <2>7 DEF AfterFile
    <3>3. S = {rq[p].name} => \A n \in S : HasFile(n)'
      BY <2>6 DEF HasFile
    <3>4. CASE S = {Nupkg, Nuspec} /\ fmt = "nuget" /\ rq[p].rest = {}
      <4>1. rq[p].name = Nuspec
        BY <1>000, <2>3, <3>4 DEF ReqOk
      <4>2. ~hist.crossed => HasFile(Nupkg)
        BY <1>000, <2>3, <3>4 DEF Owed
      <4>3. ~hist.crossed => \A n \in S : HasFile(n)'
        BY <2>4, <2>6, <3>4, <4>1, <4>2 DEF HasFile
      <4> QED
        BY <1>00, <2>3, <2>4, <2>6, <3>1, <3>2, <4>3, FileAcks
    <3>5. CASE S = {rq[p].name}
      BY <1>00, <2>3, <2>4, <2>6, <3>1, <3>2, <3>3, <3>5, FileAcks
    <3> QED
      BY <3>2, <3>4, <3>5
  <2>8. CASE l # "idle"
    <3>1. hist' = hist /\ r.op = "upload"
      BY <2>1, <2>8 DEF AfterFile, SameHist, SameUpload
    <3>2. pc'[p] = l /\ rq'[p] = r /\ \A q \in Procs : q # p => Waits(q)
      BY <2>1 DEF Goes
    <3>3. l \in {"setProps", "setLicense", "mvnBackfill", "npmTag"} => HasFile(r.name)'
      <4>1. l \in {"setProps", "setLicense", "mvnBackfill", "npmTag"} => r.name = rq[p].name
        BY <2>1, <2>8 DEF AfterFile
      <4> QED
        BY <2>6, <4>1 DEF HasFile
    <3>4. ASSUME ~hist.crossed, fmt = "nuget", r.rest = {} PROVE HasFile(Nupkg)'
      <4>1. rq[p].rest # {}
        BY <2>1, <2>8, <3>4 DEF AfterFile, Signed
      <4>2. rq[p].name = Nupkg
        BY <1>000, <2>3, <3>4, <4>1 DEF ReqOk
      <4> QED
        BY <2>6, <4>2 DEF HasFile
    <3>5. ~hist.crossed => Proceeds(p)
      BY <2>3, <2>6, <3>1, <3>2, <3>3, <3>4 DEF Proceeds, Owed, Doom
    <3>6. \A q \in Procs : rq'[q].op \in Writes => rq'[q].op = rq[q].op
      BY <2>3, <3>1, <3>2 DEF Waits, Kept
    <3>7. ~hist'.crossed => Alone'
      BY <3>1, <3>6, AloneKept
    <3>8. ~hist.crossed => Calm
      BY <2>3, <3>1, <3>2, <3>7 DEF Calm, Alone, Writes
    <3>9. CASE hist.crossed
      BY <3>1, <3>9 DEF FileInv
    <3>10. CASE ~hist.crossed
      BY <1>00, <2>3, <2>4, <3>1, <3>2, <3>5, <3>7, <3>8, <3>10, FileQuiet
    <3> QED
      BY <3>9, <3>10
  <2> QED
    BY <2>7, <2>8
<1>9. CASE Settles(p)
  <2>1. /\ Leaves(p) /\ hist'.crossed = hist.crossed /\ hist'.broken = hist.broken
        /\ fmt = "nuget" /\ rq[p].op = "upload" /\ rq[p].rest = {}
        /\ UNCHANGED <<versions, files>>
    BY <1>9, SettlesStep DEF OnlyAcked, Uploading
  <2>2. PICK S : /\ hist'.acked = hist.acked \cup S
                 /\ \/ S = {Nupkg, Nuspec} /\ \E f \in files : f.vid = rq[p].verId /\ f.name = Nuspec
                    \/ S = {Nupkg} /\ pc[p] = "svcPackage"
    BY <1>9, SettlesStep
  <2>3. ~hist.crossed => HasFile(Nupkg)
    BY <1>000, <2>1 DEF Owed
  <2>4. ~hist.crossed => \A n \in S : HasFile(n)'
    BY <2>1, <2>2, <2>3 DEF HasFile
  <2> QED
    BY <1>0, <1>00, <2>1, <2>2, <2>4, FileAcks
<1>10. CASE Describing(p)
  <2>1. PICK l, r : Goes(p, l, r) /\ AfterProperty(p, l, r)
    BY <1>10, DescribingStep
  <2>2. pc[p] = "setProps" /\ SameFiles /\ UNCHANGED <<repo, versions, fmt>> /\ rq[p].op = "upload"
        /\ fmt # "nuget"
    BY <1>10, DescribingStep DEF Uploading, fmt, Signed
  <2>3. ASSUME ~hist.crossed PROVE \E g \in files' : g.name = rq[p].name
    BY <1>0, <1>000, <2>2, <2>3 DEF Owed, HasFile, FilesStay
  <2>4. CASE l = "idle"
    <3>1. Leaves(p) /\ hist'.crossed = hist.crossed /\ hist'.broken = hist.broken
      BY <2>1, <2>4 DEF AfterProperty, OnlyAcked
    <3>2. PICK S : S = {rq[p].name} /\ hist'.acked = hist.acked \cup S
      BY <2>1, <2>4 DEF AfterProperty
    <3>3. ~hist.crossed => \A n \in S : HasFile(n)'
      BY <2>3, <3>2 DEF HasFile
    <3> QED
      BY <1>0, <1>00, <2>2, <3>1, <3>2, <3>3, FileAcks
  <2>5. CASE l # "idle"
    <3>1. hist' = hist
      BY <2>1, <2>5 DEF AfterProperty, SameHist
    <3>2. r.op = rq[p].op /\ r.name = rq[p].name
      BY <1>000, <2>1, <2>5 DEF AfterProperty, IsLocal, LocalFields
    <3>3. ~hist.crossed => Proceeds(p)
      BY <2>1, <2>2, <2>3, <3>2 DEF Proceeds, Owed, Doom, HasFile, Goes
    <3> QED
      BY <1>0, <1>00, <2>1, <2>2, <3>1, <3>2, <3>3, FileGoes
  <2> QED
    BY <2>4, <2>5
<1>11. CASE Licenses(p)
  <2>1. PICK l, r : Goes(p, l, r) /\ AfterLicense(p, l, r)
    BY <1>11, LicensesStep
  <2>2. /\ pc[p] = "setLicense" /\ SameVersions /\ UNCHANGED <<repo, files, fmt>> /\ rq[p].op = "upload"
    BY <1>11, LicensesStep DEF Uploading, fmt, SameMeta
  <2>3. ASSUME ~hist.crossed PROVE \E g \in files' : g.name = rq[p].name
    BY <1>000, <2>2, <2>3 DEF Owed, HasFile
  <2>4. CASE l = "idle"
    <3>1. Leaves(p) /\ hist'.crossed = hist.crossed /\ hist'.broken = hist.broken
      BY <2>1, <2>4 DEF AfterLicense, OnlyAcked
    <3>2. PICK S : S = {rq[p].name} /\ hist'.acked = hist.acked \cup S
      BY <2>1, <2>4 DEF AfterLicense
    <3>3. ~hist.crossed => \A n \in S : HasFile(n)'
      BY <2>3, <3>2 DEF HasFile
    <3> QED
      BY <1>0, <1>00, <2>2, <3>1, <3>2, <3>3, FileAcks
  <2>5. CASE l # "idle"
    <3>1. hist' = hist /\ fmt # "nuget"
      BY <2>1, <2>5 DEF AfterLicense, SameHist
    <3>2. r.op = rq[p].op /\ r.name = rq[p].name
      BY <1>000, <2>1, <2>5 DEF AfterLicense, IsLocal, LocalFields
    <3>3. ~hist.crossed => Proceeds(p)
      BY <2>1, <2>2, <2>3, <3>1, <3>2 DEF Proceeds, Owed, Doom, HasFile, Goes
    <3> QED
      BY <1>0, <1>00, <2>1, <2>2, <3>1, <3>2, <3>3, FileGoes
  <2> QED
    BY <2>4, <2>5
<1>12. CASE Backfills(p)
  <2>1. PICK r : r = rq[p] /\ Goes(p, "setLicense", r)
    BY <1>12, BackfillsStep
  <2>2. /\ pc[p] = "mvnBackfill" /\ hist' = hist /\ SameVersions /\ UNCHANGED <<repo, files, fmt>>
        /\ rq[p].op = "upload" /\ fmt = "maven"
    BY <1>12, BackfillsStep DEF SameHist, fmt, Uploading
  <2>3. ~hist.crossed => Proceeds(p)
    BY <1>000, <2>1, <2>2 DEF Proceeds, Owed, Doom, HasFile, Goes
  <2> QED
    BY <1>0, <1>00, <2>1, <2>2, <2>3, FileGoes
<1>13. CASE DeleteApply(p)
  BY <1>13, FileDelete
<1>14. CASE Tags(p)
  <2>1. CASE NpmPublishTag(p)
    <3>1. /\ Leaves(p) /\ pc[p] = "npmTag" /\ rq[p].op = "upload" /\ SameVersions /\ UNCHANGED files
          /\ hist'.crossed = hist.crossed /\ hist'.broken = hist.broken
      BY <2>1, PublishTagStep DEF Uploading
    <3>2. PICK S : S = {rq[p].name} /\ hist'.acked = hist.acked \cup S
      BY <2>1, PublishTagStep
    <3>3. ~hist.crossed => \A n \in S : HasFile(n)'
      BY <1>000, <3>1, <3>2 DEF HasFile, Owed
    <3> QED
      BY <1>0, <1>00, <3>1, <3>2, <3>3, FileAcks
  <2>2. CASE Untags(p)
    <3>1. PICK i \in rq[p].tagIds :
             \E r : r = [rq[p] EXCEPT !.tagIds = rq[p].tagIds \ {i}] /\ Goes(p, "tagClear", r)
      BY <2>2, UntagsStep
    <3>2. PICK r : r = [rq[p] EXCEPT !.tagIds = rq[p].tagIds \ {i}] /\ Goes(p, "tagClear", r)
      BY <3>1
    <3>3. /\ hist' = hist /\ SameVersions /\ UNCHANGED <<repo, files>> /\ fmt = "npm" /\ pc[p] = "tagClear"
          /\ rq[p].op \in {"tag", "untag"}
      BY <1>14, <2>2, UntagsStep DEF SameHist, Tags
    <3>4. r.op = rq[p].op
      BY <1>000, <3>2 DEF IsLocal, LocalFields
    <3>5. Proceeds(p)
      BY <3>2, <3>3, <3>4 DEF Proceeds, Owed, Doom, Goes, fmt
    <3> QED
      BY <1>0, <1>00, <3>2, <3>3, <3>4, <3>5, FileGoes
  <2>3. CASE NpmTagSet(p)
    <3>1. /\ Leaves(p) /\ pc[p] = "tagSet" /\ SameVersions /\ UNCHANGED files
          /\ hist'.acked = hist.acked /\ hist'.crossed = hist.crossed /\ hist'.broken = hist.broken
      BY <2>3, TagSetStep
    <3> QED
      BY <1>0, <1>00, <3>1, FileLeaves
  <2> QED
    BY <1>14, <2>1, <2>2, <2>3 DEF Tags
<1>15. CASE Lists(p)
  BY <1>0, <1>00, <1>15, ListsStep, FileLeaves DEF SameHist, Still
<1>16. CASE KeyKinds(p)
  <2>0. Signed
    BY <1>16 DEF KeyKinds
  <2>1. ASSUME NEW l, NEW r, Goes(p, l, r), r.op = rq[p].op, l \in KeyPcs, pc[p] \in KeyPcs,
               hist'.acked = hist.acked, hist'.crossed = hist.crossed, hist'.broken = hist.broken,
               UNCHANGED <<versions, files>>
        PROVE  FileInv'
    <3>1. rq[p].op \in ListOps \cup {"key"}
      BY <1>000, <2>1 DEF ReqOk, KeyPcs, UploadPcs, DeletePcs, ListPcs, TagPcs
    <3>2. Proceeds(p)
      BY <2>1, <3>1 DEF Proceeds, Owed, Doom, Goes, KeyPcs, ListOps
    <3> QED
      BY <1>0, <1>00, <2>1, <3>2, FileGoes
  <2>2. CASE KeyPackage(p)
    <3>1. PICK k : k = keys'.pkg
      OBVIOUS
    <3>2. PICK r : r = [rq[p] EXCEPT !.pkgId = k] /\ Goes(p, "keyPrivate", r)
      BY <2>0, <2>2, <3>1, KeyPackageStep
    <3>3. r.op = rq[p].op
      BY <1>000, <3>2 DEF IsLocal, LocalFields
    <3>4. /\ pc[p] = "keyPackage" /\ hist'.acked = hist.acked /\ hist'.crossed = hist.crossed
          /\ hist'.broken = hist.broken /\ UNCHANGED <<versions, files>>
      BY <2>0, <2>2, KeyPackageStep
    <3> QED
      BY <2>1, <3>2, <3>3, <3>4 DEF KeyPcs
  <2>3. CASE KeyPrivate(p)
    <3>1. PICK k : k = KeyOf(p, keys.priv)
      OBVIOUS
    <3>2. PICK r : r = [rq[p] EXCEPT !.priv = k] /\ Goes(p, "keyPublic", r)
      BY <2>0, <2>3, <3>1, KeyPrivateStep
    <3>3. r.op = rq[p].op
      BY <1>000, <3>2 DEF IsLocal, LocalFields
    <3>4. pc[p] = "keyPrivate" /\ hist' = hist /\ UNCHANGED <<versions, files>>
      BY <2>0, <2>3, KeyPrivateStep DEF SameHist, Still
    <3> QED
      BY <2>1, <3>2, <3>3, <3>4 DEF KeyPcs
  <2>4. CASE KeySetPrivate(p)
    <3>1. PICK r : r = rq[p] /\ Goes(p, "keySetPublic", r)
      BY <2>0, <2>4, KeySetPrivateStep
    <3>2. pc[p] = "keySetPrivate" /\ hist' = hist /\ UNCHANGED <<versions, files>>
      BY <2>0, <2>4, KeySetPrivateStep DEF SameHist
    <3> QED
      BY <2>1, <3>1, <3>2 DEF KeyPcs
  <2>5. CASE KeySetPublic(p)
    BY <1>0, <1>00, <2>0, <2>5, KeySetPublicStep, FileLeaves DEF OnlyGiven
  <2>6. CASE KeyPublic(p)
    <3>1. pc[p] = "keyPublic" /\ Still /\ UNCHANGED <<versions, files>>
      BY <2>0, <2>6, KeyPublicStep DEF Still
    <3>2. CASE Leaves(p) /\ OnlyGiven
      BY <1>0, <1>00, <3>1, <3>2, FileLeaves DEF OnlyGiven
    <3>3. ASSUME NEW r, Goes(p, "keySetPrivate", r), ReqOk("keySetPrivate", r), SameHist
          PROVE  FileInv'
      <4>1. r.op \in ListOps \cup {"key"} /\ rq[p].op \in ListOps \cup {"key"}
        BY <1>000, <3>1, <3>3 DEF ReqOk, KeyPcs, UploadPcs, DeletePcs, ListPcs, TagPcs
      <4>2. Proceeds(p)
        BY <3>1, <3>3, <4>1 DEF Proceeds, Owed, Doom, Goes, ListOps
      <4>3. \A q \in Procs : rq'[q].op \in Writes => rq'[q].op = rq[q].op
        BY <3>3, <4>1 DEF Goes, Waits, Kept, Writes, ListOps
      <4>4. ~hist'.crossed => Alone'
        BY <3>3, <4>3, AloneKept DEF SameHist
      <4>5. Calm /\ \A q \in Procs : q # p => Waits(q)
        BY <1>0, <3>1, <3>3 DEF Calm, SameHist, Goes
      <4> QED
        BY <1>0, <1>00, <3>1, <3>3, <4>2, <4>4, <4>5, FileQuiet DEF SameHist, Goes
    <3> QED
      BY <2>0, <2>6, <3>2, <3>3, KeyPublicStep
  <2> QED
    BY <1>16, <2>2, <2>3, <2>4, <2>5, <2>6 DEF KeyKinds
<1> QED
  BY <1>1, <1>2, <1>3, <1>4, <1>5, <1>6, <1>7, <1>8, <1>9, <1>10, <1>11, <1>12, <1>13, <1>14,
     <1>15, <1>16 DEF Kinds

\* FileInv is inductive.
LEMMA FileNext == ASSUME Base, FileInv, [Next]_vars PROVE FileInv'
<1>0. UNCHANGED files \/ SameFiles => FilesStay /\ NoNewFile
  BY FileRows0
<1>00. UNCHANGED versions \/ SameVersions => \A w \in versions' : \E v \in versions : v.id = w.id
  BY FileRows0
<1>1. ASSUME NEW p \in Procs, Kinds(p) PROVE FileInv'
  BY <1>1, FileKinds
<1>2. ASSUME Idle, UNCHANGED <<repo, files>>, UNCHANGED versions \/ SameVersions,
             hist'.acked = hist.acked, hist'.crossed = hist.crossed, hist'.broken = hist.broken
      PROVE  FileInv'
  <2>1. ~hist'.crossed => Alone'
    BY <1>2, AloneKept DEF Idle
  <2>2. Calm
    BY <1>0, <1>2 DEF Calm
  <2> QED
    BY <1>0, <1>00, <1>2, <2>1, <2>2, FileQuiet DEF Idle
<1>3. CASE Environment
  <2>1. ASSUME NEW v, ChangeVerdict(v) PROVE FileInv'
    BY <1>2, <2>1, VerdictStep DEF SameHist
  <2>2. ASSUME NEW v \in versions, DeleteVersion(v) PROVE FileInv'
    <3>1. /\ \A q \in Procs : Waits(q)
          /\ versions' = {w \in versions : w.id # v.id} /\ files' = {f \in files : f.vid # v.id}
          /\ hist'.acked = hist.acked \ NamesIn(v.id) /\ hist'.broken = hist.broken /\ UNCHANGED repo
          /\ hist'.crossed <=> hist.crossed \/ InFlight(Writes)
      BY <2>2, DeleteVersionStep DEF RemoveVersion, Gone
    <3>2. \A n \in hist'.acked : HasFile(n) => HasFile(n)'
      BY <3>1 DEF HasFile, NamesIn
    <3>3. \A w \in versions' : Filled(w.id) => Filled(w.id)'
      BY <3>1 DEF Filled
    <3> QED
      BY <3>1, <3>2, <3>3, FileRemoves
  <2>3. ASSUME NEW v \in versions, SetQuarantine(v) PROVE FileInv'
    BY <1>2, <2>3, QuarantineStep DEF SameHist, SameMeta
  <2>4. CASE DeletePackage
    <3>1. /\ \A q \in Procs : Waits(q)
          /\ versions' = {} /\ files' = {} /\ hist'.acked = {}
          /\ hist'.broken = hist.broken /\ UNCHANGED repo
          /\ hist'.crossed <=> hist.crossed \/ InFlight(Writes)
      BY <2>4, DeletePackageStep DEF Gone
    <3> QED
      BY <3>1, FileRemoves
  <2>5. CASE DeleteKeyPackage
    BY <1>2, <2>5, DeleteKeyStep
  <2>6. ASSUME NEW p \in Procs, Fail(p) PROVE FileInv'
    <3>1. /\ Goes(p, "idle", NoLocal) /\ UNCHANGED <<repo, versions, files>> /\ hist'.broken
          /\ hist'.acked = hist.acked /\ hist'.crossed = hist.crossed
      BY <2>6, FailStep DEF Leaves, Breaks
    <3>2. Proceeds(p) /\ \A q \in Procs : q # p => Waits(q)
      BY <3>1, NoLocalFacts DEF Proceeds, Owed, Doom, Goes
    <3>3. ~hist'.crossed => Alone'
      <4>1. \A q \in Procs : rq'[q].op \in Writes => rq'[q].op = rq[q].op
        BY <3>1, NoLocalFacts DEF Goes, Waits, Kept, Writes
      <4> QED
        BY <3>1, <4>1, AloneKept
    <3> QED
      BY <1>0, <1>00, <3>1, <3>2, <3>3, FileQuiet DEF Calm
  <2>7. CASE Crash
    <3>1. /\ \A q \in Procs : pc'[q] = "idle" /\ rq'[q] = NoLocal
          /\ UNCHANGED <<repo, versions, files>> /\ hist'.broken
          /\ hist'.acked = hist.acked /\ hist'.crossed = hist.crossed
      BY <2>7, CrashStep DEF Breaks
    <3>2. \A q \in Procs : Proceeds(q)
      BY <3>1, NoLocalFacts DEF Proceeds, Owed, Doom
    <3>3. ~hist'.crossed => Alone'
      BY <3>1, NoLocalFacts, AloneKept DEF Writes
    <3> QED
      BY <1>0, <1>00, <3>1, <3>2, <3>3, FileQuiet DEF Calm
  <2> QED
    BY <1>3, <2>1, <2>2, <2>3, <2>4, <2>5, <2>6, <2>7 DEF Environment
<1>4. CASE UNCHANGED vars
  <2>1. UNCHANGED <<repo, versions, files, pc, rq, hist, holder>> /\ IsHist(hist')
    BY <1>4 DEF vars, ctl, rows, Base, Shape
  <2> QED
    BY <1>2, <2>1, IdleStep
<1> QED
  BY <1>1, <1>3, <1>4, StepKinds

\* For any number of concurrent requests, in every format without pull-through: a
\* delete that runs beside no other write removes only files that nobody waits for and
\* leaves no version empty, and an upload leaves its version with a file unless it fails.
THEOREM FilesHold == Spec => []FileInv
<1>1. Init => Base /\ FileInv
  <2>1. ASSUME Init PROVE FileInv
    BY <2>1, NoLocalFacts DEF Init, NoHist, FileInv, Alone, AckedThere, Owed, Doom, Peopled
  <2> QED
    BY <2>1, BaseInit
<1>2. Base /\ FileInv /\ [Next]_vars => (Base /\ FileInv)'
  BY BaseNext, FileNext
<1> QED
  BY <1>1, <1>2, PTL DEF Spec

\* An acknowledged file stays until somebody asks to delete it, unless a delete
\* overlapped another write.
THEOREM AckedFileStaysHolds == Spec => []AckedFileStays
<1>1. Base /\ FileInv => AckedFileStays
  <2> SUFFICES ASSUME Base, FileInv, ~hist.crossed, NEW n \in hist.acked PROVE FileRows(n) # {}
    BY DEF AckedFileStays
  <2>1. PICK f \in files : f.name = n
    BY DEF FileInv, AckedThere, HasFile
  <2> QED
    BY <2>1 DEF FileRows, Base, FilesOk
<1> QED
  BY <1>1, BaseHolds, FilesHold, PTL

\* A version has a file once nobody writes.
THEOREM NoOrphanVersionHolds == Spec => []NoOrphanVersion
<1>1. Base /\ FileInv => NoOrphanVersion
  <2> SUFFICES ASSUME Base, FileInv, ~hist.crossed, ~hist.broken, ~InFlight(Writes), NEW v \in versions
               PROVE  NamesIn(v.id) # {}
    BY DEF NoOrphanVersion
  <2>1. ASSUME NEW q \in Procs, pc[q] = "svcFile" PROVE FALSE
    <3>1. rq[q].op = "upload"
      BY <2>1 DEF Base, ReqOk, UploadPcs, DeletePcs, ListPcs, TagPcs, KeyPcs
    <3> QED
      BY <2>1, <3>1 DEF InFlight, Busy, Writes
  <2>2. PICK f \in files : f.vid = v.id
    BY <2>1 DEF FileInv, Peopled, Filled, Manned
  <2> QED
    BY <2>2 DEF NamesIn
<1> QED
  BY <1>1, BaseHolds, FilesHold, PTL

-----------------------------------------------------------------------------
(* What an index lists is described. *)

\* A reader that is not marked runs beside no write.
Unmarked == \A q, x \in Procs : rq[q].op \in ListOps /\ ~rq[q].met => rq[x].op \notin Writes

Described(i) == \E f \in files : f.id = i /\ Describes \in f.props
Coming(i) == \E q \in Procs : pc[q] = "setProps" /\ rq[q].fileId = i
TodoOk(q) == pc[q] = "setProps" => rq[q].todo \in {<<"coordinates", Describes>>, <<Describes>>}

\* The rows an unmarked reader found have their description; a bare entry is known to
\* a marked reader only.
ListOk(q) ==
    /\ pc[q] = "listProps" /\ ~rq[q].met => \A i \in rq[q].ids : Described(i)
    /\ pc[q] \in KeyPcs \cup {"keyCheckIn"} /\ rq[q].one => rq[q].met

AllDescribed == \A f \in files : Describes \in f.props \/ Coming(f.id)

DescInv ==
    /\ Unmarked
    /\ Signed => \A q \in Procs : TodoOk(q)
    /\ Signed /\ ~hist.broken => AllDescribed /\ \A q \in Procs : ListOk(q)

\* Files keep their descriptions, or every reader is marked.
PropsStay == \A f \in files : \E g \in files' : g.id = f.id /\ f.props \subseteq g.props
Steady == PropsStay \/ \A q \in Procs : rq'[q].op \in ListOps => rq'[q].met
NoNewProps == \A g \in files' : \/ \E f \in files : g.id = f.id /\ f.props \subseteq g.props
                                \/ Coming(g.id)'

Describers(q) ==
    /\ TodoOk(q)'
    /\ ~hist'.broken => ListOk(q)'
    /\ pc[q] = "setProps" =>
          hist'.broken \/ \A g \in files' : g.id = rq[q].fileId => Describes \in g.props \/ Coming(g.id)'

\* A step that takes no description away keeps DescInv.
LEMMA DescQuiet ==
  ASSUME Base, DescInv, UNCHANGED repo, hist.broken => hist'.broken, Unmarked', Steady, Signed => NoNewProps,
         Signed => \A q \in Procs : Waits(q) \/ Describers(q)
  PROVE  DescInv'
<1>1. UNCHANGED <<Signed, Describes>>
  BY DEF Signed, Describes, fmt
<1> SUFFICES ASSUME Signed
             PROVE  /\ \A q \in Procs : TodoOk(q)'
                    /\ ~hist'.broken => AllDescribed' /\ \A q \in Procs : ListOk(q)'
  BY <1>1 DEF DescInv
<1>2. ASSUME NEW q \in Procs PROVE TodoOk(q)'
  BY <1>1, <1>2 DEF DescInv, TodoOk, Waits, Kept, Describers
<1>3. ASSUME ~hist'.broken PROVE AllDescribed'
  <2>1. ASSUME NEW g \in files' PROVE Describes \in g.props \/ Coming(g.id)'
    <3>1. CASE Coming(g.id)'
      BY <3>1
    <3>2. ASSUME NEW f \in files, g.id = f.id, f.props \subseteq g.props
          PROVE  Describes \in g.props \/ Coming(g.id)'
      <4>1. CASE Describes \in f.props
        BY <3>2, <4>1
      <4>2. ASSUME NEW q \in Procs, pc[q] = "setProps", rq[q].fileId = f.id
            PROVE  Describes \in g.props \/ Coming(g.id)'
        <5>1. CASE Waits(q)
          BY <3>2, <4>2, <5>1 DEF Waits, Kept, Coming
        <5>2. CASE Describers(q)
          BY <1>3, <3>2, <4>2, <5>2 DEF Describers
        <5> QED
          BY <5>1, <5>2
      <4> QED
        BY <1>3, <4>1, <4>2 DEF DescInv, AllDescribed, Coming
    <3> QED
      BY <3>1, <3>2 DEF NoNewProps
  <2> QED
    BY <1>1, <2>1 DEF AllDescribed
<1>4. ASSUME ~hist'.broken, NEW q \in Procs, Waits(q) PROVE ListOk(q)'
  <2>1. ListOk(q) /\ ReqOk(pc[q], rq[q])
    BY <1>4 DEF DescInv, Base
  <2>2. /\ pc'[q] = pc[q] /\ rq'[q].ids = rq[q].ids /\ rq'[q].one = rq[q].one /\ rq'[q].op = rq[q].op
        /\ Watched(rq[q]) /\ rq[q].met => rq'[q].met
    BY <1>4 DEF Waits, Kept
  <2>3. ASSUME pc'[q] = "listProps", ~rq'[q].met PROVE \A i \in rq'[q].ids : Described(i)'
    <3>1. rq[q].op \in ListOps
      BY <2>1, <2>2, <2>3 DEF ReqOk, UploadPcs, DeletePcs, ListPcs, TagPcs, KeyPcs
    <3>2. ~rq[q].met
      BY <2>2, <2>3, <3>1 DEF Watched, ListOps
    <3>3. PropsStay
      BY <2>2, <2>3, <3>1 DEF Steady
    <3> QED
      BY <1>1, <2>1, <2>2, <2>3, <3>2, <3>3 DEF ListOk, Described, PropsStay
  <2>4. ASSUME pc'[q] \in KeyPcs \cup {"keyCheckIn"}, rq'[q].one PROVE rq'[q].met
    <3>1. rq[q].op \in ListOps \cup {"key"}
      BY <2>1, <2>2, <2>4 DEF ReqOk, UploadPcs, DeletePcs, ListPcs, TagPcs, KeyPcs
    <3> QED
      BY <2>1, <2>2, <2>4, <3>1 DEF ListOk, Watched, ListOps
  <2> QED
    BY <2>3, <2>4 DEF ListOk
<1> QED
  BY <1>2, <1>3, <1>4 DEF Describers

\* No request becomes a write or an unmarked reader.
LEMMA UnmarkedKept ==
  ASSUME DescInv,
         \A q \in Procs : /\ rq'[q].op \in Writes => rq'[q].op = rq[q].op
                          /\ rq'[q].op \in ListOps => rq'[q].op = rq[q].op /\ (rq[q].met => rq'[q].met)
  PROVE  Unmarked'
  BY DEF DescInv, Unmarked

\* One request moves on and no description goes.
LEMMA DescGoes ==
  ASSUME Base, DescInv, PropsStay, Signed => NoNewProps, hist.broken => hist'.broken,
         NEW p \in Procs, NEW l, NEW r, Goes(p, l, r),
         r.op \in {"none", rq[p].op}, rq[p].met => r.met \/ r.op = "none",
         Signed => Describers(p)
  PROVE  DescInv'
<1>1. \A q \in Procs : q # p => Waits(q)
  BY DEF Goes
<1>2. ASSUME NEW q \in Procs
      PROVE  /\ rq'[q].op \in Writes => rq'[q].op = rq[q].op
             /\ rq'[q].op \in ListOps => rq'[q].op = rq[q].op /\ (rq[q].met => rq'[q].met)
  <2>1. CASE q = p
    BY <2>1 DEF Goes, Writes, ListOps
  <2>2. CASE q # p
    BY <1>1, <2>2 DEF Waits, Kept, Watched, ListOps
  <2> QED
    BY <2>1, <2>2
<1>3. Unmarked'
  BY <1>2, UnmarkedKept
<1> QED
  BY <1>1, <1>3, DescQuiet DEF Goes, Steady

\* A request leaves, not from the middle of its properties.
LEMMA DescLeaves ==
  ASSUME Base, DescInv, PropsStay, Signed => NoNewProps, hist.broken => hist'.broken,
         NEW p \in Procs, Goes(p, "idle", NoLocal), pc[p] # "setProps" \/ hist'.broken
  PROVE  DescInv'
<1>1. pc'[p] = "idle"
  BY DEF Goes
<1>2. Describers(p)
  BY <1>1 DEF Describers, TodoOk, ListOk, KeyPcs
<1>3. NoLocal.op = "none"
  BY NoLocalFacts
<1> QED
  BY <1>2, <1>3, DescGoes

\* Rows that stay, or get one more property.
LEMMA DescRows ==
  ASSUME Base PROVE UNCHANGED files \/ SameFiles => PropsStay /\ NoNewProps
  BY DEF Base, FilesOk, PropsStay, NoNewProps, SameFiles, Copy

\* Each kind of step keeps DescInv.
LEMMA DescKinds == ASSUME Base, DescInv, NEW p \in Procs, Kinds(p) PROVE DescInv'
<1>0. UNCHANGED files \/ SameFiles => PropsStay /\ NoNewProps
  BY DescRows
<1>00. ReqOk(pc[p], rq[p]) /\ IsLocal(rq[p])
  BY DEF Base, Shape
<1>1. CASE Arrival(p)
  <2>1. PICK l, r, doomed : BeginDelete(p, l, r, doomed) /\ Arrives(l, r, doomed)
    BY <1>1, Zenon DEF Arrival
  <2>2. IsLocal(r) /\ r.one = FALSE
    BY <2>1 DEF Arrives
  <2>3. /\ Still /\ pc'[p] = l /\ pc[p] = "idle" /\ hist'.broken = hist.broken
        /\ rq'[p].met <=> Watched(r) /\ InFlight(Writes)
        /\ Kept(rq'[p], [r EXCEPT !.met = FALSE])
    BY <2>1, <2>2, ArriveStep DEF Base
  <2>4. \A q \in Procs : q # p => Waits(q) /\ (Watched(rq[q]) /\ r.op \in Writes => rq'[q].met)
    BY <2>1, <2>2, ArriveStep DEF Base
  <2>5. rq'[p].op = r.op /\ rq'[p].one = FALSE
    BY <2>2, <2>3 DEF Kept, IsLocal, LocalFields
  <2>6. ASSUME NEW q \in Procs, NEW x \in Procs, rq'[q].op \in ListOps, ~rq'[q].met
        PROVE  rq'[x].op \notin Writes
    <3>1. CASE x = q
      BY <2>6, <3>1 DEF ListOps, Writes
    <3>2. CASE x # q /\ q = p
      <4>1. ~InFlight(Writes)
        BY <2>3, <2>5, <2>6, <3>2 DEF Watched, ListOps
      <4>2. rq'[x].op = rq[x].op
        BY <2>4, <3>2 DEF Waits, Kept
      <4> QED
        BY <4>1, <4>2, NoneInFlight
    <3>3. CASE q # p
      <4>1. rq'[q].op = rq[q].op /\ Watched(rq[q]) /\ ~rq[q].met
        BY <2>4, <2>6, <3>3 DEF Waits, Kept, Watched, ListOps
      <4>2. r.op \notin Writes
        BY <2>4, <2>6, <3>3, <4>1
      <4>3. rq[x].op \notin Writes
        BY <2>6, <4>1 DEF DescInv, Unmarked
      <4> QED
        BY <2>4, <2>5, <4>2, <4>3 DEF Waits, Kept
    <3> QED
      BY <3>1, <3>2, <3>3
  <2>7. Unmarked'
    BY <2>6 DEF Unmarked
  <2>8. l \notin {"setProps", "listProps"}
    BY <2>1 DEF Arrives, KeyEntry
  <2>9. Describers(p)
    BY <2>3, <2>5, <2>8 DEF Describers, TodoOk, ListOk
  <2> QED
    BY <1>0, <2>3, <2>4, <2>7, <2>9, DescQuiet DEF Still, Steady
<1>2. CASE AtOnce(p)
  <2>1. Idle /\ hist' = hist /\ UNCHANGED <<repo, files>>
    BY <1>2, AtOnceStep DEF SameHist, Still
  <2>2. Unmarked'
    BY <2>1, UnmarkedKept DEF Idle
  <2> QED
    BY <1>0, <2>1, <2>2, DescQuiet DEF Idle, Steady
<1>3. CASE Quits(p)
  BY <1>0, <1>3, QuitsStep, DescLeaves DEF Leaves, Still, SameHist
<1>4. CASE Moves(p)
  <2>1. PICK l, r : Hop(p, l, r) /\ Goes(p, l, r)
    BY <1>4, MovesStep
  <2>2. hist' = hist /\ UNCHANGED <<repo, files>>
    BY <1>4, MovesStep DEF Still, SameHist
  <2>3. r.op = rq[p].op /\ r.met = rq[p].met /\ pc[p] # "setProps" /\ l # "setProps"
    BY <1>00, <2>1 DEF Hop, KeyEntry, IsLocal, LocalFields
  <2>4. pc'[p] = l /\ rq'[p] = r
    BY <2>1 DEF Goes
  <2>5. ASSUME Signed, ~hist.broken PROVE ListOk(p)'
    <3>1. ASSUME l = "listProps", ~r.met, NEW i \in r.ids PROVE Described(i)'
      <4>1. PICK s : r = [rq[p] EXCEPT !.ids = s] /\ \A j \in s : \E f \in files : f.id = j
        BY <2>1, <3>1 DEF Hop, KeyEntry
      <4>2. pc[p] = "listRows" /\ r.ids = s
        BY <1>00, <2>1, <3>1, <4>1 DEF Hop, KeyEntry, IsLocal, LocalFields
      <4>3. PICK f \in files : f.id = i
        BY <3>1, <4>1, <4>2
      <4>4. rq[p].op \in ListOps
        BY <1>00, <4>2 DEF ReqOk, UploadPcs, DeletePcs, ListPcs, TagPcs, KeyPcs
      <4>5. ASSUME NEW q \in Procs, pc[q] = "setProps" PROVE FALSE
        <5>1. rq[q].op = "upload"
          BY <4>5 DEF Base, ReqOk, UploadPcs, DeletePcs, ListPcs, TagPcs, KeyPcs
        <5> QED
          BY <2>3, <3>1, <4>4, <5>1 DEF DescInv, Unmarked, Writes
      <4>6. Describes \in f.props
        BY <2>5, <4>5 DEF DescInv, AllDescribed, Coming
      <4> QED
        BY <2>2, <4>3, <4>6 DEF Described, Describes, fmt
    <3>2. ASSUME l \in KeyPcs \cup {"keyCheckIn"}, r.one PROVE r.met
      <4>1. /\ pc[p] = "listProps"
            /\ r = [[rq[p] EXCEPT !.one = ListProps(p, Describes)] EXCEPT !.ids = {}]
        BY <2>1, <3>2 DEF Hop, KeyPcs, KeyEntry
      <4>2. ListProps(p, Describes)
        BY <1>00, <3>2, <4>1 DEF IsLocal, LocalFields
      <4>3. ListOk(p)
        BY <2>5 DEF DescInv
      <4> QED
        BY <2>3, <4>1, <4>2, <4>3 DEF ListOk, ListProps, Described
    <3> QED
      BY <2>4, <3>1, <3>2 DEF ListOk
  <2>6. Signed => Describers(p)
    BY <2>2, <2>3, <2>4, <2>5 DEF Describers, TodoOk
  <2> QED
    BY <1>0, <2>1, <2>2, <2>3, <2>6, DescGoes
<1>5. CASE Locks(p)
  <2>1. /\ Still /\ hist' = hist /\ rq' = rq /\ \A q \in Procs \ {p} : Waits(q)
        /\ pc[p] # "setProps" /\ pc'[p] # "setProps" /\ pc'[p] # "listProps"
        /\ pc'[p] \in KeyPcs \cup {"keyCheckIn"} => pc[p] = "keyCheckIn"
    BY <1>5, LockStep DEF Base, KeyPcs
  <2>2. Signed => Describers(p)
    BY <2>1 DEF Describers, TodoOk, ListOk, DescInv
  <2>3. Unmarked'
    BY <2>1, UnmarkedKept
  <2> QED
    BY <1>0, <2>1, <2>2, <2>3, DescQuiet DEF Still, Steady
<1>6. CASE Uploading(p) /\ GetOrCreatePackage(p)
  <2>1. PICK k : k = pkg'
    OBVIOUS
  <2>2. PICK r : r = [rq[p] EXCEPT !.pkgId = k] /\ Goes(p, "svcVersion", r)
    BY <1>6, <2>1, PackageStep
  <2>3. pc[p] = "svcPackage" /\ hist' = hist /\ UNCHANGED <<repo, files>>
    BY <1>6, PackageStep DEF SameHist
  <2>4. r.op = rq[p].op /\ r.met = rq[p].met
    BY <1>00, <2>2 DEF IsLocal, LocalFields
  <2>5. Describers(p)
    BY <2>2, <2>3 DEF Describers, TodoOk, ListOk, Goes, KeyPcs
  <2> QED
    BY <1>0, <2>2, <2>3, <2>4, <2>5, DescGoes
<1>7. CASE Inserts(p)
  <2>1. PICK i : i = FreshVersion
    OBVIOUS
  <2>2. PICK r : r = [rq[p] EXCEPT !.verId = i] /\ Goes(p, "svcFile", r)
    BY <1>7, <2>1, InsertsStep
  <2>3. pc[p] = "svcVersion" /\ hist' = hist /\ UNCHANGED <<repo, files>>
    BY <1>7, InsertsStep DEF SameHist
  <2>4. r.op = rq[p].op /\ r.met = rq[p].met
    BY <1>00, <2>2 DEF IsLocal, LocalFields
  <2>5. Describers(p)
    BY <2>2, <2>3 DEF Describers, TodoOk, ListOk, Goes, KeyPcs
  <2> QED
    BY <1>0, <2>2, <2>3, <2>4, <2>5, DescGoes
<1>8. CASE Stores(p)
  <2>1. PICK l, r : Goes(p, l, r) /\ AfterFile(p, l, r)
    BY <1>8, StoresStep
  <2>2. PICK f : files' = files \cup {f} /\ f.id = FreshFile(rq[p].name)
    BY <1>8, StoresStep
  <2>3. pc[p] = "svcFile" /\ UNCHANGED repo /\ rq[p].op = "upload"
    BY <1>8, StoresStep DEF Uploading
  <2>4. PropsStay /\ hist'.broken = hist.broken
    BY <2>1, <2>2 DEF PropsStay, AfterFile, SameHist, OnlyAcked
  <2>5. pc'[p] = l /\ rq'[p] = r /\ \A q \in Procs : q # p => Waits(q)
    BY <2>1 DEF Goes
  <2>6. ASSUME Signed PROVE /\ l = "setProps" /\ r.fileId = FreshFile(rq[p].name)
                           /\ r.todo = <<"coordinates", Describes>>
    BY <2>1, <2>6 DEF AfterFile, Signed
  <2>7. Signed => NoNewProps
    <3>1. ASSUME Signed PROVE Coming(f.id)'
      BY <2>2, <2>5, <2>6, <3>1 DEF Coming
    <3> QED
      BY <2>2, <3>1 DEF NoNewProps
  <2>8. Signed => Describers(p)
    BY <2>3, <2>5, <2>6 DEF Describers, TodoOk, ListOk, KeyPcs, Describes, fmt
  <2>9. r.op \in {"none", "upload"}
    BY <2>1, NoLocalFacts DEF AfterFile, SameUpload
  <2>10. Unmarked'
    <3>1. ASSUME NEW q \in Procs
          PROVE  /\ rq'[q].op \in Writes => rq'[q].op = rq[q].op
                 /\ rq'[q].op \in ListOps => rq'[q].op = rq[q].op /\ (rq[q].met => rq'[q].met)
      <4>1. CASE q = p
        BY <2>3, <2>5, <2>9, <4>1 DEF Writes, ListOps
      <4>2. CASE q # p
        BY <2>5, <4>2 DEF Waits, Kept, Watched, ListOps
      <4> QED
        BY <4>1, <4>2
    <3> QED
      BY <3>1, UnmarkedKept
  <2> QED
    BY <2>3, <2>4, <2>5, <2>7, <2>8, <2>10, DescQuiet DEF Steady
<1>9. CASE Settles(p)
  BY <1>0, <1>9, SettlesStep, DescLeaves DEF Leaves, OnlyAcked
<1>10. CASE Describing(p)
  <2>1. PICK l, r : Goes(p, l, r) /\ AfterProperty(p, l, r)
    BY <1>10, DescribingStep
  <2>2. /\ pc[p] = "setProps" /\ SameFiles /\ UNCHANGED repo /\ rq[p].op = "upload"
        /\ files' = WithProperty(rq[p].fileId, Head(rq[p].todo))
    BY <1>10, DescribingStep DEF Uploading
  <2>3. hist'.broken = hist.broken
    BY <2>1 DEF AfterProperty, SameHist, OnlyAcked
  <2>4. pc'[p] = l /\ rq'[p] = r
    BY <2>1 DEF Goes
  <2>5. r.op \in {"none", rq[p].op} /\ (r.op # "none" => r.met = rq[p].met)
    BY <1>00, <2>1, NoLocalFacts DEF AfterProperty, IsLocal, LocalFields
  <2>6. ASSUME Signed PROVE Describers(p)
    <3>1. rq[p].todo \in {<<"coordinates", Describes>>, <<Describes>>}
      BY <2>2, <2>6 DEF DescInv, TodoOk
    <3>2. CASE l = "setProps"
      <4>1. Len(rq[p].todo) > 1 /\ r = [rq[p] EXCEPT !.todo = Tail(rq[p].todo)]
        BY <2>1, <3>2 DEF AfterProperty
      <4>2. Tail(rq[p].todo) = <<Describes>>
        <5>1. PICK d : d = Describes
          OBVIOUS
        <5>2. PICK t : t = rq[p].todo
          OBVIOUS
        <5>3. Len(t) > 1 /\ t \in {<<"coordinates", d>>, <<d>>}
          BY <3>1, <4>1, <5>1, <5>2
        <5>4. t = <<"coordinates", d>>
          BY <5>3
        <5>5. Tail(t) = <<d>>
          BY <5>4
        <5> QED
          BY <5>1, <5>2, <5>5
      <4>3. r.todo = <<Describes>> /\ r.fileId = rq[p].fileId
        BY <1>00, <4>1, <4>2 DEF IsLocal, LocalFields
      <4>4. \A g \in files' : g.id = rq[p].fileId => Coming(g.id)'
        BY <2>4, <3>2, <4>3 DEF Coming
      <4> QED
        BY <2>2, <2>4, <3>2, <4>3, <4>4 DEF Describers, TodoOk, ListOk, KeyPcs, Describes, fmt
    <3>3. CASE l # "setProps"
      <4>1. l \in {"setLicense", "idle"} /\ ~(Len(rq[p].todo) > 1)
        BY <2>1, <3>3 DEF AfterProperty
      <4>2. Head(rq[p].todo) = Describes
        BY <3>1, <4>1
      <4>3. ASSUME NEW g \in files', g.id = rq[p].fileId PROVE Describes \in g.props
        <5>1. PICK d : d = Describes
          OBVIOUS
        <5>2. PICK f \in files : g = IF f.id = rq[p].fileId THEN [f EXCEPT !.props = @ \cup {d}] ELSE f
          BY <2>2, <4>2, <5>1 DEF WithProperty
        <5>3. IsFile(f)
          BY DEF Base, FilesOk
        <5>4. f.id = rq[p].fileId
          BY <4>3, <5>2, <5>3
        <5> QED
          BY <5>1, <5>2, <5>3, <5>4 DEF IsFile, FileFields
      <4> QED
        BY <2>4, <4>1, <4>3 DEF Describers, TodoOk, ListOk, KeyPcs
    <3> QED
      BY <3>2, <3>3
  <2> QED
    BY <1>0, <2>1, <2>2, <2>3, <2>5, <2>6, DescGoes
<1>11. CASE Licenses(p)
  <2>1. PICK l, r : Goes(p, l, r) /\ AfterLicense(p, l, r)
    BY <1>11, LicensesStep
  <2>2. pc[p] = "setLicense" /\ UNCHANGED files
    BY <1>11, LicensesStep
  <2>3. hist'.broken = hist.broken
    BY <2>1 DEF AfterLicense, SameHist, OnlyAcked
  <2>4. r.op \in {"none", rq[p].op} /\ (r.op # "none" => r.met = rq[p].met)
    BY <1>00, <2>1, NoLocalFacts DEF AfterLicense, IsLocal, LocalFields
  <2>5. ASSUME Signed PROVE l \in {"idle", "nextArch"}
    BY <2>1, <2>5 DEF AfterLicense, Signed
  <2>6. Signed => Describers(p)
    BY <2>1, <2>2, <2>5 DEF Describers, TodoOk, ListOk, KeyPcs, Goes
  <2> QED
    BY <1>0, <2>1, <2>2, <2>3, <2>4, <2>6, DescGoes
<1>12. CASE Backfills(p)
  <2>1. PICK r : r = rq[p] /\ Goes(p, "setLicense", r)
    BY <1>12, BackfillsStep
  <2>2. hist' = hist /\ UNCHANGED files /\ pc[p] = "mvnBackfill"
    BY <1>12, BackfillsStep DEF SameHist
  <2>3. Describers(p)
    BY <2>1, <2>2 DEF Describers, TodoOk, ListOk, KeyPcs, Goes
  <2> QED
    BY <1>0, <2>1, <2>2, <2>3, DescGoes
<1>13. CASE DeleteApply(p)
  <2>1. /\ Goes(p, "idle", NoLocal) /\ hist' = hist /\ pc[p] = "delApply" /\ rq[p].op = "delete"
        /\ files' \subseteq files /\ UNCHANGED repo
    BY <1>13, DeleteStep DEF Leaves, SameHist, RemoveVersion
  <2>2. pc'[p] = "idle" /\ rq'[p] = NoLocal /\ \A q \in Procs : q # p => Waits(q)
    BY <2>1 DEF Goes
  <2>3. Describers(p)
    BY <2>1, <2>2 DEF Describers, TodoOk, ListOk, KeyPcs
  <2>4. ASSUME NEW q \in Procs, rq'[q].op \in ListOps PROVE rq[q].op = rq'[q].op /\ rq[q].met /\ rq'[q].met
    <3>1. q # p
      BY <2>2, <2>4, NoLocalFacts DEF ListOps
    <3>2. Waits(q)
      BY <2>2, <3>1
    <3>3. rq[q].op = rq'[q].op /\ Watched(rq[q])
      BY <2>4, <3>2 DEF Waits, Kept, Watched, ListOps
    <3>4. rq[q].met
      BY <2>1, <2>4, <3>3 DEF DescInv, Unmarked, Writes
    <3> QED
      BY <3>2, <3>3, <3>4 DEF Waits, Kept
  <2>5. Unmarked'
    BY <2>4 DEF Unmarked
  <2>6. NoNewProps
    BY <2>1 DEF NoNewProps
  <2> QED
    BY <2>1, <2>2, <2>3, <2>4, <2>5, <2>6, DescQuiet DEF Steady
<1>14. CASE Tags(p)
  <2>0. ~Signed
    BY <1>14 DEF Tags, Signed
  <2>1. CASE NpmPublishTag(p)
    BY <1>0, <2>1, PublishTagStep, DescLeaves DEF Leaves
  <2>2. CASE Untags(p)
    <3>1. PICK i \in rq[p].tagIds :
             \E r : r = [rq[p] EXCEPT !.tagIds = rq[p].tagIds \ {i}] /\ Goes(p, "tagClear", r)
      BY <2>2, UntagsStep
    <3>2. PICK r : r = [rq[p] EXCEPT !.tagIds = rq[p].tagIds \ {i}] /\ Goes(p, "tagClear", r)
      BY <3>1
    <3>3. hist' = hist /\ UNCHANGED files
      BY <2>2, UntagsStep DEF SameHist
    <3>4. r.op = rq[p].op /\ r.met = rq[p].met
      BY <1>00, <3>2 DEF IsLocal, LocalFields
    <3> QED
      BY <1>0, <2>0, <3>2, <3>3, <3>4, DescGoes
  <2>3. CASE NpmTagSet(p)
    BY <1>0, <2>3, TagSetStep, DescLeaves DEF Leaves
  <2> QED
    BY <1>14, <2>1, <2>2, <2>3 DEF Tags
<1>15. CASE Lists(p)
  BY <1>0, <1>15, ListsStep, DescLeaves DEF Leaves, Still, SameHist
<1>16. CASE KeyKinds(p)
  <2>0. Signed
    BY <1>16 DEF KeyKinds
  <2>1. ASSUME NEW l, NEW r, Goes(p, l, r), r.op = rq[p].op, r.one = rq[p].one, r.met = rq[p].met,
               l \in KeyPcs, pc[p] \in KeyPcs, hist'.broken = hist.broken, UNCHANGED files
        PROVE  DescInv'
    <3>1. ~hist.broken => ListOk(p)
      BY <2>0 DEF DescInv
    <3>2. Describers(p)
      BY <2>1, <3>1 DEF Describers, TodoOk, ListOk, Goes, KeyPcs
    <3> QED
      BY <1>0, <2>1, <3>2, DescGoes
  <2>2. CASE KeyPackage(p)
    <3>1. PICK k : k = keys'.pkg
      OBVIOUS
    <3>2. PICK r : r = [rq[p] EXCEPT !.pkgId = k] /\ Goes(p, "keyPrivate", r)
      BY <2>0, <2>2, <3>1, KeyPackageStep
    <3>3. r.op = rq[p].op /\ r.one = rq[p].one /\ r.met = rq[p].met
      BY <1>00, <3>2 DEF IsLocal, LocalFields
    <3>4. pc[p] = "keyPackage" /\ hist'.broken = hist.broken /\ UNCHANGED files
      BY <2>0, <2>2, KeyPackageStep
    <3> QED
      BY <2>1, <3>2, <3>3, <3>4 DEF KeyPcs
  <2>3. CASE KeyPrivate(p)
    <3>1. PICK k : k = KeyOf(p, keys.priv)
      OBVIOUS
    <3>2. PICK r : r = [rq[p] EXCEPT !.priv = k] /\ Goes(p, "keyPublic", r)
      BY <2>0, <2>3, <3>1, KeyPrivateStep
    <3>3. r.op = rq[p].op /\ r.one = rq[p].one /\ r.met = rq[p].met
      BY <1>00, <3>2 DEF IsLocal, LocalFields
    <3>4. pc[p] = "keyPrivate" /\ hist' = hist /\ UNCHANGED files
      BY <2>0, <2>3, KeyPrivateStep DEF SameHist, Still
    <3> QED
      BY <2>1, <3>2, <3>3, <3>4 DEF KeyPcs
  <2>4. CASE KeySetPrivate(p)
    <3>1. PICK r : r = rq[p] /\ Goes(p, "keySetPublic", r)
      BY <2>0, <2>4, KeySetPrivateStep
    <3>2. pc[p] = "keySetPrivate" /\ hist' = hist /\ UNCHANGED files
      BY <2>0, <2>4, KeySetPrivateStep DEF SameHist
    <3> QED
      BY <2>1, <3>1, <3>2 DEF KeyPcs
  <2>5. CASE KeySetPublic(p)
    BY <1>0, <2>0, <2>5, KeySetPublicStep, DescLeaves DEF OnlyGiven, Leaves
  <2>6. CASE KeyPublic(p)
    <3>1. pc[p] = "keyPublic" /\ UNCHANGED files
      BY <2>0, <2>6, KeyPublicStep DEF Still
    <3>2. CASE Leaves(p) /\ OnlyGiven
      BY <1>0, <3>1, <3>2, DescLeaves DEF OnlyGiven, Leaves
    <3>3. ASSUME NEW r, Goes(p, "keySetPrivate", r), r.op = rq[p].op, r.one = rq[p].one,
                 r.met = rq[p].met, SameHist
          PROVE  DescInv'
      BY <2>1, <3>1, <3>3 DEF SameHist, KeyPcs
    <3> QED
      BY <2>0, <2>6, <3>2, <3>3, KeyPublicStep
  <2> QED
    BY <1>16, <2>2, <2>3, <2>4, <2>5, <2>6 DEF KeyKinds
<1> QED
  BY <1>1, <1>2, <1>3, <1>4, <1>5, <1>6, <1>7, <1>8, <1>9, <1>10, <1>11, <1>12, <1>13, <1>14,
     <1>15, <1>16 DEF Kinds

\* DescInv is inductive.
LEMMA DescNext == ASSUME Base, DescInv, [Next]_vars PROVE DescInv'
<1>0. UNCHANGED files \/ SameFiles => PropsStay /\ NoNewProps
  BY DescRows
<1>1. ASSUME NEW p \in Procs, Kinds(p) PROVE DescInv'
  BY <1>1, DescKinds
<1>2. ASSUME Idle, UNCHANGED <<repo, files>>, hist'.broken = hist.broken PROVE DescInv'
  <2>1. Unmarked'
    BY <1>2, UnmarkedKept DEF Idle
  <2> QED
    BY <1>0, <1>2, <2>1, DescQuiet DEF Idle, Steady
<1>3. ASSUME \A q \in Procs : Waits(q) /\ (Watched(rq[q]) => rq'[q].met),
             files' \subseteq files, UNCHANGED repo, hist'.broken = hist.broken
      PROVE  DescInv'
  <2>1. \A q \in Procs : rq'[q].op \in ListOps => rq'[q].met
    BY <1>3 DEF Waits, Kept, Watched, ListOps
  <2>2. Unmarked'
    BY <2>1 DEF Unmarked
  <2>3. NoNewProps
    BY <1>3 DEF NoNewProps
  <2> QED
    BY <1>3, <2>1, <2>2, <2>3, DescQuiet DEF Steady
<1>4. CASE Environment
  <2>1. ASSUME NEW v, ChangeVerdict(v) PROVE DescInv'
    BY <1>2, <2>1, VerdictStep DEF SameHist
  <2>2. ASSUME NEW v \in versions, DeleteVersion(v) PROVE DescInv'
    <3>1. files' \subseteq files
      BY <2>2, DeleteVersionStep DEF RemoveVersion
    <3> QED
      BY <1>3, <2>2, <3>1, DeleteVersionStep DEF Gone
  <2>3. ASSUME NEW v \in versions, SetQuarantine(v) PROVE DescInv'
    BY <1>2, <2>3, QuarantineStep DEF SameHist
  <2>4. CASE DeletePackage
    <3>1. files' \subseteq files
      BY <2>4, DeletePackageStep
    <3> QED
      BY <1>3, <2>4, <3>1, DeletePackageStep DEF Gone
  <2>5. CASE DeleteKeyPackage
    BY <1>2, <2>5, DeleteKeyStep
  <2>6. ASSUME NEW p \in Procs, Fail(p) PROVE DescInv'
    BY <1>0, <2>6, FailStep, DescLeaves DEF Leaves, Breaks
  <2>7. CASE Crash
    <3>1. /\ \A q \in Procs : pc'[q] = "idle" /\ rq'[q] = NoLocal
          /\ UNCHANGED <<repo, files>> /\ hist'.broken
      BY <2>7, CrashStep DEF Breaks
    <3>2. \A q \in Procs : Describers(q)
      BY <3>1 DEF Describers, TodoOk
    <3>3. Unmarked'
      BY <3>1, NoLocalFacts DEF Unmarked, ListOps
    <3> QED
      BY <1>0, <3>1, <3>2, <3>3, DescQuiet DEF Steady
  <2> QED
    BY <1>4, <2>1, <2>2, <2>3, <2>4, <2>5, <2>6, <2>7 DEF Environment
<1>5. CASE UNCHANGED vars
  <2>1. UNCHANGED <<repo, versions, files, pc, rq, hist, holder>> /\ IsHist(hist')
    BY <1>5 DEF vars, ctl, rows, Base, Shape
  <2> QED
    BY <1>2, <2>1, IdleStep
<1> QED
  BY <1>1, <1>4, <1>5, StepKinds

-----------------------------------------------------------------------------
(* The answers. *)

\* Everything but an index and the use of a key lists nothing.
LEMMA BareFew ==
  ASSUME Base, NEW p \in Procs, Kinds(p), ~AtOnce(p), ~Lists(p), ~KeyKinds(p)
  PROVE  answer'.bare = FALSE
<1>0. NoAnswer.bare = FALSE
  BY DEF NoAnswer
<1>a. \A l, r : Continue(p, l, r) => answer'.bare = FALSE
  BY <1>0, Zenon DEF Continue
<1>b. \A S : Created(p, S) => answer'.bare = FALSE
  BY DEF Created, Answer, Status, NoAnswer
<1>c. \A code : Respond(p, code) => answer'.bare = FALSE
  BY DEF Respond, Answer, Status, NoAnswer
<1>1. CASE Arrival(p)
  BY <1>0, <1>1, Zenon DEF Arrival, BeginDelete
<1>2. CASE Quits(p)
  BY <1>c, <1>2, Zenon DEF Quits
<1>3. CASE Moves(p)
  BY <1>a, <1>3, Zenon DEF Moves
<1>4. CASE Locks(p)
  BY <1>0, <1>4, Zenon DEF Locks
<1>5. CASE GetOrCreatePackage(p)
  BY <1>a, <1>5, Zenon DEF GetOrCreatePackage
<1>6. CASE Inserts(p)
  BY <1>a, <1>6, Zenon DEF Inserts
<1>7. CASE Stores(p)
  BY <1>a, <1>b, <1>7, Zenon DEF Stores, Stored
<1>8. CASE Settles(p)
  BY <1>b, <1>8, Zenon DEF Settles
<1>9. CASE Describing(p)
  BY <1>a, <1>b, <1>9, Zenon DEF Describing, SetProperties
<1>10. CASE Licenses(p)
  BY <1>a, <1>b, <1>10, Zenon DEF Licenses, SetLicense
<1>11. CASE Backfills(p)
  BY <1>a, <1>11, Zenon DEF Backfills
<1>12. CASE DeleteApply(p)
  BY <1>c, <1>12, Zenon DEF DeleteApply
<1>13. CASE Tags(p)
  <2>1. CASE NpmPublishTag(p)
    BY <2>1, PublishTagStep
  <2>2. CASE Untags(p)
    BY <1>a, <2>2, Zenon DEF Untags
  <2>3. CASE NpmTagSet(p)
    BY <2>3, TagSetStep
  <2> QED
    BY <1>13, <2>1, <2>2, <2>3 DEF Tags
<1> QED
  BY <1>1, <1>2, <1>3, <1>4, <1>5, <1>6, <1>7, <1>8, <1>9, <1>10, <1>11, <1>12, <1>13 DEF Kinds

\* A request that is answered never lists what lacks its description, unless it
\* met a write.
LEMMA AnswerKinds ==
  ASSUME Base, FileInv, DescInv, NEW p \in Procs, Kinds(p)
  PROVE  ListedIsDescribed'
<1>1. CASE AtOnce(p)
  <2>1. PICK a, b : /\ a = [code |-> a.code, bare |-> b, met |-> FALSE]
                    /\ b \in BOOLEAN
                    /\ b => \E v \in versions : \A f \in files : f.vid # v.id
                    /\ AnswerAtOnce(p, a)
    BY <1>1, Zenon DEF AtOnce
  <2>2. a.bare = b
    BY <2>1
  <2>3. hist' = hist /\ answer' = [a EXCEPT !.met = a.bare /\ InFlight(Writes)]
    BY <2>1 DEF AnswerAtOnce
  <2>4. answer'.bare = b /\ answer'.met = (b /\ InFlight(Writes))
    BY <2>1, <2>2, <2>3
  <2>5. ASSUME b, ~hist.crossed, ~hist.broken PROVE InFlight(Writes)
    <3>1. PICK v \in versions : \A f \in files : f.vid # v.id
      BY <2>1, <2>5
    <3>2. PICK q \in Procs : pc[q] = "svcFile"
      BY <2>5, <3>1 DEF FileInv, Peopled, Filled, Manned
    <3>3. rq[q].op = "upload"
      BY <3>2 DEF Base, ReqOk, UploadPcs, DeletePcs, ListPcs, TagPcs, KeyPcs
    <3> QED
      BY <3>2, <3>3 DEF InFlight, Busy, Writes
  <2> QED
    BY <2>1, <2>3, <2>4, <2>5 DEF ListedIsDescribed
<1>2. CASE Lists(p)
  <2>1. /\ hist' = hist /\ fmt = "debian" /\ pc[p] = "listProps"
        /\ answer'.bare = ListProps(p, "control")
        /\ answer'.met = (ListProps(p, "control") /\ rq[p].met)
    BY <1>2, ListsStep DEF SameHist
  <2>2. ASSUME ~hist.broken, ListProps(p, "control") PROVE rq[p].met
    BY <2>1, <2>2 DEF DescInv, ListOk, Described, Describes, Signed, ListProps
  <2> QED
    BY <2>1, <2>2 DEF ListedIsDescribed
<1>3. CASE KeyKinds(p)
  <2>0. Signed
    BY <1>3 DEF KeyKinds
  <2>1. ASSUME pc[p] \in KeyPcs, OnlyGiven, answer'.bare = rq[p].one, answer'.met = (rq[p].one /\ rq[p].met)
        PROVE  ListedIsDescribed'
    BY <2>0, <2>1 DEF DescInv, ListOk, ListedIsDescribed, OnlyGiven
  <2>2. ASSUME answer' = NoAnswer PROVE ListedIsDescribed'
    BY <2>2 DEF NoAnswer, ListedIsDescribed
  <2>3. CASE KeyPackage(p)
    BY <2>0, <2>2, <2>3, KeyPackageStep
  <2>4. CASE KeyPrivate(p)
    BY <2>0, <2>2, <2>4, KeyPrivateStep
  <2>5. CASE KeyPublic(p)
    BY <2>0, <2>1, <2>2, <2>5, KeyPublicStep DEF KeyPcs
  <2>6. CASE KeySetPrivate(p)
    BY <2>0, <2>2, <2>6, KeySetPrivateStep
  <2>7. CASE KeySetPublic(p)
    BY <2>0, <2>1, <2>7, KeySetPublicStep DEF KeyPcs
  <2> QED
    BY <1>3, <2>3, <2>4, <2>5, <2>6, <2>7 DEF KeyKinds
<1> QED
  BY <1>1, <1>2, <1>3, BareFew DEF ListedIsDescribed

\* Every step.
LEMMA AnswerNext ==
  ASSUME Base, FileInv, DescInv, ListedIsDescribed, [Next]_vars
  PROVE  ListedIsDescribed'
<1>1. ASSUME NEW p \in Procs, Kinds(p) PROVE ListedIsDescribed'
  BY <1>1, AnswerKinds
<1>2. CASE Environment
  <2>1. CASE answer' = NoAnswer
    BY <2>1 DEF ListedIsDescribed, NoAnswer
  <2>2. ASSUME NEW p \in Procs, Fail(p) PROVE ListedIsDescribed'
    BY <2>2 DEF Fail, Answer, Status, NoAnswer, ListedIsDescribed
  <2> QED
    BY <1>2, <2>1, <2>2, Zenon
       DEF Environment, ChangeVerdict, DeleteVersion, Disturb, SetQuarantine, DeletePackage,
           DeleteKeyPackage, Crash
<1>3. CASE UNCHANGED vars
  BY <1>3 DEF vars, ListedIsDescribed
<1> QED
  BY <1>1, <1>2, <1>3, StepKinds

\* ListedIsDescribed, for any number of requests and every repository: with FileInv
\* and DescInv, an index that lists a file without its description was built while a
\* write was in flight, or after one broke off.
THEOREM ListedIsDescribedHolds == Spec => []ListedIsDescribed
<1>1. Init => DescInv /\ ListedIsDescribed
  <2> SUFFICES ASSUME Init PROVE DescInv /\ ListedIsDescribed
    OBVIOUS
  <2>1. /\ pc = [p \in Procs |-> "idle"] /\ rq = [p \in Procs |-> NoLocal] /\ files = {}
        /\ answer = NoAnswer
    BY DEF Init
  <2>2. DescInv
    BY <2>1, NoLocalFacts DEF DescInv, Unmarked, ListOps, TodoOk, AllDescribed, ListOk, KeyPcs
  <2> QED
    BY <2>1, <2>2 DEF ListedIsDescribed, NoAnswer
<1>2. Base /\ FileInv /\ DescInv /\ ListedIsDescribed /\ [Next]_vars => (DescInv /\ ListedIsDescribed)'
  BY DescNext, AnswerNext
<1> QED
  BY <1>1, <1>2, BaseHolds, FilesHold, PTL DEF Spec

-----------------------------------------------------------------------------
(* The dist-tag of npm. *)

TagOps == {"tag", "untag"}

\* A tag request that met no write is the only write.
Solo == \A q, x \in Procs : q # x /\ rq[q].op \in TagOps /\ ~rq[q].met => rq[x].op \notin Writes

NoUntag == \A q \in Procs : rq[q].op # "untag"
Tagging(q) == rq[q].op = "tag" /\ pc[q] \in {"tagClear", "tagSet"}

\* A lone setDistTag takes the tag from every version before it gives it to one.
Clearing(q) == rq[q].op = "tag" /\ ~rq[q].met =>
    /\ pc[q] = "tagClear" => \A v \in versions : v.tag => v.id \in rq[q].tagIds
    /\ pc[q] = "tagSet" => \A v \in versions : ~v.tag

SoleOk == hist.sole # None =>
    /\ \A q \in Procs : rq[q].op \notin Writes
    /\ \E v \in versions : v.tag /\ v.ver = hist.sole
    /\ \A v \in versions : v.tag => v.ver = hist.sole

TagInv ==
    /\ fmt # "npm" => ~hist.tagged /\ hist.sole = None
    /\ Solo /\ SoleOk
    /\ hist.tagged => NoUntag
    /\ hist.tagged /\ ~hist.broken => (\E v \in versions : v.tag) \/ \E q \in Procs : Tagging(q)
    /\ \A q \in Procs : Clearing(q)

\* No request becomes a write, or forgets that it met one.
OpsKept == \A q \in Procs : /\ rq'[q].op \in Writes => rq'[q].op = rq[q].op
                            /\ rq'[q].op \in TagOps /\ rq[q].met => rq'[q].met

\* The same versions hold the tag.
TagsStay ==
    /\ \A v \in versions : v.tag => \E w \in versions' : w.tag /\ w.id = v.id /\ w.ver = v.ver
    /\ \A w \in versions' : w.tag => \E v \in versions : v.tag /\ w.id = v.id /\ w.ver = v.ver

HistLess == /\ hist'.tagged => hist.tagged
            /\ hist'.sole \in {None, hist.sole}
            /\ hist.broken => hist'.broken

TagMoves(q) == Clearing(q)' /\ (Tagging(q) => Tagging(q)' \/ hist'.broken)

\* Without npm there is no tag.
LEMMA TagElse ==
  ASSUME TagInv, Base', UNCHANGED repo, fmt # "npm", HistLess PROVE TagInv'
<1>1. fmt' # "npm"
  BY DEF fmt
<1>2. ASSUME NEW q \in Procs PROVE rq'[q].op \notin TagOps
  BY <1>1 DEF Base, ReqOk, UploadPcs, DeletePcs, ListPcs, TagPcs, KeyPcs, TagOps, ListOps, Signed
<1>3. ~hist'.tagged /\ hist'.sole = None
  BY DEF TagInv, HistLess
<1>4. Solo' /\ SoleOk' /\ \A q \in Procs : Clearing(q)'
  BY <1>2, <1>3 DEF Solo, SoleOk, Clearing, TagOps
<1> QED
  BY <1>1, <1>3, <1>4 DEF TagInv

\* A step that moves no tag.
LEMMA TagQuiet ==
  ASSUME TagInv, UNCHANGED repo, HistLess, OpsKept, TagsStay,
         \A q \in Procs : Waits(q) \/ TagMoves(q)
  PROVE  TagInv'
<1>1. UNCHANGED fmt
  BY DEF fmt
<1>2. fmt' # "npm" => ~hist'.tagged /\ hist'.sole = None
  BY <1>1 DEF TagInv, HistLess
<1>3. Solo'
  BY DEF TagInv, Solo, OpsKept, TagOps, Writes
<1>4. hist'.tagged => NoUntag'
  BY DEF TagInv, NoUntag, HistLess, OpsKept, Writes
<1>5. SoleOk'
  BY DEF TagInv, SoleOk, HistLess, OpsKept, TagsStay
<1>6. ASSUME NEW q \in Procs PROVE Clearing(q)' /\ (Tagging(q) => Tagging(q)' \/ hist'.broken)
  <2>1. CASE Waits(q)
    <3>1. /\ pc'[q] = pc[q] /\ rq'[q].op = rq[q].op /\ rq'[q].tagIds = rq[q].tagIds
          /\ Watched(rq[q]) /\ rq[q].met => rq'[q].met
      BY <2>1 DEF Waits, Kept
    <3>2. Clearing(q)
      BY DEF TagInv
    <3> QED
      BY <3>1, <3>2 DEF Clearing, Tagging, TagsStay, Watched
  <2> QED
    BY <2>1 DEF TagMoves
<1>7. hist'.tagged /\ ~hist'.broken => (\E v \in versions' : v.tag) \/ \E q \in Procs : Tagging(q)'
  BY <1>6 DEF TagInv, HistLess, TagsStay
<1> QED
  BY <1>1, <1>2, <1>3, <1>4, <1>5, <1>6, <1>7 DEF TagInv

\* One request moves on.
LEMMA TagGoes ==
  ASSUME TagInv, HistLess, TagsStay,
         NEW p \in Procs, NEW l, NEW r, Goes(p, l, r), r.op \in {"none", rq[p].op},
         rq[p].met => r.met \/ r.op = "none", TagMoves(p)
  PROVE  TagInv'
<1>1. \A q \in Procs : q # p => Waits(q)
  BY DEF Goes
<1>2. ASSUME NEW q \in Procs
      PROVE  /\ rq'[q].op \in Writes => rq'[q].op = rq[q].op
             /\ rq'[q].op \in TagOps /\ rq[q].met => rq'[q].met
  <2>1. CASE q = p
    BY <2>1 DEF Goes, Writes, TagOps
  <2>2. CASE q # p
    BY <1>1, <2>2 DEF Waits, Kept, Watched, TagOps
  <2> QED
    BY <2>1, <2>2
<1> QED
  BY <1>1, <1>2, TagQuiet DEF Goes, OpsKept

\* What is recorded about tags only changes with a tag, a publish or a delete.
LEMMA TagHist ==
  ASSUME Base, NEW p \in Procs, Kinds(p), ~Tags(p)
  PROVE  HistLess /\ UNCHANGED repo
<1>a. SameHist => HistLess
  BY DEF SameHist, HistLess
<1>b. OnlyAcked \/ OnlyGiven => HistLess
  BY DEF OnlyAcked, OnlyGiven, HistLess
<1>1. CASE Arrival(p)
  <2>1. PICK l, r, doomed : BeginDelete(p, l, r, doomed) /\ Arrives(l, r, doomed)
    BY <1>1, Zenon DEF Arrival
  <2>2. IsLocal(r)
    BY <2>1 DEF Arrives
  <2>3. /\ Still /\ hist'.broken = hist.broken /\ (hist'.tagged <=> hist.tagged /\ r.op # "untag")
        /\ hist'.sole = IF r.op \in Writes THEN None ELSE hist.sole
    BY <2>1, <2>2, ArriveStep DEF Base
  <2> QED
    BY <2>3 DEF HistLess, Still
<1>2. CASE AtOnce(p)
  BY <1>a, <1>2, AtOnceStep DEF Still
<1>3. CASE Quits(p)
  BY <1>a, <1>3, QuitsStep DEF Still
<1>4. CASE Moves(p)
  BY <1>a, <1>4, MovesStep DEF Still
<1>5. CASE Locks(p)
  BY <1>a, <1>5, LockStep DEF Base, Still, SameHist
<1>6. CASE Uploading(p) /\ GetOrCreatePackage(p)
  BY <1>a, <1>6, PackageStep
<1>7. CASE Inserts(p)
  BY <1>a, <1>7, InsertsStep
<1>8. CASE Stores(p)
  <2>1. PICK l, r : AfterFile(p, l, r)
    BY <1>8, StoresStep
  <2> QED
    BY <1>a, <1>b, <1>8, <2>1, StoresStep DEF AfterFile
<1>9. CASE Settles(p)
  BY <1>b, <1>9, SettlesStep
<1>10. CASE Describing(p)
  <2>1. PICK l, r : AfterProperty(p, l, r)
    BY <1>10, DescribingStep
  <2> QED
    BY <1>a, <1>b, <1>10, <2>1, DescribingStep DEF AfterProperty
<1>11. CASE Licenses(p)
  <2>1. PICK l, r : AfterLicense(p, l, r)
    BY <1>11, LicensesStep
  <2> QED
    BY <1>a, <1>b, <1>11, <2>1, LicensesStep DEF AfterLicense
<1>12. CASE Backfills(p)
  BY <1>a, <1>12, BackfillsStep
<1>13. CASE DeleteApply(p)
  BY <1>a, <1>13, DeleteStep
<1>14. CASE Lists(p)
  BY <1>a, <1>14, ListsStep DEF Still
<1>15. CASE KeyKinds(p)
  <2>0. Signed
    BY <1>15 DEF KeyKinds
  <2>1. CASE KeyPackage(p)
    BY <2>0, <2>1, KeyPackageStep DEF HistLess
  <2>2. CASE KeyPrivate(p)
    BY <1>a, <2>0, <2>2, KeyPrivateStep DEF Still
  <2>3. CASE KeyPublic(p)
    BY <1>a, <1>b, <2>0, <2>3, KeyPublicStep DEF Still
  <2>4. CASE KeySetPrivate(p)
    BY <1>a, <2>0, <2>4, KeySetPrivateStep
  <2>5. CASE KeySetPublic(p)
    BY <1>b, <2>0, <2>5, KeySetPublicStep
  <2> QED
    BY <1>15, <2>1, <2>2, <2>3, <2>4, <2>5 DEF KeyKinds
<1> QED
  BY <1>1, <1>2, <1>3, <1>4, <1>5, <1>6, <1>7, <1>8, <1>9, <1>10, <1>11, <1>12, <1>13, <1>14, <1>15
     DEF Kinds

\* Version rows whose tags are left alone.
LEMMA TagsLeft ==
  ASSUME VersionsOk, UNCHANGED versions \/ SameMeta \/ \E w : versions' = versions \cup {w} /\ ~w.tag
  PROVE  TagsStay
<1>1. CASE UNCHANGED versions
  BY <1>1 DEF TagsStay
<1>2. CASE SameMeta
  BY <1>2 DEF TagsStay, SameMeta, Twin
<1>3. ASSUME NEW w, versions' = versions \cup {w}, ~w.tag PROVE TagsStay
  BY <1>3 DEF TagsStay
<1> QED
  BY <1>1, <1>2, <1>3

\* A request leaves, not from the middle of a setDistTag.
LEMMA TagLeaves ==
  ASSUME TagInv, HistLess, TagsStay, NEW p \in Procs, Goes(p, "idle", NoLocal),
         pc[p] \notin {"tagClear", "tagSet"} \/ hist'.broken
  PROVE  TagInv'
<1>1. pc'[p] = "idle" /\ rq'[p] = NoLocal
  BY DEF Goes
<1>2. TagMoves(p)
  BY <1>1, NoLocalFacts DEF TagMoves, Clearing, Tagging
<1>3. PICK l, r : l = "idle" /\ r = NoLocal
  OBVIOUS
<1> QED
  BY <1>2, <1>3, NoLocalFacts, TagGoes

\* A write arrives, or a reader: a setDistTag that is under way has met it.
LEMMA TagArrives ==
  ASSUME Base, TagInv, NEW p \in Procs, Arrival(p) PROVE TagInv'
<1>1. PICK l, r, doomed : BeginDelete(p, l, r, doomed) /\ Arrives(l, r, doomed)
  BY Zenon DEF Arrival
<1>2. IsLocal(r)
  BY <1>1 DEF Arrives
<1>3. /\ Still /\ pc'[p] = l /\ pc[p] = "idle" /\ hist'.broken = hist.broken
      /\ rq'[p].met <=> Watched(r) /\ InFlight(Writes)
      /\ Kept(rq'[p], [r EXCEPT !.met = FALSE])
      /\ hist'.tagged <=> hist.tagged /\ r.op # "untag"
      /\ hist'.sole = IF r.op \in Writes THEN None ELSE hist.sole
  BY <1>1, <1>2, ArriveStep DEF Base
<1>4. \A q \in Procs : q # p => Waits(q) /\ (Watched(rq[q]) /\ r.op \in Writes => rq'[q].met)
  BY <1>1, <1>2, ArriveStep DEF Base
<1>5. rq'[p].op = r.op
  BY <1>2, <1>3 DEF Kept, IsLocal, LocalFields
<1>6. \A q \in Procs : q # p => /\ rq'[q].op = rq[q].op /\ pc'[q] = pc[q] /\ rq'[q].tagIds = rq[q].tagIds
                                /\ rq[q].op \in TagOps /\ rq[q].met => rq'[q].met
                                /\ rq[q].op \in TagOps /\ r.op \in Writes => rq'[q].met
  BY <1>4 DEF Waits, Kept, Watched, TagOps
<1>7. Solo'
  <2> SUFFICES ASSUME NEW q \in Procs, NEW x \in Procs, q # x, rq'[q].op \in TagOps, ~rq'[q].met
               PROVE  rq'[x].op \notin Writes
    BY DEF Solo
  <2>1. CASE q = p
    <3>1. ~InFlight(Writes)
      BY <1>3, <1>5, <2>1 DEF Watched, TagOps
    <3> QED
      BY <1>6, <2>1, <3>1, NoneInFlight
  <2>2. CASE q # p
    <3>1. r.op \notin Writes /\ rq[q].op \in TagOps /\ ~rq[q].met
      BY <1>6, <2>2
    <3>2. rq[x].op \notin Writes
      BY <3>1 DEF TagInv, Solo
    <3> QED
      BY <1>5, <1>6, <3>1, <3>2
  <2> QED
    BY <2>1, <2>2
<1>8. SoleOk'
  <2>1. CASE r.op \in Writes
    BY <1>3, <2>1 DEF SoleOk
  <2>2. CASE r.op \notin Writes
    BY <1>3, <1>5, <1>6, <2>2 DEF TagInv, SoleOk, Still
  <2> QED
    BY <2>1, <2>2
<1>9. hist'.tagged => NoUntag'
  BY <1>3, <1>5, <1>6 DEF TagInv, NoUntag
<1>10. \A q \in Procs : Clearing(q)'
  <2>1. l \notin {"tagClear", "tagSet"}
    BY <1>1 DEF Arrives, KeyEntry
  <2>2. Clearing(p)'
    BY <1>3, <2>1 DEF Clearing
  <2>3. ASSUME NEW q \in Procs, q # p PROVE Clearing(q)'
    BY <1>3, <1>6, <2>3 DEF Clearing, TagInv, Still, TagOps
  <2> QED
    BY <2>2, <2>3
<1>11. \A q \in Procs : Tagging(q) => Tagging(q)'
  BY <1>3, <1>6 DEF Tagging
<1>12. UNCHANGED fmt
  BY <1>3 DEF Still, fmt
<1>13. fmt' # "npm" => ~hist'.tagged /\ hist'.sole = None
  BY <1>3, <1>12 DEF TagInv
<1>14. hist'.tagged /\ ~hist'.broken => (\E v \in versions' : v.tag) \/ \E q \in Procs : Tagging(q)'
  BY <1>3, <1>11 DEF TagInv, Still
<1> QED
  BY <1>7, <1>8, <1>9, <1>10, <1>13, <1>14 DEF TagInv


\* A version gets the tag, ...
LEMMA TagGiven ==
  ASSUME VersionsOk, NEW i, versions' = WithTag(i, TRUE)
  PROVE  /\ \A w \in versions' : w.tag => \E v \in versions : w.ver = v.ver /\ (v.tag \/ v.id = i)
         /\ \A v \in versions : v.id = i => \E w \in versions' : w.tag /\ w.ver = v.ver
<1>1. \A v \in versions : [v EXCEPT !.tag = TRUE].tag /\ [v EXCEPT !.tag = TRUE].ver = v.ver
  BY DEF VersionsOk, IsVersion, VersionFields
<1>2. ASSUME NEW w \in versions', w.tag PROVE \E v \in versions : w.ver = v.ver /\ (v.tag \/ v.id = i)
  <2>1. PICK v \in versions : w = IF v.id = i THEN [v EXCEPT !.tag = TRUE] ELSE v
    BY DEF WithTag
  <2> QED
    BY <1>1, <1>2, <2>1
<1>3. ASSUME NEW v \in versions, v.id = i PROVE \E w \in versions' : w.tag /\ w.ver = v.ver
  <2>1. PICK w : w = [v EXCEPT !.tag = TRUE]
    OBVIOUS
  <2>2. w \in versions'
    BY <1>3, <2>1 DEF WithTag
  <2>3. w.tag /\ w.ver = v.ver
    BY <1>1, <2>1
  <2> QED
    BY <2>2, <2>3
<1> QED
  BY <1>2, <1>3

\* ... or loses it.
LEMMA TagTaken ==
  ASSUME VersionsOk, NEW i, versions' = WithTag(i, FALSE)
  PROVE  \A w \in versions' : w.tag => w.id # i /\ \E v \in versions : v.tag /\ v.id = w.id
<1> SUFFICES ASSUME NEW w \in versions', w.tag
             PROVE  w.id # i /\ \E v \in versions : v.tag /\ v.id = w.id
  OBVIOUS
<1>1. PICK v \in versions : w = IF v.id = i THEN [v EXCEPT !.tag = FALSE] ELSE v
  BY DEF WithTag
<1>2. ~[v EXCEPT !.tag = FALSE].tag
  BY DEF VersionsOk, IsVersion, VersionFields
<1>3. v.id # i /\ w = v
  BY <1>1, <1>2
<1> QED
  BY <1>3

\* A publish, setDistTag or deleteDistTag writes a tag.
LEMMA TagWrites ==
  ASSUME Base, TagInv, NEW p \in Procs, Tags(p) PROVE TagInv'
<1>0. VersionsOk /\ fmt = "npm" /\ IsLocal(rq[p]) /\ VerOk(pc[p], rq[p])
  BY DEF Base, Shape, Tags
<1>1. ASSUME NEW i, NEW b \in BOOLEAN, versions' = WithTag(i, b), NEW q \in Procs, q # p, Waits(q),
             rq[p].op \in Writes
      PROVE  Clearing(q)'
  <2>1. /\ rq'[q].op = rq[q].op
        /\ Watched(rq[q]) /\ rq[q].met => rq'[q].met
    BY <1>1 DEF Waits, Kept
  <2>2. rq[q].op = "tag" => rq[q].met
    BY <1>1 DEF TagInv, Solo, TagOps
  <2> QED
    BY <2>1, <2>2 DEF Clearing, Watched
<1>2. ASSUME NEW i, versions' = WithTag(i, TRUE), StaysTagged(i) PROVE \E w \in versions' : w.tag
  BY <1>0, <1>2, TagGiven DEF StaysTagged, Alive
<1>3. ASSUME StaysTagged(rq[p].verId) PROVE NoUntag
  <2> SUFFICES ASSUME NEW q \in Procs, rq[q].op = "untag" PROVE FALSE
    BY DEF NoUntag
  <2>1. pc[q] # "idle"
    BY DEF Base, ReqOk, UploadPcs, DeletePcs, ListPcs, TagPcs, KeyPcs
  <2> QED
    BY <1>3, <2>1 DEF StaysTagged, InFlight, Busy
<1>4. ASSUME NEW l, NEW r, Goes(p, l, r), r.op \in {"none", rq[p].op}, rq[p].met => r.met \/ r.op = "none"
      PROVE  /\ OpsKept /\ Solo' /\ (NoUntag => NoUntag') /\ repo' = repo
             /\ \A q \in Procs : q # p => Waits(q) /\ pc'[q] = pc[q] /\ rq'[q].op = rq[q].op
             /\ pc'[p] = l /\ rq'[p] = r
  <2>1. \A q \in Procs : q # p => Waits(q)
    BY <1>4 DEF Goes
  <2>2. ASSUME NEW q \in Procs
        PROVE  /\ rq'[q].op \in Writes => rq'[q].op = rq[q].op
               /\ rq'[q].op \in TagOps /\ rq[q].met => rq'[q].met
    <3>1. CASE q = p
      BY <1>4, <3>1 DEF Goes, Writes, TagOps
    <3>2. CASE q # p
      BY <2>1, <3>2 DEF Waits, Kept, Watched, TagOps
    <3> QED
      BY <3>1, <3>2
  <2>3. OpsKept
    BY <2>2 DEF OpsKept
  <2> QED
    BY <1>4, <2>1, <2>3 DEF OpsKept, TagInv, Solo, NoUntag, Writes, TagOps, Goes, Waits, Kept
<1>5. CASE NpmPublishTag(p)
  <2>1. /\ Goes(p, "idle", NoLocal) /\ pc[p] = "npmTag" /\ rq[p].op = "upload"
        /\ hist'.sole = hist.sole /\ hist'.broken = hist.broken
        /\ \/ versions' = WithTag(rq[p].verId, TRUE) /\ hist'.tagged = StaysTagged(rq[p].verId)
           \/ versions' = versions /\ hist'.tagged = hist.tagged
    BY <1>5, PublishTagStep DEF Leaves, Uploading
  <2>2. CASE versions' = versions /\ hist'.tagged = hist.tagged
    <3>1. HistLess /\ TagsStay
      BY <1>0, <2>1, <2>2, TagsLeft DEF HistLess
    <3> QED
      BY <2>1, <3>1, TagLeaves
  <2>3. CASE versions' = WithTag(rq[p].verId, TRUE) /\ hist'.tagged = StaysTagged(rq[p].verId)
    <3>1. PICK l, r, i : l = "idle" /\ r = NoLocal /\ i = rq[p].verId
      OBVIOUS
    <3>2. /\ Solo' /\ (NoUntag => NoUntag') /\ repo' = repo
          /\ \A q \in Procs : q # p => Waits(q)
          /\ pc'[p] = "idle" /\ rq'[p] = NoLocal
      BY <1>4, <2>1, <3>1, NoLocalFacts
    <3>3. hist'.sole = None
      BY <2>1 DEF TagInv, SoleOk, Writes
    <3>4. SoleOk'
      BY <3>3 DEF SoleOk
    <3>5. Clearing(p)'
      BY <3>2, NoLocalFacts DEF Clearing
    <3>6. \A q \in Procs : Clearing(q)'
      BY <1>1, <2>1, <2>3, <3>1, <3>2, <3>5 DEF Writes
    <3>7. hist'.tagged => NoUntag' /\ \E w \in versions' : w.tag
      BY <1>2, <1>3, <2>3, <3>1, <3>2
    <3>8. fmt' = "npm"
      BY <1>0, <3>2 DEF fmt
    <3> QED
      BY <3>2, <3>4, <3>6, <3>7, <3>8 DEF TagInv
  <2> QED
    BY <2>1, <2>2, <2>3
<1>6. CASE Untags(p)
  <2>1. PICK i \in rq[p].tagIds :
           /\ versions' = WithTag(i, FALSE)
           /\ \E r : r = [rq[p] EXCEPT !.tagIds = rq[p].tagIds \ {i}] /\ Goes(p, "tagClear", r)
    BY <1>6, UntagsStep
  <2>2. PICK r : r = [rq[p] EXCEPT !.tagIds = rq[p].tagIds \ {i}] /\ Goes(p, "tagClear", r)
    BY <2>1
  <2>3. pc[p] = "tagClear" /\ rq[p].op \in TagOps /\ hist' = hist
    BY <1>6, UntagsStep DEF SameHist, TagOps
  <2>4. r.op = rq[p].op /\ r.met = rq[p].met /\ r.tagIds = rq[p].tagIds \ {i}
    BY <1>0, <2>2 DEF IsLocal, LocalFields
  <2>5. PICK l : l = "tagClear"
    OBVIOUS
  <2>6. /\ Solo' /\ (NoUntag => NoUntag') /\ repo' = repo
        /\ \A q \in Procs : q # p => Waits(q)
        /\ pc'[p] = "tagClear" /\ rq'[p] = r
    BY <1>4, <2>2, <2>4, <2>5
  <2>7. \A w \in versions' : w.tag => w.id # i /\ \E v \in versions : v.tag /\ v.id = w.id
    BY <1>0, <2>1, TagTaken
  <2>8. ASSUME rq[p].op = "tag", ~rq[p].met, NEW w \in versions', w.tag PROVE w.id \in r.tagIds
    BY <2>3, <2>4, <2>7, <2>8 DEF TagInv, Clearing
  <2>9. Clearing(p)'
    BY <2>4, <2>6, <2>8 DEF Clearing
  <2>10. \A q \in Procs : Clearing(q)'
    BY <1>1, <2>1, <2>3, <2>6, <2>9 DEF TagOps, Writes
  <2>11. SoleOk'
    BY <2>3 DEF TagInv, SoleOk, TagOps, Writes
  <2>12. hist'.tagged => NoUntag' /\ Tagging(p)'
    BY <2>3, <2>4, <2>6 DEF TagInv, NoUntag, Tagging, TagOps
  <2>13. fmt' = "npm"
    BY <1>0, <2>6 DEF fmt
  <2> QED
    BY <2>6, <2>10, <2>11, <2>12, <2>13 DEF TagInv
<1>7. CASE NpmTagSet(p)
  <2>1. /\ Goes(p, "idle", NoLocal) /\ pc[p] = "tagSet" /\ rq[p].op \in TagOps
        /\ hist'.broken = hist.broken
        /\ \/ /\ rq[p].op = "untag" /\ versions' = versions
              /\ hist'.tagged = hist.tagged /\ hist'.sole = hist.sole
           \/ /\ rq[p].op = "tag" /\ versions' = WithTag(rq[p].verId, TRUE)
              /\ hist'.tagged = StaysTagged(rq[p].verId)
              /\ hist'.sole = IF Alive(rq[p].verId) /\ ~rq[p].met THEN VersionOf(p) ELSE None
    BY <1>7, TagSetStep DEF Leaves, TagOps
  <2>0. PICK l, r, i : l = "idle" /\ r = NoLocal /\ i = rq[p].verId
    OBVIOUS
  <2>2. /\ OpsKept /\ Solo' /\ (NoUntag => NoUntag') /\ repo' = repo
        /\ \A q \in Procs : q # p => Waits(q) /\ rq'[q].op = rq[q].op
        /\ pc'[p] = "idle" /\ rq'[p] = NoLocal
    BY <1>4, <2>0, <2>1, NoLocalFacts
  <2>3. fmt' = "npm" /\ Clearing(p)'
    BY <1>0, <2>2, NoLocalFacts DEF fmt, Clearing
  <2>4. CASE rq[p].op = "untag"
    <3>1. ~hist.tagged /\ hist.sole = None /\ versions' = versions
      BY <2>1, <2>4 DEF TagInv, NoUntag, SoleOk, Writes
    <3>2. SoleOk' /\ ~hist'.tagged
      BY <2>1, <2>4, <3>1 DEF SoleOk
    <3>3. ASSUME NEW q \in Procs, q # p PROVE Clearing(q)'
      BY <2>2, <3>1, <3>3 DEF TagInv, Clearing, Waits, Kept, Watched
    <3> QED
      BY <2>2, <2>3, <3>2, <3>3 DEF TagInv
  <2>5. CASE rq[p].op = "tag"
    <3>1. /\ versions' = WithTag(i, TRUE) /\ hist'.tagged = StaysTagged(i)
          /\ hist'.sole = IF Alive(i) /\ ~rq[p].met THEN VersionOf(p) ELSE None
      BY <2>0, <2>1, <2>5
    <3>2. \A q \in Procs : Clearing(q)'
      BY <1>1, <2>2, <2>3, <2>5, <3>1 DEF Writes
    <3>3. hist'.tagged => NoUntag' /\ \E w \in versions' : w.tag
      BY <1>2, <1>3, <2>0, <2>2, <3>1
    <3>4. SoleOk'
      <4> SUFFICES ASSUME Alive(i), ~rq[p].met PROVE SoleOk'
        BY <3>1 DEF SoleOk
      <4>1. hist'.sole = VersionOf(p)
        BY <3>1
      <4>2. \A q \in Procs : rq'[q].op \notin Writes
        BY <2>2, <2>5, NoLocalFacts DEF TagInv, Solo, TagOps, Writes
      <4>3. \A v \in versions : ~v.tag
        BY <2>1, <2>5 DEF TagInv, Clearing
      <4>4. \A v \in versions : v.id = i => v.ver = VersionOf(p)
        BY <1>0, <2>0, <2>1, <2>5 DEF VerOk, Picked, VersionOf
      <4>5. \A w \in versions' : w.tag => \E v \in versions : w.ver = v.ver /\ (v.tag \/ v.id = i)
        BY <1>0, <3>1, TagGiven
      <4>6. \A v \in versions : v.id = i => \E w \in versions' : w.tag /\ w.ver = v.ver
        BY <1>0, <3>1, TagGiven
      <4>7. \A w \in versions' : w.tag => w.ver = VersionOf(p)
        BY <4>3, <4>4, <4>5
      <4>8. \E w \in versions' : w.tag /\ w.ver = VersionOf(p)
        BY <4>4, <4>6 DEF Alive
      <4> QED
        BY <4>1, <4>2, <4>7, <4>8 DEF SoleOk
    <3> QED
      BY <2>2, <2>3, <3>2, <3>3, <3>4 DEF TagInv
  <2> QED
    BY <2>1, <2>4, <2>5 DEF TagOps
<1> QED
  BY <1>5, <1>6, <1>7 DEF Tags


\* Every step of a request.
LEMMA TagKinds ==
  ASSUME Base, TagInv, NEW p \in Procs, Kinds(p) PROVE TagInv'
<1>0. VersionsOk /\ IsLocal(rq[p]) /\ ReqOk(pc[p], rq[p])
  BY DEF Base, Shape
<1>1. CASE Tags(p)
  BY <1>1, TagWrites
<1>2. CASE Arrival(p)
  BY <1>2, TagArrives
<1>3. CASE ~Tags(p) /\ fmt # "npm"
  <2>1. HistLess /\ UNCHANGED repo
    BY <1>3, TagHist
  <2>2. Base'
    BY BaseKinds
  <2> QED
    BY <1>3, <2>1, <2>2, TagElse
<1>4. CASE ~Tags(p) /\ fmt = "npm"
  <2>0. HistLess /\ ~Signed /\ UNCHANGED repo
    BY <1>4, TagHist DEF Signed
  <2>1. CASE AtOnce(p)
    <3>1. Idle /\ Still
      BY <2>1, AtOnceStep
    <3>2. OpsKept /\ TagsStay
      BY <1>0, <3>1, TagsLeft DEF OpsKept, Idle, Still
    <3> QED
      BY <2>0, <3>1, <3>2, TagQuiet DEF Idle
  <2>2. CASE Quits(p)
    <3>1. Goes(p, "idle", NoLocal) /\ Still /\ pc[p] \notin {"tagClear", "tagSet"}
      BY <2>2, QuitsStep DEF Leaves
    <3>2. TagsStay
      BY <1>0, <3>1, TagsLeft DEF Still
    <3> QED
      BY <2>0, <3>1, <3>2, TagLeaves
  <2>3. CASE Moves(p)
    <3>1. PICK l, r : Hop(p, l, r) /\ Goes(p, l, r)
      BY <2>3, MovesStep
    <3>2. TagsStay /\ UNCHANGED versions
      BY <1>0, <2>3, MovesStep, TagsLeft DEF Still
    <3>3. r.op = rq[p].op /\ r.met = rq[p].met /\ pc'[p] = l /\ rq'[p] = r
      BY <1>0, <3>1 DEF Hop, Goes, IsLocal, LocalFields
    <3>4. CASE pc[p] \in {"tagList", "tagClear"}
      <4>1. \/ l = "tagClear" /\ pc[p] = "tagList" /\ r = [rq[p] EXCEPT !.tagIds = {v.id : v \in versions}]
            \/ l = "tagSet" /\ pc[p] = "tagClear" /\ rq[p].tagIds = {} /\ r = rq[p]
        BY <3>1, <3>4 DEF Hop
      <4>2. ASSUME l = "tagClear" PROVE TagMoves(p)
        <5>1. r.tagIds = {v.id : v \in versions} /\ pc[p] = "tagList"
          BY <1>0, <4>1, <4>2 DEF IsLocal, LocalFields
        <5>2. Clearing(p)' /\ ~Tagging(p)
          BY <3>2, <3>3, <4>2, <5>1 DEF Clearing, Tagging
        <5> QED
          BY <5>2 DEF TagMoves
      <4>3. ASSUME l = "tagSet" PROVE TagMoves(p)
        <5>1. Clearing(p) /\ pc[p] = "tagClear" /\ rq[p].tagIds = {}
          BY <4>1, <4>3 DEF TagInv
        <5>2. Clearing(p)' /\ (Tagging(p) => Tagging(p)')
          BY <3>2, <3>3, <4>3, <5>1 DEF Clearing, Tagging
        <5> QED
          BY <5>2 DEF TagMoves
      <4>4. TagMoves(p)
        BY <4>1, <4>2, <4>3
      <4> QED
        BY <2>0, <3>1, <3>2, <3>3, <4>4, TagGoes
    <3>5. CASE pc[p] \notin {"tagList", "tagClear"}
      <4>1. l \notin {"tagClear", "tagSet"} /\ pc[p] # "tagSet"
        BY <3>1, <3>5 DEF Hop, KeyEntry
      <4>2. TagMoves(p)
        BY <3>3, <3>5, <4>1 DEF TagMoves, Clearing, Tagging
      <4> QED
        BY <2>0, <3>1, <3>2, <3>3, <4>2, TagGoes
    <3> QED
      BY <3>4, <3>5
  <2>4. ASSUME rq[p].op = "upload", NEW l, NEW r, Goes(p, l, r), r.op \in {"none", "upload"},
               r.op = "upload" => r.met = rq[p].met, TagsStay
        PROVE  TagInv'
    <3>1. TagMoves(p)
      BY <2>4 DEF Goes, TagMoves, Clearing, Tagging
    <3> QED
      BY <2>0, <2>4, <3>1, TagGoes
  <2>5. CASE Locks(p)
    <3>1. pc[p] \in {"mvnCheckIn", "nugetCheckIn", "keyCheckIn"} /\ Still /\ rq' = rq
          /\ \A q \in Procs \ {p} : Waits(q)
      BY <2>5, LockStep DEF Base
    <3>2. rq[p].op # "tag"
      BY <1>0, <3>1 DEF ReqOk, UploadPcs, DeletePcs, ListPcs, TagPcs, KeyPcs, ListOps
    <3>3. TagMoves(p) /\ OpsKept /\ TagsStay
      BY <1>0, <3>1, <3>2, TagsLeft DEF TagMoves, Clearing, Tagging, OpsKept, Still
    <3> QED
      BY <2>0, <3>1, <3>3, TagQuiet
  <2>6. CASE Uploading(p) /\ GetOrCreatePackage(p)
    <3>1. PICK k : k = pkg'
      OBVIOUS
    <3>2. PICK r : r = [rq[p] EXCEPT !.pkgId = k] /\ Goes(p, "svcVersion", r)
      BY <2>6, <3>1, PackageStep
    <3>3. PICK l : l = "svcVersion"
      OBVIOUS
    <3>4. r.op = rq[p].op /\ r.met = rq[p].met
      BY <1>0, <3>2 DEF IsLocal, LocalFields
    <3>5. TagsStay
      BY <1>0, <2>6, PackageStep, TagsLeft
    <3> QED
      BY <2>4, <2>6, <3>2, <3>3, <3>4, <3>5 DEF Uploading
  <2>7. CASE Inserts(p)
    <3>1. PICK k : k = FreshVersion
      OBVIOUS
    <3>2. PICK r : r = [rq[p] EXCEPT !.verId = k] /\ Goes(p, "svcFile", r)
      BY <2>7, <3>1, InsertsStep
    <3>3. PICK l : l = "svcFile"
      OBVIOUS
    <3>4. r.op = rq[p].op /\ r.met = rq[p].met
      BY <1>0, <3>2 DEF IsLocal, LocalFields
    <3>5. PICK w : versions' = versions \cup {w} /\ w.tag = FALSE
      BY <2>7, InsertsStep
    <3>6. TagsStay
      BY <1>0, <3>5, TagsLeft
    <3> QED
      BY <2>4, <2>7, <3>2, <3>3, <3>4, <3>6 DEF Uploading, Inserts
  <2>8. CASE Stores(p)
    <3>1. /\ Uploading(p) /\ pc[p] = "svcFile" /\ Stored(p) /\ UNCHANGED <<repo, versions>>
      BY <2>8 DEF Stores
    <3>2. PICK r : r = rq[p]
      OBVIOUS
    <3>3. PICK l : l = "setLicense"
      OBVIOUS
    <3>4. Continue(p, l, r)
      BY <1>4, <2>0, <3>1, <3>2, <3>3 DEF Stored
    <3>5. Goes(p, l, r) /\ TagsStay
      BY <1>0, <3>1, <3>2, <3>4, ContinueStep, TagsLeft DEF Goes, Base
    <3> QED
      BY <2>4, <3>1, <3>2, <3>5 DEF Uploading
  <2>9. CASE Licenses(p)
    <3>1. PICK l, r : Goes(p, l, r) /\ AfterLicense(p, l, r)
      BY <2>9, LicensesStep
    <3>2. Uploading(p) /\ TagsStay
      BY <1>0, <2>9, LicensesStep, TagsLeft
    <3>3. r = NoLocal \/ r = rq[p]
      BY <1>4, <3>1 DEF AfterLicense
    <3> QED
      BY <2>4, <3>1, <3>2, <3>3, NoLocalFacts DEF Uploading
  <2>10. ~Settles(p) /\ ~Describing(p) /\ ~Backfills(p) /\ ~Lists(p) /\ ~KeyKinds(p)
    BY <1>4, <2>0 DEF Settles, Describing, Backfills, Lists, KeyKinds
  <2> QED
    BY <1>2, <1>4, <2>1, <2>2, <2>3, <2>5, <2>6, <2>7, <2>8, <2>9, <2>10 DEF Kinds
<1> QED
  BY <1>1, <1>3, <1>4

\* Every step.
LEMMA TagNext == ASSUME Base, TagInv, [Next]_vars PROVE TagInv'
<1>0. VersionsOk
  BY DEF Base
<1>1. ASSUME NEW p \in Procs, Kinds(p) PROVE TagInv'
  BY <1>1, TagKinds
<1>2. ASSUME Idle, UNCHANGED <<repo>>, UNCHANGED versions \/ SameMeta, HistLess PROVE TagInv'
  BY <1>0, <1>2, TagQuiet, TagsLeft DEF Idle, OpsKept
<1>3. ASSUME \A q \in Procs : Waits(q) /\ (Watched(rq[q]) => rq'[q].met),
             hist'.tagged = FALSE, hist'.sole = None, UNCHANGED repo
      PROVE  TagInv'
  <2>1. \A q \in Procs : rq'[q].op \in TagOps => rq'[q].met
    BY <1>3 DEF Waits, Kept, Watched, TagOps
  <2>2. Solo' /\ \A q \in Procs : Clearing(q)'
    BY <2>1 DEF Solo, Clearing, TagOps
  <2> QED
    BY <1>3, <2>2 DEF TagInv, SoleOk
<1>4. CASE Environment
  <2>1. ASSUME NEW v, ChangeVerdict(v) PROVE TagInv'
    BY <1>2, <2>1, VerdictStep DEF SameHist, HistLess
  <2>2. ASSUME NEW v \in versions, DeleteVersion(v) PROVE TagInv'
    BY <1>3, <2>2, DeleteVersionStep DEF Gone
  <2>3. ASSUME NEW v \in versions, SetQuarantine(v) PROVE TagInv'
    BY <1>2, <2>3, QuarantineStep DEF SameHist, HistLess
  <2>4. CASE DeletePackage
    BY <1>3, <2>4, DeletePackageStep DEF Gone
  <2>5. CASE DeleteKeyPackage
    BY <1>2, <2>5, DeleteKeyStep DEF HistLess
  <2>6. ASSUME NEW p \in Procs, Fail(p) PROVE TagInv'
    <3>1. Goes(p, "idle", NoLocal) /\ Breaks /\ UNCHANGED versions
      BY <2>6, FailStep DEF Leaves
    <3>2. TagsStay /\ HistLess
      BY <1>0, <3>1, TagsLeft DEF HistLess, Breaks
    <3> QED
      BY <3>1, <3>2, TagLeaves DEF Breaks
  <2>7. CASE Crash
    <3>1. /\ Breaks /\ UNCHANGED <<repo, versions>>
          /\ \A q \in Procs : pc'[q] = "idle" /\ rq'[q] = NoLocal
      BY <2>7, CrashStep
    <3>2. TagsStay /\ HistLess
      BY <1>0, <3>1, TagsLeft DEF HistLess, Breaks
    <3>3. OpsKept /\ \A q \in Procs : TagMoves(q)
      BY <3>1, NoLocalFacts DEF OpsKept, TagMoves, Clearing, Tagging, Breaks, Writes, TagOps
    <3> QED
      BY <3>1, <3>2, <3>3, TagQuiet
  <2> QED
    BY <1>4, <2>1, <2>2, <2>3, <2>4, <2>5, <2>6, <2>7 DEF Environment
<1>5. CASE UNCHANGED vars
  <2>1. UNCHANGED <<repo, versions, pc, rq, hist, holder>> /\ IsHist(hist')
    BY <1>5 DEF vars, ctl, rows, Base, Shape
  <2> QED
    BY <1>2, <2>1, IdleStep DEF HistLess
<1> QED
  BY <1>1, <1>4, <1>5, StepKinds

\* TagResolves, for any number of publishes, setDistTags and deleteDistTags: once no
\* write is under way, a tag that was set is held by a version, because whoever clears
\* it sets it again; and a setDistTag that ran alone left it to one version.
THEOREM TagResolvesHolds == Spec => []TagResolves
<1>1. Init => TagInv
  <2> SUFFICES ASSUME Init PROVE TagInv
    OBVIOUS
  <2>1. pc = [p \in Procs |-> "idle"] /\ rq = [p \in Procs |-> NoLocal]
    BY DEF Init
  <2>2. ~hist.tagged /\ hist.sole = None
    BY DEF Init, NoHist
  <2> QED
    BY <2>1, <2>2, NoLocalFacts DEF TagInv, Solo, SoleOk, Clearing, TagOps
<1>2. Base /\ TagInv /\ [Next]_vars => TagInv'
  BY TagNext
<1>3. Base /\ TagInv => TagResolves
  <2> SUFFICES ASSUME Base, TagInv, ~InFlight(Writes), ~hist.broken
               PROVE  LET holders == {v.ver : v \in {w \in versions : w.tag}} IN
                        /\ hist.tagged => holders # {}
                        /\ hist.sole # None => holders = {hist.sole}
    BY DEF TagResolves
  <2>1. ASSUME NEW q \in Procs PROVE ~Tagging(q)
    BY DEF Tagging, InFlight, Busy, Writes
  <2>2. ASSUME hist.tagged PROVE \E v \in versions : v.tag
    BY <2>1, <2>2 DEF TagInv
  <2>3. ASSUME hist.sole # None PROVE {v.ver : v \in {w \in versions : w.tag}} = {hist.sole}
    BY <2>3 DEF TagInv, SoleOk
  <2> QED
    BY <2>2, <2>3
<1> QED
  BY <1>1, <1>2, <1>3, BaseHolds, PTL DEF Spec
=============================================================================
