--------------------------- MODULE ContainerProofs ---------------------------
(***************************************************************************)
(* Proofs about Container, for any number of requests, tags, blobs and     *)
(* manifests: what a client is given by tag or digest is complete, what    *)
(* was answered 201 stays, and a pull can be finished.                     *)
(*                                                                         *)
(* putManifest checks the references first and writes its properties and   *)
(* the tag many calls later, so the proof carries what each request has    *)
(* established at its position.  That stays true because nothing but the   *)
(* deletion of the repository takes a container.blob property away, which  *)
(* taints the repository when a request had looked it up, and because a    *)
(* get-or-create gives the right row unless it lost its race.              *)
(***************************************************************************)
EXTENDS Container, TLAPS

Fields == {"at", "sub", "d", "tag", "id", "blob", "todo"}
ReqShape ==
    /\ req = [p \in Procs |-> req[p]]
    /\ \A p \in Procs : req[p] = [k \in Fields |-> req[p][k]]

\* The positions by what a request has done: written the object, written its row, seen that
\* all references are there, written or found the manifest's blob property, its manifest
\* property, looked the repository up.
Wrote == {"blobRow", "blobRepo", "blobProp", "row", "prop", "manifest", "package", "version", "file"}
Recorded == Wrote \ {"blobRow", "row"}
Linked == {"manifest", "package", "version", "file", "serve"}
Named == {"package", "version", "file"}
Checked == Linked \cup {"gate", "save", "row", "prop"}
OfManifest == Checked \cup {"repo", "refs"}
Holding == Checked \cup {"blobProp", "refs", "layers"}

\* A digest's property names its own row.
Kept(d) == d \in Digests /\ blobProp[d] = d
Complete(m) == Kept(m) /\ \A d \in Refs[m] : Kept(d)

\* What a request knows whatever happens around it.
Known(r) ==
    /\ r.at \notin {"idle", "resolve"} => r.d \in Digests
    /\ r.at \in Wrote => r.d \in stored
    /\ r.at \in Recorded => r.d \in blobRows
    /\ r.at \in OfManifest => r.d \in Manifests
    /\ r.at = "blobRepo" => lostRace \/ r.blob = r.d
    /\ r.at \in Holding => r.id # 0
    /\ r.at = "repo" => r.todo = Refs[r.d]
    /\ r.at = "resolve" => r.tag \in Tags /\ r.todo = {}

\* What it knows of the repository with Excused apart.
Steady(r, wasCut) ==
    /\ r.at \in Holding => r.id = repo
    /\ r.at \in {"blobRepo", "blobProp", "prop"} => r.blob = r.d
    /\ r.at = "refs" => \A d \in Refs[r.d] : d \in r.todo \/ Kept(d)
    /\ r.at \in Checked => \A d \in Refs[r.d] : Kept(d)
    /\ r.at \in Linked => Kept(r.d)
    /\ r.at \in Named => wasCut \/ r.d \in manifestProp
    /\ r.at \in {"serve", "layers"} => \A d \in r.todo : Kept(d)

\* Rows refer to rows and objects that exist.
RowsInv ==
    /\ lastId \in Nat /\ repo \in Nat
    /\ tags \in [Tags -> Manifests \cup {NoDigest}]
    /\ manifestProp \subseteq Manifests
    /\ blobProp = [d \in Digests |-> blobProp[d]]
    /\ blobRows \subseteq stored
    /\ \A d \in Digests : Kept(d) => d \in blobRows
    /\ repo = 0 => Served = {}

\* What the repository serves and what was acknowledged, with Excused apart.
RepoInv ==
    /\ \A d \in Digests : blobProp[d] # NoDigest => Kept(d)
    /\ \A m \in Served : Complete(m)
    /\ \A d \in acked : Kept(d)
    /\ \A m \in ackedManifests : m \in manifestProp

ImageInv ==
    /\ ReqShape
    /\ RowsInv
    /\ \A p \in Procs : Known(req[p])
    /\ Excused \/ (RepoInv /\ \A p \in Procs : Steady(req[p], p \in cut))

-----------------------------------------------------------------------------
\* What one request does, as the others see it.
StepOf(p) ==
    /\ ReqShape'
    /\ \A q \in Procs \ {p} : req'[q] = req[q]
    /\ \A d \in stored : d \in stored'
    /\ \A d \in blobRows : d \in blobRows'
    /\ \A d \in Digests : blobProp[d] = d => blobProp'[d] = d
    /\ \A m \in manifestProp : m \in manifestProp'
    /\ \A q \in Procs \ {p} : q \in cut => q \in cut'
    /\ repo' = repo \/ (repo = 0 /\ repo' # 0)
    /\ lostRace => lostRace'

\* A request that knows what its new position needs keeps the invariant, if the rows it
\* leaves are in order.
LEMMA StepKeeps ==
  ASSUME ImageInv, NEW p \in Procs, StepOf(p),
         RowsInv', Excused => Excused', Known(req[p])',
         Excused' \/ (RepoInv' /\ Steady(req[p], p \in cut)')
  PROVE  ImageInv'
<1>1. ASSUME NEW q \in Procs PROVE Known(req[q])'
  <2>1. CASE q = p
    BY <2>1
  <2>2. CASE q # p
    <3>1. Known(req[q]) /\ req'[q] = req[q]
      BY <2>2 DEF ImageInv, StepOf
    <3> QED
      BY <3>1 DEF Known, StepOf
  <2> QED
    BY <2>1, <2>2
<1>2. CASE Excused'
  BY <1>1, <1>2 DEF ImageInv, StepOf
<1>3. CASE ~Excused'
  <2>1. \A q \in Procs : Steady(req[q], q \in cut) /\ Known(req[q])
    BY <1>3 DEF ImageInv
  <2>2. ASSUME NEW q \in Procs PROVE Steady(req[q], q \in cut)'
    <3>1. CASE q = p
      BY <1>3, <3>1
    <3>2. CASE q # p
      <4>1. Steady(req[q], q \in cut) /\ req'[q] = req[q] /\ (q \in cut => q \in cut')
        BY <2>1, <3>2 DEF StepOf
      <4>2. \A d : Kept(d) => Kept(d)'
        BY DEF StepOf, Kept
      <4>3. req[q].at \in Holding => repo' = repo
        BY <2>1, <4>1 DEF StepOf, Steady, Known
      <4> QED
        BY <4>1, <4>2, <4>3 DEF Steady, StepOf
    <3> QED
      BY <3>1, <3>2
  <2> QED
    BY <1>1, <1>3, <2>2 DEF ImageInv, StepOf
<1> QED
  BY <1>2, <1>3

\* How the handlers assign the request.
LEMMA GotoReq ==
  ASSUME ReqShape, NEW p \in Procs, NEW l, Goto(p, l)
  PROVE  /\ ReqShape' /\ \A q \in Procs \ {p} : req'[q] = req[q]
         /\ req'[p].at = l /\ req'[p].d = req[p].d /\ req'[p].tag = req[p].tag
         /\ req'[p].id = req[p].id /\ req'[p].blob = req[p].blob /\ req'[p].todo = req[p].todo
  BY DEF ReqShape, Goto, Fields

\* A request that was answered knows nothing and needs nothing.
LEMMA RespondReq ==
  ASSUME ReqShape, NEW p \in Procs, NEW answer, Respond(p, answer)
  PROVE  /\ ReqShape' /\ \A q \in Procs \ {p} : req'[q] = req[q]
         /\ req'[p].at = "idle" /\ Known(req[p])' /\ Steady(req[p], p \in cut)'
<1>1. ReqShape' /\ (\A q \in Procs \ {p} : req'[q] = req[q]) /\ req'[p].at = "idle"
  BY DEF ReqShape, Respond, Fields, NoReq
<1> QED
  BY <1>1 DEF Known, Steady, Wrote, Recorded, OfManifest, Holding, Checked, Linked, Named

\* What no step of a request that leaves the properties alone can break: the rows,
LEMMA RowsStand ==
  ASSUME RowsInv, UNCHANGED <<repo, lastId, props, store>>
  PROVE  RowsInv' /\ \A d : Kept(d)' <=> Kept(d)
  BY DEF RowsInv, Kept, props, store, Served

\* and what the repository serves.
LEMMA RepoStands ==
  ASSUME RepoInv, UNCHANGED <<props, acked, ackedManifests>>
  PROVE  RepoInv'
  BY DEF RepoInv, Kept, Complete, props, Served

\* A request that goes on without a change to the rows keeps the invariant.
LEMMA MoveKeeps ==
  ASSUME ImageInv, NEW p \in Procs, ReqShape', \A q \in Procs \ {p} : req'[q] = req[q],
         UNCHANGED <<repo, lastId, props, store, acked, ackedManifests>>,
         \A q \in Procs \ {p} : q \in cut => q \in cut',
         Excused => Excused', lostRace => lostRace',
         Known(req[p])', Excused' \/ Steady(req[p], p \in cut)'
  PROVE  ImageInv'
<1>1. StepOf(p)
  BY DEF StepOf, props, store
<1>2. RowsInv'
  BY RowsStand DEF ImageInv
<1>3. Excused' \/ RepoInv'
  BY RepoStands DEF ImageInv
<1> QED
  BY <1>1, <1>2, <1>3, StepKeeps

\* A request answered without a change to the rows keeps it too.
LEMMA AnswerKeeps ==
  ASSUME ImageInv, NEW p \in Procs, NEW answer, Respond(p, answer),
         UNCHANGED <<repo, lastId, props, store, acked, ackedManifests, cut>>,
         Excused => Excused', lostRace => lostRace'
  PROVE  ImageInv'
<1>1. /\ ReqShape' /\ \A q \in Procs \ {p} : req'[q] = req[q]
      /\ Known(req[p])' /\ Steady(req[p], p \in cut)'
  BY RespondReq DEF ImageInv
<1> QED
  BY <1>1, MoveKeeps

-----------------------------------------------------------------------------
\* How the get-or-creates assign the request between two statements,
LEMMA SubReq ==
  ASSUME ReqShape, NEW p \in Procs, NEW s, Sub(p, s)
  PROVE  /\ ReqShape' /\ \A q \in Procs \ {p} : req'[q] = req[q]
         /\ req'[p].at = req[p].at /\ req'[p].d = req[p].d /\ req'[p].tag = req[p].tag
         /\ req'[p].id = req[p].id /\ req'[p].blob = req[p].blob /\ req'[p].todo = req[p].todo
  BY DEF ReqShape, Sub, Fields

\* when repoPackage has returned a package,
LEMMA HaveRepoReq ==
  ASSUME ReqShape, NEW p \in Procs, NEW i, NEW l, HaveRepo(p, i, l)
  PROVE  /\ ReqShape' /\ \A q \in Procs \ {p} : req'[q] = req[q]
         /\ req'[p].at = l /\ req'[p].d = req[p].d /\ req'[p].tag = req[p].tag
         /\ req'[p].id = i /\ req'[p].blob = req[p].blob /\ req'[p].todo = req[p].todo
  BY DEF ReqShape, HaveRepo, Fields

\* and when GetOrCreateBlob has returned a row.
LEMMA HaveRowReq ==
  ASSUME ReqShape, NEW p \in Procs, NEW d, NEW l, HaveRow(p, d, l)
  PROVE  /\ ReqShape' /\ \A q \in Procs \ {p} : req'[q] = req[q]
         /\ req'[p].at = l /\ req'[p].d = req[p].d /\ req'[p].tag = req[p].tag
         /\ req'[p].id = req[p].id /\ req'[p].blob = d /\ req'[p].todo = req[p].todo
  BY DEF ReqShape, HaveRow, Fields

\* The next statement of the same call changes nothing that anybody knows.
LEMMA SubKeeps ==
  ASSUME ImageInv, NEW p \in Procs, NEW s, Sub(p, s),
         UNCHANGED <<repo, lastId, props, store, acks, tainted>>
  PROVE  ImageInv'
<1>1. UNCHANGED <<acked, ackedManifests, cut, tainted, lostRace, blobProp, manifestProp, tags,
                  stored, blobRows, repo>>
  BY DEF Sub, acks, props, store
<1>2. /\ ReqShape' /\ \A q \in Procs \ {p} : req'[q] = req[q]
      /\ req'[p].at = req[p].at /\ req'[p].d = req[p].d /\ req'[p].tag = req[p].tag
      /\ req'[p].id = req[p].id /\ req'[p].blob = req[p].blob /\ req'[p].todo = req[p].todo
  BY SubReq DEF ImageInv
<1>3. Known(req[p]) /\ (Excused \/ Steady(req[p], p \in cut))
  BY DEF ImageInv
<1>4. Known(req[p])' /\ (Excused' <=> Excused)
  BY <1>1, <1>2, <1>3 DEF Known, Excused
<1>5. Excused' \/ Steady(req[p], p \in cut)'
  BY <1>1, <1>2, <1>3, <1>4 DEF Steady, Kept
<1> QED
  BY <1>1, <1>2, <1>4, <1>5, MoveKeeps

\* repoPackage leaves the request on the live repository, or a lost race is noted.
LEMMA RepoKeeps ==
  ASSUME ImageInv, NEW p \in Procs, NEW next, RepoPackage(p, next),
         \/ req[p].at = "blobRepo" /\ next = "blobProp"
         \/ req[p].at = "repo" /\ next = "refs"
         \/ req[p].at = "package" /\ next = "version"
  PROVE  ImageInv'
<1> USE DEF Wrote, Recorded, OfManifest, Holding, Checked, Linked, Named
<1>1. /\ ReqShape /\ RowsInv /\ Known(req[p])
      /\ Excused \/ (RepoInv /\ Steady(req[p], p \in cut))
  BY DEF ImageInv
<1>2. UNCHANGED <<props, store, acks, tainted>>
  BY DEF RepoPackage
<1>3. /\ UNCHANGED <<acked, ackedManifests, cut, blobProp, manifestProp, tags, stored, blobRows>>
      /\ (Excused => Excused') /\ (lostRace => lostRace')
  BY <1>2 DEF props, store, acks, Excused, RepoPackage, SelectRepo, InsertRepo, RepoConflict, Sub
<1>4. ASSUME NEW s, Sub(p, s), UNCHANGED <<repo, lastId>> PROVE ImageInv'
  BY <1>2, <1>4, SubKeeps
<1>5. ASSUME Respond(p, "refused"), UNCHANGED <<repo, lastId>> PROVE ImageInv'
  BY <1>2, <1>3, <1>5, AnswerKeeps
<1>6. ASSUME NEW i, i # 0, HaveRepo(p, i, next) PROVE Known(req[p])'
  BY <1>1, <1>3, <1>6, HaveRepoReq DEF Known
<1>7. CASE repo # 0 /\ HaveRepo(p, repo, next) /\ UNCHANGED <<repo, lastId, lostRace>>
  <2>1. /\ ReqShape' /\ \A q \in Procs \ {p} : req'[q] = req[q]
        /\ req'[p].at = next /\ req'[p].d = req[p].d /\ req'[p].id = repo
        /\ req'[p].blob = req[p].blob /\ req'[p].todo = req[p].todo
    BY <1>1, <1>7, HaveRepoReq
  <2>2. Excused' \/ Steady(req[p], p \in cut)'
    BY <1>1, <1>2, <1>3, <1>7, <2>1 DEF Steady, Kept, Known, Excused
  <2> QED
    BY <1>2, <1>3, <1>6, <1>7, <2>1, <2>2, MoveKeeps
<1>8. CASE InsertRepo(p, next)
  <2>1. /\ repo = 0 /\ repo' = lastId + 1 /\ lastId' = lastId + 1 /\ UNCHANGED lostRace
        /\ HaveRepo(p, lastId + 1, next)
    BY <1>8 DEF InsertRepo
  <2>2. PICK i : i = lastId + 1
    OBVIOUS
  <2>3. i # 0 /\ i \in Nat
    BY <1>1, <2>2 DEF RowsInv
  <2>4. /\ ReqShape' /\ \A q \in Procs \ {p} : req'[q] = req[q]
        /\ req'[p].at = next /\ req'[p].d = req[p].d /\ req'[p].id = i
        /\ req'[p].blob = req[p].blob /\ req'[p].todo = req[p].todo
    BY <1>1, <2>1, <2>2, HaveRepoReq
  <2>5. StepOf(p) /\ RowsInv'
    BY <1>1, <1>3, <2>1, <2>2, <2>3, <2>4 DEF StepOf, RowsInv, Served, Kept
  <2>6. Excused' \/ (RepoInv' /\ Steady(req[p], p \in cut)')
    <3>1. SUFFICES ASSUME ~Excused' PROVE RepoInv' /\ Steady(req[p], p \in cut)'
      OBVIOUS
    <3>2. RepoInv /\ Steady(req[p], p \in cut) /\ RepoInv'
      BY <1>1, <1>2, <1>3, <3>1, RepoStands
    <3>3. req[p].at # "package"
      BY <1>1, <2>1, <3>2 DEF Steady, Known
    <3>4. Steady(req[p], p \in cut)'
      BY <1>1, <2>1, <2>2, <2>4, <3>2, <3>3 DEF Steady, Known
    <3> QED
      BY <3>2, <3>4
  <2> QED
    BY <1>3, <1>6, <2>1, <2>2, <2>3, <2>5, <2>6, StepKeeps
<1>9. CASE HaveRepo(p, Elsewhere, next) /\ lostRace' = TRUE /\ UNCHANGED <<repo, lastId>>
  <2>1. Elsewhere # 0 /\ Excused'
    BY <1>9, ElsewhereAssumption DEF Excused
  <2> QED
    BY <1>1, <1>2, <1>3, <1>6, <1>9, <2>1, HaveRepoReq, MoveKeeps
<1> QED
  BY <1>4, <1>5, <1>7, <1>8, <1>9 DEF RepoPackage, SelectRepo, RepoConflict

\* GetOrCreateBlob leaves the request with the row of its digest, or a lost race is noted.
LEMMA RowKeeps ==
  ASSUME ImageInv, NEW p \in Procs, NEW next, GetOrCreateBlob(p, next),
         \/ req[p].at = "blobRow" /\ next = "blobRepo"
         \/ req[p].at = "row" /\ next = "prop"
  PROVE  ImageInv'
<1> USE DEF Wrote, Recorded, OfManifest, Holding, Checked, Linked, Named
<1>1. /\ ReqShape /\ RowsInv /\ Known(req[p])
      /\ Excused \/ (RepoInv /\ Steady(req[p], p \in cut))
  BY DEF ImageInv
<1>2. UNCHANGED <<repo, lastId, props, stored, acks, tainted>>
  BY DEF GetOrCreateBlob, repoRows
<1>3. /\ UNCHANGED <<acked, ackedManifests, cut, blobProp, manifestProp, tags>>
      /\ (Excused => Excused') /\ (lostRace => lostRace')
  BY <1>2 DEF props, acks, Excused, GetOrCreateBlob, SelectRow, InsertRow, RowConflict, Sub
<1>4. ASSUME NEW s, Sub(p, s), UNCHANGED blobRows PROVE ImageInv'
  BY <1>2, <1>4, SubKeeps DEF store
<1>5. ASSUME NEW d, HaveRow(p, d, next), blobRows \subseteq blobRows', req[p].d \in blobRows',
             \/ blobRows' = blobRows
             \/ blobRows' = blobRows \cup {req[p].d},
             lostRace' \/ (d = req[p].d /\ UNCHANGED lostRace)
      PROVE  ImageInv'
  <2>1. /\ ReqShape' /\ \A q \in Procs \ {p} : req'[q] = req[q]
        /\ req'[p].at = next /\ req'[p].d = req[p].d /\ req'[p].id = req[p].id
        /\ req'[p].blob = d /\ req'[p].todo = req[p].todo
    BY <1>1, <1>5, HaveRowReq
  <2>2. StepOf(p)
    BY <1>2, <1>3, <1>5, <2>1 DEF StepOf
  <2>3. Known(req[p])'
    BY <1>1, <1>2, <1>5, <2>1 DEF Known
  <2>4. RowsInv'
    BY <1>1, <1>2, <1>3, <1>5 DEF RowsInv, Kept, Known, Served
  <2>5. Excused' \/ (RepoInv' /\ Steady(req[p], p \in cut)')
    <3>1. SUFFICES ASSUME ~Excused' PROVE RepoInv' /\ Steady(req[p], p \in cut)'
      OBVIOUS
    <3>2. RepoInv /\ Steady(req[p], p \in cut) /\ RepoInv'
      BY <1>1, <1>2, <1>3, <3>1, RepoStands
    <3>3. d = req[p].d /\ UNCHANGED <<repo, blobProp, manifestProp, cut>>
      BY <1>2, <1>3, <1>5, <3>1 DEF Excused
    <3>4. Steady(req[p], p \in cut)'
      BY <1>5, <2>1, <3>2, <3>3 DEF Steady, Kept
    <3> QED
      BY <3>2, <3>4
  <2> QED
    BY <1>3, <2>2, <2>3, <2>4, <2>5, StepKeeps
<1>6. CASE SelectRow(p, next)
  BY <1>4, <1>5, <1>6 DEF SelectRow
<1>7. CASE InsertRow(p, next)
  BY <1>5, <1>7 DEF InsertRow
<1>8. CASE RowConflict(p, next)
  <2>1. ASSUME NEW d, HaveRow(p, d, next), lostRace' = TRUE, UNCHANGED blobRows,
               req[p].d \in blobRows
        PROVE  ImageInv'
    BY <1>5, <2>1 DEF Excused
  <2> QED
    BY <1>4, <1>8, <2>1 DEF RowConflict
<1> QED
  BY <1>6, <1>7, <1>8 DEF GetOrCreateBlob

-----------------------------------------------------------------------------
\* A request arrives.
LEMMA BeginKeeps ==
  ASSUME ImageInv, NEW p \in Procs, NEW r, r = [k \in Fields |-> r[k]], Begin(p, r),
         \/ r.at = "blobSave" /\ r.d \in Digests
         \/ r.at = "repo" /\ r.d \in Manifests /\ r.todo = Refs[r.d]
         \/ r.at = "resolve" /\ r.tag \in Tags /\ r.todo = {}
  PROVE  ImageInv'
<1>1. /\ req' = [req EXCEPT ![p] = r] /\ cut' = cut \ {p}
      /\ UNCHANGED <<repo, lastId, props, store, acked, ackedManifests, tainted, lostRace>>
  BY DEF Begin, repoRows, faults
<1>2. ReqShape' /\ req'[p] = r /\ \A q \in Procs \ {p} : req'[q] = req[q]
  BY <1>1 DEF ImageInv, ReqShape
<1>3. Known(req[p])' /\ Steady(req[p], p \in cut)' /\ (Excused => Excused')
  BY <1>1, <1>2 DEF Known, Steady, Wrote, Recorded, OfManifest, Holding, Checked, Linked, Named,
                    Excused, Digests
<1> QED
  BY <1>1, <1>2, <1>3, MoveKeeps

\* deleteManifest clears a manifest's own properties; whoever counted on the manifest one is
\* told apart: its acknowledgement is withdrawn and pushes under way are cut.
LEMMA DeleteKeeps ==
  ASSUME ImageInv, NEW p \in Procs, NEW m \in Manifests, DeleteManifest(p, m)
  PROVE  ImageInv'
<1>1. ReqShape /\ RowsInv /\ \A q \in Procs : Known(req[q])
  BY DEF ImageInv
<1>2. UNCHANGED <<repo, lastId, blobProp, tags, stored, blobRows, acked, tainted, lostRace>>
  BY DEF DeleteManifest, ClearedBy, store, faults
<1>3. CASE repo = 0 /\ Respond(p, "refused")
  BY <1>2, <1>3, AnswerKeeps DEF DeleteManifest, props, store, Excused
<1>4. CASE /\ manifestProp' = manifestProp \ {m} /\ ackedManifests' = ackedManifests \ {m}
           /\ cut' = cut \cup {q \in Procs : req[q].d = m} /\ Respond(p, "ok")
  <2>1. /\ ReqShape' /\ \A q \in Procs \ {p} : req'[q] = req[q]
        /\ Known(req[p])' /\ Steady(req[p], p \in cut)'
    BY <1>1, <1>4, RespondReq
  <2>2. RowsInv' /\ Served' \subseteq Served /\ \A d : Kept(d)' <=> Kept(d)
    BY <1>1, <1>2, <1>4 DEF RowsInv, Served, Kept
  <2>3. \A q \in Procs : Known(req[q])'
    BY <1>1, <1>2, <2>1 DEF Known
  <2>4. RepoInv => RepoInv'
    BY <1>2, <1>4, <2>2 DEF RepoInv, Complete
  <2>5. ASSUME NEW q \in Procs, Steady(req[q], q \in cut) PROVE Steady(req[q], q \in cut)'
    <3>1. CASE q = p
      BY <2>1, <3>1
    <3>2. CASE q # p
      BY <1>2, <1>4, <2>1, <2>2, <2>5, <3>2 DEF Steady
    <3> QED
      BY <3>1, <3>2
  <2> QED
    BY <1>2, <2>1, <2>2, <2>3, <2>4, <2>5 DEF ImageInv, Excused
<1> QED
  BY <1>3, <1>4 DEF DeleteManifest, ClearedBy

\* Pushes, pulls and deletions arriving.
LEMMA ArriveKeeps ==
  ASSUME ImageInv, NEW p \in Procs, Arrive(p)
  PROVE  ImageInv'
<1>1. ASSUME NEW d \in Digests, PushBlob(p, d) PROVE ImageInv'
  <2>1. PICK r : r = [NoReq EXCEPT !.at = "blobSave", !.d = d]
    OBVIOUS
  <2>2. r = [k \in Fields |-> r[k]] /\ r.at = "blobSave" /\ r.d = d
    BY <2>1 DEF Fields, NoReq
  <2> QED
    BY <1>1, <2>1, <2>2, BeginKeeps DEF PushBlob
<1>2. ASSUME NEW m \in Manifests, NEW t, PutManifest(p, m, t) PROVE ImageInv'
  <2>1. PICK r : r = [NoReq EXCEPT !.at = "repo", !.d = m, !.tag = t, !.todo = Refs[m]]
    OBVIOUS
  <2>2. r = [k \in Fields |-> r[k]] /\ r.at = "repo" /\ r.d = m /\ r.todo = Refs[m]
    BY <2>1 DEF Fields, NoReq
  <2> QED
    BY <1>2, <2>1, <2>2, BeginKeeps DEF PutManifest
<1>3. ASSUME NEW t \in Tags, Pull(p, t) PROVE ImageInv'
  <2>1. PICK r : r = [NoReq EXCEPT !.at = "resolve", !.tag = t]
    OBVIOUS
  <2>2. r = [k \in Fields |-> r[k]] /\ r.at = "resolve" /\ r.tag = t /\ r.todo = {}
    BY <2>1 DEF Fields, NoReq
  <2> QED
    BY <1>3, <2>1, <2>2, BeginKeeps DEF Pull
<1>4. ASSUME NEW t \in Tags, DeleteTag(p, t) PROVE ImageInv'
  BY <1>4, AnswerKeeps DEF DeleteTag, repoRows, history, acks, faults, Excused
<1> QED
  BY <1>1, <1>2, <1>3, <1>4, DeleteKeeps DEF Arrive

-----------------------------------------------------------------------------
\* The object is written before anything that names it.
LEMMA SaveKeeps ==
  ASSUME ImageInv, NEW p \in Procs, SaveBlob(p) \/ SaveManifest(p)
  PROVE  ImageInv'
<1> USE DEF Wrote, Recorded, OfManifest, Holding, Checked, Linked, Named
<1>1. /\ ReqShape /\ RowsInv /\ Known(req[p])
      /\ Excused \/ (RepoInv /\ Steady(req[p], p \in cut))
  BY DEF ImageInv
<1>2. PICK l : /\ Goto(p, l)
               /\ (req[p].at = "blobSave" /\ l = "blobRow") \/ (req[p].at = "save" /\ l = "row")
  BY DEF SaveBlob, SaveManifest
<1>3. /\ stored' = stored \cup {req[p].d} /\ UNCHANGED <<repo, lastId, blobRows, props>>
      /\ UNCHANGED <<blobProp, manifestProp, tags, acked, ackedManifests, cut, tainted, lostRace>>
  BY DEF SaveBlob, SaveManifest, repoRows, props, history, acks, faults
<1>4. /\ ReqShape' /\ \A q \in Procs \ {p} : req'[q] = req[q]
      /\ req'[p].at = l /\ req'[p].d = req[p].d /\ req'[p].id = req[p].id
      /\ req'[p].todo = req[p].todo
  BY <1>1, <1>2, GotoReq
<1>5. Known(req[p])' /\ StepOf(p) /\ (Excused' <=> Excused)
  BY <1>1, <1>2, <1>3, <1>4 DEF Known, StepOf, Excused
<1>6. RowsInv'
  BY <1>1, <1>3 DEF RowsInv, Kept, Served
<1>7. Excused' \/ (RepoInv' /\ Steady(req[p], p \in cut)')
  <2>1. RepoInv => RepoInv'
    BY <1>3, RepoStands
  <2>2. Steady(req[p], p \in cut) => Steady(req[p], p \in cut)'
    BY <1>2, <1>3, <1>4 DEF Steady, Kept
  <2> QED
    BY <1>1, <1>5, <2>1, <2>2
<1> QED
  BY <1>5, <1>6, <1>7, StepKeeps

\* container.blob.<digest> names the digest's own row, which exists.
LEMMA PropKeeps ==
  ASSUME ImageInv, NEW p \in Procs, BlobProp(p) \/ ManifestBlobProp(p)
  PROVE  ImageInv'
<1> USE DEF Wrote, Recorded, OfManifest, Holding, Checked, Linked, Named
<1>1. /\ ReqShape /\ RowsInv /\ Known(req[p])
      /\ Excused \/ (RepoInv /\ Steady(req[p], p \in cut))
  BY DEF ImageInv
<1>2. PICK d : d = req[p].d
  OBVIOUS
<1>3. PICK b : b = req[p].blob
  OBVIOUS
<1>4. /\ req[p].at \in {"blobProp", "prop"}
      /\ blobProp' = IF req[p].id = repo THEN [blobProp EXCEPT ![d] = b] ELSE blobProp
      /\ UNCHANGED <<repo, lastId, manifestProp, tags, stored, blobRows, ackedManifests, cut,
                     tainted, lostRace>>
  BY <1>2, <1>3 DEF BlobProp, ManifestBlobProp, SetBlobProp, AckBlob, store, history, acks, faults
<1>5. d \in Digests /\ d \in blobRows /\ d \in stored
  BY <1>1, <1>2, <1>4 DEF Known
<1>6. /\ blobProp' = [e \in Digests |-> blobProp'[e]]
      /\ \A e \in Digests : blobProp'[e] = blobProp[e] \/ (e = d /\ blobProp'[e] = b)
      /\ req[p].id = repo => blobProp'[d] = b
  BY <1>1, <1>4, <1>5 DEF RowsInv
<1>7. RowsInv'
  BY <1>1, <1>4, <1>5, <1>6 DEF RowsInv, Kept, Served
<1>8. \/ BlobProp(p) /\ Respond(p, "ok") /\ acked' = acked \cup {d}
      \/ ManifestBlobProp(p) /\ Goto(p, "manifest") /\ UNCHANGED acked /\ req[p].at = "prop"
  BY <1>2 DEF BlobProp, ManifestBlobProp, AckBlob, history, acks
<1>9. /\ ReqShape' /\ \A q \in Procs \ {p} : req'[q] = req[q]
      /\ \/ req'[p].at = "idle"
         \/ /\ req'[p].at = "manifest" /\ req[p].at = "prop"
            /\ req'[p].d = d /\ req'[p].id = req[p].id /\ req'[p].todo = req[p].todo
  BY <1>1, <1>2, <1>8, GotoReq, RespondReq
<1>10. Known(req[p])' /\ (Excused' <=> Excused)
  BY <1>1, <1>2, <1>4, <1>5, <1>9 DEF Known, Excused
<1>11. CASE Excused
  <2>1. \A q \in Procs : Known(req[q])'
    BY <1>4, <1>9, <1>10 DEF ImageInv, Known
  <2> QED
    BY <1>7, <1>9, <1>10, <1>11, <2>1 DEF ImageInv
<1>12. CASE ~Excused
  <2>1. RepoInv /\ Steady(req[p], p \in cut) /\ b = d /\ req[p].id = repo
    BY <1>1, <1>2, <1>3, <1>4, <1>12 DEF Steady
  <2>2. Kept(d)' /\ \A e : Kept(e) => Kept(e)'
    BY <1>5, <1>6, <2>1 DEF Kept
  <2>3. StepOf(p)
    BY <1>4, <1>9, <2>2 DEF StepOf, Kept
  <2>4. RepoInv'
    <3>1. \A e \in Digests : blobProp'[e] # NoDigest => Kept(e)'
      BY <1>6, <2>1, <2>2 DEF RepoInv
    <3>2. (\A m \in Served' : Complete(m)') /\ \A m \in ackedManifests' : m \in manifestProp'
      BY <1>4, <2>1, <2>2 DEF RepoInv, Served, Complete
    <3>3. \A e \in acked' : Kept(e)'
      BY <1>8, <2>1, <2>2 DEF RepoInv
    <3> QED
      BY <3>1, <3>2, <3>3 DEF RepoInv
  <2>5. Steady(req[p], p \in cut)'
    BY <1>2, <1>4, <1>9, <2>1, <2>2 DEF Steady
  <2> QED
    BY <1>7, <1>10, <2>3, <2>4, <2>5, StepKeeps
<1> QED
  BY <1>11, <1>12

\* putManifest, before the object: each reference is found before the next is looked for.
LEMMA CheckKeeps ==
  ASSUME ImageInv, NEW p \in Procs, CheckRefs(p) \/ IngestGate(p)
  PROVE  ImageInv'
<1> USE DEF Wrote, Recorded, OfManifest, Holding, Checked, Linked, Named
<1>1. /\ ReqShape /\ RowsInv /\ Known(req[p])
      /\ Excused \/ (RepoInv /\ Steady(req[p], p \in cut))
  BY DEF ImageInv
<1>2. /\ UNCHANGED <<repo, lastId, props, store, blobProp, manifestProp, stored, blobRows>>
      /\ UNCHANGED <<acked, ackedManifests, cut, tainted, lostRace>>
  BY DEF CheckRefs, IngestGate, repoRows, props, store, history, acks, faults
<1>3. ASSUME Respond(p, "refused") PROVE ImageInv'
  BY <1>2, <1>3, AnswerKeeps DEF Excused
<1>4. ASSUME NEW l, Goto(p, l),
             \/ req[p].at = "refs" /\ req[p].todo = {} /\ l = "gate"
             \/ req[p].at = "gate" /\ l = "save"
      PROVE  ImageInv'
  <2>1. /\ ReqShape' /\ \A q \in Procs \ {p} : req'[q] = req[q]
        /\ req'[p].at = l /\ req'[p].d = req[p].d /\ req'[p].id = req[p].id
    BY <1>1, <1>4, GotoReq
  <2>2. Known(req[p])' /\ (Excused' <=> Excused)
    BY <1>1, <1>2, <1>4, <2>1 DEF Known, Excused
  <2>3. Excused \/ Steady(req[p], p \in cut)'
    BY <1>1, <1>2, <1>4, <2>1 DEF Steady, Kept
  <2> QED
    BY <1>2, <2>1, <2>2, <2>3, MoveKeeps
<1>5. ASSUME NEW d \in req[p].todo, Present(p, d), req[p].at = "refs",
             req' = [req EXCEPT ![p].todo = @ \ {d}]
      PROVE  ImageInv'
  <2>1. PICK rest : rest = req[p].todo \ {d}
    OBVIOUS
  <2>2. /\ ReqShape' /\ \A q \in Procs \ {p} : req'[q] = req[q]
        /\ req'[p].at = "refs" /\ req'[p].d = req[p].d /\ req'[p].id = req[p].id
        /\ req'[p].todo = rest
    BY <1>1, <1>5, <2>1 DEF ReqShape, Fields
  <2>3. Known(req[p])' /\ (Excused' <=> Excused)
    BY <1>1, <1>2, <1>5, <2>2 DEF Known, Excused
  <2>4. ASSUME ~Excused PROVE Steady(req[p], p \in cut)'
    <3>1. RepoInv /\ Steady(req[p], p \in cut) /\ req[p].d \in Manifests
      BY <1>1, <1>5, <2>4 DEF Known
    <3>2. blobProp[d] # NoDigest
      BY <1>5, <3>1 DEF Steady, Present
    <3>3. d \in Digests => Kept(d)
      BY <3>1, <3>2 DEF RepoInv
    <3>4. \A e \in Refs[req[p].d] : e \in Digests /\ (e \in rest \/ Kept(e))
      BY <1>5, <2>1, <3>1, <3>3, RefsAssumption DEF Steady
    <3> QED
      BY <1>2, <1>5, <2>2, <3>1, <3>4 DEF Steady, Kept
  <2> QED
    BY <1>2, <2>2, <2>3, <2>4, MoveKeeps
<1>6. CASE CheckRefs(p)
  BY <1>3, <1>4, <1>5, <1>6 DEF CheckRefs
<1>7. CASE IngestGate(p)
  BY <1>3, <1>4, <1>7 DEF IngestGate
<1> QED
  BY <1>6, <1>7

\* The manifest is answered for: it can be fetched as a blob, and by its digest unless
\* somebody deleted that meanwhile.
LEMMA AckKeeps ==
  ASSUME ImageInv, NEW p \in Procs, Respond(p, "ok"), AckManifest(p), RowsInv',
         UNCHANGED <<repo, blobProp, stored, blobRows, tags, lostRace>>,
         Excused => Excused',
         \A m \in manifestProp : m \in manifestProp',
         Excused' \/ (/\ \A m \in Served' : Complete(m)
                      /\ Kept(req[p].d)
                      /\ p \in cut \/ req[p].d \in manifestProp')
  PROVE  ImageInv'
<1>1. /\ ReqShape' /\ \A q \in Procs \ {p} : req'[q] = req[q]
      /\ Known(req[p])' /\ Steady(req[p], p \in cut)'
  BY RespondReq DEF ImageInv
<1>2. PICK d : d = req[p].d
  OBVIOUS
<1>3. /\ acked' = acked \cup {d} /\ UNCHANGED cut
      /\ ackedManifests' = IF p \in cut THEN ackedManifests ELSE ackedManifests \cup {d}
  BY <1>2 DEF AckManifest
<1>4. StepOf(p)
  BY <1>1, <1>3 DEF StepOf
<1>5. ASSUME ~Excused', \A m \in Served' : Complete(m), Kept(d), p \in cut \/ d \in manifestProp'
      PROVE  RepoInv'
  <2>1. RepoInv /\ \A e : Kept(e)' <=> Kept(e)
    BY <1>5 DEF ImageInv, Kept
  <2>2. (\A e \in Digests : blobProp'[e] # NoDigest => Kept(e)') /\ \A m \in Served' : Complete(m)'
    BY <1>5, <2>1 DEF RepoInv, Complete
  <2>3. (\A e \in acked' : Kept(e)') /\ \A m \in ackedManifests' : m \in manifestProp'
    BY <1>3, <1>5, <2>1 DEF RepoInv
  <2> QED
    BY <2>2, <2>3 DEF RepoInv
<1> QED
  BY <1>1, <1>2, <1>4, <1>5, StepKeeps

\* A push by digest ends with the manifest property, a push under a tag goes on from it.
LEMMA ManifestKeeps ==
  ASSUME ImageInv, NEW p \in Procs, ManifestProp(p)
  PROVE  ImageInv'
<1> USE DEF Wrote, Recorded, OfManifest, Holding, Checked, Linked, Named
<1>1. /\ ReqShape /\ RowsInv /\ Known(req[p]) /\ req[p].at = "manifest"
      /\ Excused \/ (RepoInv /\ Steady(req[p], p \in cut))
  BY DEF ImageInv, ManifestProp
<1>2. PICK d : d = req[p].d
  OBVIOUS
<1>3. /\ UNCHANGED <<repo, lastId, blobProp, tags, stored, blobRows, tainted, lostRace>>
      /\ manifestProp' = IF req[p].id = repo THEN manifestProp \cup {d} ELSE manifestProp
  BY <1>2 DEF ManifestProp, store, faults
<1>4. d \in Manifests /\ req[p].id # 0
  BY <1>1, <1>2 DEF Known
<1>5. RowsInv'
  BY <1>1, <1>3, <1>4 DEF RowsInv, Served, Kept
<1>6. (Excused' <=> Excused) /\ \A m \in manifestProp : m \in manifestProp'
  BY <1>3 DEF Excused
<1>7. ASSUME ~Excused
      PROVE  /\ Steady(req[p], p \in cut) /\ Kept(d) /\ d \in manifestProp'
             /\ \A m \in Served' : Complete(m)
  <2>1. RepoInv /\ Steady(req[p], p \in cut) /\ Complete(d) /\ req[p].id = repo
    BY <1>1, <1>2, <1>7 DEF Steady, Complete
  <2>2. \A m \in Served' : m \in Served \/ m = d
    BY <1>3 DEF Served
  <2> QED
    BY <1>3, <2>1, <2>2 DEF RepoInv, Complete
<1>8. CASE AckManifest(p) /\ Respond(p, "ok")
  BY <1>2, <1>3, <1>5, <1>6, <1>7, <1>8, AckKeeps
<1>9. CASE Goto(p, "package") /\ UNCHANGED acks
  <2>1. /\ ReqShape' /\ \A q \in Procs \ {p} : req'[q] = req[q]
        /\ req'[p].at = "package" /\ req'[p].d = d /\ req'[p].id = req[p].id
    BY <1>1, <1>2, <1>9, GotoReq
  <2>2. Known(req[p])'
    BY <1>1, <1>2, <1>3, <2>1 DEF Known
  <2>3. StepOf(p) /\ UNCHANGED <<acked, ackedManifests, cut>>
    BY <1>3, <1>6, <1>9, <2>1 DEF StepOf, acks
  <2>4. ASSUME ~Excused PROVE RepoInv' /\ Steady(req[p], p \in cut)'
    <3>1. RepoInv /\ \A e : Kept(e)' <=> Kept(e)
      BY <1>1, <1>3, <2>4 DEF Kept
    <3>2. RepoInv'
      BY <1>3, <1>6, <1>7, <2>3, <2>4, <3>1 DEF RepoInv, Complete
    <3>3. Steady(req[p], p \in cut)'
      BY <1>1, <1>2, <1>3, <1>7, <2>1, <2>4, <3>1 DEF Steady
    <3> QED
      BY <3>2, <3>3
  <2> QED
    BY <1>5, <1>6, <2>2, <2>3, <2>4, StepKeeps
<1> QED
  BY <1>8, <1>9 DEF ManifestProp, AfterProps

\* The tag is written with everything it needs in place, then its file row.
LEMMA TagKeeps ==
  ASSUME ImageInv, NEW p \in Procs, TagVersion(p) \/ TagFile(p)
  PROVE  ImageInv'
<1> USE DEF Wrote, Recorded, OfManifest, Holding, Checked, Linked, Named
<1>1. /\ ReqShape /\ RowsInv /\ Known(req[p]) /\ req[p].at \in {"version", "file"}
      /\ Excused \/ (RepoInv /\ Steady(req[p], p \in cut))
  BY DEF ImageInv, TagVersion, TagFile
<1>2. /\ UNCHANGED <<repo, lastId, blobProp, manifestProp, stored, blobRows, tainted, lostRace>>
      /\ Excused' <=> Excused
  BY DEF TagVersion, TagFile, repoRows, props, store, history, faults, Excused
<1>3. ASSUME UNCHANGED <<tags, acked, ackedManifests, cut>>, Respond(p, "refused") PROVE ImageInv'
  BY <1>2, <1>3, AnswerKeeps DEF props, store
<1>4. ASSUME UNCHANGED <<acked, ackedManifests, cut>>, Goto(p, "file"), req[p].at = "version",
             \/ req[p].id = Elsewhere /\ UNCHANGED tags
             \/ /\ req[p].id = repo
                /\ tags' = [tags EXCEPT ![req[p].tag] = IF @ = NoDigest THEN req[p].d ELSE @]
      PROVE  ImageInv'
  <2>1. PICK d : d = req[p].d
    OBVIOUS
  <2>2. /\ ReqShape' /\ \A q \in Procs \ {p} : req'[q] = req[q]
        /\ req'[p].at = "file" /\ req'[p].d = d /\ req'[p].id = req[p].id
    BY <1>1, <1>4, <2>1, GotoReq
  <2>3. d \in Manifests /\ req[p].id # 0
    BY <1>1, <2>1 DEF Known
  <2>4. /\ \A t \in Tags : tags'[t] = tags[t] \/ tags'[t] = d
        /\ tags' \in [Tags -> Manifests \cup {NoDigest}]
    BY <1>1, <1>4, <2>1, <2>3 DEF RowsInv
  <2>5. Known(req[p])' /\ StepOf(p)
    BY <1>1, <1>2, <1>4, <2>1, <2>2 DEF Known, StepOf
  <2>6. RowsInv'
    BY <1>1, <1>2, <1>4, <2>3, <2>4 DEF RowsInv, Served, Kept
  <2>7. ASSUME ~Excused PROVE RepoInv' /\ Steady(req[p], p \in cut)'
    <3>1. RepoInv /\ Steady(req[p], p \in cut) /\ \A e : Kept(e)' <=> Kept(e)
      BY <1>1, <1>2, <2>7 DEF Kept
    <3>2. Complete(d) /\ \A m \in Served' : m \in Served \/ m = d
      BY <1>2, <1>4, <2>1, <2>4, <3>1 DEF Steady, Served, Complete
    <3>3. RepoInv'
      BY <1>2, <1>4, <3>1, <3>2 DEF RepoInv, Complete
    <3>4. Steady(req[p], p \in cut)'
      BY <1>1, <1>2, <1>4, <2>1, <2>2, <3>1 DEF Steady
    <3> QED
      BY <3>3, <3>4
  <2> QED
    BY <1>2, <2>5, <2>6, <2>7, StepKeeps
<1>5. CASE TagVersion(p)
  BY <1>3, <1>4, <1>5, Zenon DEF TagVersion, history, acks
<1>6. CASE TagFile(p)
  <2>1. UNCHANGED tags
    BY <1>6 DEF TagFile, repoRows, props
  <2>2. RowsInv'
    BY <1>1, <1>2, <2>1, RowsStand DEF props, store
  <2>3. ASSUME ~Excused
        PROVE  /\ \A m \in Served' : Complete(m)
               /\ Kept(req[p].d)
               /\ p \in cut \/ req[p].d \in manifestProp'
    <3>1. RepoInv /\ Steady(req[p], p \in cut) /\ Served' = Served
      BY <1>1, <1>2, <2>1, <2>3 DEF Served
    <3> QED
      BY <1>1, <1>2, <3>1 DEF RepoInv, Steady
  <2>4. ASSUME AckManifest(p), Respond(p, "ok") PROVE ImageInv'
    BY <1>2, <2>1, <2>2, <2>3, <2>4, AckKeeps
  <2> QED
    BY <1>3, <1>6, <2>1, <2>4 DEF TagFile, acks
<1> QED
  BY <1>5, <1>6

\* A pull: what the tag or the child's digest gives is complete, and so is the rest.
LEMMA PullKeeps ==
  ASSUME ImageInv, NEW p \in Procs, PullStep(p)
  PROVE  ImageInv'
<1> USE DEF Wrote, Recorded, OfManifest, Holding, Checked, Linked, Named
<1>1. /\ ReqShape /\ RowsInv /\ Known(req[p])
      /\ Excused \/ (RepoInv /\ Steady(req[p], p \in cut))
  BY DEF ImageInv
<1>2. /\ UNCHANGED <<repo, lastId, props, store, blobProp, manifestProp, stored, blobRows>>
      /\ UNCHANGED <<acked, ackedManifests, cut, tainted, lostRace>>
  BY Zenon DEF PullStep, ResolveTag, ResolveDigest, ServeManifest, ServeBlob, repoRows, props,
               store, history, acks, faults
<1>3. ASSUME NEW answer, Respond(p, answer) PROVE ImageInv'
  BY <1>2, <1>3, AnswerKeeps DEF Excused
<1>4. ASSUME NEW m \in Served, NEW rest, rest \subseteq req[p].todo,
             req[p].at = "layers" \/ (req[p].at = "resolve" /\ rest = {}),
             ReqShape', \A q \in Procs \ {p} : req'[q] = req[q],
             req'[p].at = "serve", req'[p].d = m, req'[p].id = repo, req'[p].todo = rest
      PROVE  ImageInv'
  <2>1. m \in Manifests /\ repo # 0
    BY <1>1, <1>4 DEF RowsInv, Served
  <2>2. Known(req[p])' /\ (Excused' <=> Excused)
    BY <1>2, <1>4, <2>1 DEF Known, Digests, Excused
  <2>3. ASSUME ~Excused PROVE Steady(req[p], p \in cut)'
    <3>1. Complete(m) /\ Steady(req[p], p \in cut)
      BY <1>1, <1>4, <2>3 DEF RepoInv
    <3> QED
      BY <1>2, <1>4, <3>1 DEF Steady, Complete, Kept
  <2> QED
    BY <1>2, <1>4, <2>2, <2>3, MoveKeeps
<1>5. CASE ResolveTag(p)
  <2>1. PICK m : m = tags[req[p].tag]
    OBVIOUS
  <2>2. ASSUME m # NoDigest, req' = [req EXCEPT ![p].at = "serve", ![p].d = m, ![p].id = repo]
        PROVE  ImageInv'
    <3>1. PICK r : r = repo
      OBVIOUS
    <3>2. /\ ReqShape' /\ \A q \in Procs \ {p} : req'[q] = req[q]
          /\ req'[p].at = "serve" /\ req'[p].d = m /\ req'[p].id = r
          /\ req'[p].todo = req[p].todo
      BY <1>1, <2>2, <3>1 DEF ReqShape, Fields
    <3>3. m \in Served
      BY <1>1, <1>5, <2>1, <2>2 DEF ResolveTag, Known, Served
    <3>4. req[p].at = "resolve" /\ req[p].todo = {}
      BY <1>1, <1>5 DEF ResolveTag, Known
    <3> QED
      BY <1>4, <3>1, <3>2, <3>3, <3>4
  <2> QED
    BY <1>3, <1>5, <2>1, <2>2 DEF ResolveTag
<1>6. CASE ResolveDigest(p)
  <2>1. ASSUME NEW d \in req[p].todo, d \in manifestProp, req[p].at = "layers",
               req' = [req EXCEPT ![p] = [@ EXCEPT !.at = "serve", !.d = d, !.id = repo,
                                                  !.todo = req[p].todo \ {d}]]
        PROVE  ImageInv'
    <3>1. PICK rest : rest = req[p].todo \ {d}
      OBVIOUS
    <3>2. PICK r : r = repo
      OBVIOUS
    <3>3. /\ ReqShape' /\ \A q \in Procs \ {p} : req'[q] = req[q]
          /\ req'[p].at = "serve" /\ req'[p].d = d /\ req'[p].id = r /\ req'[p].todo = rest
      <4>1. PICK s : s = [req[p] EXCEPT !.at = "serve", !.d = d, !.id = r, !.todo = rest]
        OBVIOUS
      <4>2. /\ s = [k \in Fields |-> s[k]]
            /\ s.at = "serve" /\ s.d = d /\ s.id = r /\ s.todo = rest
        BY <1>1, <4>1 DEF ReqShape, Fields
      <4>3. req' = [req EXCEPT ![p] = s]
        BY <2>1, <3>1, <3>2, <4>1
      <4> QED
        BY <1>1, <4>2, <4>3 DEF ReqShape
    <3> QED
      BY <1>4, <2>1, <3>1, <3>2, <3>3 DEF Served
  <2> QED
    BY <1>3, <1>6, <2>1 DEF ResolveDigest
<1>7. ASSUME NEW rest, req[p].at \in {"serve", "layers"},
             Excused \/ \A d \in rest : Kept(d),
             ReqShape', \A q \in Procs \ {p} : req'[q] = req[q],
             req'[p].at = "layers", req'[p].d = req[p].d, req'[p].id = req[p].id,
             req'[p].todo = rest
      PROVE  ImageInv'
  <2>1. Known(req[p])' /\ (Excused' <=> Excused)
    BY <1>1, <1>2, <1>7 DEF Known, Excused
  <2>2. Excused \/ Steady(req[p], p \in cut)'
    BY <1>1, <1>2, <1>7 DEF Steady, Kept
  <2> QED
    BY <1>2, <1>7, <2>1, <2>2, MoveKeeps
<1>8. CASE ServeManifest(p)
  <2>1. ASSUME req' = [req EXCEPT ![p].at = "layers", ![p].todo = @ \cup Refs[req[p].d]]
        PROVE  ImageInv'
    <3>1. PICK rest : rest = req[p].todo \cup Refs[req[p].d]
      OBVIOUS
    <3>2. /\ ReqShape' /\ \A q \in Procs \ {p} : req'[q] = req[q]
          /\ req'[p].at = "layers" /\ req'[p].d = req[p].d /\ req'[p].id = req[p].id
          /\ req'[p].todo = rest
      BY <1>1, <2>1, <3>1 DEF ReqShape, Fields
    <3>3. req[p].at = "serve" /\ (Excused \/ \A d \in rest : Kept(d))
      BY <1>1, <1>8, <3>1 DEF ServeManifest, Steady
    <3> QED
      BY <1>7, <3>2, <3>3
  <2> QED
    BY <1>3, <1>8, <2>1 DEF ServeManifest
<1>9. CASE ServeBlob(p)
  <2>1. ASSUME NEW d \in req[p].todo, req' = [req EXCEPT ![p].todo = @ \ {d}] PROVE ImageInv'
    <3>1. PICK rest : rest = req[p].todo \ {d}
      OBVIOUS
    <3>2. /\ ReqShape' /\ \A q \in Procs \ {p} : req'[q] = req[q]
          /\ req'[p].at = "layers" /\ req'[p].d = req[p].d /\ req'[p].id = req[p].id
          /\ req'[p].todo = rest
      BY <1>1, <1>9, <2>1, <3>1 DEF ReqShape, Fields, ServeBlob
    <3>3. req[p].at = "layers" /\ (Excused \/ \A e \in rest : Kept(e))
      BY <1>1, <1>9, <3>1 DEF ServeBlob, Steady
    <3> QED
      BY <1>7, <3>2, <3>3
  <2> QED
    BY <1>3, <1>9, <2>1 DEF ServeBlob
<1> QED
  BY <1>5, <1>6, <1>8, <1>9 DEF PullStep

-----------------------------------------------------------------------------
\* A request that is not running knows nothing and needs nothing.
LEMMA IdleKnows ==
  ASSUME NEW r, NEW wasCut, r.at = "idle"
  PROVE  Known(r) /\ Steady(r, wasCut)
  BY DEF Known, Steady, Wrote, Recorded, OfManifest, Holding, Checked, Linked, Named

\* The administrator deletes the repository, which taints it unless nobody had looked it
\* up, or one version.
LEMMA AdminKeeps ==
  ASSUME ImageInv, DeletePackage \/ \E t \in Tags : DeleteVersion(t)
  PROVE  ImageInv'
<1>1. ReqShape /\ RowsInv /\ \A p \in Procs : Known(req[p])
  BY DEF ImageInv
<1>2. UNCHANGED <<req, lastId, stored, blobRows, cut, lostRace>>
  BY Zenon DEF DeletePackage, DeleteVersion, store, history, acks, faults
<1>3. ReqShape' /\ \A p \in Procs : Known(req[p])'
  BY <1>1, <1>2 DEF ReqShape, Known
<1>4. CASE DeletePackage
  <2>1. /\ repo' = 0 /\ manifestProp' = {} /\ blobProp' = [d \in Digests |-> NoDigest]
        /\ tags' = [t \in Tags |-> NoDigest] /\ acked' = {} /\ ackedManifests' = {}
        /\ tainted' = \E p \in Procs : req[p].id # 0
    BY <1>4 DEF DeletePackage
  <2>2. Served' = {} /\ \A d \in Digests : blobProp'[d] = NoDigest
    BY <2>1 DEF Served
  <2>3. RowsInv' /\ RepoInv'
    BY <1>1, <1>2, <2>1, <2>2, NoneAssumption DEF RowsInv, RepoInv, Kept
  <2>4. ASSUME ~Excused', NEW p \in Procs PROVE Steady(req[p], p \in cut)'
    <3>1. req[p].id = 0 /\ ~lostRace /\ Known(req[p])
      BY <1>1, <1>2, <2>1, <2>4 DEF Excused
    <3>2. req[p].at \notin Holding /\ (req[p].at = "blobRepo" => req[p].blob = req[p].d)
      BY <3>1 DEF Known
    <3> QED
      BY <1>2, <3>2 DEF Steady, Holding, Checked, Linked, Named
  <2> QED
    BY <1>3, <2>3, <2>4 DEF ImageInv
<1>5. ASSUME NEW t \in Tags, DeleteVersion(t) PROVE ImageInv'
  <2>1. /\ tags' = [tags EXCEPT ![t] = NoDigest]
        /\ UNCHANGED <<repo, blobProp, manifestProp, acked, ackedManifests, tainted>>
    BY <1>5 DEF DeleteVersion, history, acks, faults
  <2>2. (\A u \in Tags : tags'[u] = tags[u] \/ tags'[u] = NoDigest) /\ Served' \subseteq Served
    BY <1>1, <2>1 DEF RowsInv, Served
  <2>3. RowsInv' /\ \A d : Kept(d)' <=> Kept(d)
    BY <1>1, <1>2, <2>1, <2>2 DEF RowsInv, Kept
  <2>4. RepoInv => RepoInv'
    BY <2>1, <2>2, <2>3 DEF RepoInv, Complete
  <2>5. \A p \in Procs : Steady(req[p], p \in cut) => Steady(req[p], p \in cut)'
    BY <1>2, <2>1, <2>3 DEF Steady
  <2> QED
    BY <1>2, <1>3, <2>1, <2>3, <2>4, <2>5 DEF ImageInv, Excused
<1> QED
  BY <1>4, <1>5

\* Calls fail, property writes are lost and the process dies.
LEMMA FaultKeeps ==
  ASSUME ImageInv, (\E p \in Procs : PropertyLost(p) \/ Fail(p)) \/ Crash
  PROVE  ImageInv'
<1>1. ReqShape /\ RowsInv /\ \A p \in Procs : Known(req[p])
  BY DEF ImageInv
<1>2. UNCHANGED <<repo, lastId, props, store, blobProp, manifestProp, tags, stored, blobRows, lostRace>>
  BY Zenon DEF PropertyLost, Fail, Crash, repoRows, props, store, history, faults
<1>3. RowsInv' /\ \A d : Kept(d)' <=> Kept(d)
  BY <1>1, <1>2, RowsStand
<1>4. ASSUME NEW p \in Procs, PropertyLost(p) PROVE ImageInv'
  <2>1. Excused' /\ UNCHANGED cut
    BY <1>4 DEF PropertyLost, AckBlob, AfterProps, AckManifest, Excused, acks
  <2>2. ASSUME NEW answer, Respond(p, answer) PROVE ImageInv'
    <3>1. /\ ReqShape' /\ \A q \in Procs \ {p} : req'[q] = req[q]
          /\ Known(req[p])'
      BY <1>1, <2>2, RespondReq
    <3>2. StepOf(p)
      BY <1>2, <2>1, <3>1 DEF StepOf
    <3> QED
      BY <1>3, <2>1, <3>1, <3>2, StepKeeps
  <2>3. ASSUME NEW l \in {"manifest", "package"}, Goto(p, l), req[p].at \in {"prop", "manifest"}
        PROVE  ImageInv'
    <3>1. /\ ReqShape' /\ \A q \in Procs \ {p} : req'[q] = req[q]
          /\ req'[p].at = l /\ req'[p].d = req[p].d /\ req'[p].id = req[p].id
      BY <1>1, <2>3, GotoReq
    <3>2. Known(req[p])' /\ StepOf(p)
      BY <1>1, <1>2, <2>1, <2>3, <3>1 DEF Known, StepOf, Wrote, Recorded, OfManifest, Holding, Checked, Linked
    <3> QED
      BY <1>3, <2>1, <3>2, StepKeeps
  <2> QED
    BY <1>4, <2>2, <2>3 DEF PropertyLost, AfterProps
<1>5. ASSUME NEW p \in Procs, Fail(p) PROVE ImageInv'
  BY <1>2, <1>5, AnswerKeeps DEF Fail, history, acks, faults, Excused
<1>6. CASE Crash
  <2>1. /\ req' = [p \in Procs |-> NoReq]
        /\ UNCHANGED <<acked, ackedManifests, cut, tainted>>
    BY <1>6 DEF Crash, history, acks, faults
  <2>2. ReqShape' /\ \A p \in Procs : req'[p].at = "idle"
    BY <2>1 DEF ReqShape, Fields, NoReq
  <2>3. ASSUME NEW p \in Procs PROVE Known(req[p])' /\ Steady(req[p], p \in cut)'
    BY <2>2, <2>3 DEF Known, Steady, Wrote, Recorded, OfManifest, Holding, Checked, Linked, Named
  <2>4. (Excused' <=> Excused) /\ (RepoInv => RepoInv')
    BY <1>2, <2>1, RepoStands DEF Excused
  <2> QED
    BY <1>3, <2>2, <2>3, <2>4 DEF ImageInv
<1> QED
  BY <1>4, <1>5, <1>6

-----------------------------------------------------------------------------
\* What requests know of the repository stays true while they run.
THEOREM ImageHolds == Spec => []ImageInv
<1>1. Init => ImageInv
  <2> SUFFICES ASSUME Init PROVE ImageInv
    OBVIOUS
  <2>1. ReqShape /\ \A p \in Procs : req[p].at = "idle"
    BY DEF Init, ReqShape, Fields, NoReq
  <2>2. Served = {} /\ \A d \in Digests : blobProp[d] = NoDigest
    BY DEF Init, Served
  <2>3. RowsInv /\ RepoInv
    BY <2>2, NoneAssumption DEF Init, RowsInv, RepoInv, Kept
  <2> QED
    BY <2>1, <2>3, IdleKnows DEF ImageInv
<1>2. ImageInv /\ [Next]_vars => ImageInv'
  <2> SUFFICES ASSUME ImageInv, [Next]_vars PROVE ImageInv'
    OBVIOUS
  <2>1. CASE UNCHANGED vars
    <3>1. UNCHANGED <<repo, lastId, props, store, blobProp, manifestProp, blobRows, stored, tags>>
      BY <2>1 DEF vars, repoRows, props, store
    <3>2. UNCHANGED <<req, acked, ackedManifests, cut, tainted, lostRace>>
      BY <2>1 DEF vars, history, acks, faults
    <3>3. RowsInv' /\ (RepoInv => RepoInv') /\ (Excused' <=> Excused)
      BY <3>1, <3>2, RowsStand, RepoStands DEF ImageInv, Excused
    <3>4. ReqShape' /\ \A p \in Procs : Known(req[p])'
      BY <3>1, <3>2 DEF ImageInv, ReqShape, Known
    <3>5. \A p \in Procs : Steady(req[p], p \in cut) => Steady(req[p], p \in cut)'
      BY <3>1, <3>2 DEF Steady, Kept
    <3> QED
      BY <3>3, <3>4, <3>5 DEF ImageInv
  <2>2. ASSUME NEW p \in Procs, PushStep(p) PROVE ImageInv'
    <3>1. CASE BlobRow(p) \/ ManifestRow(p)
      BY <3>1, RowKeeps DEF BlobRow, ManifestRow
    <3>2. CASE BlobRepo(p) \/ ManifestRepo(p) \/ TagPackage(p)
      BY <3>2, RepoKeeps DEF BlobRepo, ManifestRepo, TagPackage
    <3> QED
      BY <2>2, <3>1, <3>2, SaveKeeps, PropKeeps, CheckKeeps, ManifestKeeps, TagKeeps, Zenon
         DEF PushStep
  <2>3. CASE Environment
    BY <2>3, AdminKeeps, FaultKeeps, Zenon DEF Environment
  <2> QED
    BY <2>1, <2>2, <2>3, ArriveKeeps, PullKeeps, Zenon DEF Next
<1> QED
  BY <1>1, <1>2, PTL DEF Spec

\* What a client is given by tag or by digest is complete, although putManifest checks
\* the references long before it writes the properties and CreatePackageOrAddFileToExisting
\* the tag, for any number of pushes, pulls and deletions at once; but for what Excused
\* names.
THEOREM TaggedImageCompleteHolds == Spec => []TaggedImageComplete
<1>1. ASSUME ImageInv, ~Excused, NEW m \in Served, NEW d \in {m} \cup Refs[m]
      PROVE  Reachable(d)
  <2>1. RowsInv /\ Complete(m)
    BY <1>1 DEF ImageInv, RepoInv
  <2>2. Kept(d)
    BY <1>1, <2>1 DEF Complete
  <2> QED
    BY <2>1, <2>2 DEF RowsInv, Kept, Reachable
<1>2. ImageInv => TaggedImageComplete
  BY <1>1 DEF TaggedImageComplete
<1> QED
  BY <1>2, ImageHolds, PTL

\* What finalizeUpload and putManifest answered with 201 can be fetched, a manifest also
\* by its digest until that is deleted; but for what Excused names.
THEOREM AckedStaysHolds == Spec => []AckedStays
<1>1. ASSUME ImageInv, ~Excused, NEW d \in acked PROVE Reachable(d)
  <2>1. RowsInv /\ Kept(d)
    BY <1>1 DEF ImageInv, RepoInv
  <2> QED
    BY <2>1 DEF RowsInv, Kept, Reachable
<1>2. ImageInv => AckedStays
  BY <1>1 DEF AckedStays, ImageInv, RepoInv
<1> QED
  BY <1>2, ImageHolds, PTL

-----------------------------------------------------------------------------
\* A pull meets a 404 or wrong bytes after it was given the tag's manifest, or a child
\* manifest that no digest resolves to.
MeetsGap(p) ==
    \/ req[p].at = "serve" /\ (req[p].id = repo => ~Reachable(req[p].d))
    \/ req[p].at = "layers" /\ \E d \in req[p].todo : ~Reachable(d)
MeetsUnknown(p) ==
    req[p].at = "layers" /\ \E d \in req[p].todo \cap Manifests : d \notin manifestProp

\* What a step tells a client.
Tells(p) == \E answer :
    /\ resp' = [resp EXCEPT ![p] = answer]
    /\ answer = "incomplete" => MeetsGap(p)
    /\ answer = "unknown" => MeetsUnknown(p)

\* Every step answers one client or none.
LEMMA AnswersOne ==
  ASSUME [Next]_vars
  PROVE  UNCHANGED resp \/ \E p \in Procs : Tells(p)
<1>1. CASE UNCHANGED vars
  BY <1>1 DEF vars
<1>2. ASSUME NEW p \in Procs, NEW answer, answer \notin {"incomplete", "unknown"},
             Respond(p, answer)
      PROVE  Tells(p)
  BY <1>2 DEF Respond, Tells
<1>3. ASSUME NEW p \in Procs, NEW r, Begin(p, r) PROVE Tells(p)
  <2>1. PICK answer : answer = "none"
    OBVIOUS
  <2>2. resp' = [resp EXCEPT ![p] = answer]
    BY <1>3, <2>1, Zenon DEF Begin
  <2>3. answer # "incomplete" /\ answer # "unknown"
    BY <2>1
  <2> QED
    BY <2>2, <2>3 DEF Tells
<1>4. ASSUME NEW p \in Procs, Arrive(p) PROVE Tells(p)
  <2>1. ASSUME NEW t \in Tags, DeleteTag(p, t) PROVE Tells(p)
    BY <1>2, <2>1 DEF DeleteTag
  <2>2. ASSUME NEW m \in Manifests, DeleteManifest(p, m) PROVE Tells(p)
    BY <1>2, <2>2 DEF DeleteManifest
  <2>3. ASSUME NEW d, PushBlob(p, d) PROVE Tells(p)
    BY <1>3, <2>3 DEF PushBlob
  <2>4. ASSUME NEW m, NEW t, PutManifest(p, m, t) PROVE Tells(p)
    BY <1>3, <2>4 DEF PutManifest
  <2>5. ASSUME NEW t, Pull(p, t) PROVE Tells(p)
    BY <1>3, <2>5 DEF Pull
  <2> QED
    BY <1>4, <2>1, <2>2, <2>3, <2>4, <2>5 DEF Arrive
<1>5. ASSUME NEW p \in Procs, PushStep(p) PROVE UNCHANGED resp \/ Tells(p)
  <2>1. CASE CheckRefs(p) \/ IngestGate(p) \/ ManifestProp(p) \/ TagVersion(p) \/ TagFile(p)
             \/ BlobProp(p)
    BY <1>2, <2>1 DEF CheckRefs, IngestGate, ManifestProp, AfterProps, TagVersion, TagFile, BlobProp
  <2>2. CASE SaveBlob(p) \/ SaveManifest(p) \/ ManifestBlobProp(p)
    BY <2>2 DEF SaveBlob, SaveManifest, ManifestBlobProp
  <2>3. CASE BlobRow(p) \/ ManifestRow(p)
    BY <1>2, <2>3 DEF BlobRow, ManifestRow, GetOrCreateBlob, SelectRow, InsertRow, RowConflict, Sub
  <2>4. CASE BlobRepo(p) \/ ManifestRepo(p) \/ TagPackage(p)
    BY <1>2, <2>4 DEF BlobRepo, ManifestRepo, TagPackage, RepoPackage, SelectRepo, InsertRepo,
                      RepoConflict, Sub
  <2> QED
    BY <1>5, <2>1, <2>2, <2>3, <2>4, Zenon DEF PushStep
<1>6. ASSUME NEW p \in Procs, PullStep(p) PROVE UNCHANGED resp \/ Tells(p)
  <2>1. ASSUME Respond(p, "incomplete"), MeetsGap(p) PROVE Tells(p)
    <3>1. PICK answer : answer = "incomplete"
      OBVIOUS
    <3>2. resp' = [resp EXCEPT ![p] = answer]
      BY <2>1, <3>1, Zenon DEF Respond
    <3>3. answer # "unknown"
      BY <3>1
    <3> QED
      BY <2>1, <3>2, <3>3 DEF Tells
  <2>2. ASSUME Respond(p, "unknown"), MeetsUnknown(p) PROVE Tells(p)
    <3>1. PICK answer : answer = "unknown"
      OBVIOUS
    <3>2. resp' = [resp EXCEPT ![p] = answer]
      BY <2>2, <3>1, Zenon DEF Respond
    <3>3. answer # "incomplete"
      BY <3>1
    <3> QED
      BY <2>2, <3>2, <3>3 DEF Tells
  <2>3. CASE ResolveTag(p)
    BY <1>2, <2>3 DEF ResolveTag
  <2>4. CASE ResolveDigest(p)
    BY <2>2, <2>4 DEF ResolveDigest, MeetsUnknown
  <2>5. CASE ServeManifest(p)
    BY <2>1, <2>5 DEF ServeManifest, MeetsGap
  <2>6. CASE ServeBlob(p)
    <3>1. ASSUME NEW d \in req[p].todo, ~Reachable(d), Respond(p, "incomplete") PROVE Tells(p)
      BY <2>1, <2>6, <3>1 DEF ServeBlob, MeetsGap
    <3>2. ASSUME NEW d, blobProp[d] \notin blobRows PROVE ~Reachable(d)
      BY <3>2 DEF Reachable
    <3> QED
      BY <1>2, <2>6, <3>1, <3>2 DEF ServeBlob
  <2> QED
    BY <1>6, <2>3, <2>4, <2>5, <2>6 DEF PullStep
<1>7. CASE Environment
  <2>1. ASSUME NEW p \in Procs, PropertyLost(p) \/ Fail(p) PROVE UNCHANGED resp \/ Tells(p)
    BY <1>2, <2>1 DEF PropertyLost, AfterProps, Fail
  <2>2. CASE DeletePackage \/ (\E t \in Tags : DeleteVersion(t)) \/ Crash
    BY <2>2, Zenon DEF DeletePackage, DeleteVersion, Crash
  <2> QED
    BY <1>7, <2>1, <2>2 DEF Environment
<1> QED
  BY <1>1, <1>4, <1>5, <1>6, <1>7 DEF Next

\* A client that is given a tag's manifest can fetch the whole image, whatever is pushed
\* or deleted while it pulls, but for a child manifest that was deleted by its digest or
\* never acknowledged as a manifest, and for what Excused names.
THEOREM PullNeverIncompleteHolds == Spec => PullNeverIncomplete
<1> DEFINE Told == resp = [p \in Procs |-> resp[p]]
           Step == [\A p \in Procs :
                      /\ resp'[p] = "incomplete" /\ resp[p] # "incomplete" => Excused
                      /\ resp'[p] = "unknown" /\ resp[p] # "unknown" =>
                           \/ Excused
                           \/ \E c \in req[p].todo \cap Manifests :
                                c \notin manifestProp /\ c \notin ackedManifests]_vars
<1>1. Init => Told
  BY DEF Init
<1>2. Told /\ [Next]_vars => Told'
  BY AnswersOne DEF Tells
<1>3. ASSUME ImageInv, Told, [Next]_vars, NEW q \in Procs, resp'[q] # resp[q],
             resp'[q] \in {"incomplete", "unknown"}
      PROVE  /\ resp'[q] = "incomplete" => MeetsGap(q)
             /\ resp'[q] = "unknown" => MeetsUnknown(q)
  <2>1. PICK p \in Procs : Tells(p)
    BY <1>3, AnswersOne
  <2> QED
    BY <1>3, <2>1 DEF Tells
<1>4. ASSUME ImageInv, ~Excused, NEW q \in Procs PROVE ~MeetsGap(q)
  <2>1. Steady(req[q], q \in cut) /\ RowsInv
    BY <1>4 DEF ImageInv
  <2>2. /\ req[q].at = "serve" => req[q].id = repo /\ Kept(req[q].d)
        /\ req[q].at = "layers" => \A d \in req[q].todo : Kept(d)
    BY <2>1 DEF Steady, Linked, Checked, Holding
  <2>3. \A d : Kept(d) => Reachable(d)
    BY <2>1 DEF RowsInv, Kept, Reachable
  <2> QED
    BY <2>2, <2>3 DEF MeetsGap
<1>5. ASSUME ImageInv, ~Excused, NEW q \in Procs, MeetsUnknown(q)
      PROVE  \E c \in req[q].todo \cap Manifests : c \notin manifestProp /\ c \notin ackedManifests
  BY <1>5 DEF ImageInv, RepoInv, MeetsUnknown
<1>6. ImageInv /\ Told /\ [Next]_vars => Step
  BY <1>3, <1>4, <1>5
<1>7. Spec => []Told
  BY <1>1, <1>2, PTL DEF Spec
<1> QED
  BY <1>6, <1>7, ImageHolds, PTL DEF Spec, PullNeverIncomplete

=============================================================================
