------------------------- MODULE PullThroughProofs -------------------------
(***************************************************************************)
(* Proofs about the pull-through formats, for any number of requests,      *)
(* files, versions and rules.  PyPI is extended; RubyGems and GoProxy are  *)
(* instantiated beside it, on the same Registry and the same variables.    *)
(*                                                                         *)
(* The handlers decide at one call and act several calls later, so each    *)
(* inductive invariant carries what a request has established at its       *)
(* position: the hash of what it fetched, the verdict it was given, the    *)
(* provenance it was let through on, the row it is about to write to.      *)
(*                                                                         *)
(* OneZipAssumption is for the Go module proxy; nothing else cites it.     *)
(***************************************************************************)
EXTENDS PyPI, GoModule, FiniteSetTheorems, TLAPS

CONSTANT LicenseOf
Gem == INSTANCE RubyGems
Go == INSTANCE GoProxy

-----------------------------------------------------------------------------
(* PyPI. *)

LocalFields == {"op", "file", "sha", "lic", "pkgId", "verId", "via", "want", "havePub", "attrs", "local"}
IsLocal(r) == r = [k \in LocalFields |-> r[k]]

Shape ==
    /\ pc = [p \in Procs |-> pc[p]]
    /\ rq = [p \in Procs |-> rq[p]] /\ \A p \in Procs : IsLocal(rq[p])
    /\ resp = [p \in Procs |-> resp[p]]

\* The rule in force keeps the version of file f from clients.
Hidden(f) == rule.kind = "cooldown" /\ IsBlocked(rule.action) /\ VerOf[f] \in Young

\* The calls of CreatePackageOrAddFileToExisting.
Service == {"svcPackage", "svcVersion", "svcFile"}

\* A download before it has the bytes.
Pulling == {"lookup", "fetchIndex", "ingestGate", "fetchBlob"}

\* What a request at position l with locals r has established.
ReqOk(l, r) ==
    /\ l = "gate" => r.op = "upload"
    /\ l \in Pulling => r.op = "download"
    /\ l \in Service /\ r.op = "download" => r.want \in {r.sha, NoContent}
    /\ l = "svcVersion" => r.pkgId # 0
    /\ l = "serve" => "rule" \in Env \/ ~Hidden(r.file)
    /\ l \in Service /\ r.op = "upload" => "flip" \in Env \/ overlapped \/ pkg.via # "pull_through"

RespOk(r) == r.code = "200" /\ r.sha # NoContent => "rule" \in Env \/ ~Hidden(r.file)

\* Uploads and pull-throughs were never in flight together.
Apart == \A p, q \in Procs : ~Overlap(rq[p].op, rq[q].op)

Requests ==
    /\ Shape
    /\ overlapped \/ Apart
    /\ \A p \in Procs : ReqOk(pc[p], rq[p])
    /\ \A p \in Procs : RespOk(resp[p])

Rows ==
    /\ pkg = [id |-> pkg.id, via |-> pkg.via]
    /\ pkg.id = 0 => versions = {} /\ files = {}
    /\ UpstreamBytesVerified
    /\ MirroredUnlessOverlap

PullInv == rule \in Rule /\ Requests /\ Rows

-----------------------------------------------------------------------------
\* AUTOINCREMENT never gives 0, which stands for no row.
LEMMA UnusedId ==
  ASSUME NEW S, IsFiniteSet(S)
  PROVE  Unused(S) \notin S /\ Unused(S) \in Nat \ {0}
<1>1. PICK c \in Nat : c = Cardinality(S)
  BY FS_CardinalityType
<1>2. IsFiniteSet(1 .. c + 1) /\ Cardinality(1 .. c + 1) = c + 1
  BY FS_Interval
<1>3. \E n \in 1 .. c + 1 : n \notin S
  <2> SUFFICES ASSUME \A n \in 1 .. c + 1 : n \in S PROVE FALSE
    OBVIOUS
  <2>1. (1 .. c + 1) \in SUBSET S
    OBVIOUS
  <2>2. c + 1 <= c
    BY <1>1, <1>2, <2>1, FS_Subset
  <2> QED
    BY <1>1, <2>2
<1>4. Unused(S) \in 1 .. c + 1 /\ Unused(S) \notin S
  BY <1>1, <1>3 DEF Unused
<1> QED
  BY <1>1, <1>4

\* A new package has an id.
LEMMA FreshPackageId == FreshPackage # 0
<1>1. PICK T : T = {rq[p].pkgId : p \in Procs}
  OBVIOUS
<1>2. PICK f : f = [p \in Procs |-> rq[p].pkgId]
  OBVIOUS
<1>3. f \in Surjection(Procs, T)
  BY <1>1, <1>2 DEF Surjection
<1>4. IsFiniteSet(T)
  BY <1>3, FS_Surjection, ProcsAssumption
<1>5. IsFiniteSet(T \cup {pkg.id})
  BY <1>4, FS_AddElement
<1>6. FreshPackage = Unused(T \cup {pkg.id})
  <2>1. {pkg.id} \cup T = T \cup {pkg.id}
    OBVIOUS
  <2> QED
    BY <1>1, <2>1 DEF FreshPackage
<1> QED
  BY <1>5, <1>6, UnusedId

\* A young version is blocked by a cooldown that blocks, whatever is known of it.
LEMMA YoungBlocked ==
  ASSUME rule \in Rule, NEW f, Hidden(f), NEW a
  PROVE  IsBlocked(Evaluate(rule, VerOf[f], a))
  BY DEF Hidden, Evaluate, CooldownEvaluate, Rule

-----------------------------------------------------------------------------
\* What one request does, as the others see it.
StepOf(p) ==
    /\ Shape'
    /\ \A q \in Procs \ {p} : pc'[q] = pc[q] /\ rq'[q] = rq[q] /\ resp'[q] = resp[q]
    /\ rq'[p].op = rq[p].op \/ rq'[p].op = "none"
    /\ UNCHANGED <<rule, overlapped>>

\* The provenance of a package does not become "mirrored" under an upload.
ViaStays == pkg'.via = pkg.via \/ pkg'.via # "pull_through"

\* A request that knows what its new position needs keeps the invariant.
LEMMA StepRequests ==
  ASSUME rule \in Rule, Requests, NEW p \in Procs, StepOf(p),
         ViaStays \/ \A q \in Procs : overlapped \/ rq[q].op # "upload",
         ReqOk(pc[p], rq[p])', RespOk(resp[p])'
  PROVE  Requests'
<1>1. (overlapped \/ Apart)'
  BY DEF Requests, Apart, Overlap, StepOf, MayPullThrough
<1>2. \A f : Hidden(f)' <=> Hidden(f)
  BY DEF Hidden, StepOf
<1>3. ASSUME NEW q \in Procs PROVE ReqOk(pc[q], rq[q])'
  <2>1. CASE q = p
    BY <2>1
  <2>2. CASE q # p
    <3>1. ReqOk(pc[q], rq[q]) /\ pc'[q] = pc[q] /\ rq'[q] = rq[q] /\ overlapped' = overlapped
      BY <2>2 DEF Requests, StepOf
    <3> QED
      BY <1>2, <3>1 DEF ReqOk, ViaStays
  <2> QED
    BY <2>1, <2>2
<1>4. ASSUME NEW q \in Procs PROVE RespOk(resp[q])'
  <2>1. CASE q = p
    BY <2>1
  <2>2. CASE q # p
    <3>1. RespOk(resp[q]) /\ resp'[q] = resp[q]
      BY <2>2 DEF Requests, StepOf
    <3> QED
      BY <1>2, <3>1 DEF RespOk
  <2> QED
    BY <2>1, <2>2
<1> QED
  BY <1>1, <1>3, <1>4 DEF Requests, StepOf

\* How the handlers assign the request: one that is answered knows nothing any more, ...
LEMMA AnswerStep ==
  ASSUME Shape, NEW p \in Procs, NEW r, RespondWith(p, r), UNCHANGED <<rule, overlapped>>
  PROVE  /\ StepOf(p) /\ resp'[p] = r /\ ReqOk(pc[p], rq[p])'
         /\ pc'[p] = "idle" /\ rq'[p] = NoLocal
<1>1. /\ pc' = [pc EXCEPT ![p] = "idle"] /\ rq' = [rq EXCEPT ![p] = NoLocal]
      /\ resp' = [resp EXCEPT ![p] = r]
  BY DEF RespondWith, Goto
<1>2. IsLocal(NoLocal) /\ NoLocal.op = "none"
  BY DEF IsLocal, LocalFields, NoLocal
<1>3. /\ Shape' /\ pc'[p] = "idle" /\ rq'[p] = NoLocal /\ resp'[p] = r
      /\ \A q \in Procs \ {p} : pc'[q] = pc[q] /\ rq'[q] = rq[q] /\ resp'[q] = resp[q]
  BY <1>1, <1>2 DEF Shape
<1> QED
  BY <1>2, <1>3 DEF StepOf, ReqOk, Service, Pulling

\* ... one that goes on keeps what it was told before.
LEMMA MoveStep ==
  ASSUME Shape, NEW p \in Procs, NEW l, Goto(p, l), NEW r, rq' = [rq EXCEPT ![p] = r], IsLocal(r),
         r.op = rq[p].op, UNCHANGED <<rule, overlapped, resp>>
  PROVE  StepOf(p) /\ pc'[p] = l /\ rq'[p] = r /\ resp'[p] = resp[p]
  BY DEF Shape, Goto, StepOf

\* A request that is answered without bytes.
LEMMA RespondRequests ==
  ASSUME rule \in Rule, Requests, NEW p \in Procs, NEW code, Respond(p, code),
         UNCHANGED <<rule, overlapped, pkg>>
  PROVE  Requests'
<1>1. PICK r : r = [NoResp EXCEPT !.code = code, !.file = rq[p].file]
  OBVIOUS
<1>2. RespondWith(p, r) /\ r.sha = NoContent
  BY <1>1 DEF Respond, NoResp
<1>3. StepOf(p) /\ resp'[p] = r /\ ReqOk(pc[p], rq[p])'
  BY <1>2, AnswerStep DEF Requests
<1>4. RespOk(resp[p])' /\ ViaStays
  BY <1>2, <1>3 DEF RespOk, ViaStays
<1> QED
  BY <1>3, <1>4, StepRequests

\* A request that is given the bytes of a file that is not hidden.
LEMMA ServeRequests ==
  ASSUME rule \in Rule, Requests, NEW p \in Procs, NEW c, ServeBytes(p, c),
         UNCHANGED <<rule, overlapped, pkg>>, "rule" \in Env \/ ~Hidden(rq[p].file)
  PROVE  Requests'
<1>1. PICK r : r = [NoResp EXCEPT !.code = "200", !.file = rq[p].file, !.sha = c]
  OBVIOUS
<1>2. RespondWith(p, r) /\ r.file = rq[p].file
  BY <1>1 DEF ServeBytes, NoResp
<1>3. StepOf(p) /\ resp'[p] = r /\ ReqOk(pc[p], rq[p])'
  BY <1>2, AnswerStep DEF Requests
<1>4. RespOk(resp[p])' /\ ViaStays
  BY <1>2, <1>3 DEF RespOk, ViaStays, Hidden
<1> QED
  BY <1>3, <1>4, StepRequests

\* A request that goes on, the package as it was.
LEMMA MoveRequests ==
  ASSUME rule \in Rule, Requests, NEW p \in Procs, NEW l, Goto(p, l),
         NEW r, rq' = [rq EXCEPT ![p] = r], IsLocal(r), r.op = rq[p].op,
         UNCHANGED <<rule, overlapped, resp, pkg>>, ReqOk(l, r)
  PROVE  Requests'
<1>1. StepOf(p) /\ pc'[p] = l /\ rq'[p] = r /\ resp'[p] = resp[p]
  BY MoveStep DEF Requests
<1>2. ViaStays /\ RespOk(resp[p])
  BY DEF ViaStays, Requests
<1>3. ReqOk(pc[p], rq[p])' /\ RespOk(resp[p])'
  BY <1>1, <1>2 DEF ReqOk, RespOk, Hidden
<1> QED
  BY <1>1, <1>2, <1>3, StepRequests
\* The rows after a step that neither creates a package nor adds a file.
LEMMA RowsStay ==
  ASSUME Rows, UNCHANGED <<pkg, files>>, versions' = versions \/ pkg.id # 0 \/ versions' = {},
         overlapped => overlapped'
  PROVE  Rows'
  BY DEF Rows, UpstreamBytesVerified, MirroredUnlessOverlap

-----------------------------------------------------------------------------
\* Requests that arrive; an upload and a download together are remembered as an overlap.
LEMMA BeginKeeps ==
  ASSUME PullInv, NEW p \in Procs, NEW l, NEW r, IsLocal(r), Begin(p, l, r),
         l \notin Service, l # "serve", l = "gate" => r.op = "upload", l \in Pulling => r.op = "download"
  PROVE  PullInv'
<1>1. /\ pc' = [pc EXCEPT ![p] = l] /\ rq' = [rq EXCEPT ![p] = r] /\ resp' = [resp EXCEPT ![p] = NoResp]
      /\ UNCHANGED <<pkg, versions, files, rule>>
  BY DEF Begin, Goto, rows, world
<1>2. overlapped' = (overlapped \/ \E q \in Procs : Overlap(r.op, rq[q].op) \/ Overlap(rq[q].op, r.op))
  BY DEF Begin
<1>3. /\ Shape' /\ pc'[p] = l /\ rq'[p] = r /\ resp'[p] = NoResp
      /\ \A q \in Procs \ {p} : pc'[q] = pc[q] /\ rq'[q] = rq[q] /\ resp'[q] = resp[q]
  BY <1>1 DEF PullInv, Requests, Shape
<1>4. overlapped => overlapped'
  BY <1>2
<1>5. (overlapped \/ Apart)'
  <2> SUFFICES ASSUME ~overlapped' PROVE Apart'
    OBVIOUS
  <2>1. Apart /\ \A q \in Procs : ~Overlap(r.op, rq[q].op) /\ ~Overlap(rq[q].op, r.op)
    BY <1>2 DEF PullInv, Requests
  <2>2. ~Overlap(r.op, r.op)
    BY DEF Overlap, MayPullThrough
  <2> QED
    BY <1>3, <2>1, <2>2 DEF Apart, Overlap
<1>6. \A f : Hidden(f)' <=> Hidden(f)
  BY <1>1 DEF Hidden
<1>7. ASSUME NEW q \in Procs PROVE ReqOk(pc[q], rq[q])'
  <2>1. CASE q = p
    BY <1>3, <2>1 DEF ReqOk, Service
  <2>2. CASE q # p
    <3>1. ReqOk(pc[q], rq[q]) /\ pc'[q] = pc[q] /\ rq'[q] = rq[q]
      BY <1>3, <2>2 DEF PullInv, Requests
    <3> QED
      BY <1>1, <1>4, <1>6, <3>1 DEF ReqOk
  <2> QED
    BY <2>1, <2>2
<1>8. ASSUME NEW q \in Procs PROVE RespOk(resp[q])'
  <2>1. CASE q = p
    BY <1>3, <2>1 DEF RespOk, NoResp
  <2>2. CASE q # p
    <3>1. RespOk(resp[q]) /\ resp'[q] = resp[q]
      BY <1>3, <2>2 DEF PullInv, Requests
    <3> QED
      BY <1>6, <3>1 DEF RespOk
  <2> QED
    BY <2>1, <2>2
<1>9. Rows'
  BY <1>1, <1>4, RowsStay DEF PullInv
<1> QED
  BY <1>1, <1>3, <1>5, <1>7, <1>8, <1>9 DEF PullInv, Requests

\* upload, download and packageIndex.
LEMMA ArriveKeeps ==
  ASSUME PullInv, NEW p \in Procs, Arrive(p)
  PROVE  PullInv'
<1>1. ASSUME NEW f, NEW c, NEW lic, Upload(p, f, c, lic) PROVE PullInv'
  <2>1. PICK r : r = [NoLocal EXCEPT !.op = "upload", !.file = f, !.sha = c, !.lic = lic]
    OBVIOUS
  <2>2. IsLocal(r) /\ r.op = "upload"
    BY <2>1 DEF IsLocal, LocalFields, NoLocal
  <2>3. PICK l \in {"refuse", "gate"} : Begin(p, l, r)
    BY <1>1, <2>1 DEF Upload
  <2> QED
    BY <2>2, <2>3, BeginKeeps DEF Service, Pulling
<1>2. ASSUME NEW f, Download(p, f) PROVE PullInv'
  <2>1. PICK r : r = [NoLocal EXCEPT !.op = "download", !.file = f]
    OBVIOUS
  <2>2. IsLocal(r) /\ r.op = "download"
    BY <2>1 DEF IsLocal, LocalFields, NoLocal
  <2>3. PICK l : l = "lookup" /\ Begin(p, l, r)
    BY <1>2, <2>1 DEF Download
  <2>4. l \notin Service /\ l # "serve" /\ l # "gate"
    BY <2>3 DEF Service
  <2> QED
    BY <2>2, <2>3, <2>4, BeginKeeps
<1>3. CASE Index(p)
  <2>1. PICK r : r = [NoLocal EXCEPT !.op = "index"]
    OBVIOUS
  <2>2. IsLocal(r)
    BY <2>1 DEF IsLocal, LocalFields, NoLocal
  <2> QED
    BY <1>3, <2>1, <2>2, BeginKeeps DEF Service, Pulling, Index
<1> QED
  BY <1>1, <1>2, <1>3 DEF Arrive

\* An UPDATE of no rows.
LEMMA UpdatedNone ==
  ASSUME NEW i, NEW new(_), versions = {}
  PROVE  Updated(i, new) = {}
  BY DEF Updated

\* The steps of the upload before and after the service.
LEMMA UploadKeeps ==
  ASSUME PullInv, NEW p \in Procs, Refuse(p) \/ ProvenanceGate(p) \/ SetLicense(p)
  PROVE  PullInv'
<1>1. rule \in Rule /\ Requests /\ Rows /\ IsLocal(rq[p]) /\ ReqOk(pc[p], rq[p])
  BY DEF PullInv, Requests, Shape
<1>2. CASE Refuse(p)
  BY <1>1, <1>2, RespondRequests, RowsStay DEF Refuse, rows, world, history, PullInv
<1>3. CASE ProvenanceGate(p)
  <2>1. UNCHANGED <<pkg, versions, files, rule, overlapped>>
    BY <1>3 DEF ProvenanceGate, rows, world, history
  <2>2. Rows'
    BY <1>1, <2>1, RowsStay
  <2>3. CASE Respond(p, "409")
    BY <1>1, <2>1, <2>2, <2>3, RespondRequests DEF PullInv
  <2>4. CASE pkg.via # "pull_through" /\ Goto(p, "svcPackage") /\ UNCHANGED <<rq, resp>> /\ pc[p] = "gate"
    <3>1. PICK r : r = rq[p]
      OBVIOUS
    <3>2. rq' = [rq EXCEPT ![p] = r]
      BY <1>1, <2>4, <3>1 DEF Requests, Shape
    <3>3. ReqOk("svcPackage", r)
      BY <1>1, <2>4, <3>1 DEF ReqOk, Service, Pulling
    <3>4. Requests'
      BY <1>1, <2>1, <2>4, <3>1, <3>2, <3>3, MoveRequests
    <3> QED
      BY <1>1, <2>1, <2>2, <3>4 DEF PullInv
  <2> QED
    BY <1>3, <2>3, <2>4 DEF ProvenanceGate, RefusedByProvenance
<1>4. CASE SetLicense(p)
  <2>1. UNCHANGED <<pkg, files, rule, overlapped>> /\ Respond(p, "201")
    BY <1>4 DEF SetLicense, world, history
  <2>2. Requests'
    BY <1>1, <2>1, RespondRequests
  <2>3. versions' = versions \/ pkg.id # 0 \/ versions' = {}
    BY <1>1, <1>4, UpdatedNone DEF SetLicense, Rows
  <2> QED
    BY <1>1, <2>1, <2>2, <2>3, RowsStay DEF PullInv
<1> QED
  BY <1>2, <1>3, <1>4

\* LookupFile: what checkRead lets through is not hidden.
LEMMA LookupKeeps ==
  ASSUME PullInv, NEW p \in Procs, LookupFile(p)
  PROVE  PullInv'
<1>1. rule \in Rule /\ Requests /\ Rows /\ IsLocal(rq[p]) /\ ReqOk(pc[p], rq[p])
  BY DEF PullInv, Requests, Shape
<1>2. UNCHANGED <<pkg, versions, files, rule, overlapped>> /\ pc[p] = "lookup"
  BY DEF LookupFile, rows, world, history
<1>3. Rows'
  BY <1>1, <1>2, RowsStay
<1> SUFFICES Requests'
  BY <1>1, <1>2, <1>3 DEF PullInv
<1>4. ASSUME NEW code, Respond(p, code) PROVE Requests'
  BY <1>1, <1>2, <1>4, RespondRequests
<1>5. ASSUME NEW c, NEW a, ServeBytes(p, c), ~IsBlocked(Evaluate(rule, VerOf[rq[p].file], a))
      PROVE  Requests'
  <2>1. ~Hidden(rq[p].file)
    BY <1>1, <1>5, YoungBlocked
  <2> QED
    BY <1>1, <1>2, <1>5, <2>1, ServeRequests
<1>6. CASE Goto(p, "fetchIndex") /\ UNCHANGED <<rq, resp>>
  <2>1. PICK r : r = rq[p]
    OBVIOUS
  <2>2. rq' = [rq EXCEPT ![p] = r]
    BY <1>1, <1>6, <2>1 DEF Requests, Shape
  <2>3. ReqOk("fetchIndex", r)
    BY <1>1, <1>2, <2>1 DEF ReqOk, Service, Pulling
  <2> QED
    BY <1>1, <1>2, <1>6, <2>1, <2>2, <2>3, MoveRequests
<1> QED
  BY <1>4, <1>5, <1>6 DEF LookupFile

\* The steps of pullThroughDownload that leave the rows alone.
LEMMA FetchKeeps ==
  ASSUME PullInv, NEW p \in Procs, FetchIndex(p) \/ IngestGate(p) \/ FetchBlob(p) \/ Relookup(p)
  PROVE  PullInv'
<1>1. rule \in Rule /\ Requests /\ Rows /\ IsLocal(rq[p]) /\ ReqOk(pc[p], rq[p])
  BY DEF PullInv, Requests, Shape
<1>2. UNCHANGED <<pkg, versions, files, rule, overlapped>>
  BY DEF FetchIndex, IngestGate, FetchBlob, Relookup, rows, world, history
<1>3. Rows'
  BY <1>1, <1>2, RowsStay
<1> SUFFICES Requests'
  BY <1>1, <1>2, <1>3 DEF PullInv
<1>4. ASSUME NEW code, Respond(p, code) PROVE Requests'
  BY <1>1, <1>2, <1>4, RespondRequests
<1>5. CASE FetchIndex(p)
  <2>1. ASSUME NEW w, rq' = [rq EXCEPT ![p].want = w], Goto(p, "ingestGate"), UNCHANGED resp
        PROVE  Requests'
    <3>1. PICK r : r = [rq[p] EXCEPT !.want = w]
      OBVIOUS
    <3>2. rq' = [rq EXCEPT ![p] = r]
      BY <1>1, <2>1, <3>1 DEF Requests, Shape
    <3>3. IsLocal(r) /\ r.op = rq[p].op
      BY <1>1, <3>1 DEF IsLocal, LocalFields
    <3>4. ReqOk("ingestGate", r)
      BY <1>1, <1>5, <3>3 DEF ReqOk, Service, Pulling, FetchIndex
    <3> QED
      BY <1>1, <1>2, <2>1, <3>2, <3>3, <3>4, MoveRequests
  <2> QED
    BY <1>4, <1>5, <2>1 DEF FetchIndex
<1>6. CASE IngestGate(p)
  <2>1. ASSUME NEW b, rq' = [rq EXCEPT ![p].havePub = b], Goto(p, "fetchBlob"), UNCHANGED resp
        PROVE  Requests'
    <3>1. PICK r : r = [rq[p] EXCEPT !.havePub = b]
      OBVIOUS
    <3>2. rq' = [rq EXCEPT ![p] = r]
      BY <1>1, <2>1, <3>1 DEF Requests, Shape
    <3>3. IsLocal(r) /\ r.op = rq[p].op
      BY <1>1, <3>1 DEF IsLocal, LocalFields
    <3>4. ReqOk("fetchBlob", r)
      BY <1>1, <1>6, <3>3 DEF ReqOk, Service, Pulling, IngestGate
    <3> QED
      BY <1>1, <1>2, <2>1, <3>2, <3>3, <3>4, MoveRequests
  <2> QED
    BY <1>4, <1>6, <2>1 DEF IngestGate
<1>7. CASE FetchBlob(p)
  <2>1. ASSUME NEW c, HashMatches(rq[p].want, c), rq' = [rq EXCEPT ![p].sha = c],
               Goto(p, "svcPackage"), UNCHANGED resp
        PROVE  Requests'
    <3>1. PICK r : r = [rq[p] EXCEPT !.sha = c]
      OBVIOUS
    <3>2. rq' = [rq EXCEPT ![p] = r]
      BY <1>1, <2>1, <3>1 DEF Requests, Shape
    <3>3. IsLocal(r) /\ r.op = rq[p].op /\ r.want = rq[p].want /\ r.sha = c
      BY <1>1, <3>1 DEF IsLocal, LocalFields
    <3>4. ReqOk("svcPackage", r)
      BY <1>1, <1>7, <2>1, <3>3 DEF ReqOk, Service, Pulling, FetchBlob, HashMatches
    <3> QED
      BY <1>1, <1>2, <2>1, <3>2, <3>3, <3>4, MoveRequests
  <2> QED
    BY <1>4, <1>7, <2>1 DEF FetchBlob
<1>8. CASE Relookup(p)
  <2>1. ASSUME NEW i, NEW a, rq' = [rq EXCEPT ![p].verId = i, ![p].attrs = a], Goto(p, "stamp"),
               UNCHANGED resp
        PROVE  Requests'
    <3>1. PICK r : r = [[rq[p] EXCEPT !.verId = i] EXCEPT !.attrs = a]
      OBVIOUS
    <3>2. rq' = [rq EXCEPT ![p] = r]
      BY <1>1, <2>1, <3>1 DEF Requests, Shape
    <3>3. IsLocal(r) /\ r.op = rq[p].op
      BY <1>1, <3>1 DEF IsLocal, LocalFields
    <3>4. ReqOk("stamp", r)
      BY DEF ReqOk, Service, Pulling
    <3> QED
      BY <1>1, <1>2, <2>1, <3>2, <3>3, <3>4, MoveRequests
  <2> QED
    BY <1>4, <1>8, <2>1 DEF Relookup
<1> QED
  BY <1>5, <1>6, <1>7, <1>8

\* The stamp, the post-ingest gate and the answer: the verdict that lets the request pass
\* still holds when the bytes go out.
LEMMA ReadKeeps ==
  ASSUME PullInv, NEW p \in Procs, Stamp(p) \/ ReadGate(p) \/ Serve(p)
  PROVE  PullInv'
<1>1. rule \in Rule /\ Requests /\ Rows /\ IsLocal(rq[p]) /\ ReqOk(pc[p], rq[p])
  BY DEF PullInv, Requests, Shape
<1>2. UNCHANGED <<pkg, files, rule, overlapped>>
  BY DEF Stamp, ReadGate, Serve, rows, world, history
<1>3. versions' = versions \/ pkg.id # 0 \/ versions' = {}
  BY <1>1, UpdatedNone DEF Stamp, ReadGate, Serve, rows, Rows
<1>4. Rows'
  BY <1>1, <1>2, <1>3, RowsStay
<1>5. ASSUME NEW code, Respond(p, code) PROVE Requests'
  BY <1>1, <1>2, <1>5, RespondRequests
<1>6. ASSUME NEW l, UNCHANGED <<rq, resp>>, Goto(p, l), ReqOk(l, rq[p]) PROVE Requests'
  <2>1. PICK r : r = rq[p]
    OBVIOUS
  <2>2. rq' = [rq EXCEPT ![p] = r]
    BY <1>1, <1>6, <2>1 DEF Requests, Shape
  <2> QED
    BY <1>1, <1>2, <1>6, <2>1, <2>2, MoveRequests
<1>7. CASE Stamp(p)
  <2>1. ReqOk("readGate", rq[p])
    BY DEF ReqOk, Service, Pulling
  <2> QED
    BY <1>1, <1>2, <1>4, <1>6, <1>7, <2>1 DEF Stamp, PullInv
<1>8. CASE ReadGate(p)
  <2>1. ASSUME ~ReadBlocked(p) PROVE ReqOk("serve", rq[p])
    <3>1. ~Hidden(rq[p].file)
      BY <1>1, <2>1, YoungBlocked DEF ReadBlocked
    <3> QED
      BY <3>1 DEF ReqOk, Service, Pulling
  <2>2. Requests'
    BY <1>5, <1>6, <1>8, <2>1 DEF ReadGate
  <2> QED
    BY <1>1, <1>2, <1>4, <2>2 DEF PullInv
<1>9. CASE Serve(p)
  <2>1. "rule" \in Env \/ ~Hidden(rq[p].file)
    BY <1>1, <1>9 DEF Serve, ReqOk
  <2>2. ASSUME NEW c, ServeBytes(p, c) PROVE Requests'
    BY <1>1, <1>2, <2>1, <2>2, ServeRequests
  <2>3. Requests'
    BY <1>5, <1>9, <2>2 DEF Serve
  <2> QED
    BY <1>1, <1>2, <1>4, <2>3 DEF PullInv
<1> QED
  BY <1>7, <1>8, <1>9

\* packageIndex never hands out bytes.
LEMMA IndexKeeps ==
  ASSUME PullInv, NEW p \in Procs, IndexLocal(p) \/ IndexMerge(p) \/ IndexUpstream(p)
  PROVE  PullInv'
<1>1. rule \in Rule /\ Requests /\ Rows /\ IsLocal(rq[p]) /\ ReqOk(pc[p], rq[p])
  BY DEF PullInv, Requests, Shape
<1>2. UNCHANGED <<pkg, versions, files, rule, overlapped>>
  BY DEF IndexLocal, IndexMerge, IndexUpstream, rows, world, history
<1>3. Rows'
  BY <1>1, <1>2, RowsStay
<1> SUFFICES Requests'
  BY <1>1, <1>2, <1>3 DEF PullInv
<1>4. ASSUME NEW code, Respond(p, code) PROVE Requests'
  BY <1>1, <1>2, <1>4, RespondRequests
<1>5. ASSUME NEW a, RespondWith(p, a), a.sha = NoContent PROVE Requests'
  <2>1. StepOf(p) /\ resp'[p] = a /\ ReqOk(pc[p], rq[p])'
    BY <1>1, <1>2, <1>5, AnswerStep DEF Requests
  <2>2. RespOk(resp[p])' /\ ViaStays
    BY <1>2, <1>5, <2>1 DEF RespOk, ViaStays
  <2> QED
    BY <1>1, <2>1, <2>2, StepRequests
<1>6. ASSUME NEW r, IsLocal(r), r.op = rq[p].op, rq' = [rq EXCEPT ![p] = r], UNCHANGED resp,
             NEW l \in {"indexUpstream", "indexMerge"}, Goto(p, l)
      PROVE  Requests'
  <2>1. ReqOk(l, r)
    BY <1>6 DEF ReqOk, Service, Pulling
  <2> QED
    BY <1>1, <1>2, <1>6, <2>1, MoveRequests
<1>7. CASE IndexLocal(p)
  <2>1. CASE Goto(p, "indexUpstream") /\ UNCHANGED <<rq, resp>>
    <3>1. PICK r : r = rq[p]
      OBVIOUS
    <3>2. rq' = [rq EXCEPT ![p] = r]
      BY <1>1, <2>1, <3>1 DEF Requests, Shape
    <3> QED
      BY <1>1, <1>6, <2>1, <3>1, <3>2
  <2>2. CASE /\ rq' = [rq EXCEPT ![p].via = pkg.via, ![p].local = ReadableFiles]
             /\ Goto(p, "indexMerge") /\ UNCHANGED resp
    <3>1. PICK r : r = [[rq[p] EXCEPT !.via = pkg.via] EXCEPT !.local = ReadableFiles]
      OBVIOUS
    <3>2. rq' = [rq EXCEPT ![p] = r]
      BY <1>1, <2>2, <3>1 DEF Requests, Shape
    <3>3. IsLocal(r) /\ r.op = rq[p].op
      BY <1>1, <3>1 DEF IsLocal, LocalFields
    <3> QED
      BY <1>6, <2>2, <3>2, <3>3
  <2> QED
    BY <1>4, <1>7, <2>1, <2>2 DEF IndexLocal
<1>8. CASE IndexMerge(p)
  <2>1. ASSUME NEW s, RespondWith(p, [NoResp EXCEPT !.code = "200", !.local = rq[p].local, !.up = s])
        PROVE  Requests'
    <3>1. PICK a : a = [NoResp EXCEPT !.code = "200", !.local = rq[p].local, !.up = s]
      OBVIOUS
    <3> QED
      BY <1>5, <2>1, <3>1 DEF NoResp
  <2>2. CASE RespondWith(p, [NoResp EXCEPT !.code = "200", !.local = rq[p].local])
    <3>1. PICK a : a = [NoResp EXCEPT !.code = "200", !.local = rq[p].local]
      OBVIOUS
    <3> QED
      BY <1>5, <2>2, <3>1 DEF NoResp
  <2> QED
    BY <1>8, <2>1, <2>2 DEF IndexMerge
<1>9. CASE IndexUpstream(p)
  <2>1. ASSUME NEW s, RespondWith(p, [NoResp EXCEPT !.code = "200", !.up = s])
        PROVE  Requests'
    <3>1. PICK a : a = [NoResp EXCEPT !.code = "200", !.up = s]
      OBVIOUS
    <3> QED
      BY <1>5, <2>1, <3>1 DEF NoResp
  <2> QED
    BY <1>4, <1>9, <2>1 DEF IndexUpstream
<1> QED
  BY <1>7, <1>8, <1>9

-----------------------------------------------------------------------------
\* getOrCreatePackage: a pull-through makes the package mirrored only when no upload that
\* passed the provenance gate is still in flight.
LEMMA PackageKeeps ==
  ASSUME PullInv, NEW p \in Procs, NEW via, GetOrCreatePackage(p, via),
         \/ via = "uploaded" /\ rq[p].op = "upload"
         \/ via = "pull_through" /\ rq[p].op = "download"
  PROVE  PullInv'
<1>1. rule \in Rule /\ Requests /\ Rows /\ Shape /\ IsLocal(rq[p]) /\ ReqOk(pc[p], rq[p])
      /\ RespOk(resp[p])
  BY DEF PullInv, Requests, Shape
<1>2. /\ UNCHANGED <<versions, files, rule, overlapped, resp>> /\ Goto(p, "svcVersion")
      /\ pc[p] = "svcPackage"
  BY DEF GetOrCreatePackage, world, history
<1>3. PICK new : new = [id |-> FreshPackage, via |-> via]
  OBVIOUS
<1>4. pkg' = IF pkg.id = 0 THEN new ELSE pkg
  BY <1>3 DEF GetOrCreatePackage
<1>5. new.id # 0 /\ new.via = via /\ new = [id |-> new.id, via |-> new.via]
  BY <1>3, FreshPackageId
<1>6. /\ pkg' = [id |-> pkg'.id, via |-> pkg'.via] /\ pkg'.id # 0
      /\ IF pkg.id = 0 THEN pkg'.via = via ELSE pkg'.via = pkg.via
  BY <1>1, <1>4, <1>5 DEF Rows
<1>7. PICK i : i = pkg'.id
  OBVIOUS
<1>8. PICK r : r = [rq[p] EXCEPT !.pkgId = i]
  OBVIOUS
<1>9. rq' = [rq EXCEPT ![p] = r]
  BY <1>1, <1>7, <1>8 DEF GetOrCreatePackage, Shape
<1>10. IsLocal(r) /\ r.op = rq[p].op /\ r.pkgId = i /\ r.want = rq[p].want /\ r.sha = rq[p].sha
  BY <1>1, <1>8 DEF IsLocal, LocalFields
<1>11. StepOf(p) /\ pc'[p] = "svcVersion" /\ rq'[p] = r /\ resp'[p] = resp[p]
  BY <1>1, <1>2, <1>9, <1>10, MoveStep
<1>12. Rows'
  <2>1. pkg.id = 0 => files = {}
    BY <1>1 DEF Rows
  <2>2. UpstreamBytesVerified'
    BY <1>1, <1>2 DEF Rows, UpstreamBytesVerified
  <2>3. MirroredUnlessOverlap'
    BY <1>1, <1>2, <1>6, <2>1 DEF Rows, MirroredUnlessOverlap
  <2> QED
    BY <1>6, <2>2, <2>3 DEF Rows
<1>13. ViaStays \/ \A q \in Procs : overlapped \/ rq[q].op # "upload"
  <2>1. CASE rq[p].op = "download"
    BY <1>1, <2>1 DEF Requests, Apart, Overlap, MayPullThrough
  <2>2. CASE via = "uploaded"
    BY <1>6, <2>2 DEF ViaStays
  <2> QED
    BY <2>1, <2>2
<1>14. ReqOk(pc[p], rq[p])'
  <2>1. r.op = "download" => r.want \in {r.sha, NoContent}
    BY <1>1, <1>2, <1>10 DEF ReqOk, Service
  <2>2. r.op = "upload" => "flip" \in Env \/ overlapped' \/ pkg'.via # "pull_through"
    BY <1>1, <1>2, <1>6, <1>10 DEF ReqOk, Service
  <2> QED
    BY <1>6, <1>7, <1>10, <1>11, <2>1, <2>2 DEF ReqOk, Pulling
<1>15. RespOk(resp[p])'
  BY <1>1, <1>2, <1>11 DEF RespOk, Hidden
<1>16. Requests'
  BY <1>1, <1>11, <1>13, <1>14, <1>15, StepRequests
<1> QED
  BY <1>1, <1>2, <1>12, <1>16 DEF PullInv

\* The version row, which exists, is created, or cannot be.
LEMMA VersionKeeps ==
  ASSUME PullInv, NEW p \in Procs, NEW code, GetOrAddVersion(p, "svcFile", Respond(p, code))
  PROVE  PullInv'
<1>1. rule \in Rule /\ Requests /\ Rows /\ Shape /\ IsLocal(rq[p]) /\ ReqOk(pc[p], rq[p])
  BY DEF PullInv, Requests, Shape
<1>2. UNCHANGED <<pkg, files, rule, overlapped>> /\ pc[p] = "svcVersion"
  BY DEF GetOrAddVersion, world, history
<1>3. ASSUME NEW r, IsLocal(r), r.op = rq[p].op, r.want = rq[p].want, r.sha = rq[p].sha,
             rq' = [rq EXCEPT ![p] = r], Goto(p, "svcFile"), UNCHANGED resp
      PROVE  Requests'
  <2>1. ReqOk("svcFile", r)
    BY <1>1, <1>2, <1>3 DEF ReqOk, Service, Pulling
  <2> QED
    BY <1>1, <1>2, <1>3, <2>1, MoveRequests
<1>4. ASSUME NEW i, NEW a, rq' = [rq EXCEPT ![p].verId = i, ![p].attrs = a],
             Goto(p, "svcFile"), UNCHANGED <<versions, resp>>
      PROVE  PullInv'
  <2>1. PICK r : r = [[rq[p] EXCEPT !.verId = i] EXCEPT !.attrs = a]
    OBVIOUS
  <2>2. rq' = [rq EXCEPT ![p] = r]
    BY <1>1, <1>4, <2>1 DEF Shape
  <2>3. IsLocal(r) /\ r.op = rq[p].op /\ r.want = rq[p].want /\ r.sha = rq[p].sha
    BY <1>1, <2>1 DEF IsLocal, LocalFields
  <2>4. Requests'
    BY <1>3, <1>4, <2>2, <2>3
  <2> QED
    BY <1>1, <1>2, <1>4, <2>4, RowsStay DEF PullInv
<1>5. ASSUME NEW i, rq' = [rq EXCEPT ![p].verId = i], pkg.id = rq[p].pkgId,
             Goto(p, "svcFile"), UNCHANGED resp
      PROVE  PullInv'
  <2>1. PICK r : r = [rq[p] EXCEPT !.verId = i]
    OBVIOUS
  <2>2. rq' = [rq EXCEPT ![p] = r]
    BY <1>1, <1>5, <2>1 DEF Shape
  <2>3. IsLocal(r) /\ r.op = rq[p].op /\ r.want = rq[p].want /\ r.sha = rq[p].sha
    BY <1>1, <2>1 DEF IsLocal, LocalFields
  <2>4. Requests'
    BY <1>3, <1>5, <2>2, <2>3
  <2>5. pkg.id # 0
    BY <1>1, <1>2, <1>5 DEF ReqOk
  <2> QED
    BY <1>1, <1>2, <2>4, <2>5, RowsStay DEF PullInv
<1>6. CASE Respond(p, code) /\ UNCHANGED versions
  <2>1. Requests'
    BY <1>1, <1>2, <1>6, RespondRequests
  <2> QED
    BY <1>1, <1>2, <1>6, <2>1, RowsStay DEF PullInv
<1> QED
  BY <1>4, <1>5, <1>6 DEF GetOrAddVersion, CreateVersion

\* The file row: only a version that is still there gets one, with bytes that were checked.
LEMMA FileKeeps ==
  ASSUME PullInv, NEW p \in Procs, NEW src, NEW next \in {"setLicense", "relookup"}, NEW code,
         NEW dup,
         \/ src = "upload" /\ rq[p].op = "upload" /\ CreateFile(p, src, next, Respond(p, dup), Respond(p, code))
         \/ /\ src = "upstream" /\ rq[p].op = "download"
            /\ CreateFile(p, src, next, Goto(p, next) /\ UNCHANGED <<rq, resp>>, Respond(p, code))
  PROVE  PullInv'
<1>1. rule \in Rule /\ Requests /\ Rows /\ Shape /\ IsLocal(rq[p]) /\ ReqOk(pc[p], rq[p])
  BY DEF PullInv, Requests, Shape
<1>2. UNCHANGED <<pkg, versions, rule, overlapped>> /\ pc[p] = "svcFile"
  BY DEF CreateFile, world, history
<1>3. ASSUME NEW c, Respond(p, c), UNCHANGED files PROVE PullInv'
  <2>1. Requests'
    BY <1>1, <1>2, <1>3, RespondRequests
  <2> QED
    BY <1>1, <1>2, <1>3, <2>1, RowsStay DEF PullInv
<1>4. ASSUME Goto(p, next), UNCHANGED <<rq, resp>> PROVE Requests'
  <2>1. PICK r : r = rq[p]
    OBVIOUS
  <2>2. rq' = [rq EXCEPT ![p] = r]
    BY <1>1, <1>4, <2>1 DEF Shape
  <2>3. ReqOk(next, r)
    BY DEF ReqOk, Service, Pulling
  <2> QED
    BY <1>1, <1>2, <1>4, <2>1, <2>2, <2>3, MoveRequests
<1>5. CASE Goto(p, next) /\ UNCHANGED <<rq, resp>> /\ UNCHANGED files
  BY <1>1, <1>2, <1>4, <1>5, RowsStay DEF PullInv
<1>6. CASE /\ \E v \in versions : v.id = rq[p].verId
           /\ files' = files \cup {[vid |-> rq[p].verId, file |-> rq[p].file, sha |-> rq[p].sha,
                                    src |-> src, want |-> rq[p].want]}
           /\ Goto(p, next) /\ UNCHANGED <<rq, resp>>
  <2>1. PICK x : x = [vid |-> rq[p].verId, file |-> rq[p].file, sha |-> rq[p].sha,
                      src |-> src, want |-> rq[p].want]
    OBVIOUS
  <2>2. files' = files \cup {x} /\ x.src = src /\ x.sha = rq[p].sha /\ x.want = rq[p].want
    BY <1>6, <2>1
  <2>3. pkg.id # 0
    BY <1>1, <1>6 DEF Rows
  <2>4. src = "upstream" => x.want \in {x.sha, NoContent}
    BY <1>1, <1>2, <2>2 DEF ReqOk, Service
  <2>5. src = "upload" => "flip" \in Env \/ overlapped \/ pkg.via # "pull_through"
    BY <1>1, <1>2 DEF ReqOk, Service
  <2>6. UpstreamBytesVerified'
    BY <1>1, <2>2, <2>4 DEF Rows, UpstreamBytesVerified
  <2>7. MirroredUnlessOverlap'
    BY <1>1, <1>2, <2>2, <2>5 DEF Rows, MirroredUnlessOverlap
  <2>8. Rows'
    BY <1>1, <1>2, <2>3, <2>6, <2>7 DEF Rows
  <2>9. Requests'
    BY <1>4, <1>6
  <2> QED
    BY <1>1, <1>2, <2>8, <2>9 DEF PullInv
<1> QED
  BY <1>3, <1>5, <1>6 DEF CreateFile

\* CreatePackageOrAddFileToExisting as the two handlers call it.
LEMMA ServiceKeeps ==
  ASSUME PullInv, NEW p \in Procs, UploadStore(p) \/ PullThroughStore(p)
  PROVE  PullInv'
<1>1. CASE UploadStore(p)
  BY <1>1, PackageKeeps, VersionKeeps, FileKeeps DEF UploadStore
<1>2. CASE PullThroughStore(p)
  BY <1>2, PackageKeeps, VersionKeeps, FileKeeps DEF PullThroughStore
<1> QED
  BY <1>1, <1>2

-----------------------------------------------------------------------------
\* The requests after a step of the world that leaves them alone.
LEMMA RequestsStay ==
  ASSUME Requests, UNCHANGED <<pc, rq, resp, overlapped>>, rule' = rule \/ "rule" \in Env,
         ViaStays \/ "flip" \in Env
  PROVE  Requests'
<1>1. Shape' /\ (overlapped \/ Apart)'
  BY DEF Requests, Shape, Apart
<1>2. "rule" \in Env \/ \A f : Hidden(f)' <=> Hidden(f)
  BY DEF Hidden
<1>3. ASSUME NEW q \in Procs PROVE ReqOk(pc[q], rq[q])' /\ RespOk(resp[q])'
  <2>1. ReqOk(pc[q], rq[q]) /\ RespOk(resp[q])
    BY DEF Requests
  <2> QED
    BY <1>2, <2>1 DEF ReqOk, RespOk, ViaStays
<1> QED
  BY <1>1, <1>3 DEF Requests

\* Rules, modes, upstream and administrators.
LEMMA WorldKeeps ==
  ASSUME PullInv,
         \/ \E r \in Rules : ChangeRule(r)
         \/ SetMode
         \/ \E f \in Files, c \in Contents \cup {NoContent} : UpstreamChanges(f, c)
         \/ \E r \in versions : DeleteVersion(r) \/ RejectVersion(r) \/ PromoteVersion(r)
         \/ DeletePackage
         \/ \E v \in CreatedVia : SetPackageCreatedVia(v)
  PROVE  PullInv'
<1>1. rule \in Rule /\ Requests /\ Rows
  BY DEF PullInv
<1>2. UNCHANGED <<pc, rq, resp, overlapped>>
  BY Zenon DEF ChangeRule, SetMode, UpstreamChanges, DeleteVersion, RejectVersion, PromoteVersion,
               DeletePackage, SetPackageCreatedVia, Event, world
<1>3. CASE \E r \in Rules : ChangeRule(r)
  <2>1. "rule" \in Env /\ rule' \in Rules /\ UNCHANGED <<pkg, versions, files>>
    BY <1>3 DEF ChangeRule, Event, rows
  <2>2. rule' \in Rule
    BY <2>1, RulesAssumption
  <2> QED
    BY <1>1, <1>2, <2>1, <2>2, RequestsStay, RowsStay DEF PullInv, ViaStays
<1>4. CASE SetMode \/ \E f \in Files, c \in Contents \cup {NoContent} : UpstreamChanges(f, c)
  <2>1. UNCHANGED <<rule, pkg, versions, files>>
    BY <1>4, Zenon DEF SetMode, UpstreamChanges, rows
  <2> QED
    BY <1>1, <1>2, <2>1, RequestsStay, RowsStay DEF PullInv, ViaStays
<1>5. CASE \E r \in versions : DeleteVersion(r) \/ RejectVersion(r) \/ PromoteVersion(r)
  <2>1. UNCHANGED <<rule, pkg>> /\ pkg.id # 0
    BY <1>1, <1>5 DEF DeleteVersion, RejectVersion, PromoteVersion, world, Rows
  <2>2. \A x \in files' : x \in files
    BY <1>5 DEF DeleteVersion, RejectVersion, PromoteVersion
  <2>3. Rows'
    BY <1>1, <1>2, <2>1, <2>2 DEF Rows, UpstreamBytesVerified, MirroredUnlessOverlap
  <2> QED
    BY <1>1, <1>2, <2>1, <2>3, RequestsStay DEF PullInv, ViaStays
<1>6. CASE DeletePackage
  <2>1. UNCHANGED rule /\ pkg' = [id |-> 0, via |-> "none"] /\ versions' = {} /\ files' = {}
    BY <1>6 DEF DeletePackage, world
  <2>2. Rows'
    BY <2>1 DEF Rows, UpstreamBytesVerified, MirroredUnlessOverlap
  <2> QED
    BY <1>1, <1>2, <2>1, <2>2, RequestsStay DEF PullInv, ViaStays
<1>7. ASSUME NEW v, SetPackageCreatedVia(v) PROVE PullInv'
  <2>1. /\ "flip" \in Env /\ UNCHANGED <<rule, versions, files>>
        /\ pkg' = [pkg EXCEPT !.via = v]
    BY <1>7 DEF SetPackageCreatedVia, Event, world
  <2>2. pkg' = [id |-> pkg'.id, via |-> pkg'.via] /\ pkg'.id = pkg.id
    BY <1>1, <2>1 DEF Rows
  <2>3. UpstreamBytesVerified'
    BY <1>1, <2>1 DEF Rows, UpstreamBytesVerified
  <2>4. Rows'
    BY <1>1, <2>1, <2>2, <2>3 DEF Rows, MirroredUnlessOverlap
  <2> QED
    BY <1>1, <1>2, <2>1, <2>4, RequestsStay DEF PullInv
<1> QED
  BY <1>3, <1>4, <1>5, <1>6, <1>7

\* A call fails, or the process dies.
LEMMA FaultKeeps ==
  ASSUME PullInv, Crash \/ \E p \in Procs : Fail(p)
  PROVE  PullInv'
<1>1. rule \in Rule /\ Requests /\ Rows
  BY DEF PullInv
<1>2. UNCHANGED <<pkg, versions, files, rule, overlapped>>
  BY DEF Crash, Fail, Event, rows, world
<1>3. Rows'
  BY <1>1, <1>2, RowsStay
<1>4. ASSUME NEW p \in Procs, Fail(p) PROVE Requests'
  BY <1>1, <1>2, <1>4, RespondRequests DEF Fail
<1>5. ASSUME Crash PROVE Requests'
  <2>1. /\ pc' = [p \in Procs |-> "idle"] /\ rq' = [p \in Procs |-> NoLocal]
        /\ resp' = [p \in Procs |-> IF pc[p] = "idle" THEN resp[p] ELSE NoResp]
    BY <1>5 DEF Crash
  <2>2. IsLocal(NoLocal) /\ NoLocal.op = "none"
    BY DEF IsLocal, LocalFields, NoLocal
  <2>3. Shape' /\ Apart'
    BY <2>1, <2>2 DEF Shape, Apart, Overlap
  <2>4. \A f : Hidden(f)' <=> Hidden(f)
    BY <1>2 DEF Hidden
  <2>5. RespOk(NoResp)'
    BY DEF RespOk, NoResp
  <2>6. \A q \in Procs : RespOk(resp[q])'
    BY <1>1, <2>1, <2>4, <2>5 DEF Requests, RespOk
  <2>7. \A q \in Procs : ReqOk(pc[q], rq[q])'
    BY <2>1 DEF ReqOk, Service, Pulling
  <2> QED
    BY <2>3, <2>6, <2>7 DEF Requests
<1> QED
  BY <1>1, <1>2, <1>3, <1>4, <1>5 DEF PullInv

-----------------------------------------------------------------------------
\* What every request has established about hash, verdict and provenance holds throughout.
THEOREM PullHolds == Spec => []PullInv
<1>1. Init => PullInv
  <2> SUFFICES ASSUME Init PROVE PullInv
    OBVIOUS
  <2>1. rule \in Rule
    BY RulesAssumption DEF Init
  <2>2. IsLocal(NoLocal) /\ NoLocal.op = "none"
    BY DEF IsLocal, LocalFields, NoLocal
  <2>3. Shape /\ Apart
    BY <2>2 DEF Init, Shape, Apart, Overlap
  <2>4. RespOk(NoResp)
    BY DEF RespOk, NoResp
  <2>5. \A q \in Procs : ReqOk(pc[q], rq[q]) /\ RespOk(resp[q])
    BY <2>4 DEF Init, ReqOk, Service, Pulling
  <2>6. Rows
    BY DEF Init, Rows, UpstreamBytesVerified, MirroredUnlessOverlap
  <2> QED
    BY <2>1, <2>3, <2>5, <2>6 DEF PullInv, Requests
<1>2. PullInv /\ [Next]_vars => PullInv'
  <2> SUFFICES ASSUME PullInv, [Next]_vars PROVE PullInv'
    OBVIOUS
  <2>1. CASE UNCHANGED vars
    <3>1. UNCHANGED <<pkg, versions, files, rule, pc, rq, resp, overlapped>>
      BY <2>1 DEF vars, rows, world, history
    <3> QED
      BY <3>1, RequestsStay, RowsStay DEF PullInv, ViaStays
  <2>2. ASSUME NEW p \in Procs, Step(p) PROVE PullInv'
    BY <2>2, UploadKeeps, ServiceKeeps, LookupKeeps, FetchKeeps, ReadKeeps, IndexKeeps
       DEF Step, PullThrough
  <2>3. CASE Environment
    BY <2>3, WorldKeeps, FaultKeeps, Zenon DEF Environment
  <2> QED
    BY <2>1, <2>2, <2>3, ArriveKeeps DEF Next
<1> QED
  BY <1>1, <1>2, PTL DEF Spec

\* pullThroughDownload keeps only bytes that upstream's index advertised (or for which it
\* gave no hash), whatever upstream serves between the two fetches.
THEOREM UpstreamBytesVerifiedHolds == Spec => []UpstreamBytesVerified
<1>1. PullInv => UpstreamBytesVerified
  BY DEF PullInv, Rows
<1> QED
  BY <1>1, PullHolds, PTL

\* While a blocking cooldown is in force no client gets a young version, the one whose
\* request pulled it through included (the post-ingest gate of pullThroughDownload).
THEOREM YoungNeverServedHolds == Spec => []YoungNeverServed
<1>1. PullInv => YoungNeverServed
  BY DEF PullInv, Requests, RespOk, YoungNeverServed, Served, Hidden
<1> QED
  BY <1>1, PullHolds, PTL

\* An upload lands in a mirrored package only if it was in flight together with a
\* download: the provenance gate is not atomic with the rows it guards.
THEOREM MirroredUnlessOverlapHolds == Spec => []MirroredUnlessOverlap
<1>1. PullInv => MirroredUnlessOverlap
  BY DEF PullInv, Rows
<1> QED
  BY <1>1, PullHolds, PTL

-----------------------------------------------------------------------------
(* The version rows. *)

RowFields == {"id", "pkg", "ver", "lic", "pub", "quar"}
IsRow(r) == r = [k \in RowFields |-> r[k]]

\* A table of version rows: ids are unique, and a package has a version once.
VersionsOk(V) ==
    /\ IsFiniteSet(V)
    /\ \A r \in V : IsRow(r)
    /\ \A r, s \in V : r.id = s.id => r = s
    /\ \A r, s \in V : r.pkg = s.pkg /\ r.ver = s.ver => r = s

SameKey(s, r) == s.id = r.id /\ s.pkg = r.pkg /\ s.ver = r.ver

\* W has the rows of V, some of them written over.
Rewritten(V, W) ==
    /\ \A s \in W : \E r \in V : SameKey(s, r)
    /\ \A r \in V : \E s \in W : SameKey(s, r)

\* What is in quarantine stays there.
QuarantineKept(V, W) == \A s \in W : \E r \in V : SameKey(s, r) /\ (r.quar => s.quar)

\* A deletion keeps the table.
LEMMA FewerVersions ==
  ASSUME NEW V, NEW W \in SUBSET V, VersionsOk(V)
  PROVE  VersionsOk(W)
  BY FS_Subset DEF VersionsOk

\* So does an UPDATE of columns that are no key.
LEMMA VersionsMapped ==
  ASSUME NEW V, VersionsOk(V), NEW g, \A r \in V : IsRow(g[r]) /\ SameKey(g[r], r),
         NEW W, \A s \in W : \E r \in V : s = g[r], \A r \in V : g[r] \in W
  PROVE  VersionsOk(W)
<1>1. PICK h : h = [r \in V |-> g[r]]
  OBVIOUS
<1>2. \A r \in V : IsRow(h[r]) /\ SameKey(h[r], r)
  BY <1>1
<1>3. \A s \in W : \E r \in V : s = h[r]
  BY <1>1
<1>4. \A r \in V : h[r] \in W
  BY <1>1
<1>5. IsFiniteSet(W)
  <2>1. IsFiniteSet(V)
    BY DEF VersionsOk
  <2>2. h \in Surjection(V, W)
    BY <1>1, <1>3, <1>4 DEF Surjection
  <2> QED
    BY <2>1, <2>2, FS_Surjection
<1>6. ASSUME NEW s \in W, NEW t \in W PROVE /\ s.id = t.id => s = t
                                            /\ s.pkg = t.pkg /\ s.ver = t.ver => s = t
  <2>1. PICK r, q \in V : s = h[r] /\ t = h[q]
    BY <1>3
  <2> QED
    BY <1>2, <2>1 DEF VersionsOk, SameKey
<1>7. \A s \in W : IsRow(s)
  BY <1>2, <1>3
<1> QED
  BY <1>5, <1>6, <1>7 DEF VersionsOk

\* UPDATE package_versions SET c = x WHERE id = i, row by row.
Put(r, i, c, x) == IF r.id = i THEN [r EXCEPT ![c] = x] ELSE r
Wrote(i, c, x) ==
    /\ \A s \in versions' : \E r \in versions : s = Put(r, i, c, x)
    /\ \A r \in versions : Put(r, i, c, x) \in versions'

\* The UPDATEs of the handlers and of administrators.
LEMMA UpdatedVersions ==
  ASSUME VersionsOk(versions), NEW i, NEW c \in {"lic", "pub", "quar"}, NEW x, Wrote(i, c, x)
  PROVE  /\ VersionsOk(versions') /\ Rewritten(versions, versions')
         /\ (c # "quar" \/ x = TRUE => QuarantineKept(versions, versions'))
<1>1. PICK h : h = [r \in versions |-> [r EXCEPT ![c] = x]]
  OBVIOUS
<1>2. \A r \in versions : /\ IsRow(h[r]) /\ SameKey(h[r], r)
                          /\ h[r].quar = IF c = "quar" THEN x ELSE r.quar
  BY <1>1 DEF VersionsOk, IsRow, RowFields, SameKey
<1>3. PICK g : g = [r \in versions |-> IF r.id = i THEN h[r] ELSE r]
  OBVIOUS
<1>4. /\ \A r \in versions : IsRow(g[r]) /\ SameKey(g[r], r)
      /\ c # "quar" \/ x = TRUE => \A r \in versions : r.quar => g[r].quar
  BY <1>2, <1>3 DEF VersionsOk, SameKey
<1>5. \A r \in versions : g[r] = Put(r, i, c, x)
  BY <1>1, <1>3 DEF Put
<1>6. (\A s \in versions' : \E r \in versions : s = g[r]) /\ \A r \in versions : g[r] \in versions'
  BY <1>5 DEF Wrote
<1>7. VersionsOk(versions')
  BY <1>4, <1>6, VersionsMapped
<1>8. Rewritten(versions, versions')
  BY <1>4, <1>6 DEF Rewritten
<1>9. c # "quar" \/ x = TRUE => QuarantineKept(versions, versions')
  BY <1>4, <1>6 DEF QuarantineKept
<1> QED
  BY <1>7, <1>8, <1>9

\* AUTOINCREMENT gives an id no row and no request has.
LEMMA FreshVersionId ==
  ASSUME IsFiniteSet(versions)
  PROVE  /\ FreshVersion \notin {r.id : r \in versions}
         /\ \A p \in Procs : FreshVersion # rq[p].verId
<1>1. PICK S : S = {rq[p].verId : p \in Procs}
  OBVIOUS
<1>2. PICK f : f = [p \in Procs |-> rq[p].verId]
  OBVIOUS
<1>3. f \in Surjection(Procs, S)
  BY <1>1, <1>2 DEF Surjection
<1>4. IsFiniteSet(S)
  BY <1>3, FS_Surjection, ProcsAssumption
<1>5. PICK T : T = {r.id : r \in versions}
  OBVIOUS
<1>6. PICK h : h = [r \in versions |-> r.id]
  OBVIOUS
<1>7. h \in Surjection(versions, T)
  BY <1>5, <1>6 DEF Surjection
<1>8. IsFiniteSet(T)
  BY <1>7, FS_Surjection
<1>9. IsFiniteSet(T \cup S)
  BY <1>4, <1>8, FS_Union
<1>10. FreshVersion = Unused(T \cup S)
  BY <1>1, <1>5 DEF FreshVersion
<1>11. FreshVersion \notin T \cup S
  BY <1>9, <1>10, UnusedId
<1> QED
  BY <1>1, <1>5, <1>11

\* CreateVersion adds a row under a new id, for a version there is no row of.
LEMMA CreatedVersion ==
  ASSUME VersionsOk(versions), NEW p \in Procs, IsLocal(rq[p]),
         VersionRows(rq[p].pkgId, VerOf[rq[p].file]) = {},
         versions' = versions \cup {NewVersion(p)}
  PROVE  /\ VersionsOk(versions')
         /\ NewVersion(p).id = FreshVersion /\ NewVersion(p).pkg = rq[p].pkgId
         /\ NewVersion(p).ver = VerOf[rq[p].file]
         /\ FreshVersion \notin {r.id : r \in versions}
         /\ \A q \in Procs : FreshVersion # rq[q].verId
<1>1. PICK n : n = NewVersion(p)
  OBVIOUS
<1>2. /\ IsRow(n) /\ n.id = FreshVersion /\ n.pkg = rq[p].pkgId /\ n.ver = VerOf[rq[p].file]
  BY <1>1 DEF NewVersion, IsRow, RowFields
<1>3. /\ FreshVersion \notin {r.id : r \in versions}
      /\ \A q \in Procs : FreshVersion # rq[q].verId
  BY FreshVersionId DEF VersionsOk
<1>4. \A r \in versions : r.id # n.id /\ ~(r.pkg = n.pkg /\ r.ver = n.ver)
  BY <1>2, <1>3 DEF VersionRows
<1>5. versions' = versions \cup {n}
  BY <1>1
<1>6. IsFiniteSet(versions')
  BY <1>5, FS_AddElement DEF VersionsOk
<1>7. VersionsOk(versions')
  BY <1>2, <1>4, <1>5, <1>6 DEF VersionsOk
<1> QED
  BY <1>1, <1>2, <1>3, <1>7

-----------------------------------------------------------------------------
(* The gate after the ingest of PyPI. *)

\* What a request remembers of the row it is about to be judged on.
Judging(p) == pc[p] \in {"stamp", "readGate"} =>
    /\ \A r \in versions : r.id = rq[p].verId => r.ver = VerOf[rq[p].file]
    /\ rq[p].attrs = [lic |-> rq[p].attrs.lic, pub |-> rq[p].attrs.pub]

GateInv == VersionsOk(versions) /\ events \in Nat /\ \A p \in Procs : Judging(p)

\* A step leaves the table in order, and brings in no row under a remembered id.
RowsStep ==
    /\ VersionsOk(versions')
    /\ \A s \in versions' : \/ \E r \in versions : SameKey(s, r)
                            \/ \A q \in Procs : s.id # rq[q].verId

\* What the writes of the handlers and of administrators do to the table.
LEMMA UnchangedRows ==
  ASSUME VersionsOk(versions), versions' \subseteq versions
  PROVE  RowsStep
<1>1. VersionsOk(versions')
  <2>1. PICK V, W : V = versions /\ W = versions'
    OBVIOUS
  <2>2. W \in SUBSET V /\ VersionsOk(V)
    BY <2>1
  <2>3. VersionsOk(W)
    BY ONLY <2>2, FewerVersions
  <2> QED
    BY <2>1, <2>3
<1> QED
  BY <1>1 DEF RowsStep, SameKey

\* An UPDATE.
LEMMA UpdatedRows ==
  ASSUME VersionsOk(versions), NEW i, NEW c \in {"lic", "pub", "quar"}, NEW x, Wrote(i, c, x)
  PROVE  RowsStep
  BY UpdatedVersions DEF RowsStep, Rewritten

\* An INSERT.
LEMMA CreatedRows ==
  ASSUME VersionsOk(versions), NEW p \in Procs, IsLocal(rq[p]),
         VersionRows(rq[p].pkgId, VerOf[rq[p].file]) = {},
         versions' = versions \cup {NewVersion(p)}
  PROVE  RowsStep
<1>1. VersionsOk(versions') /\ \A q \in Procs : NewVersion(p).id # rq[q].verId
  BY CreatedVersion
<1> QED
  BY <1>1 DEF RowsStep, SameKey

\* Every step does one of these.
LEMMA StepRows ==
  ASSUME Shape, VersionsOk(versions), [Next]_vars
  PROVE  RowsStep
<1>1. CASE versions' \subseteq versions
  BY <1>1, UnchangedRows
<1>2. ASSUME NEW p \in Procs, SetLicense(p) \/ Stamp(p)
      PROVE  RowsStep
  <2>1. \/ Wrote(rq[p].verId, "lic", rq[p].lic)
        \/ Wrote(rq[p].verId, "pub", TRUE)
        \/ versions' \subseteq versions
    BY <1>2 DEF SetLicense, Stamp, Updated, Wrote, Put
  <2> QED
    BY <1>1, <2>1, UpdatedRows
<1>3. ASSUME NEW p \in Procs, NEW code, GetOrAddVersion(p, "svcFile", Respond(p, code))
      PROVE  RowsStep
  BY <1>1, <1>3, CreatedRows DEF GetOrAddVersion, CreateVersion, Shape
<1>4. ASSUME NEW p \in Procs, UploadStore(p) \/ PullThroughStore(p)
      PROVE  RowsStep
  <2>1. ASSUME NEW via, GetOrCreatePackage(p, via) PROVE versions' \subseteq versions
    BY <2>1 DEF GetOrCreatePackage
  <2>2. ASSUME NEW src, NEW l, NEW dup, NEW code, CreateFile(p, src, l, Respond(p, dup), Respond(p, code))
        PROVE  versions' \subseteq versions
    BY <2>2 DEF CreateFile
  <2>3. ASSUME NEW src, NEW l, NEW code,
               CreateFile(p, src, l, Goto(p, l) /\ UNCHANGED <<rq, resp>>, Respond(p, code))
        PROVE  versions' \subseteq versions
    BY <2>3 DEF CreateFile
  <2> QED
    BY <1>1, <1>3, <1>4, <2>1, <2>2, <2>3 DEF UploadStore, PullThroughStore
<1>5. ASSUME NEW p \in Procs,
             \/ Refuse(p) \/ ProvenanceGate(p) \/ LookupFile(p) \/ FetchIndex(p) \/ IngestGate(p)
             \/ FetchBlob(p) \/ Relookup(p) \/ ReadGate(p) \/ Serve(p)
             \/ IndexLocal(p) \/ IndexMerge(p) \/ IndexUpstream(p)
      PROVE  versions' \subseteq versions
  BY <1>5 DEF Refuse, ProvenanceGate, LookupFile, FetchIndex, IngestGate, FetchBlob, Relookup, ReadGate,
              Serve, IndexLocal, IndexMerge, IndexUpstream, rows
<1>6. ASSUME NEW p \in Procs, Arrive(p)
      PROVE  versions' \subseteq versions
  BY <1>6 DEF Arrive, Upload, Download, Index, Begin, rows
<1>7. CASE Environment
  <2>1. ASSUME NEW r \in versions, RejectVersion(r) \/ PromoteVersion(r)
        PROVE  RowsStep
    <3>1. Wrote(r.id, "quar", TRUE) \/ Wrote(r.id, "quar", FALSE)
      BY <2>1 DEF RejectVersion, PromoteVersion, Updated, Wrote, Put
    <3> QED
      BY <3>1, UpdatedRows
  <2>2. CASE \/ \E r \in Rules : ChangeRule(r)
             \/ SetMode
             \/ \E f \in Files, c \in Contents \cup {NoContent} : UpstreamChanges(f, c)
             \/ \E r \in versions : DeleteVersion(r)
             \/ DeletePackage
             \/ \E v \in CreatedVia : SetPackageCreatedVia(v)
             \/ \E p \in Procs : Fail(p)
             \/ Crash
    <3>1. versions' \subseteq versions
      BY <2>2 DEF ChangeRule, SetMode, UpstreamChanges, DeleteVersion, DeletePackage,
                  SetPackageCreatedVia, Fail, Crash, rows
    <3> QED
      BY <1>1, <3>1
  <2> QED
    BY <1>7, <2>1, <2>2, Zenon DEF Environment
<1>8. CASE UNCHANGED vars
  BY <1>1, <1>8 DEF vars, rows
<1> QED
  BY <1>1, <1>2, <1>4, <1>5, <1>6, <1>7, <1>8 DEF Next, Step, PullThrough

\* Handlers do not count; the world does.
LEMMA Counted ==
  ASSUME [Next]_vars
  PROVE  \/ UNCHANGED events /\ \/ UNCHANGED vars
                                \/ \E p \in Procs : Arrive(p) \/ Step(p)
         \/ Environment /\ events' = events + 1
<1>1. ASSUME NEW p \in Procs, Arrive(p) PROVE UNCHANGED events
  BY <1>1 DEF Arrive, Upload, Download, Index, Begin
<1>2. ASSUME NEW p \in Procs, Step(p) PROVE UNCHANGED events
  <2>1. ASSUME UploadStore(p) \/ PullThroughStore(p) PROVE UNCHANGED events
    BY <2>1 DEF UploadStore, PullThroughStore, GetOrCreatePackage, GetOrAddVersion, CreateFile, history
  <2> QED
    BY <1>2, <2>1 DEF Step, PullThrough, Refuse, ProvenanceGate, SetLicense, LookupFile, FetchIndex,
              IngestGate, FetchBlob, Relookup, Stamp, ReadGate, Serve, IndexLocal, IndexMerge,
              IndexUpstream, history
<1>3. CASE Environment
  BY <1>3 DEF Environment, Event, ChangeRule, SetMode, UpstreamChanges, DeleteVersion, RejectVersion,
              PromoteVersion, DeletePackage, SetPackageCreatedVia, Fail, Crash
<1> QED
  BY <1>1, <1>2, <1>3 DEF Next, vars, history

\* A request is nobody else's business.
Alone(p) == \A q \in Procs \ {p} : pc'[q] = pc[q] /\ rq'[q] = rq[q]

\* A response is to one request.
LEMMA AnswersAlone ==
  ASSUME Shape, NEW p \in Procs, NEW r, RespondWith(p, r)
  PROVE  Alone(p) /\ pc'[p] = "idle" /\ rq'[p] = NoLocal
  BY DEF RespondWith, Goto, Shape, Alone

\* A step ahead is a step of one request.
LEMMA GoesAlone ==
  ASSUME Shape, NEW p \in Procs, NEW l, Goto(p, l), rq' = rq
  PROVE  Alone(p) /\ pc'[p] = l /\ rq'[p] = rq[p]
  BY DEF Goto, Shape, Alone

\* The requests about to be judged got there by Relookup, or wait, or are stamping.
Waits(p) == pc[p] \in {"stamp", "readGate"} /\ rq'[p] = rq[p]
Judges(p) == pc'[p] \in {"stamp", "readGate"} => Waits(p) \/ Relookup(p)

\* A response without bytes.
LEMMA RespondAlone ==
  ASSUME Shape, NEW p \in Procs, NEW code, Respond(p, code)
  PROVE  Alone(p) /\ pc'[p] = "idle" /\ rq'[p] = NoLocal
<1>1. PICK r : r = [NoResp EXCEPT !.code = code, !.file = rq[p].file]
  OBVIOUS
<1> QED
  BY <1>1, AnswersAlone DEF Respond

\* A response with bytes.
LEMMA ServeAlone ==
  ASSUME Shape, NEW p \in Procs, NEW c, ServeBytes(p, c)
  PROVE  Alone(p) /\ pc'[p] = "idle" /\ rq'[p] = NoLocal
<1>1. PICK r : r = [NoResp EXCEPT !.code = "200", !.file = rq[p].file, !.sha = c]
  OBVIOUS
<1> QED
  BY <1>1, AnswersAlone DEF ServeBytes

\* Uploads are not judged after the fact.
LEMMA UploadAlone ==
  ASSUME Shape, NEW p \in Procs, Refuse(p) \/ ProvenanceGate(p) \/ SetLicense(p)
  PROVE  Alone(p) /\ Judges(p)
<1>1. ASSUME NEW code, Respond(p, code) PROVE Alone(p) /\ Judges(p)
  BY <1>1, RespondAlone DEF Judges
<1>2. ASSUME Goto(p, "svcPackage"), rq' = rq PROVE Alone(p) /\ Judges(p)
  BY <1>2, GoesAlone DEF Judges
<1> QED
  BY <1>1, <1>2 DEF Refuse, ProvenanceGate, SetLicense

\* Nor is who finds the file.
LEMMA LookupAlone ==
  ASSUME Shape, NEW p \in Procs, LookupFile(p)
  PROVE  Alone(p) /\ Judges(p)
<1>1. ASSUME NEW code, Respond(p, code) PROVE Alone(p) /\ Judges(p)
  BY <1>1, RespondAlone DEF Judges
<1>2. ASSUME NEW c, ServeBytes(p, c) PROVE Alone(p) /\ Judges(p)
  BY <1>2, ServeAlone DEF Judges
<1>3. ASSUME Goto(p, "fetchIndex"), rq' = rq PROVE Alone(p) /\ Judges(p)
  BY <1>3, GoesAlone DEF Judges
<1> QED
  BY <1>1, <1>2, <1>3 DEF LookupFile

\* Nor is who is fetching.
LEMMA FetchAlone ==
  ASSUME Shape, NEW p \in Procs, FetchIndex(p) \/ IngestGate(p) \/ FetchBlob(p)
  PROVE  Alone(p) /\ Judges(p)
<1>1. ASSUME NEW code, Respond(p, code) PROVE Alone(p) /\ Judges(p)
  BY <1>1, RespondAlone DEF Judges
<1>2. ASSUME NEW l \in {"ingestGate", "fetchBlob", "svcPackage"}, Goto(p, l), NEW x,
             \/ rq' = [rq EXCEPT ![p].want = x]
             \/ rq' = [rq EXCEPT ![p].havePub = x]
             \/ rq' = [rq EXCEPT ![p].sha = x]
      PROVE  Alone(p) /\ Judges(p)
  BY <1>2 DEF Goto, Shape, Alone, Judges
<1> QED
  BY <1>1, <1>2 DEF FetchIndex, IngestGate, FetchBlob

\* Relookup is what leads to the gate.
LEMMA ReadAlone ==
  ASSUME Shape, NEW p \in Procs, Relookup(p) \/ Stamp(p) \/ ReadGate(p) \/ Serve(p)
  PROVE  Alone(p) /\ Judges(p)
<1>1. ASSUME NEW code, Respond(p, code) PROVE Alone(p) /\ Judges(p)
  BY <1>1, RespondAlone DEF Judges
<1>2. ASSUME NEW c, ServeBytes(p, c) PROVE Alone(p) /\ Judges(p)
  BY <1>2, ServeAlone DEF Judges
<1>3. ASSUME NEW i, NEW a, Relookup(p), Goto(p, "stamp"), rq' = [rq EXCEPT ![p].verId = i, ![p].attrs = a]
      PROVE  Alone(p) /\ Judges(p)
  BY <1>3 DEF Goto, Shape, Alone, Judges
<1>4. ASSUME NEW l, pc[p] = "stamp" \/ l = "serve", Goto(p, l), rq' = rq PROVE Alone(p) /\ Judges(p)
  BY <1>4, GoesAlone DEF Judges, Waits
<1> QED
  BY <1>1, <1>2, <1>3, <1>4 DEF Relookup, Stamp, ReadGate, Serve

\* Listings do not lead there.
LEMMA IndexAlone ==
  ASSUME Shape, NEW p \in Procs, IndexLocal(p) \/ IndexMerge(p) \/ IndexUpstream(p)
  PROVE  Alone(p) /\ Judges(p)
<1>1. ASSUME NEW code, Respond(p, code) PROVE Alone(p) /\ Judges(p)
  BY <1>1, RespondAlone DEF Judges
<1>2. ASSUME NEW r, RespondWith(p, r) PROVE Alone(p) /\ Judges(p)
  BY <1>2, AnswersAlone DEF Judges
<1>3. ASSUME Goto(p, "indexUpstream"), rq' = rq PROVE Alone(p) /\ Judges(p)
  BY <1>3, GoesAlone DEF Judges
<1>4. ASSUME NEW v, NEW s, Goto(p, "indexMerge"), rq' = [rq EXCEPT ![p].via = v, ![p].local = s]
      PROVE  Alone(p) /\ Judges(p)
  BY <1>4 DEF Goto, Shape, Alone, Judges
<1> QED
  BY <1>1, <1>2, <1>3, <1>4 DEF IndexLocal, IndexMerge, IndexUpstream

\* The service does not, either.
LEMMA ServiceAlone ==
  ASSUME Shape, NEW p \in Procs, UploadStore(p) \/ PullThroughStore(p)
  PROVE  Alone(p) /\ Judges(p)
<1>1. ASSUME NEW code, Respond(p, code) PROVE Alone(p) /\ Judges(p)
  BY <1>1, RespondAlone DEF Judges
<1>2. ASSUME NEW via, GetOrCreatePackage(p, via) PROVE Alone(p) /\ Judges(p)
  <2>1. PICK i : i = pkg'.id
    OBVIOUS
  <2>2. Goto(p, "svcVersion") /\ rq' = [rq EXCEPT ![p].pkgId = i]
    BY <1>2, <2>1 DEF GetOrCreatePackage
  <2> QED
    BY <2>2 DEF Goto, Shape, Alone, Judges
<1>3. ASSUME NEW code, GetOrAddVersion(p, "svcFile", Respond(p, code)) PROVE Alone(p) /\ Judges(p)
  <2>1. ASSUME NEW i, NEW a, Goto(p, "svcFile"),
               rq' = [rq EXCEPT ![p].verId = i, ![p].attrs = a] \/ rq' = [rq EXCEPT ![p].verId = i]
        PROVE  Alone(p) /\ Judges(p)
    BY <2>1 DEF Goto, Shape, Alone, Judges
  <2> QED
    BY <1>1, <1>3, <2>1 DEF GetOrAddVersion, CreateVersion
<1>4. ASSUME NEW l \in {"setLicense", "relookup"}, Goto(p, l), rq' = rq PROVE Alone(p) /\ Judges(p)
  BY <1>4, GoesAlone DEF Judges
<1>5. ASSUME NEW src, NEW l \in {"setLicense", "relookup"}, NEW dup, NEW code,
             \/ CreateFile(p, src, l, Respond(p, dup), Respond(p, code))
             \/ CreateFile(p, src, l, Goto(p, l) /\ UNCHANGED <<rq, resp>>, Respond(p, code))
      PROVE  Alone(p) /\ Judges(p)
  BY <1>1, <1>4, <1>5 DEF CreateFile
<1> QED
  BY <1>2, <1>3, <1>5 DEF UploadStore, PullThroughStore

\* So it is with every step of the requests.
LEMMA StepAlone ==
  ASSUME Shape, NEW p \in Procs, Step(p)
  PROVE  Alone(p) /\ Judges(p)
  BY UploadAlone, LookupAlone, FetchAlone, ReadAlone, IndexAlone, ServiceAlone DEF Step, PullThrough

\* A request that arrives is not about to be judged.
LEMMA ArriveAlone ==
  ASSUME Shape, NEW p \in Procs, Arrive(p)
  PROVE  Alone(p) /\ pc[p] = "idle" /\ pc'[p] \notin {"stamp", "readGate"}
<1>1. ASSUME NEW l \in {"refuse", "gate", "lookup", "index"}, NEW r, Begin(p, l, r)
      PROVE  Alone(p) /\ pc[p] = "idle" /\ pc'[p] \notin {"stamp", "readGate"}
  BY <1>1 DEF Begin, Goto, Shape, Alone
<1>2. ASSUME NEW f, NEW c, NEW lic, Upload(p, f, c, lic)
      PROVE  \E l \in {"refuse", "gate"} : \E r : Begin(p, l, r)
  BY <1>2 DEF Upload
<1>3. ASSUME NEW f, Download(p, f) PROVE \E r : Begin(p, "lookup", r)
  BY <1>3 DEF Download
<1>4. ASSUME Index(p) PROVE \E r : Begin(p, "index", r)
  BY <1>4 DEF Index
<1> QED
  BY <1>1, <1>2, <1>3, <1>4 DEF Arrive

\* The world answers requests or leaves them alone.
LEMMA WorldAlone ==
  ASSUME Shape, Environment, NEW p \in Procs
  PROVE  pc'[p] = "idle" \/ (pc'[p] = pc[p] /\ rq'[p] = rq[p])
<1>1. ASSUME NEW q \in Procs, Fail(q) PROVE pc'[p] = "idle" \/ (pc'[p] = pc[p] /\ rq'[p] = rq[p])
  <2>1. Alone(q) /\ pc'[q] = "idle"
    BY <1>1, RespondAlone DEF Fail
  <2> QED
    BY <2>1 DEF Alone
<1>2. CASE Crash
  BY <1>2 DEF Crash
<1>3. CASE \/ \E r \in Rules : ChangeRule(r)
           \/ SetMode
           \/ \E f \in Files, c \in Contents \cup {NoContent} : UpstreamChanges(f, c)
           \/ \E r \in versions : DeleteVersion(r) \/ RejectVersion(r) \/ PromoteVersion(r)
           \/ DeletePackage
           \/ \E v \in CreatedVia : SetPackageCreatedVia(v)
  <2>1. UNCHANGED <<pc, rq>>
    BY <1>3 DEF ChangeRule, SetMode, UpstreamChanges, DeleteVersion, RejectVersion, PromoteVersion,
                DeletePackage, SetPackageCreatedVia
  <2> QED
    BY <2>1
<1> QED
  BY <1>1, <1>2, <1>3, Zenon DEF Environment

\* Who is about to be judged after a step was before, or has just looked its row up.
LEMMA EveryoneJudges ==
  ASSUME Shape, [Next]_vars, NEW p \in Procs
  PROVE  Judges(p)
<1>1. ASSUME NEW q \in Procs, Arrive(q) \/ Step(q) PROVE Judges(p)
  <2>1. CASE q = p
    BY <1>1, <2>1, ArriveAlone, StepAlone DEF Judges
  <2>2. CASE q # p
    <3>1. Alone(q)
      BY <1>1, ArriveAlone, StepAlone
    <3> QED
      BY <2>2, <3>1 DEF Alone, Judges, Waits
  <2> QED
    BY <2>1, <2>2
<1>2. CASE Environment
  BY <1>2, WorldAlone DEF Judges, Waits
<1>3. CASE UNCHANGED vars
  BY <1>3 DEF vars, Judges, Waits
<1> QED
  BY <1>1, <1>2, <1>3 DEF Next

\* The row that was looked up stays the row of its version.
LEMMA GateKeeps ==
  ASSUME Shape, GateInv, [Next]_vars
  PROVE  GateInv'
<1>1. RowsStep
  BY StepRows DEF GateInv
<1>2. events' \in Nat
  BY Counted DEF GateInv
<1>3. ASSUME NEW p \in Procs PROVE Judging(p)'
  <2>1. CASE pc'[p] \in {"stamp", "readGate"} /\ Waits(p)
    BY <1>1, <2>1 DEF Waits, RowsStep, SameKey, GateInv, Judging
  <2>2. CASE pc'[p] \in {"stamp", "readGate"} /\ Relookup(p)
    <3>1. PICK r \in VersionRows(pkg.id, VerOf[rq[p].file]) :
               rq' = [rq EXCEPT ![p].verId = r.id, ![p].attrs = AttrsOf(r)]
      <4>1. \A code : ~Respond(p, code)
        BY <2>2, RespondAlone
      <4> QED
        BY <2>2, <4>1 DEF Relookup
    <3>2. r \in versions /\ r.ver = VerOf[rq[p].file] /\ versions' = versions
      BY <2>2, <3>1 DEF VersionRows, Relookup, rows
    <3>3. PICK l : l = [[rq[p] EXCEPT !.verId = r.id] EXCEPT !.attrs = AttrsOf(r)]
      OBVIOUS
    <3>4. rq'[p] = l
      BY <3>1, <3>3 DEF Shape
    <3>5. l.verId = r.id /\ l.attrs = AttrsOf(r) /\ l.file = rq[p].file
      BY <3>3 DEF Shape, IsLocal, LocalFields
    <3>6. \A s \in versions : s.id = r.id => s = r
      BY <3>2 DEF GateInv, VersionsOk
    <3> QED
      BY <3>2, <3>4, <3>5, <3>6 DEF Judging, AttrsOf
  <2> QED
    BY <2>1, <2>2, EveryoneJudges DEF Judges, Judging
<1> QED
  BY <1>1, <1>2, <1>3 DEF GateInv, RowsStep

\* The post-ingest gate says what the next request for the file would be told: no one is let
\* in or kept out for having come first (the patched ver row of pullThroughDownload).
THEOREM GateIsNextReadHolds == Spec => GateIsNextRead
<1>1. Init => GateInv
  <2>1. IsFiniteSet({})
    BY FS_EmptySet
  <2> QED
    BY <2>1 DEF Init, GateInv, VersionsOk, Judging
<1>2. PullInv => Shape
  BY DEF PullInv, Requests
<1>3. Shape /\ GateInv /\ [Next]_vars => GateInv'
  BY GateKeeps
<1>4. Shape /\ GateInv /\ [Next]_vars => [\A p \in Procs, r \in versions :
         /\ pc[p] = "readGate" /\ pc'[p] # "readGate" /\ events' = events
         /\ r.id = rq[p].verId /\ r.lic = rq[p].attrs.lic
         /\ r.pub = (rq[p].attrs.pub \/ rq[p].havePub)
         => (pc'[p] = "serve" <=> ~IsBlocked(Evaluate(rule, r.ver, AttrsOf(r))))]_vars
  <2> SUFFICES ASSUME Shape, GateInv, [Next]_vars, NEW p \in Procs, NEW r \in versions,
                      pc[p] = "readGate", pc'[p] # "readGate", events' = events,
                      r.id = rq[p].verId, r.lic = rq[p].attrs.lic,
                      r.pub = (rq[p].attrs.pub \/ rq[p].havePub)
               PROVE  pc'[p] = "serve" <=> ~IsBlocked(Evaluate(rule, r.ver, AttrsOf(r)))
    OBVIOUS
  <2>1. events' # events + 1
    BY DEF GateInv
  <2>2. ~ UNCHANGED vars
    BY DEF vars
  <2>3. PICK q \in Procs : Arrive(q) \/ Step(q)
    BY <2>1, <2>2, Counted
  <2>4. Alone(q) /\ (q = p => ~Arrive(q))
    BY <2>3, ArriveAlone, StepAlone
  <2>5. q = p
    BY <2>4 DEF Alone
  <2>6. Step(p)
    BY <2>3, <2>4, <2>5
  <2>7. ReadGate(p)
    BY <2>6 DEF Step, PullThrough, Refuse, ProvenanceGate, SetLicense, LookupFile, FetchIndex, IngestGate,
         FetchBlob, Relookup, Stamp, ReadGate, Serve, IndexLocal, IndexMerge, IndexUpstream,
         UploadStore, PullThroughStore, GetOrCreatePackage, GetOrAddVersion, CreateFile
  <2>8. r.ver = VerOf[rq[p].file] /\ GateAttrs(p) = AttrsOf(r)
    <3>1. PICK lic, pub : rq[p].attrs = [lic |-> lic, pub |-> pub]
      BY DEF GateInv, Judging
    <3>2. GateAttrs(p) = [lic |-> lic, pub |-> pub \/ rq[p].havePub]
      BY <3>1 DEF GateAttrs
    <3>3. rq[p].attrs.lic = lic /\ rq[p].attrs.pub = pub
      BY <3>1
    <3> QED
      BY <3>2, <3>3 DEF AttrsOf, GateInv, Judging
  <2>9. ReadBlocked(p) <=> IsBlocked(Evaluate(rule, r.ver, AttrsOf(r)))
    BY <2>8 DEF ReadBlocked
  <2>10. CASE ReadBlocked(p) /\ Respond(p, "403")
    <3>1. pc'[p] = "idle"
      BY <2>10, RespondAlone
    <3> QED
      BY <2>9, <2>10, <3>1
  <2>11. CASE ~ReadBlocked(p) /\ Goto(p, "serve") /\ UNCHANGED <<rq, resp>>
    <3>1. pc'[p] = "serve"
      BY <2>11, GoesAlone
    <3> QED
      BY <2>9, <2>11, <3>1
  <2> QED
    BY <2>7, <2>10, <2>11 DEF ReadGate
<1> QED
  BY <1>1, <1>2, <1>3, <1>4, PullHolds, PTL DEF Spec, GateIsNextRead

-----------------------------------------------------------------------------
(* RubyGems.  It instantiates the same Registry; what it takes from there is *)
(* what PyPI takes.                                                          *)

\* Responses and positions.
LEMMA GemAnswers ==
  /\ \A p, l : Gem!Goto(p, l) <=> Goto(p, l)
  /\ \A p, r : Gem!RespondWith(p, r) <=> RespondWith(p, r)
  /\ \A p, c : Gem!Respond(p, c) <=> Respond(p, c)
  /\ \A p, c : Gem!ServeBytes(p, c) <=> ServeBytes(p, c)
  /\ \A p, l, r : Gem!Begin(p, l, r) <=> Begin(p, l, r)
  /\ Gem!NoLocal = NoLocal /\ Gem!NoResp = NoResp
  BY DEF Gem!RespondWith, RespondWith, Gem!Goto, Goto, Gem!NoLocal, NoLocal, Gem!Respond, Respond,
         Gem!NoResp, NoResp, Gem!ServeBytes, ServeBytes, Gem!NoAttrs, NoAttrs,
         Gem!Begin, Begin, Gem!Overlap, Overlap, Gem!MayPullThrough, MayPullThrough,
         Gem!rows, rows, Gem!world, world, Gem!history, history

\* Verdicts and rows.
LEMMA GemReads ==
  /\ \A r, v, a : Gem!Evaluate(r, v, a) = Evaluate(r, v, a)
  /\ \A d : Gem!IsBlocked(d) <=> IsBlocked(d)
  /\ \A r : Gem!AttrsOf(r) = AttrsOf(r)
  /\ \A k, v : Gem!VersionRows(k, v) = VersionRows(k, v)
  /\ \A i, f : Gem!FileRows(i, f) = FileRows(i, f)
  /\ \A p : Gem!NewVersion(p) = NewVersion(p)
  /\ Gem!FreshVersion = FreshVersion /\ Gem!FreshPackage = FreshPackage
<1>1. ASSUME NEW S PROVE Gem!Unused(S) = Unused(S)
  <2>1. Gem!Cardinality(S) = Cardinality(S)
    BY Zenon DEF Gem!Cardinality, Cardinality
  <2> QED
    BY <2>1, Zenon DEF Gem!Unused, Unused
<1>2. Gem!FreshVersion = FreshVersion /\ Gem!FreshPackage = FreshPackage
  BY <1>1 DEF Gem!FreshVersion, FreshVersion, Gem!FreshPackage, FreshPackage
<1>3. \A p : Gem!NewVersion(p) = NewVersion(p)
  BY <1>2 DEF Gem!NewVersion, NewVersion
<1>4. /\ \A r, v, a : Gem!Evaluate(r, v, a) = Evaluate(r, v, a)
      /\ \A d : Gem!IsBlocked(d) <=> IsBlocked(d)
      /\ \A r : Gem!AttrsOf(r) = AttrsOf(r)
  BY DEF Gem!Evaluate, Evaluate, Gem!CooldownEvaluate, CooldownEvaluate, Gem!LicenseEvaluate, LicenseEvaluate,
         Gem!IsBlocked, IsBlocked, Gem!AttrsOf, AttrsOf
<1>5. /\ \A k, v : Gem!VersionRows(k, v) = VersionRows(k, v)
      /\ \A i, f : Gem!FileRows(i, f) = FileRows(i, f)
  BY DEF Gem!VersionRows, VersionRows, Gem!FileRows, FileRows
<1> QED
  BY <1>2, <1>3, <1>4, <1>5

\* The service.
LEMMA GemService ==
  ASSUME NEW p, NEW next, NEW code, NEW dup, NEW src
  PROVE  /\ \A via : Gem!GetOrCreatePackage(p, via) <=> GetOrCreatePackage(p, via)
         /\ Gem!AddVersion(p, next, Gem!Respond(p, code)) <=> AddVersion(p, next, Respond(p, code))
         /\ Gem!GetOrAddVersion(p, next, Gem!Respond(p, code)) <=> GetOrAddVersion(p, next, Respond(p, code))
         /\ Gem!CreateFile(p, src, next, Gem!Respond(p, dup), Gem!Respond(p, code))
               <=> CreateFile(p, src, next, Respond(p, dup), Respond(p, code))
         /\ Gem!CreateFile(p, src, next, Gem!Goto(p, next) /\ UNCHANGED <<rq, resp>>, Gem!Respond(p, code))
               <=> CreateFile(p, src, next, Goto(p, next) /\ UNCHANGED <<rq, resp>>, Respond(p, code))
  BY GemAnswers, GemReads
     DEF Gem!GetOrCreatePackage, GetOrCreatePackage, Gem!AddVersion, AddVersion,
         Gem!GetOrAddVersion, GetOrAddVersion, Gem!CreateVersion, CreateVersion,
         Gem!CreateFile, CreateFile, Gem!world, world, Gem!history, history

\* The world.
LEMMA GemWorld == Gem!Environment <=> Environment
<1>1. \A k : Gem!Event(k) <=> Event(k)
  BY DEF Gem!Event, Event
<1>2. \A r : Gem!RejectVersion(r) <=> RejectVersion(r)
  BY <1>1 DEF Gem!RejectVersion, RejectVersion, Gem!Updated, Updated, Gem!world, world
<1>3. \A r : Gem!PromoteVersion(r) <=> PromoteVersion(r)
  BY <1>1 DEF Gem!PromoteVersion, PromoteVersion, Gem!Updated, Updated, Gem!world, world
<1>4. \A r : /\ Gem!DeleteVersion(r) <=> DeleteVersion(r)
             /\ Gem!ChangeRule(r) <=> ChangeRule(r)
             /\ Gem!SetPackageCreatedVia(r) <=> SetPackageCreatedVia(r)
             /\ Gem!Fail(r) <=> Fail(r)
  BY <1>1, GemAnswers DEF Gem!DeleteVersion, DeleteVersion, Gem!ChangeRule, ChangeRule, Gem!SetPackageCreatedVia,
     SetPackageCreatedVia, Gem!Fail, Fail, Gem!world, world, Gem!rows, rows
<1>5. /\ Gem!SetMode <=> SetMode
      /\ \A f, c : Gem!UpstreamChanges(f, c) <=> UpstreamChanges(f, c)
      /\ Gem!DeletePackage <=> DeletePackage
      /\ Gem!Crash <=> Crash
  BY <1>1, GemAnswers DEF Gem!SetMode, SetMode, Gem!UpstreamChanges, UpstreamChanges, Gem!DeletePackage,
     DeletePackage, Gem!Crash, Crash, Gem!world, world, Gem!rows, rows
<1> QED
  BY <1>2, <1>3, <1>4, <1>5 DEF Gem!Environment, Environment, Gem!CreatedVia, CreatedVia

-----------------------------------------------------------------------------
\* What a request for a gem has established: the checksum of what it stores, and the verdict.
GemReqOk(l, r) ==
    /\ l = "gate" => r.op = "upload"
    /\ l \in Service /\ r.op = "download" => r.want = r.sha
    /\ l = "serve" => "rule" \in Env \/ ~Hidden(r.file)

GemRequests ==
    /\ rule \in Rule
    /\ Shape
    /\ \A p \in Procs : GemReqOk(pc[p], rq[p]) /\ RespOk(resp[p])

GemInv == GemRequests /\ GemVerified

\* A request that is answered.
LEMMA GemAnswered ==
  ASSUME GemRequests, NEW p \in Procs, NEW r, RespondWith(p, r), RespOk(r), UNCHANGED rule
  PROVE  GemRequests'
<1>1. /\ pc' = [pc EXCEPT ![p] = "idle"] /\ rq' = [rq EXCEPT ![p] = NoLocal]
      /\ resp' = [resp EXCEPT ![p] = r]
  BY DEF RespondWith, Goto
<1>2. IsLocal(NoLocal)
  BY DEF IsLocal, LocalFields, NoLocal
<1>3. /\ Shape' /\ pc'[p] = "idle" /\ resp'[p] = r
      /\ \A q \in Procs \ {p} : pc'[q] = pc[q] /\ rq'[q] = rq[q] /\ resp'[q] = resp[q]
  BY <1>1, <1>2 DEF GemRequests, Shape
<1>4. \A f : Hidden(f)' <=> Hidden(f)
  BY DEF Hidden
<1>5. ASSUME NEW q \in Procs PROVE GemReqOk(pc[q], rq[q])' /\ RespOk(resp[q])'
  <2>1. CASE q = p
    BY <1>3, <1>4, <2>1 DEF GemReqOk, Service, RespOk
  <2>2. CASE q # p
    <3>1. GemReqOk(pc[q], rq[q]) /\ RespOk(resp[q])
      BY DEF GemRequests
    <3> QED
      BY <1>3, <1>4, <2>2, <3>1 DEF GemReqOk, RespOk
  <2> QED
    BY <2>1, <2>2
<1> QED
  BY <1>3, <1>5 DEF GemRequests

\* A request that goes on.
LEMMA GemMoved ==
  ASSUME GemRequests, NEW p \in Procs, NEW l, Goto(p, l), NEW r, rq' = [rq EXCEPT ![p] = r], IsLocal(r),
         GemReqOk(l, r), UNCHANGED rule, resp' = resp \/ resp' = [resp EXCEPT ![p] = NoResp]
  PROVE  GemRequests'
<1>1. /\ Shape' /\ pc'[p] = l /\ rq'[p] = r /\ resp'[p] \in {resp[p], NoResp}
      /\ \A q \in Procs \ {p} : pc'[q] = pc[q] /\ rq'[q] = rq[q] /\ resp'[q] = resp[q]
  BY DEF GemRequests, Shape, Goto
<1>2. \A f : Hidden(f)' <=> Hidden(f)
  BY DEF Hidden
<1>3. NoResp.sha = NoContent
  BY DEF NoResp
<1>4. ASSUME NEW q \in Procs PROVE GemReqOk(pc[q], rq[q])' /\ RespOk(resp[q])'
  <2>1. RespOk(resp[q])
    BY DEF GemRequests
  <2>2. CASE q = p
    BY <1>1, <1>2, <1>3, <2>1, <2>2 DEF GemReqOk, RespOk
  <2>3. CASE q # p
    <3>1. GemReqOk(pc[q], rq[q])
      BY DEF GemRequests
    <3> QED
      BY <1>1, <1>2, <2>1, <2>3, <3>1 DEF GemReqOk, RespOk
  <2> QED
    BY <2>2, <2>3
<1> QED
  BY <1>1, <1>4 DEF GemRequests

\* The answers that carry no bytes, those that do, and the steps that change no local.
LEMMA GemTurns ==
  ASSUME GemRequests, NEW p \in Procs, UNCHANGED rule
  PROVE  /\ \A code : Respond(p, code) => GemRequests'
         /\ \A c : ServeBytes(p, c) /\ ("rule" \in Env \/ ~Hidden(rq[p].file)) => GemRequests'
         /\ \A r : RespondWith(p, r) /\ r.sha = NoContent => GemRequests'
         /\ \A l : Goto(p, l) /\ UNCHANGED <<rq, resp>> /\ GemReqOk(l, rq[p]) => GemRequests'
<1>1. ASSUME NEW r, RespondWith(p, r), r.sha = NoContent PROVE GemRequests'
  BY <1>1, GemAnswered DEF RespOk
<1>2. ASSUME NEW code, Respond(p, code) PROVE GemRequests'
  <2>1. PICK r : r = [NoResp EXCEPT !.code = code, !.file = rq[p].file]
    OBVIOUS
  <2> QED
    BY <1>1, <1>2, <2>1 DEF Respond, NoResp
<1>3. ASSUME NEW c, ServeBytes(p, c), "rule" \in Env \/ ~Hidden(rq[p].file) PROVE GemRequests'
  <2>1. PICK r : r = [NoResp EXCEPT !.code = "200", !.file = rq[p].file, !.sha = c]
    OBVIOUS
  <2>2. RespOk(r) /\ RespondWith(p, r)
    BY <1>3, <2>1 DEF ServeBytes, NoResp, RespOk
  <2> QED
    BY <2>2, GemAnswered
<1>4. ASSUME NEW l, Goto(p, l), UNCHANGED <<rq, resp>>, GemReqOk(l, rq[p]) PROVE GemRequests'
  <2>1. PICK r : r = rq[p]
    OBVIOUS
  <2>2. rq' = [rq EXCEPT ![p] = r] /\ IsLocal(r)
    BY <1>4, <2>1 DEF GemRequests, Shape
  <2> QED
    BY <1>4, <2>1, <2>2, GemMoved
<1> QED
  BY <1>1, <1>2, <1>3, <1>4

\* Every request starts knowing nothing.
LEMMA GemArrives ==
  ASSUME GemRequests, NEW p \in Procs, Gem!Arrive(p)
  PROVE  GemRequests' /\ UNCHANGED <<rows, events>>
<1>1. ASSUME NEW l \in {"refuse", "gate", "yank", "lookup", "info", "versions"}, NEW r, IsLocal(r),
             Begin(p, l, r), l = "gate" => r.op = "upload"
      PROVE  GemRequests' /\ UNCHANGED <<rows, events>>
  <2>1. GemReqOk(l, r)
    BY <1>1 DEF GemReqOk, Service
  <2>2. Goto(p, l) /\ rq' = [rq EXCEPT ![p] = r] /\ resp' = [resp EXCEPT ![p] = NoResp]
        /\ UNCHANGED <<rows, rule, events>>
    BY <1>1 DEF Begin, world
  <2> QED
    BY <1>1, <2>1, <2>2, GemMoved
<1>2. ASSUME NEW f, NEW c, Gem!Upload(p, f, c) PROVE GemRequests' /\ UNCHANGED <<rows, events>>
  <2>1. PICK r : r = [NoLocal EXCEPT !.op = "upload", !.file = f, !.sha = c, !.lic = LicenseOf[c]]
    OBVIOUS
  <2>2. IsLocal(r) /\ r.op = "upload"
    BY <2>1 DEF IsLocal, LocalFields, NoLocal
  <2>3. Begin(p, "refuse", r) \/ Begin(p, "gate", r)
    BY <1>2, <2>1, GemAnswers DEF Gem!Upload
  <2> QED
    BY <1>1, <2>2, <2>3
<1>3. ASSUME NEW f, Gem!Download(p, f) PROVE GemRequests' /\ UNCHANGED <<rows, events>>
  <2>1. PICK r : r = [NoLocal EXCEPT !.op = "download", !.file = f]
    OBVIOUS
  <2>2. IsLocal(r)
    BY <2>1 DEF IsLocal, LocalFields, NoLocal
  <2> QED
    BY <1>1, <1>3, <2>1, <2>2, GemAnswers DEF Gem!Download
<1>4. ASSUME NEW f, Gem!Yank(p, f) PROVE GemRequests' /\ UNCHANGED <<rows, events>>
  <2>1. PICK r : r = [NoLocal EXCEPT !.op = "yank", !.file = f]
    OBVIOUS
  <2>2. IsLocal(r)
    BY <2>1 DEF IsLocal, LocalFields, NoLocal
  <2> QED
    BY <1>1, <1>4, <2>1, <2>2, GemAnswers DEF Gem!Yank
<1>5. CASE Gem!Info(p) \/ Gem!Versions(p)
  <2>1. PICK r : r = [NoLocal EXCEPT !.op = "index"]
    OBVIOUS
  <2>2. IsLocal(r)
    BY <2>1 DEF IsLocal, LocalFields, NoLocal
  <2>3. Begin(p, "info", r) \/ Begin(p, "versions", r)
    BY <1>5, <2>1, GemAnswers DEF Gem!Info, Gem!Versions
  <2> QED
    BY <1>1, <2>2, <2>3
<1> QED
  BY <1>2, <1>3, <1>4, <1>5 DEF Gem!Arrive

\* Push, yank and the listings outside the service.
LEMMA GemUploadKeeps ==
  ASSUME GemRequests, NEW p \in Procs,
         \/ Gem!Refuse(p) \/ Gem!ProvenanceGate(p) \/ Gem!SetLicense(p) \/ Gem!YankLookup(p) \/ Gem!YankUpdate(p)
         \/ Gem!ServeInfo(p) \/ Gem!InfoUpstream(p) \/ Gem!ServeVersions(p)
  PROVE  GemRequests'
<1>1. UNCHANGED rule
  BY DEF Gem!Refuse, Gem!ProvenanceGate, Gem!SetLicense, Gem!YankLookup, Gem!YankUpdate,
         Gem!ServeInfo, Gem!InfoUpstream, Gem!ServeVersions, Gem!world
<1>2. ASSUME NEW code, Gem!Respond(p, code) PROVE GemRequests'
  BY <1>1, <1>2, GemAnswers, GemTurns
<1>3. ASSUME NEW a, NEW b, Gem!RespondWith(p, Gem!OkListing(a, b)) PROVE GemRequests'
  <2>1. PICK r : r = [NoResp EXCEPT !.code = "200", !.local = a, !.up = b]
    OBVIOUS
  <2>2. r.sha = NoContent /\ RespondWith(p, r)
    BY <1>3, <2>1, GemAnswers DEF Gem!OkListing, NoResp
  <2> QED
    BY <1>1, <2>2, GemTurns
<1>4. CASE Gem!ProvenanceGate(p)
  <2>1. GemReqOk("svcPackage", rq[p])
    BY <1>4 DEF Gem!ProvenanceGate, GemRequests, GemReqOk, Service
  <2> QED
    BY <1>1, <1>2, <1>4, <2>1, GemTurns, GemAnswers DEF Gem!ProvenanceGate
<1>5. CASE Gem!YankLookup(p)
  <2>1. ASSUME NEW i, rq' = [rq EXCEPT ![p].verId = i], Goto(p, "yankUpdate"), UNCHANGED resp
        PROVE  GemRequests'
    <3>1. PICK r : r = [rq[p] EXCEPT !.verId = i]
      OBVIOUS
    <3>2. rq' = [rq EXCEPT ![p] = r] /\ IsLocal(r)
      BY <2>1, <3>1 DEF GemRequests, Shape, IsLocal, LocalFields
    <3>3. GemReqOk("yankUpdate", r)
      BY DEF GemReqOk, Service
    <3> QED
      BY <1>1, <2>1, <3>2, <3>3, GemMoved
  <2> QED
    BY <1>2, <1>5, <2>1, GemAnswers DEF Gem!YankLookup
<1>6. CASE Gem!ServeInfo(p)
  <2>1. GemReqOk("infoUpstream", rq[p])
    BY DEF GemReqOk, Service
  <2> QED
    BY <1>1, <1>2, <1>3, <1>6, <2>1, GemTurns, GemAnswers DEF Gem!ServeInfo
<1> QED
  BY <1>2, <1>3, <1>4, <1>5, <1>6
     DEF Gem!Refuse, Gem!SetLicense, Gem!YankUpdate, Gem!InfoUpstream, Gem!ServeVersions

\* The download: the checksum on the way in, and both gates.
LEMMA GemDownloadKeeps ==
  ASSUME GemRequests, NEW p \in Procs,
         \/ Gem!LookupFile(p) \/ Gem!FetchInfo(p) \/ Gem!IngestGate(p) \/ Gem!FetchBlob(p)
         \/ Gem!Relookup(p) \/ Gem!Stamp(p) \/ Gem!StampLicense(p) \/ Gem!ReadGate(p) \/ Gem!Serve(p)
  PROVE  GemRequests'
<1>1. UNCHANGED rule /\ rule \in Rule /\ Shape /\ IsLocal(rq[p]) /\ GemReqOk(pc[p], rq[p])
  BY DEF Gem!LookupFile, Gem!FetchInfo, Gem!IngestGate, Gem!FetchBlob, Gem!Relookup, Gem!Stamp,
         Gem!StampLicense, Gem!ReadGate, Gem!Serve, Gem!world, GemRequests, Shape
<1>2. ASSUME NEW code, Gem!Respond(p, code) PROVE GemRequests'
  BY <1>1, <1>2, GemAnswers, GemTurns
<1>3. ASSUME NEW c, Gem!ServeBytes(p, c), "rule" \in Env \/ ~Hidden(rq[p].file) PROVE GemRequests'
  BY <1>1, <1>3, GemAnswers, GemTurns
<1>4. ASSUME NEW l \in {"fetchInfo", "stamp", "stampLicense", "readGate"}, Gem!Goto(p, l), UNCHANGED <<rq, resp>>
      PROVE  GemRequests'
  <2>1. GemReqOk(l, rq[p])
    BY DEF GemReqOk, Service
  <2> QED
    BY <1>1, <1>4, <2>1, GemAnswers, GemTurns
<1>5. ASSUME NEW l, Gem!Goto(p, l), NEW r, rq' = [rq EXCEPT ![p] = r], IsLocal(r), UNCHANGED resp,
             l \in {"ingestGate", "fetchBlob"} \/ (l = "svcPackage" /\ r.want = r.sha)
      PROVE  GemRequests'
  <2>1. GemReqOk(l, r)
    BY <1>5 DEF GemReqOk, Service
  <2> QED
    BY <1>1, <1>5, <2>1, GemAnswers, GemMoved
<1>6. CASE Gem!LookupFile(p)
  <2>1. ASSUME NEW c, NEW a, Gem!ServeBytes(p, c), ~Gem!IsBlocked(Gem!Evaluate(rule, VerOf[rq[p].file], a))
        PROVE  GemRequests'
    <3>1. ~Hidden(rq[p].file)
      BY <1>1, <2>1, YoungBlocked, GemReads
    <3> QED
      BY <1>3, <2>1, <3>1
  <2> QED
    BY <1>2, <1>4, <1>6, <2>1 DEF Gem!LookupFile
<1>7. CASE Gem!FetchInfo(p) \/ Gem!IngestGate(p)
  <2>1. ASSUME NEW w, rq' = [rq EXCEPT ![p].want = w], Gem!Goto(p, "ingestGate"), UNCHANGED resp
        PROVE  GemRequests'
    <3>1. PICK r : r = [rq[p] EXCEPT !.want = w]
      OBVIOUS
    <3>2. rq' = [rq EXCEPT ![p] = r] /\ IsLocal(r)
      BY <1>1, <2>1, <3>1 DEF Shape, IsLocal, LocalFields
    <3> QED
      BY <1>5, <2>1, <3>2
  <2>2. ASSUME NEW b, rq' = [rq EXCEPT ![p].havePub = b], Gem!Goto(p, "fetchBlob"), UNCHANGED resp
        PROVE  GemRequests'
    <3>1. PICK r : r = [rq[p] EXCEPT !.havePub = b]
      OBVIOUS
    <3>2. rq' = [rq EXCEPT ![p] = r] /\ IsLocal(r)
      BY <1>1, <2>2, <3>1 DEF Shape, IsLocal, LocalFields
    <3> QED
      BY <1>5, <2>2, <3>2
  <2> QED
    BY <1>2, <1>7, <2>1, <2>2 DEF Gem!FetchInfo, Gem!IngestGate
<1>8. CASE Gem!FetchBlob(p)
  <2>1. ASSUME NEW c, NEW lic, rq[p].want = c, rq' = [rq EXCEPT ![p].sha = c, ![p].lic = lic],
               Gem!Goto(p, "svcPackage"), UNCHANGED resp
        PROVE  GemRequests'
    <3>1. PICK r : r = [[rq[p] EXCEPT !.sha = c] EXCEPT !.lic = lic]
      OBVIOUS
    <3>2. rq' = [rq EXCEPT ![p] = r] /\ IsLocal(r) /\ r.want = r.sha
      BY <1>1, <2>1, <3>1 DEF Shape, IsLocal, LocalFields
    <3> QED
      BY <1>5, <2>1, <3>2
  <2> QED
    BY <1>2, <1>8, <2>1 DEF Gem!FetchBlob, Gem!ChecksumMatches
<1>9. CASE Gem!Relookup(p) \/ Gem!Stamp(p) \/ Gem!StampLicense(p)
  BY <1>2, <1>4, <1>9 DEF Gem!Relookup, Gem!Stamp, Gem!StampLicense
<1>10. CASE Gem!ReadGate(p)
  <2>1. ASSUME ~Gem!ReadBlocked(p), Gem!Goto(p, "serve"), UNCHANGED <<rq, resp>> PROVE GemRequests'
    <3>1. ~Hidden(rq[p].file)
      BY <1>1, <2>1, YoungBlocked, GemReads DEF Gem!ReadBlocked
    <3>2. GemReqOk("serve", rq[p])
      BY <3>1 DEF GemReqOk, Service
    <3> QED
      BY <1>1, <2>1, <3>2, GemAnswers, GemTurns
  <2> QED
    BY <1>2, <1>10, <2>1 DEF Gem!ReadGate
<1>11. CASE Gem!Serve(p)
  <2>1. "rule" \in Env \/ ~Hidden(rq[p].file)
    BY <1>1, <1>11 DEF Gem!Serve, GemReqOk
  <2> QED
    BY <1>2, <1>3, <1>11, <2>1 DEF Gem!Serve
<1> QED
  BY <1>6, <1>7, <1>8, <1>9, <1>10, <1>11

\* The service takes what it is handed; only CreateFile adds a file, a gem whose checksum was compared.
LEMMA GemServiceKeeps ==
  ASSUME GemInv, NEW p \in Procs, Gem!UploadStore(p) \/ Gem!PullThroughStore(p)
  PROVE  GemInv'
<1>1. /\ GemRequests /\ GemVerified /\ rule \in Rule /\ Shape /\ IsLocal(rq[p]) /\ GemReqOk(pc[p], rq[p])
  BY DEF GemInv, GemRequests, Shape
<1>2. ASSUME NEW r, IsLocal(r), r.op = rq[p].op, r.want = rq[p].want, r.sha = rq[p].sha, pc[p] \in Service,
             rq' = [rq EXCEPT ![p] = r], NEW l \in Service, Goto(p, l), UNCHANGED <<resp, rule, files>>
      PROVE  GemInv'
  <2>1. GemReqOk(l, r)
    BY <1>1, <1>2 DEF GemReqOk, Service
  <2>2. GemRequests'
    BY <1>1, <1>2, <2>1, GemMoved
  <2> QED
    BY <1>1, <1>2, <2>2 DEF GemInv, GemVerified
<1>3. ASSUME NEW c, Respond(p, c), UNCHANGED <<rule, files>> PROVE GemInv'
  <2>1. GemRequests'
    BY <1>1, <1>3, GemTurns
  <2> QED
    BY <1>1, <1>3, <2>1 DEF GemInv, GemVerified
<1>4. ASSUME NEW via, GetOrCreatePackage(p, via) PROVE GemInv'
  <2>1. PICK i : i = pkg'.id
    OBVIOUS
  <2>2. PICK r : r = [rq[p] EXCEPT !.pkgId = i]
    OBVIOUS
  <2>3. rq' = [rq EXCEPT ![p] = r] /\ Goto(p, "svcVersion") /\ UNCHANGED <<resp, rule, files>>
        /\ pc[p] \in Service
    BY <1>1, <1>4, <2>1, <2>2 DEF GetOrCreatePackage, Shape, world, Service
  <2>4. IsLocal(r) /\ r.op = rq[p].op /\ r.want = rq[p].want /\ r.sha = rq[p].sha
    BY <1>1, <2>2 DEF IsLocal, LocalFields
  <2> QED
    BY <1>2, <2>3, <2>4 DEF Service
<1>5. ASSUME NEW code, AddVersion(p, "svcFile", Respond(p, code)) \/ GetOrAddVersion(p, "svcFile", Respond(p, code))
      PROVE  GemInv'
  <2>1. UNCHANGED <<rule, files>> /\ pc[p] \in Service
    BY <1>5 DEF AddVersion, GetOrAddVersion, world, Service
  <2>2. ASSUME NEW i, NEW a, rq' = [rq EXCEPT ![p].verId = i, ![p].attrs = a], Goto(p, "svcFile"), UNCHANGED resp
        PROVE  GemInv'
    <3>1. PICK r : r = [[rq[p] EXCEPT !.verId = i] EXCEPT !.attrs = a]
      OBVIOUS
    <3>2. rq' = [rq EXCEPT ![p] = r]
      BY <1>1, <2>2, <3>1 DEF Shape
    <3>3. IsLocal(r) /\ r.op = rq[p].op /\ r.want = rq[p].want /\ r.sha = rq[p].sha
      BY <1>1, <3>1 DEF IsLocal, LocalFields
    <3> QED
      BY <1>2, <2>1, <2>2, <3>2, <3>3 DEF Service
  <2>3. ASSUME NEW i, rq' = [rq EXCEPT ![p].verId = i], Goto(p, "svcFile"), UNCHANGED resp
        PROVE  GemInv'
    <3>1. PICK r : r = [rq[p] EXCEPT !.verId = i]
      OBVIOUS
    <3>2. rq' = [rq EXCEPT ![p] = r]
      BY <1>1, <2>3, <3>1 DEF Shape
    <3>3. IsLocal(r) /\ r.op = rq[p].op /\ r.want = rq[p].want /\ r.sha = rq[p].sha
      BY <1>1, <3>1 DEF IsLocal, LocalFields
    <3> QED
      BY <1>2, <2>1, <2>3, <3>2, <3>3 DEF Service
  <2> QED
    BY <1>3, <1>5, <2>1, <2>2, <2>3 DEF AddVersion, GetOrAddVersion, CreateVersion
<1>6. ASSUME NEW src, NEW next \in {"setLicense", "relookup"}, NEW dup, NEW code,
             \/ CreateFile(p, src, next, Respond(p, dup), Respond(p, code))
             \/ CreateFile(p, src, next, Goto(p, next) /\ UNCHANGED <<rq, resp>>, Respond(p, code)),
             src = "upstream" => rq[p].op = "download"
      PROVE  GemInv'
  <2>1. UNCHANGED rule /\ pc[p] = "svcFile"
    BY <1>6 DEF CreateFile, world
  <2>2. ASSUME Goto(p, next), UNCHANGED <<rq, resp>> PROVE GemRequests'
    <3>1. GemReqOk(next, rq[p])
      BY DEF GemReqOk, Service
    <3> QED
      BY <1>1, <2>1, <2>2, <3>1, GemTurns
  <2>3. CASE Goto(p, next) /\ UNCHANGED <<rq, resp>> /\ UNCHANGED files
    BY <1>1, <2>2, <2>3 DEF GemInv, GemVerified
  <2>4. CASE /\ files' = files \cup {[vid |-> rq[p].verId, file |-> rq[p].file, sha |-> rq[p].sha,
                                      src |-> src, want |-> rq[p].want]}
             /\ Goto(p, next) /\ UNCHANGED <<rq, resp>>
    <3>1. PICK x : x = [vid |-> rq[p].verId, file |-> rq[p].file, sha |-> rq[p].sha,
                        src |-> src, want |-> rq[p].want]
      OBVIOUS
    <3>2. files' = files \cup {x} /\ x.src = src /\ x.sha = rq[p].sha /\ x.want = rq[p].want
      BY <2>4, <3>1
    <3>3. src = "upstream" => x.sha = x.want
      BY <1>1, <1>6, <2>1, <3>2 DEF GemReqOk, Service
    <3>4. GemVerified'
      BY <1>1, <3>2, <3>3 DEF GemVerified
    <3> QED
      BY <2>2, <2>4, <3>4 DEF GemInv
  <2> QED
    BY <1>3, <1>6, <2>1, <2>3, <2>4 DEF CreateFile
<1>7. CASE Gem!UploadStore(p)
  <2>1. \/ GetOrCreatePackage(p, "uploaded")
        \/ AddVersion(p, "svcFile", Respond(p, "500"))
        \/ CreateFile(p, "upload", "setLicense", Respond(p, "500"), Respond(p, "500"))
    BY <1>7, GemService DEF Gem!UploadStore
  <2> QED
    BY <1>4, <1>5, <1>6, <2>1
<1>8. CASE Gem!PullThroughStore(p)
  BY <1>4, <1>5, <1>6, <1>8, GemService DEF Gem!PullThroughStore
<1> QED
  BY <1>7, <1>8

\* Nothing the world does shows a young version to anybody, or changes a file.
LEMMA GemWorldKeeps ==
  ASSUME GemInv, Environment
  PROVE  GemInv'
<1>1. GemRequests /\ rule \in Rule
  BY DEF GemInv, GemRequests
<1>2. GemVerified'
  <2>1. files' \subseteq files
    BY Zenon DEF Environment, ChangeRule, SetMode, UpstreamChanges, DeleteVersion, RejectVersion,
             PromoteVersion, DeletePackage, SetPackageCreatedVia, Fail, Crash, rows
  <2> QED
    BY <2>1 DEF GemInv, GemVerified
<1>3. ASSUME NEW p \in Procs, Fail(p) PROVE GemRequests'
  <2>1. UNCHANGED rule /\ Respond(p, "500")
    BY <1>3 DEF Fail, world
  <2> QED
    BY <1>1, <2>1, GemTurns
<1>4. ASSUME NEW r \in Rules, ChangeRule(r) PROVE GemRequests'
  <2>1. "rule" \in Env /\ rule' \in Rule /\ UNCHANGED <<pc, rq, resp>>
    BY <1>4, RulesAssumption DEF ChangeRule, Event
  <2> QED
    BY <1>1, <2>1 DEF GemRequests, Shape, GemReqOk, RespOk
<1>5. ASSUME Crash PROVE GemRequests'
  <2>1. /\ pc' = [p \in Procs |-> "idle"] /\ rq' = [p \in Procs |-> NoLocal]
        /\ resp' = [p \in Procs |-> IF pc[p] = "idle" THEN resp[p] ELSE NoResp]
        /\ UNCHANGED rule
    BY <1>5 DEF Crash, world
  <2>2. IsLocal(NoLocal)
    BY DEF IsLocal, LocalFields, NoLocal
  <2>3. NoResp.sha = NoContent
    BY DEF NoResp
  <2>4. Shape'
    BY <2>1, <2>2 DEF Shape
  <2>5. \A p \in Procs : RespOk(resp[p]) /\ resp'[p] \in {resp[p], NoResp} /\ pc'[p] = "idle"
    BY <2>1 DEF GemInv, GemRequests
  <2>6. \A f : Hidden(f)' <=> Hidden(f)
    BY <2>1 DEF Hidden
  <2>7. \A p \in Procs : GemReqOk(pc[p], rq[p])' /\ RespOk(resp[p])'
    BY <2>3, <2>5, <2>6 DEF GemReqOk, RespOk, Service
  <2> QED
    <3>1. rule' \in Rule
      BY <1>1, <2>1
    <3> QED
      BY ONLY <2>4, <2>7, <3>1 DEF GemRequests
<1>6. ASSUME UNCHANGED <<rule, pc, rq, resp>> PROVE GemRequests'
  <2>1. Shape' /\ rule' \in Rule /\ \A f : Hidden(f)' <=> Hidden(f)
    BY <1>1, <1>6 DEF GemRequests, Shape, Hidden
  <2>2. \A p \in Procs : GemReqOk(pc[p], rq[p])' /\ RespOk(resp[p])'
    BY <1>1, <1>6, <2>1 DEF GemRequests, GemReqOk, RespOk
  <2> QED
    BY ONLY <2>1, <2>2 DEF GemRequests
<1>7. ASSUME \/ SetMode
             \/ \E f \in Files, c \in Contents \cup {NoContent} : UpstreamChanges(f, c)
             \/ \E r \in versions : DeleteVersion(r) \/ RejectVersion(r) \/ PromoteVersion(r)
             \/ DeletePackage
             \/ \E v \in CreatedVia : SetPackageCreatedVia(v)
      PROVE  GemRequests'
  <2>1. UNCHANGED <<rule, pc, rq, resp>>
    BY <1>7, Zenon DEF SetMode, UpstreamChanges, DeleteVersion, RejectVersion, PromoteVersion,
                  DeletePackage, SetPackageCreatedVia, world
  <2> QED
    BY <1>6, <2>1
<1>8. GemRequests'
  BY <1>3, <1>4, <1>5, <1>7, Zenon DEF Environment
<1> QED
  BY <1>2, <1>8 DEF GemInv

\* RubyGems starts and runs within what its requests have established.
LEMMA GemInvHolds == Gem!Spec => []GemInv
<1>1. Gem!Init => GemInv
  <2> SUFFICES ASSUME Gem!Init PROVE GemInv
    OBVIOUS
  <2>1. /\ rule \in Rule /\ files = {}
        /\ pc = [p \in Procs |-> "idle"] /\ rq = [p \in Procs |-> NoLocal] /\ resp = [p \in Procs |-> NoResp]
    BY RulesAssumption, GemAnswers DEF Gem!Init
  <2>2. IsLocal(NoLocal)
    BY DEF IsLocal, LocalFields, NoLocal
  <2>3. Shape
    BY <2>1, <2>2 DEF Shape
  <2>4. NoResp.sha = NoContent
    BY DEF NoResp
  <2>5. \A q \in Procs : GemReqOk(pc[q], rq[q]) /\ RespOk(resp[q])
    BY <2>1, <2>4 DEF GemReqOk, Service, RespOk
  <2> QED
    BY <2>1, <2>3, <2>5 DEF GemInv, GemRequests, GemVerified
<1>2. GemInv /\ [Gem!Next]_Gem!vars => GemInv'
  <2> SUFFICES ASSUME GemInv, [Gem!Next]_Gem!vars PROVE GemInv'
    OBVIOUS
  <2>1. CASE UNCHANGED Gem!vars
    <3>1. UNCHANGED <<files, rule, pc, rq, resp>>
      BY <2>1 DEF Gem!vars, Gem!rows, Gem!world
    <3> QED
      BY <3>1 DEF GemInv, GemRequests, GemVerified, Shape, GemReqOk, RespOk, Hidden
  <2>2. ASSUME NEW p \in Procs, Gem!Arrive(p) PROVE GemInv'
    <3>1. GemRequests' /\ UNCHANGED files
      BY <2>2, GemArrives DEF GemInv, rows
    <3> QED
      BY <3>1 DEF GemInv, GemVerified
  <2>3. ASSUME NEW p \in Procs, Gem!Step(p) PROVE GemInv'
    <3>1. CASE Gem!UploadStore(p) \/ Gem!PullThroughStore(p)
      BY <3>1, GemServiceKeeps
    <3>2. CASE \/ Gem!Refuse(p) \/ Gem!ProvenanceGate(p) \/ Gem!SetLicense(p)
               \/ Gem!YankLookup(p) \/ Gem!YankUpdate(p)
               \/ Gem!ServeInfo(p) \/ Gem!InfoUpstream(p) \/ Gem!ServeVersions(p)
      <4>1. UNCHANGED files
        BY <3>2 DEF Gem!Refuse, Gem!ProvenanceGate, Gem!SetLicense, Gem!YankLookup, Gem!YankUpdate,
                    Gem!ServeInfo, Gem!InfoUpstream, Gem!ServeVersions, Gem!rows
      <4> QED
        BY <3>2, <4>1, GemUploadKeeps DEF GemInv, GemVerified
    <3>3. CASE \/ Gem!LookupFile(p) \/ Gem!FetchInfo(p) \/ Gem!IngestGate(p) \/ Gem!FetchBlob(p)
               \/ Gem!Relookup(p) \/ Gem!Stamp(p) \/ Gem!StampLicense(p) \/ Gem!ReadGate(p) \/ Gem!Serve(p)
      <4>1. UNCHANGED files
        BY <3>3 DEF Gem!LookupFile, Gem!FetchInfo, Gem!IngestGate, Gem!FetchBlob, Gem!Relookup, Gem!Stamp,
                    Gem!StampLicense, Gem!ReadGate, Gem!Serve, Gem!rows
      <4> QED
        BY <3>3, <4>1, GemDownloadKeeps DEF GemInv, GemVerified
    <3> QED
      BY <2>3, <3>1, <3>2, <3>3 DEF Gem!Step, Gem!PullThrough
  <2>4. CASE Gem!Environment
    BY <2>4, GemWorld, GemWorldKeeps
  <2> QED
    BY <2>1, <2>2, <2>3, <2>4 DEF Gem!Next
<1> QED
  BY <1>1, <1>2, PTL DEF Gem!Spec

\* Gems pulled through are the bytes the compact index announced, even when upstream replaces
\* the gem between the two fetches (the checksum of servePullThroughGem).
THEOREM GemVerifiedHolds == Gem!Spec => []GemVerified
<1>1. GemInv => GemVerified
  BY DEF GemInv
<1> QED
  BY <1>1, GemInvHolds, PTL

\* While a blocking cooldown is in force no client gets a young gem, the one whose request
\* pulled it through included (the post-ingest gate of servePullThroughGem).
THEOREM YoungGemNeverServed == Gem!Spec => []YoungNeverServed
<1>1. GemInv => YoungNeverServed
  BY DEF GemInv, GemRequests, RespOk, YoungNeverServed, Served, Hidden
<1> QED
  BY <1>1, GemInvHolds, PTL

-----------------------------------------------------------------------------
\* A step that keeps the version table in order, and what is in quarantine in quarantine.
YanksKept ==
    /\ VersionsOk(versions')
    /\ \A r \in versions, s \in versions' : r.quar /\ s.pkg = r.pkg /\ s.ver = r.ver => s.quar

\* Deletions and steps that write no version.
LEMMA FewerYanks ==
  ASSUME VersionsOk(versions), versions' \subseteq versions
  PROVE  YanksKept
<1>1. RowsStep
  BY UnchangedRows
<1> QED
  BY <1>1 DEF RowsStep, YanksKept, VersionsOk

\* UPDATEs, but for the one that ends a quarantine.
LEMMA UpdatedYanks ==
  ASSUME VersionsOk(versions), NEW i, NEW c \in {"lic", "pub", "quar"}, NEW x, Wrote(i, c, x),
         c # "quar" \/ x = TRUE
  PROVE  YanksKept
<1>1. VersionsOk(versions') /\ QuarantineKept(versions, versions')
  BY UpdatedVersions
<1> QED
  BY <1>1 DEF YanksKept, QuarantineKept, SameKey, VersionsOk

\* An INSERT: a version in quarantine has a row, so nobody adds one for it.
LEMMA CreatedYanks ==
  ASSUME VersionsOk(versions), NEW p \in Procs, IsLocal(rq[p]),
         VersionRows(rq[p].pkgId, VerOf[rq[p].file]) = {},
         versions' = versions \cup {NewVersion(p)}
  PROVE  YanksKept
<1>1. /\ VersionsOk(versions')
      /\ NewVersion(p).pkg = rq[p].pkgId /\ NewVersion(p).ver = VerOf[rq[p].file]
  BY CreatedVersion
<1>2. PICK n : n = NewVersion(p)
  OBVIOUS
<1>3. \A r \in versions : ~(r.pkg = n.pkg /\ r.ver = n.ver)
  BY <1>1, <1>2 DEF VersionRows
<1> QED
  BY <1>1, <1>2, <1>3 DEF YanksKept, VersionsOk

\* No request for a gem ends a quarantine, and only the world counts.
LEMMA GemStepYanks ==
  ASSUME GemRequests, VersionsOk(versions), NEW p \in Procs, Gem!Arrive(p) \/ Gem!Step(p)
  PROVE  YanksKept /\ UNCHANGED events
<1>1. CASE versions' \subseteq versions /\ UNCHANGED events
  BY <1>1, FewerYanks
<1>2. CASE Gem!Arrive(p)
  <2>1. UNCHANGED <<versions, events>>
    BY <1>2, GemArrives DEF rows
  <2> QED
    BY <1>1, <2>1
<1>3. CASE Gem!SetLicense(p) \/ Gem!YankUpdate(p) \/ Gem!Stamp(p) \/ Gem!StampLicense(p)
  <2>1. UNCHANGED events
    BY <1>3 DEF Gem!SetLicense, Gem!YankUpdate, Gem!Stamp, Gem!StampLicense, Gem!history
  <2>2. \/ Wrote(rq[p].verId, "lic", rq[p].lic)
        \/ Wrote(rq[p].verId, "pub", TRUE)
        \/ Wrote(rq[p].verId, "quar", TRUE)
        \/ versions' \subseteq versions
    BY <1>3 DEF Gem!SetLicense, Gem!YankUpdate, Gem!Stamp, Gem!StampLicense, Gem!Updated, Wrote, Put
  <2> QED
    BY <1>1, <2>1, <2>2, UpdatedYanks
<1>4. ASSUME NEW code, AddVersion(p, "svcFile", Respond(p, code)) \/ GetOrAddVersion(p, "svcFile", Respond(p, code))
      PROVE  YanksKept /\ UNCHANGED events
  <2>1. UNCHANGED events
    BY <1>4 DEF AddVersion, GetOrAddVersion, history
  <2>2. \/ versions' = versions
        \/ /\ VersionRows(rq[p].pkgId, VerOf[rq[p].file]) = {}
           /\ versions' = versions \cup {NewVersion(p)}
    BY <1>4 DEF AddVersion, GetOrAddVersion, CreateVersion
  <2> QED
    BY <1>1, <2>1, <2>2, CreatedYanks DEF GemRequests, Shape
<1>5. CASE Gem!UploadStore(p) \/ Gem!PullThroughStore(p)
  <2>1. ASSUME NEW via, GetOrCreatePackage(p, via) PROVE UNCHANGED <<versions, events>>
    BY <2>1 DEF GetOrCreatePackage, history
  <2>2. ASSUME NEW src, NEW l, NEW dup, NEW code,
               \/ CreateFile(p, src, l, Respond(p, dup), Respond(p, code))
               \/ CreateFile(p, src, l, Goto(p, l) /\ UNCHANGED <<rq, resp>>, Respond(p, code))
        PROVE  UNCHANGED <<versions, events>>
    BY <2>2 DEF CreateFile, history
  <2>3. CASE Gem!UploadStore(p)
    <3>1. \/ GetOrCreatePackage(p, "uploaded")
          \/ AddVersion(p, "svcFile", Respond(p, "500"))
          \/ CreateFile(p, "upload", "setLicense", Respond(p, "500"), Respond(p, "500"))
      BY <2>3, GemService DEF Gem!UploadStore
    <3> QED
      BY <1>1, <1>4, <2>1, <2>2, <3>1
  <2>4. CASE Gem!PullThroughStore(p)
    <3>1. \/ GetOrCreatePackage(p, "pull_through")
          \/ GetOrAddVersion(p, "svcFile", Respond(p, "502"))
          \/ CreateFile(p, "upstream", "relookup", Goto(p, "relookup") /\ UNCHANGED <<rq, resp>>, Respond(p, "502"))
      BY <2>4, GemService DEF Gem!PullThroughStore
    <3> QED
      BY <1>1, <1>4, <2>1, <2>2, <3>1
  <2> QED
    BY <1>5, <2>3, <2>4
<1>6. CASE \/ Gem!Refuse(p) \/ Gem!ProvenanceGate(p) \/ Gem!YankLookup(p)
           \/ Gem!LookupFile(p) \/ Gem!FetchInfo(p) \/ Gem!IngestGate(p) \/ Gem!FetchBlob(p)
           \/ Gem!Relookup(p) \/ Gem!ReadGate(p) \/ Gem!Serve(p)
           \/ Gem!ServeInfo(p) \/ Gem!InfoUpstream(p) \/ Gem!ServeVersions(p)
  <2>1. UNCHANGED <<versions, events>>
    BY <1>6 DEF Gem!Refuse, Gem!ProvenanceGate, Gem!YankLookup, Gem!LookupFile, Gem!FetchInfo, Gem!IngestGate,
                Gem!FetchBlob, Gem!Relookup, Gem!ReadGate, Gem!Serve, Gem!ServeInfo, Gem!InfoUpstream,
                Gem!ServeVersions, Gem!rows, Gem!history
  <2> QED
    BY <1>1, <2>1
<1> QED
  BY <1>2, <1>3, <1>5, <1>6 DEF Gem!Step, Gem!PullThrough

\* The table of the gem's versions is in order, and the world's steps are counted.
GemRows == VersionsOk(versions) /\ events \in Nat

\* Neither a push nor a pull-through brings a yanked version back: quarantine_reason goes only
\* with a promotion or a deletion by an administrator.
THEOREM YankedNotReplacedHolds == Gem!Spec => YankedNotReplaced
<1>1. Gem!Init => GemRows
  <2>1. IsFiniteSet({})
    BY FS_EmptySet
  <2> QED
    BY <2>1 DEF Gem!Init, GemRows, VersionsOk
<1>2. GemInv => GemRequests
  BY DEF GemInv
<1>3. Environment => events' = events + 1
  BY Zenon DEF Environment, Event, ChangeRule, SetMode, UpstreamChanges, DeleteVersion, RejectVersion,
           PromoteVersion, DeletePackage, SetPackageCreatedVia, Fail, Crash
<1>4. GemRequests /\ GemRows /\ [Gem!Next]_Gem!vars =>
          GemRows' /\ (YanksKept \/ events' = events + 1)
  <2> SUFFICES ASSUME GemRequests, GemRows, [Gem!Next]_Gem!vars
               PROVE  GemRows' /\ (YanksKept \/ events' = events + 1)
    OBVIOUS
  <2>1. CASE UNCHANGED Gem!vars
    <3>1. UNCHANGED <<versions, events>>
      BY <2>1 DEF Gem!vars, Gem!rows, Gem!history
    <3> QED
      BY <3>1, FewerYanks DEF GemRows, YanksKept
  <2>2. ASSUME NEW p \in Procs, Gem!Arrive(p) \/ Gem!Step(p)
        PROVE  GemRows' /\ YanksKept
    BY <2>2, GemStepYanks DEF GemRows, YanksKept
  <2>3. CASE Environment
    <3>1. VersionsOk(versions')
      <4>1. ASSUME versions' \subseteq versions PROVE VersionsOk(versions')
        BY <4>1, FewerYanks DEF YanksKept, GemRows
      <4>2. ASSUME NEW r \in versions, RejectVersion(r) \/ PromoteVersion(r) PROVE VersionsOk(versions')
        <5>1. Wrote(r.id, "quar", TRUE) \/ Wrote(r.id, "quar", FALSE)
          BY <4>2 DEF RejectVersion, PromoteVersion, Updated, Wrote, Put
        <5> QED
          BY <5>1, UpdatedVersions DEF GemRows
      <4>3. \/ versions' \subseteq versions
            \/ \E r \in versions : RejectVersion(r) \/ PromoteVersion(r)
        BY <2>3, Zenon DEF Environment, ChangeRule, SetMode, UpstreamChanges, DeleteVersion, DeletePackage,
                           SetPackageCreatedVia, Fail, Crash, rows
      <4> QED
        BY <4>1, <4>2, <4>3
    <3> QED
      BY <1>3, <2>3, <3>1 DEF GemRows
  <2> QED
    BY <2>1, <2>2, <2>3, GemWorld DEF Gem!Next
<1>5. GemRows /\ (YanksKept \/ events' = events + 1) =>
        [\A r \in versions, s \in versions' :
            r.quar /\ s.pkg = r.pkg /\ s.ver = r.ver /\ ~s.quar => events' # events]_vars
  BY DEF GemRows, YanksKept
<1> QED
  BY <1>1, <1>2, <1>4, <1>5, GemInvHolds, PTL DEF Gem!Spec, YankedNotReplaced

-----------------------------------------------------------------------------
(* The Go module proxy, which takes the same from Registry. *)

\* Responses and positions.
LEMMA GoAnswers ==
  /\ \A p, l : Go!Goto(p, l) <=> Goto(p, l)
  /\ \A p, r : Go!RespondWith(p, r) <=> RespondWith(p, r)
  /\ \A p, c : Go!Respond(p, c) <=> Respond(p, c)
  /\ \A p, c : Go!ServeBytes(p, c) <=> ServeBytes(p, c)
  /\ \A p, l, r : Go!Begin(p, l, r) <=> Begin(p, l, r)
  /\ Go!NoLocal = NoLocal /\ Go!NoResp = NoResp
  BY DEF Go!RespondWith, RespondWith, Go!Goto, Goto, Go!NoLocal, NoLocal, Go!Respond, Respond,
         Go!NoResp, NoResp, Go!ServeBytes, ServeBytes, Go!NoAttrs, NoAttrs,
         Go!Begin, Begin, Go!Overlap, Overlap, Go!MayPullThrough, MayPullThrough,
         Go!rows, rows, Go!world, world, Go!history, history

\* Verdicts and rows.
LEMMA GoReads ==
  /\ \A r, v, a : Go!Evaluate(r, v, a) = Evaluate(r, v, a)
  /\ \A d : Go!IsBlocked(d) <=> IsBlocked(d)
  /\ \A k, v : Go!VersionRows(k, v) = VersionRows(k, v)
  /\ \A i, f : Go!FileRows(i, f) = FileRows(i, f)
  /\ \A r : Go!AttrsOf(r) = AttrsOf(r)
  /\ \A p : Go!NewVersion(p) = NewVersion(p)
  /\ Go!FreshVersion = FreshVersion /\ Go!FreshPackage = FreshPackage
<1>1. ASSUME NEW S PROVE Go!Unused(S) = Unused(S)
  <2>1. Go!Cardinality(S) = Cardinality(S)
    BY Zenon DEF Go!Cardinality, Cardinality
  <2> QED
    BY <2>1, Zenon DEF Go!Unused, Unused
<1>2. Go!FreshVersion = FreshVersion /\ Go!FreshPackage = FreshPackage
  BY <1>1 DEF Go!FreshVersion, FreshVersion, Go!FreshPackage, FreshPackage
<1>3. \A p : Go!NewVersion(p) = NewVersion(p)
  BY <1>2 DEF Go!NewVersion, NewVersion
<1>4. /\ \A r, v, a : Go!Evaluate(r, v, a) = Evaluate(r, v, a)
      /\ \A d : Go!IsBlocked(d) <=> IsBlocked(d)
      /\ \A r : Go!AttrsOf(r) = AttrsOf(r)
  BY DEF Go!Evaluate, Evaluate, Go!CooldownEvaluate, CooldownEvaluate, Go!LicenseEvaluate, LicenseEvaluate,
         Go!IsBlocked, IsBlocked, Go!AttrsOf, AttrsOf
<1>5. /\ \A k, v : Go!VersionRows(k, v) = VersionRows(k, v)
      /\ \A i, f : Go!FileRows(i, f) = FileRows(i, f)
  BY DEF Go!VersionRows, VersionRows, Go!FileRows, FileRows
<1> QED
  BY <1>2, <1>3, <1>4, <1>5

\* The package and the version.
LEMMA GoService ==
  ASSUME NEW p, NEW next
  PROVE  /\ \A via : Go!GetOrCreatePackage(p, via) <=> GetOrCreatePackage(p, via)
         /\ \A code : Go!AddVersion(p, next, Go!Respond(p, code)) <=> AddVersion(p, next, Respond(p, code))
  BY GoAnswers, GoReads
     DEF Go!GetOrCreatePackage, GetOrCreatePackage, Go!AddVersion, AddVersion,
         Go!CreateVersion, CreateVersion, Go!world, world, Go!history, history

\* The world.
LEMMA GoWorld == Go!Environment <=> Environment
<1>1. \A k : Go!Event(k) <=> Event(k)
  BY DEF Go!Event, Event
<1>2. \A r : Go!RejectVersion(r) <=> RejectVersion(r)
  BY <1>1 DEF Go!RejectVersion, RejectVersion, Go!Updated, Updated, Go!world, world
<1>3. \A r : Go!PromoteVersion(r) <=> PromoteVersion(r)
  BY <1>1 DEF Go!PromoteVersion, PromoteVersion, Go!Updated, Updated, Go!world, world
<1>4. \A r : /\ Go!DeleteVersion(r) <=> DeleteVersion(r)
             /\ Go!ChangeRule(r) <=> ChangeRule(r)
             /\ Go!SetPackageCreatedVia(r) <=> SetPackageCreatedVia(r)
             /\ Go!Fail(r) <=> Fail(r)
  BY <1>1, GoAnswers DEF Go!DeleteVersion, DeleteVersion, Go!ChangeRule, ChangeRule, Go!SetPackageCreatedVia,
     SetPackageCreatedVia, Go!Fail, Fail, Go!world, world, Go!rows, rows
<1>5. /\ Go!SetMode <=> SetMode
      /\ \A f, c : Go!UpstreamChanges(f, c) <=> UpstreamChanges(f, c)
      /\ Go!DeletePackage <=> DeletePackage
      /\ Go!Crash <=> Crash
  BY <1>1, GoAnswers DEF Go!SetMode, SetMode, Go!UpstreamChanges, UpstreamChanges, Go!DeletePackage,
     DeletePackage, Go!Crash, Crash, Go!world, world, Go!rows, rows
<1> QED
  BY <1>2, <1>3, <1>4, <1>5 DEF Go!Environment, Environment, Go!CreatedVia, CreatedVia

-----------------------------------------------------------------------------
\* What a request for the module has established: what it is about, and the verdict.
Asking == {"resolve", "fetchInfo", "ingestGate", "ingest", "fetchMod", "fetchZip", "latest", "fetchLatest"}
Storing == {"svcPackage", "svcVersion", "svcProps", "svcFile"}

GoReqOk(l, r) ==
    /\ l = "serve" \/ (r.op = "latest" /\ l \notin {"latest", "fetchLatest"})
          => "rule" \in Env \/ ~Hidden(r.file)
    /\ l = "answer" => r.op = "latest"
    /\ l = "gate" => r.op = "upload"
    /\ l \in Asking => r.op \in MayPullThrough
    /\ l \in Storing => r.op = "upload" \/ r.op \in MayPullThrough
    /\ l = "svcVersion" => r.pkgId # 0
    /\ r.op \in MayPullThrough /\ l \notin {"latest", "fetchLatest"} => r.file \in Files

GoRespOk(r) == r.code = "200" /\ r.file # NoFile => "rule" \in Env \/ ~Hidden(r.file)

GoRequests ==
    /\ rule \in Rule
    /\ Shape
    /\ overlapped \/ Apart
    /\ \A p \in Procs : GoReqOk(pc[p], rq[p]) /\ GoRespOk(resp[p])

\* The rows of the module: one package, and nothing of a version that is gone.
GoRows ==
    /\ pkg = [id |-> pkg.id, via |-> pkg.via]
    /\ VersionsOk(versions)
    /\ \A r \in versions : r.pkg = pkg.id /\ pkg.id # 0
    /\ \A m \in gomod : \E r \in versions : r.id = m.vid
    /\ \A x \in files : \E r \in versions : r.id = x.vid

\* All there is of the version of file f is what upstream serves.
FromUpstream(f) == \A r \in versions : r.ver = VerOf[f] =>
    /\ \A m \in gomod : m.vid = r.id => m.mod = up[f]
    /\ \A x \in files : x.vid = r.id => x.sha = up[f]

\* What a request that stores a version knows of its rows.
UploadOk(l, r) == r.op = "upload" =>
    /\ l \in Storing \cup {"gate"} => r.want = r.sha
    /\ l = "svcProps" => \A x \in files : x.vid # r.verId
    /\ l = "svcFile" => \A m \in gomod : m.vid = r.verId => m.mod = r.sha

PullOk(l, r) == r.op \in MayPullThrough =>
    /\ l \in Storing \cup {"fetchMod", "fetchZip"} => FromUpstream(r.file)
    /\ l \in Storing \cup {"fetchZip"} => r.want = up[r.file]
    /\ l \in Storing => r.sha = up[r.file]
    /\ l \in {"svcProps", "svcFile"} => \A v \in versions : v.id = r.verId => v.ver = VerOf[r.file]

\* No two uploads store the same version.
OwnVersion(p) == rq[p].op = "upload" /\ pc[p] \in {"svcProps", "svcFile"}
Distinct == \A p, q \in Procs : OwnVersion(p) /\ OwnVersion(q) /\ p # q => rq[p].verId # rq[q].verId

Matched ==
    /\ Distinct
    /\ \A p \in Procs : UploadOk(pc[p], rq[p]) /\ PullOk(pc[p], rq[p])
    /\ \A x \in files, m \in gomod : m.vid = x.vid => m.mod = x.sha

GoInv == GoRequests /\ GoRows /\ ("upstream" \in Env \/ overlapped \/ Matched)

-----------------------------------------------------------------------------
\* A step that brings in no file and no go.mod, and no version under an id that is in use.
Quiet ==
    /\ up' = up
    /\ files' \subseteq files /\ gomod' \subseteq gomod
    /\ GoRows'
    /\ \A s \in versions' : \/ \E r \in versions : SameKey(s, r)
                            \/ /\ \A r \in versions : r.id # s.id
                               /\ \A q \in Procs : s.id # rq[q].verId

\* What a request needs to know at its new position.
Knows(p, l, r) ==
    /\ UploadOk(l, r)' /\ PullOk(l, r)'
    /\ r.op = "upload" /\ l \in {"svcProps", "svcFile"} =>
          \A q \in Procs \ {p} : OwnVersion(q) => rq[q].verId # r.verId

\* Such a step takes nothing from what the requests know.
LEMMA QuietKnows ==
  ASSUME GoRows, Quiet, NEW l, NEW r, UploadOk(l, r), PullOk(l, r),
         l \in {"svcProps", "svcFile"} => \E q \in Procs : r.verId = rq[q].verId
  PROVE  UploadOk(l, r)' /\ PullOk(l, r)'
<1>1. UploadOk(l, r)'
  BY DEF Quiet, UploadOk
<1>2. ASSUME NEW f, FromUpstream(f) PROVE FromUpstream(f)'
  BY <1>2 DEF Quiet, GoRows, FromUpstream, SameKey
<1>3. PullOk(l, r)'
  BY <1>2 DEF Quiet, PullOk, SameKey
<1> QED
  BY <1>1, <1>3

\* The requests after a step of one of them.
LEMMA GoTurnRequests ==
  ASSUME GoRequests, NEW p \in Procs, NEW l, NEW r, NEW a,
         pc' = [pc EXCEPT ![p] = l], rq' = [rq EXCEPT ![p] = r], resp' = [resp EXCEPT ![p] = a],
         IsLocal(r), GoReqOk(l, r), GoRespOk(a), UNCHANGED rule, overlapped => overlapped',
         \/ overlapped'
         \/ r.op \in {rq[p].op, "none"}
         \/ \A q \in Procs : ~Overlap(r.op, rq[q].op) /\ ~Overlap(rq[q].op, r.op)
  PROVE  /\ GoRequests'
         /\ pc'[p] = l /\ rq'[p] = r /\ Alone(p)
<1>1. /\ Shape' /\ pc'[p] = l /\ rq'[p] = r /\ resp'[p] = a
      /\ \A q \in Procs \ {p} : pc'[q] = pc[q] /\ rq'[q] = rq[q] /\ resp'[q] = resp[q]
  BY DEF GoRequests, Shape
<1>2. \A f : Hidden(f)' <=> Hidden(f)
  BY DEF Hidden
<1>3. (overlapped \/ Apart)'
  <2> SUFFICES ASSUME ~overlapped' PROVE Apart'
    OBVIOUS
  <2>1. Apart
    BY DEF GoRequests
  <2>2. ~Overlap(r.op, r.op)
    BY DEF Overlap, MayPullThrough
  <2>3. \A q \in Procs : ~Overlap(r.op, rq[q].op) /\ ~Overlap(rq[q].op, r.op)
    BY <2>1 DEF Apart, Overlap, MayPullThrough
  <2> QED
    BY <1>1, <2>1, <2>2, <2>3 DEF Apart
<1>4. ASSUME NEW q \in Procs PROVE GoReqOk(pc[q], rq[q])' /\ GoRespOk(resp[q])'
  <2>1. CASE q = p
    BY <1>1, <1>2, <2>1 DEF GoReqOk, GoRespOk
  <2>2. CASE q # p
    <3>1. GoReqOk(pc[q], rq[q]) /\ GoRespOk(resp[q])
      BY DEF GoRequests
    <3> QED
      BY <1>1, <1>2, <2>2, <3>1 DEF GoReqOk, GoRespOk
  <2> QED
    BY <2>1, <2>2
<1>5. rule' \in Rule
  BY DEF GoRequests
<1> QED
  BY <1>1, <1>3, <1>4, <1>5 DEF GoRequests, Alone

\* What is known of the rows after a step of one request that leaves them alone.
LEMMA QuietMatched ==
  ASSUME GoRows, Matched, Quiet, NEW p \in Procs, NEW l, NEW r, pc'[p] = l, rq'[p] = r, Alone(p),
         Knows(p, l, r)
  PROVE  Matched'
<1>1. ASSUME NEW q \in Procs PROVE UploadOk(pc[q], rq[q])' /\ PullOk(pc[q], rq[q])'
  <2>1. CASE q = p
    <3>1. UploadOk(l, r)' /\ PullOk(l, r)'
      BY DEF Knows
    <3> QED
      BY <2>1, <3>1 DEF UploadOk, PullOk
  <2>2. CASE q # p
    <3>1. PICK k, t : k = pc[q] /\ t = rq[q]
      OBVIOUS
    <3>2. UploadOk(k, t) /\ PullOk(k, t)
      BY <3>1 DEF Matched
    <3>3. UploadOk(k, t)' /\ PullOk(k, t)'
      BY <3>1, <3>2, QuietKnows
    <3>4. pc'[q] = k /\ rq'[q] = t
      BY <2>2, <3>1 DEF Alone
    <3> QED
      BY <3>3, <3>4 DEF UploadOk, PullOk
  <2> QED
    BY <2>1, <2>2
<1>2. Distinct'
  BY DEF Matched, Distinct, OwnVersion, Alone, Knows
<1>3. \A x \in files', m \in gomod' : m.vid = x.vid => m.mod = x.sha
  BY DEF Matched, Quiet
<1> QED
  BY <1>1, <1>2, <1>3 DEF Matched

\* A step of one request, the rows as they were.
LEMMA GoTurn ==
  ASSUME GoInv, NEW p \in Procs, NEW l, NEW r, NEW a,
         pc' = [pc EXCEPT ![p] = l], rq' = [rq EXCEPT ![p] = r], resp' = [resp EXCEPT ![p] = a],
         IsLocal(r), GoReqOk(l, r), GoRespOk(a), UNCHANGED rule, overlapped => overlapped',
         \/ overlapped'
         \/ r.op \in {rq[p].op, "none"}
         \/ \A q \in Procs : ~Overlap(r.op, rq[q].op) /\ ~Overlap(rq[q].op, r.op),
         Quiet, Matched => Knows(p, l, r)
  PROVE  GoInv'
<1>1. GoRequests' /\ pc'[p] = l /\ rq'[p] = r /\ Alone(p)
  BY GoTurnRequests DEF GoInv
<1>2. Matched => Matched'
  BY <1>1, QuietMatched DEF GoInv
<1>3. GoRows'
  BY DEF Quiet
<1> QED
  BY <1>1, <1>2, <1>3 DEF GoInv

\* Reading is quiet.
LEMMA StillQuiet ==
  ASSUME GoRows, UNCHANGED <<pkg, versions, files, gomod, up>>
  PROVE  Quiet
  BY DEF Quiet, GoRows, SameKey

\* A request that goes on with new locals.
LEMMA GoMove ==
  ASSUME GoInv, NEW p \in Procs, NEW l, NEW r, Go!Goto(p, l), rq' = [rq EXCEPT ![p] = r],
         IsLocal(r), r.op = rq[p].op, UNCHANGED <<rule, overlapped, resp>>, Quiet,
         GoReqOk(l, r), Matched => Knows(p, l, r)
  PROVE  GoInv'
<1>1. pc' = [pc EXCEPT ![p] = l]
  BY GoAnswers DEF Goto
<1>2. PICK a : a = resp[p]
  OBVIOUS
<1>3. resp' = [resp EXCEPT ![p] = a] /\ GoRespOk(a)
  BY <1>2 DEF GoInv, GoRequests, Shape
<1> QED
  BY <1>1, <1>3, GoTurn

\* A request that is answered, and one that goes on with the locals it has.
LEMMA GoTurns ==
  ASSUME GoInv, NEW p \in Procs, UNCHANGED <<rule, overlapped>>, Quiet
  PROVE  /\ \A a : RespondWith(p, a) /\ GoRespOk(a) => GoInv'
         /\ \A code : Go!Respond(p, code)
               /\ (code = "200" => "rule" \in Env \/ ~Hidden(rq[p].file) \/ rq[p].file = NoFile) => GoInv'
         /\ \A c : Go!ServeBytes(p, c) /\ ("rule" \in Env \/ ~Hidden(rq[p].file)) => GoInv'
         /\ \A l : /\ Go!Goto(p, l) /\ UNCHANGED <<rq, resp>> /\ GoReqOk(l, rq[p])
                   /\ l \notin {"svcProps", "svcFile"}
                   /\ (Matched => UploadOk(l, rq[p]) /\ PullOk(l, rq[p]))
                   => GoInv'
<1>1. ASSUME NEW a, RespondWith(p, a), GoRespOk(a) PROVE GoInv'
  <2>1. PICK r : r = NoLocal
    OBVIOUS
  <2>2. IsLocal(r) /\ r.op = "none"
    BY <2>1 DEF IsLocal, LocalFields, NoLocal
  <2>3. PICK l : l = "idle"
    OBVIOUS
  <2>4. pc' = [pc EXCEPT ![p] = l] /\ rq' = [rq EXCEPT ![p] = r] /\ resp' = [resp EXCEPT ![p] = a]
    BY <1>1, <2>1, <2>3 DEF RespondWith, Goto
  <2>5. GoReqOk(l, r) /\ Knows(p, l, r)
    BY <2>2, <2>3 DEF GoReqOk, Asking, Storing, Knows, UploadOk, PullOk, MayPullThrough
  <2> QED
    BY <1>1, <2>2, <2>4, <2>5, GoTurn
<1>2. ASSUME NEW code, Go!Respond(p, code),
             code = "200" => "rule" \in Env \/ ~Hidden(rq[p].file) \/ rq[p].file = NoFile
      PROVE  GoInv'
  <2>1. PICK a : a = [NoResp EXCEPT !.code = code, !.file = rq[p].file]
    OBVIOUS
  <2>2. RespondWith(p, a) /\ GoRespOk(a)
    BY <1>2, <2>1, GoAnswers DEF Respond, NoResp, GoRespOk
  <2> QED
    BY <1>1, <2>2
<1>3. ASSUME NEW c, Go!ServeBytes(p, c), "rule" \in Env \/ ~Hidden(rq[p].file) PROVE GoInv'
  <2>1. PICK a : a = [NoResp EXCEPT !.code = "200", !.file = rq[p].file, !.sha = c]
    OBVIOUS
  <2>2. RespondWith(p, a) /\ GoRespOk(a)
    BY <1>3, <2>1, GoAnswers DEF ServeBytes, NoResp, GoRespOk
  <2> QED
    BY <1>1, <2>2
<1>4. ASSUME NEW l, Go!Goto(p, l), UNCHANGED <<rq, resp>>, GoReqOk(l, rq[p]), l \notin {"svcProps", "svcFile"},
             Matched => UploadOk(l, rq[p]) /\ PullOk(l, rq[p])
      PROVE  GoInv'
  <2>1. PICK r : r = rq[p]
    OBVIOUS
  <2>2. rq' = [rq EXCEPT ![p] = r] /\ IsLocal(r)
    BY <1>4, <2>1 DEF GoInv, GoRequests, Shape
  <2>3. Matched => Knows(p, l, r)
    <3> SUFFICES ASSUME Matched PROVE Knows(p, l, r)
      OBVIOUS
    <3>1. UploadOk(l, r)' /\ PullOk(l, r)'
      BY <1>4, <2>1, QuietKnows DEF GoInv
    <3> QED
      BY <1>4, <3>1 DEF Knows
  <2> QED
    BY <1>4, <2>1, <2>2, <2>3, GoMove
<1> QED
  BY <1>1, <1>2, <1>3, <1>4

\* The requests of the five endpoints, and uploads; an upload beside a pull-through is an overlap.
LEMMA GoArrives ==
  ASSUME GoInv, NEW p \in Procs, Go!Arrive(p)
  PROVE  GoInv'
<1>1. ASSUME NEW l \in {"refuse", "gate", "resolve", "latest", "list"}, NEW r, IsLocal(r), Begin(p, l, r),
             UNCHANGED gomod, GoReqOk(l, r), r.want = r.sha
      PROVE  GoInv'
  <2>1. /\ pc' = [pc EXCEPT ![p] = l] /\ rq' = [rq EXCEPT ![p] = r] /\ resp' = [resp EXCEPT ![p] = NoResp]
        /\ UNCHANGED <<pkg, versions, files, gomod, up, rule>>
        /\ overlapped' = (overlapped \/ \E q \in Procs : Overlap(r.op, rq[q].op) \/ Overlap(rq[q].op, r.op))
    BY <1>1 DEF Begin, Goto, rows, world
  <2>2. PICK a : a = NoResp
    OBVIOUS
  <2>3. GoRespOk(a)
    BY <2>2 DEF GoRespOk, NoResp
  <2>4. Quiet
    BY <2>1, StillQuiet DEF GoInv
  <2>5. Knows(p, l, r)
    BY <1>1 DEF Knows, UploadOk, PullOk, Storing
  <2>6. /\ overlapped => overlapped'
        /\ overlapped' \/ \A q \in Procs : ~Overlap(r.op, rq[q].op) /\ ~Overlap(rq[q].op, r.op)
    BY <2>1
  <2> QED
    BY <1>1, <2>1, <2>2, <2>3, <2>4, <2>5, <2>6, GoTurn
<1>2. ASSUME NEW f \in Files, NEW c, Go!Upload(p, f, c) PROVE GoInv'
  <2>1. PICK r : r = [NoLocal EXCEPT !.op = "upload", !.file = f, !.sha = c, !.want = c]
    OBVIOUS
  <2>2. IsLocal(r) /\ r.op = "upload" /\ r.want = r.sha
    BY <2>1 DEF IsLocal, LocalFields, NoLocal
  <2>3. (Begin(p, "refuse", r) \/ Begin(p, "gate", r)) /\ UNCHANGED gomod
    BY <1>2, <2>1, GoAnswers DEF Go!Upload
  <2>4. GoReqOk("refuse", r) /\ GoReqOk("gate", r)
    BY <2>2 DEF GoReqOk, Asking, Storing, MayPullThrough
  <2> QED
    BY <1>1, <2>2, <2>3, <2>4
<1>3. ASSUME NEW f \in Files, NEW op \in Go!Reads, Go!Get(p, op, f) PROVE GoInv'
  <2>1. PICK r : r = [NoLocal EXCEPT !.op = op, !.file = f]
    OBVIOUS
  <2>2. IsLocal(r) /\ r.op \in {"info", "mod", "zip"} /\ r.want = r.sha /\ r.file = f
    BY <2>1 DEF IsLocal, LocalFields, NoLocal, Go!Reads
  <2>3. Begin(p, "resolve", r) /\ UNCHANGED gomod
    BY <1>3, <2>1, GoAnswers DEF Go!Get
  <2>4. GoReqOk("resolve", r)
    BY <2>2 DEF GoReqOk, Asking, Storing, MayPullThrough
  <2> QED
    BY <1>1, <2>2, <2>3, <2>4
<1>4. CASE Go!Latest(p)
  <2>1. PICK r : r = [NoLocal EXCEPT !.op = "latest"]
    OBVIOUS
  <2>2. IsLocal(r) /\ r.op = "latest" /\ r.want = r.sha
    BY <2>1 DEF IsLocal, LocalFields, NoLocal
  <2>3. Begin(p, "latest", r) /\ UNCHANGED gomod
    BY <1>4, <2>1, GoAnswers DEF Go!Latest
  <2>4. GoReqOk("latest", r)
    BY <2>2 DEF GoReqOk, Asking, Storing, MayPullThrough
  <2> QED
    BY <1>1, <2>2, <2>3, <2>4
<1>5. CASE Go!List(p)
  <2>1. PICK r : r = [NoLocal EXCEPT !.op = "list"]
    OBVIOUS
  <2>2. IsLocal(r) /\ r.op = "list" /\ r.want = r.sha
    BY <2>1 DEF IsLocal, LocalFields, NoLocal
  <2>3. Begin(p, "list", r) /\ UNCHANGED gomod
    BY <1>5, <2>1, GoAnswers DEF Go!List
  <2>4. GoReqOk("list", r)
    BY <2>2 DEF GoReqOk, Asking, Storing, MayPullThrough
  <2> QED
    BY <1>1, <2>2, <2>3, <2>4
<1> QED
  BY <1>2, <1>3, <1>4, <1>5 DEF Go!Arrive

\* What every step of a handler but the writes of the ingest leaves alone.
Reading == UNCHANGED <<rule, overlapped, pkg, versions, files, gomod, up>>

\* Reading is quiet, and changes no rule.
LEMMA ReadingQuiet ==
  ASSUME GoInv, Reading
  PROVE  Quiet /\ UNCHANGED <<rule, overlapped>>
  BY StillQuiet DEF GoInv, Reading

\* pullThroughIngest ends: @latest answers, the others are judged.
LEMMA GoAfterIngest ==
  ASSUME GoInv, NEW p \in Procs, UNCHANGED <<rule, overlapped>>, Quiet, pc[p] \notin {"latest", "fetchLatest"},
         NEW code \in {"404", "502"}, Go!AfterIngest(p) \/ Go!IngestError(p, code)
  PROVE  GoInv'
<1>1. GoReqOk(pc[p], rq[p])
  BY DEF GoInv, GoRequests
<1>2. CASE Go!AfterIngest(p)
  <2>1. PICK l \in {"answer", "readGate"} : Go!Goto(p, l) /\ UNCHANGED <<rq, resp>>
                                            /\ (l = "answer" <=> rq[p].op = "latest")
    BY <1>2 DEF Go!AfterIngest
  <2>2. GoReqOk(l, rq[p])
    BY <1>1, <2>1 DEF GoReqOk, Asking, Storing
  <2>3. UploadOk(l, rq[p]) /\ PullOk(l, rq[p])
    BY DEF UploadOk, PullOk, Storing
  <2> QED
    BY <2>1, <2>2, <2>3, GoTurns
<1>3. CASE Go!Respond(p, code)
  BY <1>3, GoTurns
<1> QED
  BY <1>2, <1>3 DEF Go!IngestError

\* The upload outside the service.
LEMMA GoUploadKeeps ==
  ASSUME GoInv, NEW p \in Procs, Go!Refuse(p) \/ Go!ProvenanceGate(p) \/ Go!Created(p)
  PROVE  GoInv'
<1>1. Reading
  BY DEF Go!Refuse, Go!ProvenanceGate, Go!Created, Go!rows, Go!world, Go!history, Reading
<1>2. ASSUME NEW code \in {"201", "403", "409"}, Go!Respond(p, code) PROVE GoInv'
  BY <1>1, <1>2, GoTurns, ReadingQuiet
<1>3. CASE Go!Goto(p, "svcPackage") /\ UNCHANGED <<rq, resp>> /\ pc[p] = "gate"
  <2>1. GoReqOk(pc[p], rq[p]) /\ (Matched => UploadOk(pc[p], rq[p]))
    BY DEF GoInv, GoRequests, Matched
  <2>2. GoReqOk("svcPackage", rq[p])
    BY <1>3, <2>1 DEF GoReqOk, Asking, Storing
  <2>3. Matched => UploadOk("svcPackage", rq[p]) /\ PullOk("svcPackage", rq[p])
    BY <1>3, <2>1 DEF GoReqOk, UploadOk, PullOk, MayPullThrough, Storing
  <2> QED
    BY <1>1, <1>3, <2>2, <2>3, GoTurns, ReadingQuiet
<1> QED
  BY <1>2, <1>3 DEF Go!Refuse, Go!ProvenanceGate, Go!Created

\* Listings name no file, or one that may be read.
LEMMA GoListKeeps ==
  ASSUME GoInv, NEW p \in Procs,
         Go!LatestLocal(p) \/ Go!FetchLatest(p) \/ Go!Answer(p) \/ Go!ListLocal(p) \/ Go!ListUpstream(p)
  PROVE  GoInv'
<1>1. Reading
  BY DEF Go!LatestLocal, Go!FetchLatest, Go!Answer, Go!ListLocal, Go!ListUpstream, Go!rows, Go!world, Go!history,
         Reading
<1>2. Quiet /\ UNCHANGED <<rule, overlapped>>
  BY <1>1, ReadingQuiet
<1>3. rule \in Rule /\ GoReqOk(pc[p], rq[p]) /\ IsLocal(rq[p]) /\ Shape
  BY DEF GoInv, GoRequests, Shape
<1>4. ASSUME Go!Respond(p, "404") PROVE GoInv'
  BY <1>2, <1>4, GoTurns
<1>5. ASSUME NEW s, \/ Go!RespondWith(p, [Go!NoResp EXCEPT !.code = "200", !.local = s])
                    \/ Go!RespondWith(p, [Go!NoResp EXCEPT !.code = "200", !.up = s])
      PROVE  GoInv'
  <2>1. PICK a : /\ RespondWith(p, a)
                 /\ \/ a = [NoResp EXCEPT !.code = "200", !.local = s]
                    \/ a = [NoResp EXCEPT !.code = "200", !.up = s]
    BY <1>5, GoAnswers
  <2>2. a.file = NoFile
    BY <2>1 DEF NoResp
  <2> QED
    BY <1>2, <2>1, <2>2, GoTurns DEF GoRespOk
<1>6. ASSUME NEW l \in {"fetchLatest", "listUpstream"}, Go!Goto(p, l), UNCHANGED <<rq, resp>>,
             pc[p] = IF l = "fetchLatest" THEN "latest" ELSE "list"
      PROVE  GoInv'
  <2>1. UploadOk(l, rq[p]) /\ PullOk(l, rq[p])
    BY DEF UploadOk, PullOk, Storing
  <2>2. rq[p].op = "latest" /\ l = "listUpstream" => "rule" \in Env \/ ~Hidden(rq[p].file)
    BY <1>3, <1>6 DEF GoReqOk
  <2>3. GoReqOk(l, rq[p])
    BY <1>3, <1>6, <2>2 DEF GoReqOk, Asking, Storing
  <2> QED
    BY <1>2, <1>6, <2>1, <2>3, GoTurns
<1>7. CASE Go!LatestLocal(p)
  <2>1. ASSUME NEW f \in Go!ZipsOf(Go!Readable), Go!RespondWith(p, [Go!NoResp EXCEPT !.code = "200", !.file = f])
        PROVE  GoInv'
    <3>1. ~Hidden(f)
      BY <1>3, <2>1, YoungBlocked, GoReads DEF Go!ZipsOf, Go!Readable
    <3>2. PICK a : a = [NoResp EXCEPT !.code = "200", !.file = f]
      OBVIOUS
    <3>3. RespondWith(p, a) /\ GoRespOk(a)
      BY <2>1, <3>1, <3>2, GoAnswers DEF NoResp, GoRespOk
    <3> QED
      BY <1>2, <3>3, GoTurns
  <2> QED
    BY <1>4, <1>6, <1>7, <2>1 DEF Go!LatestLocal
<1>8. CASE Go!FetchLatest(p)
  <2>1. ASSUME NEW f \in Files, ~Go!IsBlocked(Go!Evaluate(rule, VerOf[f], Go!Published)), pc[p] = "fetchLatest",
               rq' = [rq EXCEPT ![p].file = f], Go!Goto(p, "ingest"), UNCHANGED resp
        PROVE  GoInv'
    <3>1. ~Hidden(f)
      BY <1>3, <2>1, YoungBlocked, GoReads
    <3>2. PICK r : r = [rq[p] EXCEPT !.file = f]
      OBVIOUS
    <3>3. rq' = [rq EXCEPT ![p] = r]
      BY <1>3, <2>1, <3>2 DEF Shape
    <3>4. IsLocal(r) /\ r.op = rq[p].op /\ r.file = f
      BY <1>3, <3>2 DEF IsLocal, LocalFields
    <3>5. GoReqOk("ingest", r)
      BY <1>3, <2>1, <3>1, <3>4 DEF GoReqOk, Asking, Storing
    <3>6. Knows(p, "ingest", r)
      BY DEF Knows, UploadOk, PullOk, Storing
    <3> QED
      BY <1>2, <2>1, <3>3, <3>4, <3>5, <3>6, GoMove
  <2> QED
    BY <1>4, <1>8, <2>1 DEF Go!FetchLatest
<1>9. CASE Go!Answer(p)
  <2>1. "rule" \in Env \/ ~Hidden(rq[p].file)
    BY <1>3, <1>9 DEF Go!Answer, GoReqOk
  <2> QED
    BY <1>2, <1>9, <2>1, GoTurns DEF Go!Answer
<1>10. CASE Go!ListLocal(p)
  BY <1>4, <1>5, <1>6, <1>10 DEF Go!ListLocal
<1>11. CASE Go!ListUpstream(p)
  BY <1>4, <1>5, <1>11 DEF Go!ListUpstream
<1> QED
  BY <1>7, <1>8, <1>9, <1>10, <1>11

\* The .info, .mod and .zip from the rows: who gets bytes passed a gate.
LEMMA GoReadKeeps ==
  ASSUME GoInv, NEW p \in Procs, Go!Resolve(p) \/ Go!ReadGate(p) \/ Go!Serve(p)
  PROVE  GoInv'
<1>1. Reading
  BY DEF Go!Resolve, Go!ReadGate, Go!Serve, Go!rows, Go!world, Go!history, Reading
<1>2. Quiet /\ UNCHANGED <<rule, overlapped>>
  BY <1>1, ReadingQuiet
<1>3. rule \in Rule /\ GoReqOk(pc[p], rq[p])
  BY DEF GoInv, GoRequests
<1>4. ASSUME NEW code \in {"403", "404", "500"}, Go!Respond(p, code) PROVE GoInv'
  BY <1>2, <1>4, GoTurns
<1>5. ASSUME "rule" \in Env \/ ~Hidden(rq[p].file), NEW v, NEW code \in {"404", "500"},
             \/ Go!Respond(p, "200")
             \/ Go!GoModOf(p, v)
             \/ Go!ZipOf(p, v, code)
      PROVE  GoInv'
  <2>1. ASSUME NEW c, Go!ServeBytes(p, c) PROVE GoInv'
    BY <1>2, <1>5, <2>1, GoTurns
  <2>2. ASSUME Go!Respond(p, "200") PROVE GoInv'
    BY <1>2, <1>5, <2>2, GoTurns
  <2> QED
    BY <1>4, <1>5, <2>1, <2>2 DEF Go!GoModOf, Go!ZipOf
<1>6. ASSUME NEW l \in {"fetchInfo", "serve"}, Go!Goto(p, l), UNCHANGED <<rq, resp>>, GoReqOk(l, rq[p])
      PROVE  GoInv'
  <2>1. UploadOk(l, rq[p]) /\ PullOk(l, rq[p])
    BY DEF UploadOk, PullOk, Storing
  <2> QED
    BY <1>2, <1>6, <2>1, GoTurns
<1>7. CASE Go!Resolve(p)
  <2>1. pc[p] = "resolve"
    BY <1>7 DEF Go!Resolve
  <2>2. ASSUME NEW v \in Go!VersionRows(pkg.id, VerOf[rq[p].file]),
               IF Go!IsBlocked(Go!Evaluate(rule, v.ver, Go!AttrsOf(v)))
                    /\ (rq[p].op = "zip" => Go!FileRows(v.id, rq[p].file) # {})
                 THEN Go!Respond(p, "403")
                 ELSE \/ rq[p].op = "info" /\ Go!Respond(p, "200")
                      \/ rq[p].op = "mod" /\ Go!GoModOf(p, v)
                      \/ rq[p].op = "zip" /\ Go!ZipOf(p, v, "404")
        PROVE  GoInv'
    <3>1. v.ver = VerOf[rq[p].file]
      BY <2>2, GoReads DEF VersionRows
    <3>2. CASE Go!IsBlocked(Go!Evaluate(rule, v.ver, Go!AttrsOf(v)))
      <4>1. CASE rq[p].op = "zip" /\ Go!FileRows(v.id, rq[p].file) = {} /\ Go!ZipOf(p, v, "404")
        <5>1. Go!Respond(p, "404")
          BY <4>1 DEF Go!ZipOf
        <5> QED
          BY <1>4, <5>1
      <4> QED
        BY <1>4, <2>2, <3>2, <4>1
    <3>3. CASE ~Go!IsBlocked(Go!Evaluate(rule, v.ver, Go!AttrsOf(v)))
      <4>1. ~Hidden(rq[p].file)
        BY <1>3, <3>1, <3>3, YoungBlocked, GoReads
      <4> QED
        BY <1>5, <2>2, <3>3, <4>1
    <3> QED
      BY <3>2, <3>3
  <2>3. GoReqOk("fetchInfo", rq[p])
    BY <1>3, <2>1 DEF GoReqOk, Asking, Storing
  <2> QED
    BY <1>4, <1>6, <1>7, <2>2, <2>3 DEF Go!Resolve
<1>8. CASE Go!ReadGate(p)
  <2>1. Go!ReadBlocked(p) \/ ~Hidden(rq[p].file)
    BY <1>3, YoungBlocked, GoReads DEF Go!ReadBlocked
  <2>2. ~Hidden(rq[p].file) => GoReqOk("serve", rq[p])
    BY <1>3, <1>8 DEF Go!ReadGate, GoReqOk, Asking, Storing
  <2> QED
    BY <1>4, <1>5, <1>6, <1>8, <2>1, <2>2 DEF Go!ReadGate
<1>9. CASE Go!Serve(p)
  <2>1. "rule" \in Env \/ ~Hidden(rq[p].file)
    BY <1>3, <1>9 DEF Go!Serve, GoReqOk
  <2> QED
    BY <1>4, <1>5, <1>9, <2>1 DEF Go!Serve
<1> QED
  BY <1>7, <1>8, <1>9

\* The pull-through up to the service: nothing of the version is there when the fetches begin,
\* and both fetches bring what upstream serves.
LEMMA GoFetchKeeps ==
  ASSUME GoInv, NEW p \in Procs,
         Go!FetchInfo(p) \/ Go!IngestGate(p) \/ Go!IngestCheck(p) \/ Go!FetchMod(p) \/ Go!FetchZip(p)
  PROVE  GoInv'
<1>1. Reading
  BY DEF Go!FetchInfo, Go!IngestGate, Go!IngestCheck, Go!FetchMod, Go!FetchZip, Go!rows, Go!world, Go!history,
         Reading
<1>2. Quiet /\ UNCHANGED <<rule, overlapped>>
  BY <1>1, ReadingQuiet
<1>3. /\ GoReqOk(pc[p], rq[p]) /\ IsLocal(rq[p]) /\ Shape /\ GoRows
      /\ Matched => PullOk(pc[p], rq[p])
  BY DEF GoInv, GoRequests, Shape, Matched
<1>4. pc[p] \in {"fetchInfo", "ingestGate", "ingest", "fetchMod", "fetchZip"}
  BY DEF Go!FetchInfo, Go!IngestGate, Go!IngestCheck, Go!FetchMod, Go!FetchZip
<1>5. ASSUME NEW code \in {"403", "404"}, Go!Respond(p, code) PROVE GoInv'
  BY <1>2, <1>5, GoTurns
<1>6. ASSUME NEW l \in {"ingestGate", "ingest", "fetchMod"}, Go!Goto(p, l), UNCHANGED <<rq, resp>>,
             (l = "fetchMod" /\ Matched) => FromUpstream(rq[p].file)
      PROVE  GoInv'
  <2>1. GoReqOk(l, rq[p])
    BY <1>3, <1>4 DEF GoReqOk, Asking, Storing
  <2>2. Matched => UploadOk(l, rq[p]) /\ PullOk(l, rq[p])
    BY <1>6 DEF UploadOk, PullOk, Storing
  <2> QED
    BY <1>2, <1>6, <2>1, <2>2, GoTurns
<1>7. ASSUME Go!AfterIngest(p) \/ Go!IngestError(p, "404") PROVE GoInv'
  BY <1>2, <1>4, <1>7, GoAfterIngest
<1>8. CASE Go!FetchInfo(p) \/ Go!IngestGate(p)
  BY <1>5, <1>6, <1>8 DEF Go!FetchInfo, Go!IngestGate
<1>9. CASE Go!IngestCheck(p)
  <2>1. ~Go!AlreadyPersisted(p) => FromUpstream(rq[p].file)
    BY <1>3, GoReads DEF Go!AlreadyPersisted, VersionRows, FromUpstream, GoRows
  <2> QED
    BY <1>6, <1>7, <1>9, <2>1 DEF Go!IngestCheck
<1>10. ASSUME NEW l, NEW r, Go!Goto(p, l), rq' = [rq EXCEPT ![p] = r], UNCHANGED resp, IsLocal(r),
              r.op = rq[p].op, r.file = rq[p].file, Matched => r.want = up[r.file],
              \/ l = "fetchZip" /\ pc[p] = "fetchMod"
              \/ l = "svcPackage" /\ pc[p] = "fetchZip" /\ r.sha = up[r.file]
       PROVE  GoInv'
  <2>1. GoReqOk(l, r)
    BY <1>3, <1>4, <1>10 DEF GoReqOk, Asking, Storing
  <2>2. Matched => UploadOk(l, r) /\ PullOk(l, r)
    BY <1>3, <1>10 DEF GoReqOk, Asking, UploadOk, PullOk, Storing, MayPullThrough
  <2>3. Matched => Knows(p, l, r)
    <3> SUFFICES ASSUME Matched PROVE Knows(p, l, r)
      OBVIOUS
    <3>1. UploadOk(l, r)' /\ PullOk(l, r)'
      BY <1>2, <1>3, <1>10, <2>2, QuietKnows
    <3> QED
      BY <1>10, <3>1 DEF Knows
  <2> QED
    BY <1>2, <1>10, <2>1, <2>3, GoMove
<1>11. CASE Go!FetchMod(p)
  <2>1. ASSUME rq' = [rq EXCEPT ![p].want = up[rq[p].file]], Go!Goto(p, "fetchZip"), UNCHANGED resp
        PROVE  GoInv'
    <3>1. PICK c : c = up[rq[p].file]
      OBVIOUS
    <3>2. PICK r : r = [rq[p] EXCEPT !.want = c]
      OBVIOUS
    <3>3. rq' = [rq EXCEPT ![p] = r]
      BY <1>3, <2>1, <3>1, <3>2 DEF Shape
    <3>4. IsLocal(r) /\ r.op = rq[p].op /\ r.file = rq[p].file /\ r.want = c
      BY <1>3, <3>2 DEF IsLocal, LocalFields
    <3>5. pc[p] = "fetchMod"
      BY <1>11 DEF Go!FetchMod
    <3> QED
      BY <1>10, <2>1, <3>1, <3>3, <3>4, <3>5
  <2> QED
    BY <1>7, <1>11, <2>1 DEF Go!FetchMod
<1>12. CASE Go!FetchZip(p)
  <2>1. ASSUME rq' = [rq EXCEPT ![p].sha = up[rq[p].file]], Go!Goto(p, "svcPackage"), UNCHANGED resp
        PROVE  GoInv'
    <3>1. PICK c : c = up[rq[p].file]
      OBVIOUS
    <3>2. PICK r : r = [rq[p] EXCEPT !.sha = c]
      OBVIOUS
    <3>3. rq' = [rq EXCEPT ![p] = r]
      BY <1>3, <2>1, <3>1, <3>2 DEF Shape
    <3>4. IsLocal(r) /\ r.op = rq[p].op /\ r.file = rq[p].file /\ r.sha = c /\ r.want = rq[p].want
      BY <1>3, <3>2 DEF IsLocal, LocalFields
    <3>5. pc[p] = "fetchZip"
      BY <1>12 DEF Go!FetchZip
    <3>6. Matched => rq[p].want = up[rq[p].file]
      BY <1>3, <3>5 DEF GoReqOk, Asking, PullOk
    <3> QED
      BY <1>10, <2>1, <3>1, <3>3, <3>4, <3>5, <3>6
  <2> QED
    BY <1>7, <1>12, <2>1 DEF Go!FetchZip
<1> QED
  BY <1>8, <1>9, <1>11, <1>12

\* The package is there when its id is remembered.
LEMMA GoPackageKeeps ==
  ASSUME GoInv, NEW p \in Procs, NEW via, GetOrCreatePackage(p, via), UNCHANGED gomod
  PROVE  GoInv'
<1>1. /\ GoReqOk(pc[p], rq[p]) /\ IsLocal(rq[p]) /\ Shape /\ GoRows
      /\ Matched => UploadOk(pc[p], rq[p]) /\ PullOk(pc[p], rq[p])
  BY DEF GoInv, GoRequests, Shape, Matched
<1>2. /\ pc[p] = "svcPackage" /\ UNCHANGED <<versions, files, rule, up, resp, overlapped>>
      /\ Goto(p, "svcVersion") /\ rq' = [rq EXCEPT ![p].pkgId = pkg'.id]
      /\ pkg' = IF pkg.id = 0 THEN [id |-> FreshPackage, via |-> via] ELSE pkg
  BY DEF GetOrCreatePackage, world, history
<1>3. PICK i : i = pkg'.id
  OBVIOUS
<1>4. PICK r : r = [rq[p] EXCEPT !.pkgId = i]
  OBVIOUS
<1>5. rq' = [rq EXCEPT ![p] = r]
  BY <1>1, <1>2, <1>3, <1>4 DEF Shape
<1>6. /\ IsLocal(r) /\ r.op = rq[p].op /\ r.file = rq[p].file /\ r.sha = rq[p].sha /\ r.want = rq[p].want
      /\ r.pkgId = i
  BY <1>1, <1>4 DEF IsLocal, LocalFields
<1>7. i # 0 /\ pkg' = [id |-> pkg'.id, via |-> pkg'.via] /\ (pkg.id # 0 => pkg' = pkg)
  BY <1>1, <1>2, <1>3, FreshPackageId DEF GoRows
<1>8. Quiet
  BY <1>1, <1>2, <1>7 DEF Quiet, GoRows, SameKey
<1>9. GoReqOk("svcVersion", r)
  BY <1>1, <1>2, <1>6, <1>7 DEF GoReqOk, Asking, Storing
<1>10. Matched => UploadOk("svcVersion", r) /\ PullOk("svcVersion", r)
  BY <1>1, <1>2, <1>6 DEF UploadOk, PullOk, Storing
<1>11. Matched => UploadOk("svcVersion", r)' /\ PullOk("svcVersion", r)'
  BY <1>1, <1>8, <1>10, QuietKnows
<1>12. Matched => Knows(p, "svcVersion", r)
  BY <1>11 DEF Knows
<1> QED
  BY <1>2, <1>5, <1>6, <1>8, <1>9, <1>12, GoMove, GoAnswers

\* The version: an upload makes one of its own, a pull-through may find the row of another request.
LEMMA GoVersionKeeps ==
  ASSUME GoInv, NEW p \in Procs, UNCHANGED gomod,
         \/ rq[p].op = "upload" /\ AddVersion(p, "svcProps", Respond(p, "500"))
         \/ rq[p].op \in MayPullThrough /\ Go!GetOrAddVersion(p, "svcProps", Go!IngestError(p, "502"))
  PROVE  GoInv'
<1>1. /\ GoReqOk(pc[p], rq[p]) /\ IsLocal(rq[p]) /\ Shape /\ GoRows
      /\ Matched => UploadOk(pc[p], rq[p]) /\ PullOk(pc[p], rq[p])
  BY DEF GoInv, GoRequests, Shape, Matched
<1>2. pc[p] = "svcVersion" /\ UNCHANGED <<pkg, files, rule, up, overlapped>>
  BY DEF AddVersion, Go!GetOrAddVersion, world, history, Go!world, Go!history
<1>3. ASSUME UNCHANGED versions PROVE Quiet
  BY <1>1, <1>2, <1>3, StillQuiet
<1>4. ASSUME NEW r, IsLocal(r), r.op = rq[p].op, r.file = rq[p].file, r.sha = rq[p].sha, r.want = rq[p].want,
             rq' = [rq EXCEPT ![p] = r], Goto(p, "svcProps"), UNCHANGED resp, Quiet,
             \A v \in versions' : v.id = r.verId => v.ver = VerOf[r.file],
             r.op = "upload" => /\ \A v \in versions : v.id # r.verId
                                /\ \A q \in Procs : rq[q].verId # r.verId
      PROVE  GoInv'
  <2>1. GoReqOk("svcProps", r)
    BY <1>1, <1>2, <1>4 DEF GoReqOk, Asking, Storing
  <2>2. ASSUME Matched PROVE Knows(p, "svcProps", r)
    <3>1. UploadOk("svcProps", r)'
      BY <1>1, <1>2, <1>4, <2>2 DEF UploadOk, Storing, GoRows
    <3>2. ASSUME r.op \in MayPullThrough PROVE FromUpstream(r.file)'
      <4>1. FromUpstream(r.file)
        BY <1>1, <1>2, <1>4, <2>2, <3>2 DEF PullOk, Storing
      <4> QED
        BY <1>1, <1>2, <1>4, <4>1 DEF FromUpstream, Quiet, GoRows, SameKey
    <3>3. PullOk("svcProps", r)'
      BY <1>1, <1>2, <1>4, <2>2, <3>2 DEF PullOk, Storing
    <3> QED
      BY <1>4, <3>1, <3>3 DEF Knows
  <2> QED
    BY <1>2, <1>4, <2>1, <2>2, GoMove, GoAnswers
<1>5. ASSUME versions' = versions \cup {NewVersion(p)}, pkg.id = rq[p].pkgId,
             VersionRows(rq[p].pkgId, VerOf[rq[p].file]) = {},
             rq' = [rq EXCEPT ![p].verId = FreshVersion], Goto(p, "svcProps"), UNCHANGED resp
      PROVE  GoInv'
  <2>1. /\ VersionsOk(versions')
        /\ NewVersion(p).id = FreshVersion /\ NewVersion(p).pkg = rq[p].pkgId
        /\ NewVersion(p).ver = VerOf[rq[p].file]
        /\ FreshVersion \notin {v.id : v \in versions}
        /\ \A q \in Procs : FreshVersion # rq[q].verId
    BY <1>1, <1>5, CreatedVersion DEF GoRows
  <2>2. PICK n, i : n = NewVersion(p) /\ i = FreshVersion
    OBVIOUS
  <2>3. /\ versions' = versions \cup {n} /\ n.id = i /\ n.pkg = rq[p].pkgId /\ n.ver = VerOf[rq[p].file]
        /\ \A v \in versions : v.id # i
        /\ \A q \in Procs : i # rq[q].verId
    BY <1>5, <2>1, <2>2
  <2>4. PICK r : r = [rq[p] EXCEPT !.verId = i]
    OBVIOUS
  <2>5. rq' = [rq EXCEPT ![p] = r]
    BY <1>1, <1>5, <2>2, <2>4 DEF Shape
  <2>6. /\ IsLocal(r) /\ r.op = rq[p].op /\ r.file = rq[p].file /\ r.sha = rq[p].sha /\ r.want = rq[p].want
        /\ r.verId = i
    BY <1>1, <2>4 DEF IsLocal, LocalFields
  <2>7. rq[p].pkgId # 0
    BY <1>1, <1>2 DEF GoReqOk
  <2>8. GoRows'
    BY <1>1, <1>2, <1>5, <2>1, <2>3, <2>7 DEF GoRows
  <2>9. Quiet
    BY <1>2, <2>3, <2>8 DEF Quiet, SameKey
  <2>10. \A v \in versions' : v.id = r.verId => v.ver = VerOf[r.file]
    BY <2>3, <2>6
  <2> QED
    BY <1>4, <1>5, <2>3, <2>5, <2>6, <2>9, <2>10
<1>6. ASSUME NEW v \in VersionRows(rq[p].pkgId, VerOf[rq[p].file]), rq[p].op \in MayPullThrough,
             rq' = [rq EXCEPT ![p].verId = v.id, ![p].attrs = AttrsOf(v)], Goto(p, "svcProps"),
             UNCHANGED <<versions, resp>>
      PROVE  GoInv'
  <2>1. v \in versions /\ v.ver = VerOf[rq[p].file]
    BY <1>6 DEF VersionRows
  <2>2. PICK i, a : i = v.id /\ a = AttrsOf(v)
    OBVIOUS
  <2>3. PICK r : r = [[rq[p] EXCEPT !.verId = i] EXCEPT !.attrs = a]
    OBVIOUS
  <2>4. rq' = [rq EXCEPT ![p] = r]
    BY <1>1, <1>6, <2>2, <2>3 DEF Shape
  <2>5. /\ IsLocal(r) /\ r.op = rq[p].op /\ r.file = rq[p].file /\ r.sha = rq[p].sha /\ r.want = rq[p].want
        /\ r.verId = i
    BY <1>1, <2>3 DEF IsLocal, LocalFields
  <2>6. \A w \in versions' : w.id = r.verId => w.ver = VerOf[r.file]
    BY <1>1, <1>6, <2>1, <2>2, <2>5 DEF GoRows, VersionsOk
  <2>7. r.op # "upload"
    BY <1>6, <2>5 DEF MayPullThrough
  <2> QED
    BY <1>3, <1>4, <1>6, <2>4, <2>5, <2>6, <2>7
<1>7. ASSUME UNCHANGED versions, NEW code \in {"409", "500"}, Respond(p, code) PROVE GoInv'
  BY <1>2, <1>3, <1>7, GoTurns, GoAnswers
<1>8. ASSUME UNCHANGED versions, Go!IngestError(p, "502") PROVE GoInv'
  BY <1>2, <1>3, <1>8, GoAfterIngest
<1>9. CASE rq[p].op = "upload" /\ AddVersion(p, "svcProps", Respond(p, "500"))
  BY <1>5, <1>7, <1>9 DEF AddVersion, CreateVersion
<1>10. CASE rq[p].op \in MayPullThrough /\ Go!GetOrAddVersion(p, "svcProps", Go!IngestError(p, "502"))
  BY <1>5, <1>6, <1>8, <1>10, GoReads, GoAnswers DEF Go!GetOrAddVersion, Go!CreateVersion
<1> QED
  BY <1>9, <1>10

\* A go.mod or a zip is stored: what the others know stands, since an upload has its version
\* to itself and every pull-through of a version stores the same.
LEMMA GoStored ==
  ASSUME GoInv, NEW p \in Procs, NEW l, l \in {"svcFile", "stamp", "created"}, Goto(p, l), UNCHANGED <<rq, resp>>,
         UNCHANGED <<rule, overlapped, up, versions>>, GoRows', GoReqOk(l, rq[p]),
         NEW i, NEW c, i = rq[p].verId,
         \A m \in gomod' : m \in gomod \/ (m.vid = i /\ m.mod = c),
         \A x \in files' : x \in files \/ (x.vid = i /\ x.sha = c),
         rq[p].op = "upload" \/ rq[p].op \in MayPullThrough,
         OwnVersion(p) \/ rq[p].op # "upload",
         Matched => /\ rq[p].op = "upload" => UploadOk(l, rq[p])'
                    /\ rq[p].op # "upload" => /\ c = up[rq[p].file] /\ PullOk("svcFile", rq[p])
                    /\ \A x \in files', m \in gomod' : m.vid = x.vid => m.mod = x.sha
  PROVE  GoInv'
<1>1. /\ GoRequests /\ Shape /\ GoRows /\ IsLocal(rq[p])
      /\ overlapped \/ Apart
      /\ \A q \in Procs : GoReqOk(pc[q], rq[q])
  BY DEF GoInv, GoRequests, Shape
<1>2. PICK r : r = rq[p]
  OBVIOUS
<1>3. PICK a : a = resp[p]
  OBVIOUS
<1>4. /\ pc' = [pc EXCEPT ![p] = l] /\ rq' = [rq EXCEPT ![p] = r] /\ resp' = [resp EXCEPT ![p] = a]
      /\ IsLocal(r) /\ GoReqOk(l, r) /\ GoRespOk(a) /\ r.op = rq[p].op
  BY <1>1, <1>2, <1>3 DEF Goto, Shape, GoRequests
<1>5. GoRequests' /\ pc'[p] = l /\ Alone(p)
  BY <1>1, <1>4, GoTurnRequests
<1>6. ASSUME Matched, ~overlapped PROVE Matched'
  <2>1. Apart
    BY <1>1, <1>6
  <2>2. ASSUME NEW q \in Procs PROVE UploadOk(pc[q], rq[q])'
    <3>1. CASE q = p
      <4>1. UploadOk(l, rq[p])'
        BY <1>6 DEF UploadOk
      <4> QED
        BY <1>5, <3>1, <4>1 DEF UploadOk
    <3>2. CASE q # p
      <4>1. pc'[q] = pc[q] /\ rq' = rq
        BY <1>5, <3>2 DEF Alone
      <4> SUFFICES ASSUME rq[q].op = "upload"
                   PROVE  UploadOk(pc[q], rq[q])'
        BY <4>1 DEF UploadOk
      <4>2. rq[p].op = "upload"
        BY <2>1, <4>1 DEF Apart, Overlap
      <4>3. OwnVersion(q) => rq[q].verId # i
        BY <1>6, <3>2, <4>2 DEF Matched, Distinct
      <4>4. UploadOk(pc[q], rq[q])
        BY <1>6 DEF Matched
      <4> QED
        BY <4>1, <4>3, <4>4 DEF UploadOk, OwnVersion
    <3> QED
      BY <3>1, <3>2
  <2>3. ASSUME NEW q \in Procs, rq[q].op \in MayPullThrough, FromUpstream(rq[q].file), rq[q].file \in Files
        PROVE  FromUpstream(rq[q].file)'
    <3>1. rq[p].op # "upload"
      BY <2>1, <2>3 DEF Apart, Overlap
    <3>2. /\ c = up[rq[p].file]
          /\ \A v \in versions : v.id = i => v.ver = VerOf[rq[p].file]
      BY <1>6, <3>1 DEF PullOk
    <3>3. rq[p].file \in Files
      BY <1>4, <1>2, <3>1 DEF GoReqOk
    <3>4. ASSUME NEW v \in versions, v.ver = VerOf[rq[q].file], v.id = i PROVE c = up[rq[q].file]
      BY <2>3, <3>2, <3>3, <3>4, OneZipAssumption
    <3> QED
      BY <2>3, <3>4 DEF FromUpstream
  <2>4. ASSUME NEW q \in Procs, rq[q].op \in MayPullThrough PROVE PullOk(pc[q], rq[q])'
    <3>1. rq' = rq /\ (q # p => pc'[q] = pc[q])
      BY <1>5 DEF Alone
    <3>2. PICK k : k = IF q = p THEN "svcFile" ELSE pc[q]
      OBVIOUS
    <3>3. PullOk(k, rq[q])
      <4>1. q # p => PullOk(pc[q], rq[q])
        BY <1>6 DEF Matched
      <4>2. q = p => PullOk("svcFile", rq[q])
        BY <1>6, <2>4 DEF MayPullThrough
      <4> QED
        BY <3>2, <4>1, <4>2
    <3>4. k \in Storing \cup {"fetchMod", "fetchZip"} => FromUpstream(rq[q].file)'
      <4>1. ASSUME k \in Storing \cup {"fetchMod", "fetchZip"} PROVE FromUpstream(rq[q].file) /\ rq[q].file \in Files
        <5>1. FromUpstream(rq[q].file)
          BY <2>4, <3>3, <4>1 DEF PullOk
        <5>2. CASE q = p
          BY <1>2, <1>4, <2>4, <5>1, <5>2 DEF GoReqOk
        <5>3. CASE q # p
          BY <1>1, <2>4, <3>2, <4>1, <5>1, <5>3 DEF GoReqOk, Storing
        <5> QED
          BY <5>2, <5>3
      <4> QED
        BY <2>3, <2>4, <4>1
    <3>5. PullOk(k, rq[q])'
      BY <3>1, <3>3, <3>4 DEF PullOk
    <3>6. pc'[q] = k \/ (q = p /\ pc'[q] = l)
      BY <1>5, <3>1, <3>2
    <3> QED
      BY <3>1, <3>2, <3>5, <3>6 DEF PullOk, Storing
  <2>5. Distinct'
    <3>1. ASSUME NEW q \in Procs, OwnVersion(q)' PROVE OwnVersion(q) /\ rq' = rq
      <4>1. rq' = rq /\ (q # p => pc'[q] = pc[q])
        BY <1>5 DEF Alone
      <4> QED
        BY <3>1, <4>1 DEF OwnVersion
    <3> QED
      BY <1>6, <3>1 DEF Matched, Distinct
  <2>6. \A q \in Procs : UploadOk(pc[q], rq[q])' /\ PullOk(pc[q], rq[q])'
    BY <2>2, <2>4 DEF PullOk
  <2> QED
    BY <1>6, <2>5, <2>6 DEF Matched
<1> QED
  BY <1>5, <1>6 DEF GoInv

\* The zip, under the version the go.mod is of.
LEMMA GoFileKeeps ==
  ASSUME GoInv, NEW p \in Procs, UNCHANGED gomod,
         \/ /\ rq[p].op = "upload"
            /\ Go!CreateFile(p, "upload", "created", Go!Respond(p, "500"), Go!Respond(p, "500"))
         \/ /\ rq[p].op \in MayPullThrough
            /\ Go!CreateFile(p, "upstream", "stamp", Go!Goto(p, "stamp") /\ UNCHANGED <<rq, resp>>,
                             Go!IngestError(p, "502"))
  PROVE  GoInv'
<1>1. /\ GoReqOk(pc[p], rq[p]) /\ IsLocal(rq[p]) /\ Shape /\ GoRows
      /\ Matched => UploadOk(pc[p], rq[p]) /\ PullOk(pc[p], rq[p])
  BY DEF GoInv, GoRequests, Shape, Matched
<1>2. pc[p] = "svcFile" /\ UNCHANGED <<pkg, versions, rule, up, overlapped>>
  BY DEF Go!CreateFile, Go!world, Go!history
<1>3. ASSUME UNCHANGED files PROVE Quiet
  BY <1>1, <1>2, <1>3, StillQuiet
<1>4. ASSUME UNCHANGED files, Go!Respond(p, "500") PROVE GoInv'
  BY <1>2, <1>3, <1>4, GoTurns
<1>5. ASSUME UNCHANGED files, Go!IngestError(p, "502") PROVE GoInv'
  BY <1>2, <1>3, <1>5, GoAfterIngest
<1>6. ASSUME NEW l \in {"created", "stamp"} PROVE GoReqOk(l, rq[p])
  BY <1>1, <1>2 DEF GoReqOk, Asking, Storing
<1>7. ASSUME NEW l \in {"created", "stamp"} PROVE UploadOk(l, rq[p]) /\ PullOk(l, rq[p]) /\ UploadOk(l, rq[p])'
  BY DEF UploadOk, PullOk, Storing
<1>8. ASSUME UNCHANGED files, Go!Goto(p, "stamp"), UNCHANGED <<rq, resp>> PROVE GoInv'
  BY <1>2, <1>3, <1>6, <1>7, <1>8, GoTurns
<1>9. ASSUME NEW src, NEW l \in {"created", "stamp"}, Go!Goto(p, l), UNCHANGED <<rq, resp>>,
             files' = files \cup {[vid |-> rq[p].verId, file |-> rq[p].file, sha |-> rq[p].sha,
                                  src |-> src, want |-> rq[p].want]},
             \E v \in versions : v.id = rq[p].verId
      PROVE  GoInv'
  <2>1. PICK x : x = [vid |-> rq[p].verId, file |-> rq[p].file, sha |-> rq[p].sha,
                      src |-> src, want |-> rq[p].want]
    OBVIOUS
  <2>2. files' = files \cup {x} /\ x.vid = rq[p].verId /\ x.sha = rq[p].sha
    BY <1>9, <2>1
  <2>3. PICK i, c : i = rq[p].verId /\ c = rq[p].sha
    OBVIOUS
  <2>4. \A y \in files' : y \in files \/ (y.vid = i /\ y.sha = c)
    BY <2>2, <2>3
  <2>5. GoRows'
    BY <1>1, <1>2, <1>9, <2>2 DEF GoRows
  <2>6. rq[p].op # "upload" => rq[p].op \in MayPullThrough
    BY <1>1, <1>2 DEF GoReqOk, Storing
  <2>7. OwnVersion(p) \/ rq[p].op # "upload"
    BY <1>2 DEF OwnVersion
  <2>8. ASSUME Matched
        PROVE  /\ rq[p].op # "upload" => c = up[rq[p].file] /\ PullOk("svcFile", rq[p])
               /\ \A y \in files', m \in gomod' : m.vid = y.vid => m.mod = y.sha
    <3>1. rq[p].op # "upload" => c = up[rq[p].file] /\ PullOk("svcFile", rq[p])
      BY <1>1, <1>2, <2>3, <2>6, <2>8 DEF PullOk, Storing
    <3>2. ASSUME NEW m \in gomod, m.vid = i PROVE m.mod = c
      <4>1. CASE rq[p].op = "upload"
        BY <1>1, <1>2, <2>3, <2>8, <3>2, <4>1 DEF UploadOk
      <4>2. CASE rq[p].op # "upload"
        <5>1. FromUpstream(rq[p].file) /\ \A v \in versions : v.id = i => v.ver = VerOf[rq[p].file]
          BY <1>1, <1>2, <2>3, <2>6, <2>8, <4>2 DEF PullOk, Storing
        <5> QED
          BY <1>9, <2>3, <3>1, <3>2, <4>2, <5>1 DEF FromUpstream
      <4> QED
        BY <4>1, <4>2
    <3>3. ASSUME NEW y \in files', NEW m \in gomod', m.vid = y.vid PROVE m.mod = y.sha
      BY <2>4, <2>8, <3>2, <3>3 DEF Matched
    <3> QED
      BY <3>1, <3>3
  <2>9. Goto(p, l)
    BY <1>9, GoAnswers
  <2>10. UNCHANGED <<rule, overlapped, up, versions>> /\ GoReqOk(l, rq[p])
    BY <1>2, <1>6
  <2>11. \A m \in gomod' : m \in gomod \/ (m.vid = i /\ m.mod = c)
    OBVIOUS
  <2>12. l \in {"svcFile", "stamp", "created"} /\ UNCHANGED <<rq, resp>>
    BY <1>9
  <2>13. UploadOk(l, rq[p])'
    BY <1>7
  <2> QED
    BY <2>3, <2>4, <2>5, <2>6, <2>7, <2>8, <2>9, <2>10, <2>11, <2>12, <2>13, GoStored
<1>10. CASE /\ rq[p].op = "upload"
            /\ Go!CreateFile(p, "upload", "created", Go!Respond(p, "500"), Go!Respond(p, "500"))
  BY <1>4, <1>9, <1>10 DEF Go!CreateFile
<1>11. CASE /\ rq[p].op \in MayPullThrough
            /\ Go!CreateFile(p, "upstream", "stamp", Go!Goto(p, "stamp") /\ UNCHANGED <<rq, resp>>,
                             Go!IngestError(p, "502"))
  BY <1>5, <1>8, <1>9, <1>11 DEF Go!CreateFile
<1> QED
  BY <1>10, <1>11

\* The go.mod, between the version and the zip.
LEMMA GoModKeeps ==
  ASSUME GoInv, NEW p \in Procs, Go!SetGoMod(p)
  PROVE  GoInv'
<1>1. /\ GoReqOk(pc[p], rq[p]) /\ IsLocal(rq[p]) /\ Shape /\ GoRows
      /\ Matched => UploadOk(pc[p], rq[p]) /\ PullOk(pc[p], rq[p])
  BY DEF GoInv, GoRequests, Shape, Matched
<1>2. /\ pc[p] = "svcProps" /\ UNCHANGED <<pkg, versions, files, rule, up, rq, resp, overlapped>>
      /\ Goto(p, "svcFile")
  BY GoAnswers DEF Go!SetGoMod, Go!rows, Go!world, Go!history
<1>3. PICK i, c : i = rq[p].verId /\ c = rq[p].want
  OBVIOUS
<1>4. \/ /\ \E r \in versions : r.id = i
         /\ gomod' = {m \in gomod : m.vid # i} \cup {[vid |-> i, mod |-> c]}
      \/ /\ \A r \in versions : r.id # i
         /\ gomod' = gomod
  BY <1>3 DEF Go!SetGoMod
<1>5. /\ \A m \in gomod' : m \in gomod \/ (m.vid = i /\ m.mod = c)
      /\ \A m \in gomod' : m.vid = i => m.mod = c
      /\ GoRows'
  BY <1>1, <1>2, <1>4 DEF GoRows
<1>6. rq[p].op = "upload" \/ rq[p].op \in MayPullThrough
  BY <1>1, <1>2 DEF GoReqOk, Storing
<1>7. OwnVersion(p) \/ rq[p].op # "upload"
  BY <1>2 DEF OwnVersion
<1>8. GoReqOk("svcFile", rq[p])
  BY <1>1, <1>2 DEF GoReqOk, Asking, Storing
<1>9. ASSUME Matched
      PROVE  /\ rq[p].op = "upload" => UploadOk("svcFile", rq[p])'
             /\ rq[p].op # "upload" => c = up[rq[p].file] /\ PullOk("svcFile", rq[p])
             /\ \A x \in files', m \in gomod' : m.vid = x.vid => m.mod = x.sha
  <2>1. ASSUME rq[p].op = "upload" PROVE UploadOk("svcFile", rq[p])' /\ \A x \in files : x.vid # i
    BY <1>1, <1>2, <1>3, <1>5, <1>9, <2>1 DEF UploadOk, Storing
  <2>2. ASSUME rq[p].op # "upload" PROVE c = up[rq[p].file] /\ PullOk("svcFile", rq[p])
    BY <1>1, <1>2, <1>3, <1>6, <1>9, <2>2 DEF PullOk, Storing
  <2>3. ASSUME NEW x \in files, x.vid = i PROVE x.sha = c
    <3>1. rq[p].op # "upload"
      BY <2>1, <2>3
    <3>2. FromUpstream(rq[p].file) /\ \A v \in versions : v.id = i => v.ver = VerOf[rq[p].file]
      BY <1>3, <1>6, <2>2, <3>1 DEF PullOk, Storing
    <3>3. \E v \in versions : v.id = i
      BY <1>1, <2>3 DEF GoRows
    <3> QED
      BY <2>2, <2>3, <3>1, <3>2, <3>3 DEF FromUpstream
  <2>4. ASSUME NEW x \in files', NEW m \in gomod', m.vid = x.vid PROVE m.mod = x.sha
    BY <1>2, <1>5, <1>9, <2>3, <2>4 DEF Matched
  <2> QED
    BY <2>1, <2>2, <2>4
<1>10. \A x \in files' : x \in files \/ (x.vid = i /\ x.sha = c)
  BY <1>2
<1> QED
  BY <1>2, <1>3, <1>5, <1>6, <1>7, <1>8, <1>9, <1>10, GoStored

\* The calls of the service.
LEMMA GoStoreKeeps ==
  ASSUME GoInv, NEW p \in Procs, Go!UploadStore(p) \/ Go!PullThroughStore(p)
  PROVE  GoInv'
<1>1. UNCHANGED gomod
  BY DEF Go!UploadStore, Go!PullThroughStore
<1>2. ASSUME NEW via, Go!GetOrCreatePackage(p, via) PROVE GoInv'
  BY <1>1, <1>2, GoService, GoPackageKeeps
<1>3. CASE Go!UploadStore(p)
  BY <1>1, <1>2, <1>3, GoService, GoAnswers, GoVersionKeeps, GoFileKeeps DEF Go!UploadStore
<1>4. CASE Go!PullThroughStore(p)
  <2>1. rq[p].op \in MayPullThrough
    BY <1>4 DEF Go!PullThroughStore, Go!Reads, MayPullThrough
  <2> QED
    BY <1>1, <1>2, <1>4, <2>1, GoAnswers, GoVersionKeeps, GoFileKeeps DEF Go!PullThroughStore
<1> QED
  BY <1>3, <1>4

\* An UPDATE of a version row keeps the rows of the module.
LEMMA GoUpdated ==
  ASSUME GoRows, NEW i, NEW c \in {"lic", "pub", "quar"}, NEW x, Wrote(i, c, x),
         UNCHANGED <<pkg, files, up>>, gomod' \subseteq gomod
  PROVE  Quiet
<1>1. VersionsOk(versions') /\ Rewritten(versions, versions')
  BY UpdatedVersions DEF GoRows
<1> QED
  BY <1>1 DEF Quiet, GoRows, Rewritten, SameKey

\* The publish time, on the row as looked up anew.
LEMMA GoStampKeeps ==
  ASSUME GoInv, NEW p \in Procs, Go!Stamp(p)
  PROVE  GoInv'
<1>1. /\ UNCHANGED <<rule, overlapped, pkg, files, gomod, up>>
      /\ pc[p] = "stamp" /\ Go!AfterIngest(p)
  BY DEF Go!Stamp, Go!world, Go!history
<1>2. GoRows
  BY DEF GoInv
<1>3. CASE UNCHANGED versions
  <2>1. Quiet
    BY <1>1, <1>2, <1>3, StillQuiet
  <2> QED
    BY <1>1, <2>1, GoAfterIngest
<1>4. ASSUME NEW i, versions' = Go!Updated(i, LAMBDA x : [x EXCEPT !.pub = TRUE]) PROVE GoInv'
  <2>1. Wrote(i, "pub", TRUE)
    BY <1>4 DEF Go!Updated, Wrote, Put
  <2>2. Quiet
    BY <1>1, <1>2, <2>1, GoUpdated
  <2> QED
    BY <1>1, <2>2, GoAfterIngest
<1> QED
  BY <1>3, <1>4 DEF Go!Stamp

\* The world takes away versions, and their properties and files with them.
LEMMA GoWorldRows ==
  ASSUME GoRows, Environment, gomod' = {m \in gomod : \E r \in versions' : r.id = m.vid}
  PROVE  GoRows' /\ (UNCHANGED up => Quiet)
<1>1. gomod' \subseteq gomod /\ \A m \in gomod' : \E r \in versions' : r.id = m.vid
  OBVIOUS
<1>2. CASE UNCHANGED <<pkg, versions, files>>
  BY <1>1, <1>2 DEF Quiet, GoRows, SameKey
<1>3. ASSUME NEW r \in versions, DeleteVersion(r) PROVE GoRows' /\ Quiet
  <2>1. versions' \subseteq versions /\ UNCHANGED <<pkg, up>> /\ files' \subseteq files
        /\ \A x \in files' : x.vid # r.id
        /\ \A s \in versions : s \in versions' \/ s = r
    BY <1>3 DEF DeleteVersion, world
  <2>2. VersionsOk(versions')
    BY <2>1, UnchangedRows DEF GoRows, RowsStep
  <2>3. \A x \in files' : \E s \in versions' : s.id = x.vid
    BY <2>1 DEF GoRows
  <2>4. GoRows'
    BY <1>1, <2>1, <2>2, <2>3 DEF GoRows
  <2> QED
    BY <1>1, <2>1, <2>4 DEF Quiet, SameKey
<1>4. ASSUME NEW r \in versions, RejectVersion(r) \/ PromoteVersion(r) PROVE GoRows' /\ Quiet
  <2>1. Wrote(r.id, "quar", TRUE) \/ Wrote(r.id, "quar", FALSE)
    BY <1>4 DEF RejectVersion, PromoteVersion, Updated, Wrote, Put
  <2>2. UNCHANGED <<pkg, files, up>>
    BY <1>4 DEF RejectVersion, PromoteVersion, world
  <2>3. Quiet
    BY <1>1, <2>1, <2>2, GoUpdated
  <2> QED
    BY <2>3 DEF Quiet
<1>5. ASSUME DeletePackage PROVE GoRows' /\ Quiet
  <2>1. pkg' = [id |-> 0, via |-> "none"] /\ versions' = {} /\ files' = {} /\ UNCHANGED up
    BY <1>5 DEF DeletePackage, world
  <2>2. VersionsOk(versions')
    BY <2>1, FS_EmptySet DEF VersionsOk
  <2>3. GoRows'
    BY <1>1, <2>1, <2>2 DEF GoRows
  <2> QED
    BY <1>1, <2>1, <2>3 DEF Quiet
<1>6. ASSUME NEW v, SetPackageCreatedVia(v) PROVE GoRows' /\ Quiet
  <2>1. UNCHANGED <<versions, files, up>> /\ pkg' = [pkg EXCEPT !.via = v]
    BY <1>6 DEF SetPackageCreatedVia, world
  <2>2. pkg' = [id |-> pkg'.id, via |-> pkg'.via] /\ pkg'.id = pkg.id
    BY <2>1 DEF GoRows
  <2>3. GoRows'
    BY <1>1, <2>1, <2>2 DEF GoRows
  <2> QED
    BY <1>1, <2>1, <2>3 DEF Quiet, SameKey
<1>7. ASSUME \/ \E r \in Rules : ChangeRule(r)
             \/ SetMode
             \/ \E f \in Files, c \in Contents \cup {NoContent} : UpstreamChanges(f, c)
             \/ \E p \in Procs : Fail(p)
             \/ Crash
      PROVE  UNCHANGED <<pkg, versions, files>>
  BY <1>7, Zenon DEF ChangeRule, SetMode, UpstreamChanges, Fail, Crash, rows
<1> QED
  BY <1>2, <1>3, <1>4, <1>5, <1>6, <1>7, Zenon DEF Environment

\* Nothing the world does lets a young version out, or parts a go.mod from its zip.
LEMMA GoWorldKeeps ==
  ASSUME GoInv, Environment, gomod' = {m \in gomod : \E r \in versions' : r.id = m.vid}
  PROVE  GoInv'
<1>1. GoRequests /\ GoRows /\ rule \in Rule /\ Shape /\ (overlapped \/ Apart)
  BY DEF GoInv, GoRequests
<1>2. GoRows' /\ (UNCHANGED up => Quiet)
  BY <1>1, GoWorldRows
<1>3. UNCHANGED overlapped
  BY Zenon DEF Environment, ChangeRule, SetMode, UpstreamChanges, DeleteVersion, RejectVersion, PromoteVersion,
           DeletePackage, SetPackageCreatedVia, Fail, Crash, Event
<1>4. ASSUME NEW p \in Procs, Fail(p) PROVE GoInv'
  <2>1. UNCHANGED <<rule, up>> /\ Go!Respond(p, "500")
    BY <1>4, GoAnswers DEF Fail, world
  <2> QED
    BY <1>2, <1>3, <2>1, GoTurns
<1>5. ASSUME Crash PROVE GoInv'
  <2>1. /\ pc' = [p \in Procs |-> "idle"] /\ rq' = [p \in Procs |-> NoLocal]
        /\ resp' = [p \in Procs |-> IF pc[p] = "idle" THEN resp[p] ELSE NoResp]
        /\ UNCHANGED <<rule, up>>
    BY <1>5 DEF Crash, world
  <2>2. PICK n : n = NoLocal
    OBVIOUS
  <2>3. IsLocal(n) /\ n.op = "none"
    BY <2>2 DEF IsLocal, LocalFields, NoLocal
  <2>4. Shape' /\ Apart'
    BY <2>1, <2>2, <2>3 DEF Shape, Apart, Overlap
  <2>5. \A f : Hidden(f)' <=> Hidden(f)
    BY <2>1 DEF Hidden
  <2>6. GoRespOk(NoResp)'
    BY DEF GoRespOk, NoResp
  <2>7. \A p \in Procs : GoRespOk(resp[p]) /\ resp'[p] \in {resp[p], NoResp}
    BY <1>1, <2>1 DEF GoRequests
  <2>8. \A p \in Procs : GoRespOk(resp[p])'
    BY <2>5, <2>6, <2>7 DEF GoRespOk
  <2>9. \A p \in Procs : pc'[p] = "idle" /\ rq'[p] = n
    BY <2>1, <2>2
  <2>10. \A p \in Procs : GoReqOk(pc[p], rq[p])'
    BY <2>3, <2>9 DEF GoReqOk, Asking, Storing, MayPullThrough
  <2>11. GoRequests'
    <3>1. rule' \in Rule
      BY <1>1, <2>1
    <3> QED
      BY ONLY <2>4, <2>8, <2>10, <3>1 DEF GoRequests
  <2>12. Matched => Matched'
    <3>1. Distinct' /\ \A p \in Procs : UploadOk(pc[p], rq[p])' /\ PullOk(pc[p], rq[p])'
      BY <2>3, <2>9 DEF Distinct, OwnVersion, UploadOk, PullOk, MayPullThrough
    <3>2. Matched => \A x \in files', m \in gomod' : m.vid = x.vid => m.mod = x.sha
      BY <1>2, <2>1 DEF Matched, Quiet
    <3> QED
      BY <3>1, <3>2 DEF Matched
  <2> QED
    BY <1>2, <1>3, <2>11, <2>12 DEF GoInv
<1>6. ASSUME UNCHANGED <<pc, rq, resp>>, "rule" \in Env \/ UNCHANGED rule, rule' \in Rule,
             "upstream" \in Env \/ UNCHANGED up
      PROVE  GoInv'
  <2>1. Shape' /\ (overlapped \/ Apart)'
    BY <1>1, <1>3, <1>6 DEF Shape, Apart
  <2>2. "rule" \in Env \/ \A f : Hidden(f)' <=> Hidden(f)
    BY <1>6 DEF Hidden
  <2>3. \A p \in Procs : GoReqOk(pc[p], rq[p])' /\ GoRespOk(resp[p])'
    BY <1>1, <1>6, <2>2 DEF GoRequests, GoReqOk, GoRespOk
  <2>4. GoRequests'
    BY ONLY <1>6, <2>1, <2>3 DEF GoRequests
  <2>5. ASSUME Quiet, Matched PROVE Matched'
    <3>1. ASSUME NEW p \in Procs PROVE UploadOk(pc[p], rq[p])' /\ PullOk(pc[p], rq[p])'
      <4>1. PICK k, t : k = pc[p] /\ t = rq[p]
        OBVIOUS
      <4>2. UploadOk(k, t) /\ PullOk(k, t)
        BY <2>5, <4>1 DEF Matched
      <4>3. UploadOk(k, t)' /\ PullOk(k, t)'
        BY <1>1, <2>5, <4>1, <4>2, QuietKnows
      <4>4. pc'[p] = k /\ rq'[p] = t
        BY <1>6, <4>1
      <4> QED
        BY <4>3, <4>4 DEF UploadOk, PullOk
    <3>2. Distinct' /\ \A x \in files', m \in gomod' : m.vid = x.vid => m.mod = x.sha
      BY <1>6, <2>5 DEF Matched, Distinct, OwnVersion, Quiet
    <3> QED
      BY <3>1, <3>2 DEF Matched
  <2> QED
    BY <1>2, <1>3, <1>6, <2>4, <2>5 DEF GoInv
<1>7. ASSUME NEW r \in Rules, ChangeRule(r) PROVE GoInv'
  <2>1. "rule" \in Env /\ rule' \in Rule /\ UNCHANGED <<pc, rq, resp, up>>
    BY <1>7, RulesAssumption DEF ChangeRule, Event
  <2> QED
    BY <1>6, <2>1
<1>8. ASSUME NEW f, NEW c, UpstreamChanges(f, c) PROVE GoInv'
  BY <1>1, <1>6, <1>8 DEF UpstreamChanges, Event
<1>9. ASSUME \/ SetMode
             \/ \E r \in versions : DeleteVersion(r) \/ RejectVersion(r) \/ PromoteVersion(r)
             \/ DeletePackage
             \/ \E v \in CreatedVia : SetPackageCreatedVia(v)
      PROVE  GoInv'
  <2>1. UNCHANGED <<rule, up, pc, rq, resp>>
    BY <1>9, Zenon DEF SetMode, DeleteVersion, RejectVersion, PromoteVersion,
                  DeletePackage, SetPackageCreatedVia, world
  <2> QED
    BY <1>1, <1>6, <2>1
<1> QED
  BY <1>4, <1>5, <1>7, <1>8, <1>9, Zenon DEF Environment

\* The Go module proxy starts and runs within what its requests know.
LEMMA GoInvHolds == Go!Spec => []GoInv
<1>1. Go!GoInit => GoInv
  <2> SUFFICES ASSUME Go!GoInit PROVE GoInv
    OBVIOUS
  <2>1. /\ rule \in Rule /\ pkg = [id |-> 0, via |-> "none"] /\ versions = {} /\ files = {} /\ gomod = {}
        /\ pc = [p \in Procs |-> "idle"] /\ rq = [p \in Procs |-> NoLocal] /\ resp = [p \in Procs |-> NoResp]
    BY RulesAssumption, GoAnswers DEF Go!GoInit, Go!Init
  <2>2. PICK n : n = NoLocal
    OBVIOUS
  <2>3. IsLocal(n) /\ n.op = "none"
    BY <2>2 DEF IsLocal, LocalFields, NoLocal
  <2>4. Shape /\ Apart
    BY <2>1, <2>2, <2>3 DEF Shape, Apart, Overlap
  <2>5. GoRespOk(NoResp)
    BY DEF GoRespOk, NoResp
  <2>6. \A p \in Procs : GoReqOk(pc[p], rq[p]) /\ GoRespOk(resp[p])
    BY <2>1, <2>2, <2>3, <2>5 DEF GoReqOk, Asking, Storing, MayPullThrough
  <2>7. GoRows
    BY <2>1, FS_EmptySet DEF GoRows, VersionsOk
  <2>8. Matched
    BY <2>1, <2>2, <2>3 DEF Matched, Distinct, OwnVersion, UploadOk, PullOk, MayPullThrough
  <2> QED
    BY <2>1, <2>4, <2>6, <2>7, <2>8 DEF GoInv, GoRequests
<1>2. GoInv /\ [Go!Next]_Go!goVars => GoInv'
  <2> SUFFICES ASSUME GoInv, [Go!Next]_Go!goVars PROVE GoInv'
    OBVIOUS
  <2>1. CASE UNCHANGED Go!goVars
    <3>1. UNCHANGED <<pkg, versions, files, rule, up, pc, rq, resp, overlapped, gomod>>
      BY <2>1 DEF Go!goVars, Go!vars, Go!rows, Go!world, Go!history
    <3>2. GoRequests' /\ GoRows'
      BY <3>1 DEF GoInv, GoRequests, Shape, Apart, GoReqOk, GoRespOk, Hidden, GoRows
    <3>3. Matched => Matched'
      BY <3>1 DEF Matched, Distinct, OwnVersion, UploadOk, PullOk, FromUpstream
    <3> QED
      BY <3>1, <3>2, <3>3 DEF GoInv
  <2>2. ASSUME NEW p \in Procs, Go!Step(p) PROVE GoInv'
    BY <2>2, GoUploadKeeps, GoStoreKeeps, GoModKeeps, GoReadKeeps, GoFetchKeeps, GoStampKeeps, GoListKeeps
       DEF Go!Step
  <2>3. CASE Go!World
    BY <2>3, GoWorld, GoWorldKeeps DEF Go!World
  <2> QED
    BY <2>1, <2>2, <2>3, GoArrives DEF Go!Next
<1> QED
  BY <1>1, <1>2, PTL DEF Go!Spec

\* Whoever asks for the .info, .mod or .zip of a version a cooldown rule hides, or for @latest,
\* does not get it, not even the client whose request fetched it (readVersion and
\* servePullThroughInfo, -Mod and -Zip).
THEOREM YoungNeverAnsweredHolds == Go!Spec => []YoungNeverAnswered
<1>1. GoInv => YoungNeverAnswered
  BY DEF GoInv, GoRequests, GoRespOk, Hidden, YoungNeverAnswered
<1> QED
  BY <1>1, GoInvHolds, PTL

\* The go.mod and the zip of a version belong together, although the ingest stores them in two
\* steps that other requests, failures and deletions come between (CreatePackageOrAddFileToExisting).
THEOREM ModMatchesZipHolds == Go!Spec => []ModMatchesZip
<1>1. GoInv => ModMatchesZip
  BY DEF GoInv, Matched, ModMatchesZip
<1> QED
  BY <1>1, GoInvHolds, PTL
=============================================================================
