------------------------ MODULE UploadTrackerProofs ------------------------
(***************************************************************************)
(* Proofs about UploadTracker, for any number of requests, sessions and    *)
(* contents.                                                               *)
(*                                                                         *)
(* Who owns an upload session and its staging file: ownership passes from  *)
(* the map to one request or to the sweeper under the tracker's mutex; the *)
(* proof needs that the three are disjoint and that none of them holds a   *)
(* UUID that was never handed out.                                         *)
(*                                                                         *)
(* What is stored under a digest: on a session that nothing spoiled one    *)
(* request is at work at a time, and its position says how file, offset,   *)
(* hash, size and the bytes read back are related.                         *)
(***************************************************************************)
EXTENDS UploadTracker, TLAPS

\* The requests' locals are records with a position and a session.
Fields == {"at", "s", "body", "want", "buf", "n"}
ReqShape ==
    /\ req = [p \in Procs |-> req[p]]
    /\ \A p \in Procs : req[p] = [k \in Fields |-> req[p][k]]

Owner(p) == req[p].at \in Owning

\* What is tracked, swept or owned was handed out.
HandedOut ==
    /\ tracked \subseteq begun
    /\ stale \subseteq begun
    /\ \A p \in Procs : Owner(p) => req[p].s \in begun

Disjoint == tracked \cap stale = {}

\* NoLeakedStaging, without the set comprehension.
StagedIsHeld ==
    \A s \in staged : s \in tracked \/ s \in stale \/ \E p \in Procs : Owner(p) /\ req[p].s = s

OwnershipInv == ReqShape /\ HandedOut /\ Disjoint /\ SingleOwner /\ StagedIsHeld

-----------------------------------------------------------------------------
\* What the steps that assign req do to it.
OnlyMoves(p, l, s) ==
    /\ ReqShape'
    /\ req'[p].at = l
    /\ req'[p].s = s
    /\ \A q \in Procs \ {p} : req'[q] = req[q]

\* Goto changes the position and keeps the session.
LEMMA GotoMoves ==
  ASSUME ReqShape, NEW p \in Procs, NEW l, Goto(p, l)
  PROVE OnlyMoves(p, l, req[p].s)
  BY DEF ReqShape, Goto, OnlyMoves, Fields

\* Respond clears the request.
LEMMA RespondMoves ==
  ASSUME ReqShape, NEW p \in Procs, Respond(p)
  PROVE OnlyMoves(p, "idle", NoSession)
  BY DEF ReqShape, Respond, OnlyMoves, Fields, Idle

\* A request that owns nothing moves on, and still owns nothing.
LEMMA VisitorMoves ==
  ASSUME OwnershipInv, NEW p \in Procs, NEW l, NEW s, OnlyMoves(p, l, s),
         ~Owner(p), l \notin Owning, UNCHANGED <<tracked, begun, stale, staged>>
  PROVE OwnershipInv'
  BY DEF OwnershipInv, OnlyMoves, Owner, HandedOut, Disjoint, SingleOwner, StagedIsHeld

\* The owner of a session goes on with it.
LEMMA OwnerMoves ==
  ASSUME OwnershipInv, NEW p \in Procs, NEW l, OnlyMoves(p, l, req[p].s),
         Owner(p), l \in Owning, UNCHANGED <<tracked, begun, stale, staged>>
  PROVE OwnershipInv'
  <1> USE DEF OwnershipInv, OnlyMoves, Owner
  <1>1. \A q \in Procs : Owner(q)' = Owner(q) /\ req'[q].s = req[q].s
    OBVIOUS
  <1> HIDE DEF Owner
  <1>2. HandedOut' /\ Disjoint' /\ StagedIsHeld'
    BY <1>1 DEF HandedOut, Disjoint, StagedIsHeld
  <1>3. SingleOwner'
    BY <1>1 DEF SingleOwner, Owner
  <1> QED
    BY <1>2, <1>3

\* The owner closes and removes the staging file and is done.
LEMMA OwnerLeaves ==
  ASSUME OwnershipInv, NEW p \in Procs, NEW s, OnlyMoves(p, "idle", s), Owner(p),
         staged' = staged \ {req[p].s}, UNCHANGED <<tracked, begun, stale>>
  PROVE OwnershipInv'
  <1> USE DEF OwnershipInv, OnlyMoves, Owner
  <1>1. HandedOut' /\ Disjoint' /\ SingleOwner'
    BY DEF HandedOut, Disjoint, SingleOwner, Owning
  <1>2. StagedIsHeld'
    BY DEF StagedIsHeld
  <1> QED
    BY <1>1, <1>2

\* A session leaves the map for one request.
LEMMA OwnerTakes ==
  ASSUME OwnershipInv, NEW p \in Procs, NEW l, NEW s \in tracked, OnlyMoves(p, l, s),
         ~Owner(p), l \in Owning, tracked' = tracked \ {s}, UNCHANGED <<begun, stale, staged>>
  PROVE OwnershipInv'
  <1> USE DEF OwnershipInv, OnlyMoves, Owner
  <1>1. HandedOut' /\ Disjoint'
    BY DEF HandedOut, Disjoint
  <1>2. SingleOwner'
    BY DEF SingleOwner, Disjoint
  <1>3. StagedIsHeld'
    BY DEF StagedIsHeld
  <1> QED
    BY <1>1, <1>2, <1>3

-----------------------------------------------------------------------------
\* A new session is in nobody's hands: its UUID was never handed out.
LEMMA PostOwnership ==
  ASSUME OwnershipInv, NEW p \in Procs, NEW s \in Sessions, NEW b, NEW d, Post(p, s, b, d)
  PROVE OwnershipInv'
  <1>1. ~Owner(p) /\ s \notin begun
    BY DEF Post, Owner, Owning
  <1>2. /\ ReqShape'
        /\ ~Owner(p)'
        /\ \A q \in Procs \ {p} : req'[q] = req[q]
    <2>1. CASE d = NoDigest
      BY <1>1, <2>1 DEF Post, OwnershipInv, ReqShape, Owner
    <2>2. CASE d # NoDigest
      BY <2>2 DEF Post, OwnershipInv, ReqShape, Owner, Owning, Fields, Idle
    <2> QED
      BY <2>1, <2>2
  <1>3. /\ begun' = begun \cup {s} /\ tracked' = tracked \cup {s}
        /\ staged' = staged \cup {s} /\ stale' = stale
    BY DEF Post
  <1>4. \A q \in Procs : Owner(q)' => q # p /\ Owner(q) /\ req'[q] = req[q]
    BY <1>2 DEF Owner
  <1>5. \A q \in Procs : Owner(q) => Owner(q)' /\ req'[q] = req[q]
    BY <1>1, <1>2 DEF Owner
  <1>6. HandedOut' /\ Disjoint'
    BY <1>1, <1>3, <1>4 DEF OwnershipInv, HandedOut, Disjoint
  <1>7. SingleOwner'
    BY <1>1, <1>3, <1>4 DEF OwnershipInv, HandedOut, SingleOwner, Owner
  <1>8. StagedIsHeld'
    BY <1>3, <1>5 DEF OwnershipInv, StagedIsHeld
  <1> QED
    BY <1>2, <1>6, <1>7, <1>8 DEF OwnershipInv

\* PATCH, PUT and DELETE arriving.
LEMMA ArriveOwnership ==
  ASSUME OwnershipInv, NEW p \in Procs, Arrive(p)
  PROVE OwnershipInv'
  <1>1. ASSUME NEW s \in Sessions, NEW b, Patch(p, s, b) PROVE OwnershipInv'
    <2>1. OnlyMoves(p, "lookup", s)
      BY <1>1 DEF Patch, OwnershipInv, ReqShape, OnlyMoves, Fields, Idle
    <2> QED
      BY <1>1, <2>1, VisitorMoves DEF Patch, tracker, Owner, Owning
  <1>2. ASSUME NEW s \in Sessions, NEW b, NEW d, Put(p, s, b, d) PROVE OwnershipInv'
    <2>1. OnlyMoves(p, IF b = NoChunk THEN "take" ELSE "lookup", s)
      BY <1>2 DEF Put, OwnershipInv, ReqShape, OnlyMoves, Fields, Idle
    <2> QED
      BY <1>2, <2>1, VisitorMoves DEF Put, tracker, Owner, Owning
  <1>3. ASSUME NEW s \in Sessions, Cancel(p, s) PROVE OwnershipInv'
    <2>1. OnlyMoves(p, "discard", s)
      BY <1>3 DEF Cancel, OwnershipInv, ReqShape, OnlyMoves, Fields
    <2> QED
      BY <1>3, <2>1, OwnerTakes DEF Cancel, Untracked, Owner, Owning
  <1> QED
    BY <1>1, <1>2, <1>3, PostOwnership DEF Arrive

\* Append never takes a session over, whatever it does to the file.
LEMMA AppendOwnership ==
  ASSUME OwnershipInv, NEW p \in Procs, AppendStep(p)
  PROVE OwnershipInv'
  <1>1. UNCHANGED <<tracked, begun, stale, staged>>
    BY DEF AppendStep, AppendLookup, WriteFile, WriteFails, HashWrite, Count, BodyFails
  <1>2. ~Owner(p)
    BY DEF AppendStep, AppendLookup, WriteFile, WriteFails, HashWrite, Count, BodyFails,
           Owner, Owning
  <1>3. Respond(p) \/ \E l \in {"write", "hash", "count", "take"} : Goto(p, l)
    BY DEF AppendStep, AppendLookup, WriteFile, WriteFails, HashWrite, Count, BodyFails
  <1>4. CASE Respond(p)
    BY <1>1, <1>2, <1>4, RespondMoves, VisitorMoves DEF OwnershipInv, Owning
  <1>5. ASSUME NEW l \in {"write", "hash", "count", "take"}, Goto(p, l) PROVE OwnershipInv'
    <2>1. OnlyMoves(p, l, req[p].s)
      BY <1>5, GotoMoves DEF OwnershipInv
    <2> QED
      BY <1>1, <1>2, <2>1, VisitorMoves DEF Owning
  <1> QED
    BY <1>3, <1>4, <1>5

\* Finalize takes the session out of the map, or finds it gone.
LEMMA TakeOwnership ==
  ASSUME OwnershipInv, NEW p \in Procs, Take(p)
  PROVE OwnershipInv'
  <1>1. ~Owner(p) /\ UNCHANGED <<begun, stale, staged>>
    BY DEF Take, Owner, Owning
  <1>2. CASE Respond(p) /\ UNCHANGED tracked
    BY <1>1, <1>2, RespondMoves, VisitorMoves DEF OwnershipInv, Owning
  <1>3. CASE req[p].s \in tracked /\ tracked' = tracked \ {req[p].s} /\ Goto(p, "sum")
    <2>1. OnlyMoves(p, "sum", req[p].s)
      BY <1>3, GotoMoves DEF OwnershipInv
    <2> QED
      BY <1>1, <1>3, <2>1, OwnerTakes DEF Owning
  <1> QED
    BY <1>2, <1>3 DEF Take, Untracked

\* The owner finalizes or discards; when it leaves, the staging file is gone.
LEMMA OwnOwnership ==
  ASSUME OwnershipInv, NEW p \in Procs, OwnStep(p) \/ StoreFails(p)
  PROVE OwnershipInv'
  <1>1. Owner(p) /\ UNCHANGED <<tracked, begun, stale>>
    BY DEF OwnStep, StoreFails, Sum, Rewind, ReadChunk, Save, GetOrCreateBlob, Discard,
           Owner, Owning, tracker
  <1>2. \/ Respond(p) /\ staged' = staged \ {req[p].s}
        \/ staged' = staged /\ \E l \in Owning : OnlyMoves(p, l, req[p].s)
    <2>1. CASE Sum(p)
      <3>1. CASE req' = [req EXCEPT ![p].at = "rewind", ![p].n = upload[req[p].s].size]
                 /\ staged' = staged
        <4>1. OnlyMoves(p, "rewind", req[p].s)
          BY <3>1 DEF OwnershipInv, ReqShape, OnlyMoves, Fields
        <4> QED
          BY <3>1, <4>1 DEF Owning
      <3>2. CASE Respond(p) /\ staged' = staged \ {req[p].s}
        BY <3>2
      <3> QED
        BY <2>1, <3>1, <3>2 DEF Sum, DropMismatched, Discarded
    <2>2. CASE ReadChunk(p)
      <3>1. OnlyMoves(p, "save", req[p].s)
        BY <2>2 DEF ReadChunk, OwnershipInv, ReqShape, OnlyMoves, Fields
      <3> QED
        BY <2>2, <3>1 DEF ReadChunk, Owning
    <2>3. CASE Rewind(p)
      BY <2>3, GotoMoves DEF Rewind, OwnershipInv, Owning
    <2>4. CASE Save(p)
      BY <2>4, GotoMoves DEF Save, OwnershipInv, Owning, tracker
    <2>5. CASE GetOrCreateBlob(p) \/ Discard(p) \/ StoreFails(p)
      BY <2>5 DEF GetOrCreateBlob, Discard, StoreFails, Discarded
    <2> QED
      BY <2>1, <2>2, <2>3, <2>4, <2>5 DEF OwnStep
  <1>3. CASE Respond(p) /\ staged' = staged \ {req[p].s}
    BY <1>1, <1>3, RespondMoves, OwnerLeaves DEF OwnershipInv
  <1>4. CASE staged' = staged /\ \E l \in Owning : OnlyMoves(p, l, req[p].s)
    BY <1>1, <1>4, OwnerMoves
  <1> QED
    BY <1>2, <1>3, <1>4

\* The sweeper takes the idle sessions in one critical section and drops them.
LEMMA SweepOwnership ==
  ASSUME OwnershipInv, Sweep
  PROVE OwnershipInv'
  <1>1. req' = req /\ begun' = begun
    BY DEF Sweep, SweepTake, SweepDrop
  <1>2. ReqShape' /\ \A q \in Procs : Owner(q)' <=> Owner(q)
    BY <1>1 DEF OwnershipInv, ReqShape, Owner
  <1>3. CASE SweepTake
    <2>1. /\ stale = {} /\ stale' \subseteq tracked /\ tracked' = tracked \ stale'
          /\ staged' = staged
      BY <1>3 DEF SweepTake, IdleSessions
    <2>2. HandedOut' /\ Disjoint'
      BY <1>1, <1>2, <2>1 DEF OwnershipInv, HandedOut, Disjoint
    <2>3. SingleOwner'
      BY <1>1, <1>2, <2>1 DEF OwnershipInv, SingleOwner, Owner
    <2>4. StagedIsHeld'
      BY <1>1, <1>2, <2>1 DEF OwnershipInv, StagedIsHeld
    <2> QED
      BY <1>2, <2>2, <2>3, <2>4 DEF OwnershipInv
  <1>4. CASE SweepDrop
    <2>1. PICK s \in stale : stale' = stale \ {s} /\ staged' = staged \ {s} /\ tracked' = tracked
      BY <1>4 DEF SweepDrop, Discarded
    <2>2. HandedOut' /\ Disjoint'
      BY <1>1, <1>2, <2>1 DEF OwnershipInv, HandedOut, Disjoint
    <2>3. SingleOwner'
      BY <1>1, <1>2, <2>1 DEF OwnershipInv, SingleOwner, Owner
    <2>4. StagedIsHeld'
      BY <1>1, <1>2, <2>1 DEF OwnershipInv, StagedIsHeld
    <2> QED
      BY <1>2, <2>2, <2>3, <2>4 DEF OwnershipInv
  <1> QED
    BY <1>3, <1>4 DEF Sweep

\* After a restart nothing is owned, and the orphans are gone.
LEMMA RestartOwnership ==
  ASSUME OwnershipInv, Restart
  PROVE OwnershipInv'
  <1>1. ReqShape' /\ \A q \in Procs : ~Owner(q)'
    BY DEF Restart, ReqShape, Owner, Owning, Fields, Idle
  <1>2. tracked' = {} /\ stale' = {} /\ staged' = {}
    BY DEF Restart, SweepOrphans
  <1> QED
    BY <1>1, <1>2 DEF OwnershipInv, HandedOut, Disjoint, SingleOwner, StagedIsHeld, Owner

-----------------------------------------------------------------------------
\* Ownership of sessions (upload.go: uploads map, Finalize, Cancel, sweepIdle)
\* is exclusive and complete in every reachable state.
THEOREM Ownership == Spec => []OwnershipInv
  <1>1. Init => OwnershipInv
    <2> SUFFICES ASSUME Init PROVE OwnershipInv
      OBVIOUS
    <2>1. ReqShape /\ \A q \in Procs : ~Owner(q)
      BY DEF Init, ReqShape, Owner, Owning, Fields, Idle
    <2>2. tracked = {} /\ stale = {} /\ staged = {}
      BY DEF Init
    <2> QED
      BY <2>1, <2>2 DEF OwnershipInv, HandedOut, Disjoint, SingleOwner, StagedIsHeld, Owner
  <1>2. OwnershipInv /\ [Next]_vars => OwnershipInv'
    <2> SUFFICES ASSUME OwnershipInv, [Next]_vars PROVE OwnershipInv'
      OBVIOUS
    <2>1. ASSUME UNCHANGED <<tracked, begun, stale, staged, req>> PROVE OwnershipInv'
      BY <2>1 DEF OwnershipInv, ReqShape, HandedOut, Disjoint, SingleOwner, StagedIsHeld, Owner
    <2>2. CASE UNCHANGED vars
      BY <2>1, <2>2 DEF vars, tracker
    <2>3. ASSUME NEW s \in Sessions, GoesIdle(s) PROVE OwnershipInv'
      BY <2>1, <2>3 DEF GoesIdle
    <2>4. CASE Next
      BY <2>3, <2>4, ArriveOwnership, AppendOwnership, TakeOwnership, OwnOwnership,
         SweepOwnership, RestartOwnership DEF Next
    <2> QED
      BY <2>2, <2>4
  <1> QED
    BY <1>1, <1>2, PTL DEF Spec

\* No two parties hold a session that left the map, so no staging file is closed
\* or stored twice, for any number of requests.
THEOREM OneOwner == Spec => []SingleOwner
  <1>1. OwnershipInv => SingleOwner
    BY DEF OwnershipInv
  <1> QED
    BY <1>1, Ownership, PTL

\* Every staging file in TmpDir has somebody who will remove it.
THEOREM NoLeak == Spec => []NoLeakedStaging
  <1>1. OwnershipInv => NoLeakedStaging
    BY DEF OwnershipInv, StagedIsHeld, NoLeakedStaging, Owner
  <1> QED
    BY <1>1, Ownership, PTL

-----------------------------------------------------------------------------
\* The stored bytes: the shape of the state first.

UploadFields == {"file", "off", "hash", "size", "idle", "faults"}
IsUpload(u) == u = [k \in UploadFields |-> u[k]]

Labels == {"idle", "lookup", "take"} \cup Appending \cup Owning

\* Uploads are records.
UploadsTyped == upload = [s \in Sessions |-> upload[s]] /\ \A s \in Sessions : IsUpload(upload[s])

\* A request that is not idle is on a session; nobody has read back bytes who is not saving.
ReqTyped(r) ==
    /\ r.at \in Labels
    /\ r.at # "idle" => r.s \in Sessions
    /\ r.body \in Chunks \cup {NoChunk}
    /\ r.at \notin {"save", "row"} => r.buf = <<>>

Typed == UploadsTyped /\ \A p \in Procs : ReqTyped(req[p])

Spoiled(s) == "spoiled" \in upload[s].faults

\* Requests that use the session's file and hash; one that cancels only closes it.
Working == Appending \cup {"sum", "rewind", "save", "row"}
Works(p, s) == req[p].at \in Working /\ req[p].s = s

\* Between two requests: the file is what was hashed and, unless an append was cut off,
\* counted.
Fits(u) ==
    /\ u.file \in Seq(Chunks) /\ u.hash = u.file /\ u.off = Len(u.file)
    /\ u.faults = {} => u.size = Len(u.file)

Sized(u, r) == u.faults = {} => r.n = Len(u.file)

\* And within a request, by its position.
FitsAt(u, r) ==
    /\ u.file \in Seq(Chunks)
    /\ r.at \in {"write", "sum"} => Fits(u)
    /\ r.at = "hash" =>
          /\ u.hash \in Seq(Chunks) /\ r.body \in Chunks /\ r.body # NoChunk
          /\ u.file = Append(u.hash, r.body) /\ u.off = Len(u.file) /\ u.off <= MaxLen
          /\ u.faults = {} => u.size + 1 = Len(u.file)
    /\ r.at = "count" =>
          /\ u.hash = u.file /\ u.off = Len(u.file)
          /\ u.faults = {} => u.size + (IF r.body = NoChunk THEN 0 ELSE 1) = Len(u.file)
    /\ r.at \in {"rewind", "save", "row"} => r.want = u.file /\ Sized(u, r)
    /\ r.at = "save" =>
          /\ u.off \in Nat /\ u.off <= Len(u.file)
          /\ r.buf \in Seq(Chunks) /\ Len(r.buf) = u.off
          /\ \A i \in 1 .. u.off : r.buf[i] = u.file[i]

\* A session that nothing spoiled has one user at a time, and fits.
Clean(s) ==
    ~Spoiled(s) =>
        /\ \A p, q \in Procs : Works(p, s) /\ Works(q, s) => p = q
        /\ (\A p \in Procs : ~Works(p, s)) => Fits(upload[s])
        /\ \A p \in Procs : Works(p, s) => FitsAt(upload[s], req[p])

\* A session that a step does not touch stays clean.
LEMMA CleanStays ==
  ASSUME NEW s \in Sessions, Clean(s), upload'[s] = upload[s],
         \A q \in Procs : /\ Works(q, s)' <=> Works(q, s)
                          /\ Works(q, s) => req'[q] = req[q]
  PROVE  Clean(s)'
  BY DEF Clean, Spoiled

\* A request alone on a session may change it as its position allows.
LEMMA CleanAlone ==
  ASSUME NEW s \in Sessions, NEW p \in Procs,
         \A q \in Procs \ {p} : ~Works(q, s)',
         Works(p, s)' => FitsAt(upload'[s], req'[p]),
         ~Works(p, s)' => Fits(upload'[s])
  PROVE  Clean(s)'
  BY DEF Clean

\* A spoiled session promises nothing.
LEMMA CleanSpoiled ==
  ASSUME NEW s \in Sessions, "spoiled" \in upload'[s].faults
  PROVE  Clean(s)'
  BY DEF Clean, Spoiled

\* The sessions p's step is not on.
LEMMA OthersClean ==
  ASSUME NEW p \in Procs, NEW s, NEW t \in Sessions, t # s, Clean(t), upload'[t] = upload[t],
         \A q \in Procs \ {p} : req'[q] = req[q],
         req[p].at \in Working => req[p].s = s,
         req'[p].at \in Working => req'[p].s = s
  PROVE  Clean(t)'
  BY CleanStays DEF Works

\* A step of the request that works on session s.
LEMMA WorkStep ==
  ASSUME Typed, \A t \in Sessions : Clean(t), NEW p \in Procs, NEW s \in Sessions, Works(p, s),
         \A q \in Procs \ {p} : req'[q] = req[q],
         req'[p].at \in Working => req'[p].s = s,
         NEW v, upload' = [upload EXCEPT ![s] = v], IsUpload(v), upload[s].faults \subseteq v.faults,
         \/ "spoiled" \in v.faults
         \/ ~Spoiled(s) => IF req'[p].at \in Working THEN FitsAt(v, req'[p]) ELSE Fits(v)
  PROVE  UploadsTyped' /\ \A t \in Sessions : Clean(t)'
<1>1. upload'[s] = v /\ \A t \in Sessions \ {s} : upload'[t] = upload[t]
  BY DEF Typed, UploadsTyped
<1>2. UploadsTyped'
  BY <1>1 DEF Typed, UploadsTyped
<1>3. Clean(s)'
  <2>1. CASE "spoiled" \in v.faults
    BY <1>1, <2>1, CleanSpoiled
  <2>2. CASE "spoiled" \notin v.faults
    <3>1. ~Spoiled(s)
      BY <2>2 DEF Spoiled
    <3>2. \A q \in Procs \ {p} : ~Works(q, s)'
      BY <3>1 DEF Clean, Works
    <3>3. /\ Works(p, s)' => FitsAt(v, req'[p])
          /\ ~Works(p, s)' => Fits(v)
      BY <2>2, <3>1 DEF Works
    <3> QED
      BY <1>1, <3>2, <3>3, CleanAlone
  <2> QED
    BY <2>1, <2>2
<1>4. ASSUME NEW t \in Sessions, t # s PROVE Clean(t)'
  <2>1. req[p].at \in Working => req[p].s = s
    BY DEF Works
  <2> QED
    BY <1>1, <1>4, <2>1, OthersClean
<1> QED
  BY <1>2, <1>3, <1>4

\* A step that only moves a request which does not work on a session, before or after.
LEMMA VisitStep ==
  ASSUME Typed, \A t \in Sessions : Clean(t), NEW p \in Procs,
         \A q \in Procs \ {p} : req'[q] = req[q],
         req[p].at \notin Working, req'[p].at \notin Working, UNCHANGED upload
  PROVE  UploadsTyped' /\ \A t \in Sessions : Clean(t)'
<1>1. UploadsTyped'
  BY DEF Typed, UploadsTyped
<1>2. ASSUME NEW t \in Sessions PROVE Clean(t)'
  <2>1. \A q \in Procs : /\ Works(q, t)' <=> Works(q, t)
                         /\ Works(q, t) => req'[q] = req[q]
    BY DEF Works
  <2> QED
    BY <2>1, CleanStays
<1> QED
  BY <1>1, <1>2

\* A request joins a session: it is alone, or the session is spoiled.
LEMMA JoinStep ==
  ASSUME Typed, \A t \in Sessions : Clean(t), NEW p \in Procs, NEW s \in Sessions,
         req[p].at \notin Working, req[p].s = s, \A q \in Procs \ {p} : req'[q] = req[q],
         req'[p].at \in {"write", "sum"}, req'[p].s = s, MarkShared(p, s)
  PROVE  UploadsTyped' /\ \A t \in Sessions : Clean(t)'
<1>1. CASE Others(p, s) = {}
  <2>1. upload' = upload
    BY <1>1 DEF MarkShared
  <2>2. \A q \in Procs : ~Works(q, s)
    BY <1>1 DEF Others, Users, Works, Working, Owning
  <2>3. \A q \in Procs \ {p} : ~Works(q, s)'
    BY <2>2 DEF Works
  <2>4. Clean(s)'
    <3>1. CASE Spoiled(s)
      BY <2>1, <3>1, CleanSpoiled DEF Spoiled
    <3>2. CASE ~Spoiled(s)
      <4>1. Fits(upload[s])
        BY <2>2, <3>2 DEF Clean
      <4>2. FitsAt(upload'[s], req'[p])
        BY <2>1, <4>1 DEF FitsAt, Fits
      <4> QED
        BY <2>3, <4>2, CleanAlone DEF Works, Working, Appending
    <3> QED
      BY <3>1, <3>2
  <2>5. \A t \in Sessions : t # s => Clean(t)'
    BY <2>1, OthersClean
  <2> QED
    BY <2>1, <2>4, <2>5 DEF Typed, UploadsTyped
<1>2. CASE Others(p, s) # {}
  <2>1. PICK f : f = upload[s].faults \cup {"spoiled"}
    OBVIOUS
  <2>2. PICK v : v = [upload[s] EXCEPT !.faults = f]
    OBVIOUS
  <2>3. upload' = [upload EXCEPT ![s] = v]
    BY <1>2, <2>1, <2>2 DEF MarkShared, Typed, UploadsTyped
  <2>4. IsUpload(v) /\ v.faults = f
    <3>1. PICK u : u = upload[s] /\ IsUpload(u)
      BY DEF Typed, UploadsTyped
    <3> QED
      BY <2>2, <3>1 DEF IsUpload, UploadFields
  <2>5. upload'[s] = v /\ \A t \in Sessions \ {s} : upload'[t] = upload[t]
    BY <2>3 DEF Typed, UploadsTyped
  <2>6. Clean(s)'
    BY <2>1, <2>4, <2>5, CleanSpoiled
  <2>7. \A t \in Sessions : t # s => Clean(t)'
    BY <2>5, OthersClean
  <2> QED
    BY <2>3, <2>4, <2>5, <2>6, <2>7 DEF Typed, UploadsTyped
<1> QED
  BY <1>1, <1>2

\* What the requests' locals are after a step of p.
LEMMA GotoReq ==
  ASSUME ReqShape, NEW p \in Procs, NEW l, Goto(p, l)
  PROVE  /\ req'[p].at = l /\ req'[p].s = req[p].s /\ req'[p].body = req[p].body
         /\ req'[p].want = req[p].want /\ req'[p].buf = req[p].buf /\ req'[p].n = req[p].n
         /\ \A q \in Procs \ {p} : req'[q] = req[q]
  BY DEF ReqShape, Goto, Fields

\* An answered request is idle.
LEMMA RespondReq ==
  ASSUME ReqShape, NEW p \in Procs, Respond(p)
  PROVE  /\ req'[p].at = "idle" /\ ReqTyped(req'[p]) /\ req'[p].at \notin Working
         /\ \A q \in Procs \ {p} : req'[q] = req[q]
  BY DEF ReqShape, Respond, Idle, ReqTyped, Labels, Working, Appending

\* The inductive invariant about sessions in progress.
Sound == Typed /\ \A s \in Sessions : Clean(s)

\* Requests that arrive.
LEMMA ArriveSound ==
  ASSUME ReqShape, Sound, NEW p \in Procs, Arrive(p)
  PROVE  Sound'
<1>1. UNCHANGED upload /\ req[p].at = "idle" /\ ReqTyped(req[p])
  BY Zenon DEF Arrive, Post, Patch, Put, Cancel, tracker, Sound, Typed, UploadsTyped
<1>2. /\ ReqTyped(req'[p]) /\ req'[p].at \in {"idle", "lookup", "take", "discard"}
      /\ \A q \in Procs \ {p} : req'[q] = req[q]
  <2>1. ASSUME NEW s \in Sessions, NEW b \in Chunks \cup {NoChunk}, NEW d, NEW l \in {"lookup", "take"},
               req' = [req EXCEPT ![p] = [Idle EXCEPT !.at = l, !.s = s, !.body = b, !.want = d]]
        PROVE  /\ ReqTyped(req'[p]) /\ req'[p].at = l
               /\ \A q \in Procs \ {p} : req'[q] = req[q]
    <3>1. req'[p] = [Idle EXCEPT !.at = l, !.s = s, !.body = b, !.want = d]
          /\ \A q \in Procs \ {p} : req'[q] = req[q]
      BY <2>1 DEF ReqShape
    <3>2. req'[p].at = l /\ req'[p].s = s /\ req'[p].body = b /\ req'[p].buf = <<>>
      BY <3>1 DEF Idle
    <3> QED
      BY <3>1, <3>2 DEF ReqTyped, Labels
  <2>2. ASSUME NEW s \in Sessions, NEW b \in Chunks \cup {NoChunk}, NEW l \in {"lookup", "take"},
               req' = [req EXCEPT ![p] = [Idle EXCEPT !.at = l, !.s = s, !.body = b]]
        PROVE  /\ ReqTyped(req'[p]) /\ req'[p].at = l
               /\ \A q \in Procs \ {p} : req'[q] = req[q]
    <3>1. req'[p] = [Idle EXCEPT !.at = l, !.s = s, !.body = b]
          /\ \A q \in Procs \ {p} : req'[q] = req[q]
      BY <2>2 DEF ReqShape
    <3>2. req'[p].at = l /\ req'[p].s = s /\ req'[p].body = b /\ req'[p].buf = <<>>
      BY <3>1 DEF Idle
    <3> QED
      BY <3>1, <3>2 DEF ReqTyped, Labels
  <2>3. ASSUME NEW s \in Sessions, NEW b \in Chunks \cup {NoChunk}, NEW d, Post(p, s, b, d)
        PROVE  /\ ReqTyped(req'[p]) /\ req'[p].at \in {"idle", "lookup"}
               /\ \A q \in Procs \ {p} : req'[q] = req[q]
    <3>1. CASE d = NoDigest
      BY <1>1, <2>3, <3>1 DEF Post
    <3>2. CASE d # NoDigest
      BY <2>1, <2>3, <3>2, Zenon DEF Post
    <3> QED
      BY <3>1, <3>2
  <2>4. ASSUME NEW s \in Sessions, NEW b \in Chunks \cup {NoChunk}, Patch(p, s, b)
        PROVE  /\ ReqTyped(req'[p]) /\ req'[p].at = "lookup"
               /\ \A q \in Procs \ {p} : req'[q] = req[q]
    BY <2>2, <2>4, Zenon DEF Patch
  <2>5. ASSUME NEW s \in Sessions, NEW b \in Chunks \cup {NoChunk}, NEW d, Put(p, s, b, d)
        PROVE  /\ ReqTyped(req'[p]) /\ req'[p].at \in {"lookup", "take"}
               /\ \A q \in Procs \ {p} : req'[q] = req[q]
    <3>1. PICK l \in {"lookup", "take"} : l = IF b = NoChunk THEN "take" ELSE "lookup"
      OBVIOUS
    <3> QED
      BY <2>1, <2>5, <3>1, Zenon DEF Put
  <2>6. ASSUME NEW s \in Sessions, Cancel(p, s)
        PROVE  /\ ReqTyped(req'[p]) /\ req'[p].at = "discard"
               /\ \A q \in Procs \ {p} : req'[q] = req[q]
    BY <1>1, <2>6, Zenon DEF Cancel, ReqShape, Fields, ReqTyped, Labels, Owning
  <2> QED
    BY <2>3, <2>4, <2>5, <2>6 DEF Arrive
<1>3. req[p].at \notin Working /\ req'[p].at \notin Working
  BY <1>1, <1>2 DEF Working, Appending
<1>4. UploadsTyped' /\ \A t \in Sessions : Clean(t)'
  BY <1>1, <1>2, <1>3, VisitStep DEF Sound, Typed, UploadsTyped
<1> QED
  BY <1>2, <1>4 DEF Sound, Typed, UploadsTyped

\* Append and Finalize look the session up.
LEMMA LookupSound ==
  ASSUME ReqShape, Sound, NEW p \in Procs, AppendLookup(p) \/ Take(p)
  PROVE  Sound'
<1>1. /\ req[p].at \in {"lookup", "take"} /\ req[p].at \notin Working /\ req[p].s \in Sessions
      /\ ReqTyped(req[p])
  BY DEF AppendLookup, Take, Sound, Typed, UploadsTyped, ReqTyped, Working, Appending
<1>2. CASE Respond(p) /\ UNCHANGED upload
  BY <1>1, <1>2, RespondReq, VisitStep DEF Sound, Typed, UploadsTyped
<1>3. ASSUME NEW l \in {"write", "sum"}, Goto(p, l), MarkShared(p, req[p].s)
      PROVE  Sound'
  <2>1. /\ req'[p].at = l /\ req'[p].s = req[p].s /\ req'[p].body = req[p].body
        /\ req'[p].buf = req[p].buf /\ \A q \in Procs \ {p} : req'[q] = req[q]
    BY <1>3, GotoReq
  <2>2. ReqTyped(req'[p])
    BY <1>1, <2>1 DEF ReqTyped, Labels, Appending, Owning
  <2>3. PICK s \in Sessions : s = req[p].s
    BY <1>1
  <2>4. UploadsTyped' /\ \A t \in Sessions : Clean(t)'
    BY <1>1, <1>3, <2>1, <2>3, JoinStep DEF Sound, Typed, UploadsTyped
  <2> QED
    BY <2>1, <2>2, <2>4 DEF Sound, Typed, UploadsTyped
<1> QED
  BY <1>2, <1>3 DEF AppendLookup, Take

\* A request that works on a session, and what it may do to it: one field more or less
\* of upload[s], as long as the result fits the position it reaches.
LEMMA WorkSound ==
  ASSUME Sound, NEW p \in Procs, NEW s, s = req[p].s, NEW u, u = upload[s],
         req[p].at \in Working,
         \A q \in Procs \ {p} : req'[q] = req[q], ReqTyped(req'[p]),
         req'[p].at \in Working => req'[p].s = s,
         NEW v, upload' = [upload EXCEPT ![s] = v],
         IsUpload(v), u.faults \subseteq v.faults,
         \/ "spoiled" \in v.faults
         \/ FitsAt(u, req[p]) => IF req'[p].at \in Working THEN FitsAt(v, req'[p]) ELSE Fits(v)
  PROVE  Sound'
<1>1. s \in Sessions /\ Works(p, s) /\ IsUpload(u)
  BY DEF Sound, Typed, ReqTyped, Works, UploadsTyped, Working, Appending
<1>2. ~Spoiled(s) => FitsAt(u, req[p])
  BY <1>1 DEF Sound, Typed, UploadsTyped, Clean
<1>3. UploadsTyped' /\ \A t \in Sessions : Clean(t)'
  BY <1>1, <1>2, WorkStep DEF Sound, Typed, UploadsTyped
<1> QED
  BY <1>3 DEF Sound, Typed, UploadsTyped

\* The same when the request is answered and leaves the session to the next.
LEMMA LeaveSound ==
  ASSUME ReqShape, Sound, NEW p \in Procs, NEW s, s = req[p].s, NEW u, u = upload[s],
         req[p].at \in Working, Respond(p),
         NEW v, upload' = [upload EXCEPT ![s] = v],
         IsUpload(v), u.faults \subseteq v.faults,
         "spoiled" \in v.faults \/ (FitsAt(u, req[p]) => Fits(v))
  PROVE  Sound'
<1>1. ReqTyped(req'[p]) /\ req'[p].at \notin Working /\ \A q \in Procs \ {p} : req'[q] = req[q]
  BY RespondReq
<1>2. \/ "spoiled" \in v.faults
      \/ FitsAt(u, req[p]) => IF req'[p].at \in Working THEN FitsAt(v, req'[p]) ELSE Fits(v)
  BY <1>1
<1> QED
  BY <1>1, <1>2, WorkSound

\* The file as io.Copy writes it.
LEMMA WriteSound ==
  ASSUME ReqShape, Sound, NEW p \in Procs, WriteFile(p) \/ WriteFails(p)
  PROVE  Sound'
<1>1. PICK s : s = req[p].s
  OBVIOUS
<1>2. PICK u : u = upload[s]
  OBVIOUS
<1>3. req[p].at = "write" /\ req[p].at \in Working /\ ReqTyped(req[p])
  BY DEF WriteFile, WriteFails, Working, Appending, Sound, Typed, UploadsTyped
<1>4. s \in Sessions /\ upload = [t \in Sessions |-> upload[t]] /\ IsUpload(u)
  BY <1>1, <1>2, <1>3 DEF Sound, Typed, ReqTyped, UploadsTyped
<1>5. CASE Goto(p, "count") /\ UNCHANGED upload /\ req[p].body = NoChunk
  <2>1. /\ req'[p].at = "count" /\ req'[p].s = s /\ req'[p].body = NoChunk
        /\ req'[p].buf = req[p].buf /\ \A q \in Procs \ {p} : req'[q] = req[q]
    BY <1>1, <1>5, GotoReq
  <2>2. ReqTyped(req'[p]) /\ req'[p].at \in Working
    BY <1>3, <2>1, <1>1 DEF ReqTyped, Labels, Appending, Working
  <2>3. upload' = [upload EXCEPT ![s] = u]
    BY <1>2, <1>4, <1>5
  <2>4. FitsAt(u, req[p]) => FitsAt(u, req'[p])
    BY <1>3, <2>1 DEF FitsAt, Fits
  <2> QED
    BY <1>1, <1>2, <1>3, <1>4, <2>1, <2>2, <2>3, <2>4, WorkSound
<1>6. CASE Respond(p) /\ UNCHANGED upload
  <2>1. upload' = [upload EXCEPT ![s] = u]
    BY <1>2, <1>4, <1>6
  <2>2. FitsAt(u, req[p]) => Fits(u)
    BY <1>3 DEF FitsAt
  <2> QED
    BY <1>1, <1>2, <1>3, <1>4, <1>6, <2>1, <2>2, LeaveSound
<1>7. ASSUME req[p].body # NoChunk, upload[s].off < MaxLen
      PROVE  /\ IsUpload(WrittenAt(u, req[p].body)) /\ WrittenAt(u, req[p].body).faults = u.faults
             /\ Fits(u) => /\ WrittenAt(u, req[p].body).hash = u.file
                           /\ WrittenAt(u, req[p].body).size = u.size
                           /\ WrittenAt(u, req[p].body).off = Len(u.file) + 1
                           /\ WrittenAt(u, req[p].body).file = Append(u.file, req[p].body)
  <2>1. PICK f : f = IF u.off < Len(u.file) THEN [u.file EXCEPT ![u.off + 1] = req[p].body]
                                              ELSE Append(u.file, req[p].body)
    OBVIOUS
  <2>2. PICK o : o = u.off + 1
    OBVIOUS
  <2>3. WrittenAt(u, req[p].body) = [u EXCEPT !.file = f, !.off = o]
    BY <2>1, <2>2 DEF WrittenAt
  <2>4. PICK v : v = WrittenAt(u, req[p].body)
    OBVIOUS
  <2>5. IsUpload(v) /\ v.faults = u.faults /\ v.hash = u.hash /\ v.size = u.size
        /\ v.off = o /\ v.file = f
    BY <1>4, <2>3, <2>4 DEF IsUpload, UploadFields
  <2>6. Fits(u) => f = Append(u.file, req[p].body) /\ o = Len(u.file) + 1
    BY <2>1, <2>2 DEF Fits
  <2>7. Fits(u) => u.hash = u.file
    BY DEF Fits
  <2> QED
    BY <2>4, <2>5, <2>6, <2>7
<1>8. CASE /\ req[p].body # NoChunk /\ upload[s].off < MaxLen /\ Goto(p, "hash")
           /\ upload' = [upload EXCEPT ![s] = WrittenAt(@, req[p].body)]
  <2>1. PICK b : b = req[p].body
    OBVIOUS
  <2>2. PICK v : v = WrittenAt(u, b)
    OBVIOUS
  <2>3. /\ req'[p].at = "hash" /\ req'[p].s = s /\ req'[p].body = b
        /\ req'[p].buf = req[p].buf /\ \A q \in Procs \ {p} : req'[q] = req[q]
    BY <1>1, <1>8, <2>1, GotoReq
  <2>4. ReqTyped(req'[p]) /\ req'[p].at \in Working
    BY <1>3, <2>1, <2>3, <1>1 DEF ReqTyped, Labels, Appending, Working
  <2>5. upload' = [upload EXCEPT ![s] = v]
    BY <1>2, <1>4, <1>8, <2>1, <2>2
  <2>6. IsUpload(v) /\ v.faults = u.faults
    BY <1>7, <1>8, <2>1, <2>2
  <2>7. ASSUME FitsAt(u, req[p]) PROVE FitsAt(v, req'[p])
    <3>1. Fits(u) /\ u.file \in Seq(Chunks) /\ b \in Chunks /\ u.off < MaxLen
      BY <1>2, <1>3, <1>8, <2>1, <2>7 DEF FitsAt, ReqTyped
    <3>2. v.hash = u.file /\ v.size = u.size /\ v.off = Len(u.file) + 1
          /\ v.file = Append(u.file, b)
      BY <1>7, <1>8, <2>1, <2>2, <3>1
    <3>3. Len(v.file) = Len(u.file) + 1 /\ v.file \in Seq(Chunks) /\ Len(u.file) \in Nat
      BY <3>1, <3>2
    <3>4. v.off <= MaxLen
      BY <3>1, <3>2, <3>3, MaxLenAssumption DEF Fits
    <3>5. v.faults = {} => v.size + 1 = Len(v.file)
      BY <2>6, <3>1, <3>2, <3>3 DEF Fits
    <3> QED
      BY <1>8, <2>1, <2>3, <3>1, <3>2, <3>3, <3>4, <3>5 DEF FitsAt
  <2> QED
    BY <1>1, <1>2, <1>3, <2>3, <2>4, <2>5, <2>6, <2>7, WorkSound
<1>9. CASE /\ req[p].body # NoChunk /\ upload[s].off < MaxLen /\ Respond(p)
           /\ upload' = [upload EXCEPT ![s] = [WrittenAt(upload[s], req[p].body) EXCEPT
                                                 !.faults = @ \cup {"spoiled"}]]
  <2>1. PICK w : w = WrittenAt(u, req[p].body) /\ IsUpload(w) /\ w.faults = u.faults
    BY <1>7, <1>9
  <2>2. PICK f : f = w.faults \cup {"spoiled"}
    OBVIOUS
  <2>3. PICK v : v = [w EXCEPT !.faults = f]
    OBVIOUS
  <2>4. upload' = [upload EXCEPT ![s] = v]
    BY <1>2, <1>4, <1>9, <2>1, <2>2, <2>3
  <2>5. IsUpload(v) /\ v.faults = f
    BY <2>1, <2>3 DEF IsUpload, UploadFields
  <2>6. u.faults \subseteq v.faults /\ "spoiled" \in v.faults
    BY <2>1, <2>2, <2>5
  <2> QED
    BY <1>1, <1>2, <1>3, <1>9, <2>4, <2>5, <2>6, LeaveSound
<1> QED
  BY <1>1, <1>5, <1>6, <1>8, <1>9 DEF WriteFile, WriteFails

\* Nobody else is at work on a session that is not spoiled.
LEMMA NobodyElse ==
  ASSUME Sound, NEW p \in Procs, req[p].at \in Working, ~Spoiled(req[p].s),
         NEW q \in Others(p, req[p].s)
  PROVE  req[q].at = "discard"
<1>1. PICK s : s = req[p].s
  OBVIOUS
<1>2. s \in Sessions /\ Works(p, s)
  BY <1>1 DEF Sound, Typed, UploadsTyped, ReqTyped, Works, Working, Appending
<1>3. q \in Procs /\ q # p /\ req[q].s = s /\ req[q].at \in Appending \cup Owning
  BY <1>1 DEF Others, Users
<1>4. ~Works(q, s)
  BY <1>1, <1>2, <1>3 DEF Sound, Typed, UploadsTyped, Clean
<1> QED
  BY <1>3, <1>4 DEF Works, Working, Owning

\* The hash catches up with the file; only then is the chunk counted.
LEMMA HashSound ==
  ASSUME ReqShape, Sound, NEW p \in Procs, HashWrite(p)
  PROVE  Sound'
<1>1. PICK s : s = req[p].s
  OBVIOUS
<1>2. PICK u : u = upload[s]
  OBVIOUS
<1>3. req[p].at = "hash" /\ req[p].at \in Working /\ ReqTyped(req[p]) /\ Goto(p, "count")
  BY DEF HashWrite, Working, Appending, Sound, Typed, UploadsTyped
<1>4. s \in Sessions /\ upload = [t \in Sessions |-> upload[t]] /\ IsUpload(u)
  BY <1>1, <1>2, <1>3 DEF Sound, Typed, ReqTyped, UploadsTyped
<1>5. PICK b : b = req[p].body
  OBVIOUS
<1>6. PICK g : g = IF u.hash = Garbled \/ Len(u.hash) = MaxLen THEN Garbled ELSE Append(u.hash, b)
  OBVIOUS
<1>7. PICK h2 : /\ upload' = [upload EXCEPT ![s].hash = h2]
                /\ h2 = g \/ \E q \in Others(p, req[p].s) : req[q].at \in {"hash", "sum"}
  BY <1>1, <1>2, <1>5, <1>6 DEF HashWrite
<1>8. PICK v : v = [u EXCEPT !.hash = h2]
  OBVIOUS
<1>9. upload' = [upload EXCEPT ![s] = v]
  BY <1>2, <1>4, <1>7, <1>8
<1>10. /\ IsUpload(v) /\ v.faults = u.faults /\ v.hash = h2 /\ v.file = u.file
       /\ v.off = u.off /\ v.size = u.size
  BY <1>4, <1>8 DEF IsUpload, UploadFields
<1>11. /\ req'[p].at = "count" /\ req'[p].s = s /\ req'[p].body = b
       /\ req'[p].buf = req[p].buf /\ \A q \in Procs \ {p} : req'[q] = req[q]
  BY <1>1, <1>3, <1>5, GotoReq
<1>12. ReqTyped(req'[p]) /\ req'[p].at \in Working
  BY <1>1, <1>3, <1>5, <1>11 DEF ReqTyped, Labels, Appending, Working
<1>13. ASSUME ~Spoiled(s), FitsAt(u, req[p]) PROVE FitsAt(v, req'[p])
  <2>1. h2 = g
    BY <1>1, <1>3, <1>7, <1>13, NobodyElse
  <2>2. /\ u.hash \in Seq(Chunks) /\ b \in Chunks /\ b # NoChunk
        /\ u.file = Append(u.hash, b) /\ u.off = Len(u.file) /\ u.off <= MaxLen
        /\ u.faults = {} => u.size + 1 = Len(u.file)
    BY <1>3, <1>5, <1>13 DEF FitsAt
  <2>3. Len(u.hash) \in Nat /\ Len(u.hash) + 1 = Len(u.file) /\ u.file \in Seq(Chunks)
    BY <2>2
  <2>4. Len(u.hash) < MaxLen
    BY <2>2, <2>3, MaxLenAssumption
  <2>5. u.hash # Garbled
    <3>1. u.hash \in [1 .. Len(u.hash) -> Chunks] /\ Len(u.hash) \in 0 .. MaxLen
      BY <2>2, <2>3, <2>4, MaxLenAssumption
    <3>2. u.hash \in SeqOf(Chunks, MaxLen)
      BY <3>1 DEF SeqOf
    <3> QED
      BY <3>2, GarbledAssumption
  <2>6. v.hash = v.file
    BY <1>6, <1>10, <2>1, <2>2, <2>4, <2>5, <2>3, MaxLenAssumption
  <2> QED
    BY <1>10, <1>11, <2>2, <2>3, <2>6 DEF FitsAt
<1>14. \/ "spoiled" \in v.faults
       \/ FitsAt(u, req[p]) => IF req'[p].at \in Working THEN FitsAt(v, req'[p]) ELSE Fits(v)
  BY <1>2, <1>10, <1>12, <1>13 DEF Spoiled
<1> QED
  BY <1>1, <1>2, <1>3, <1>9, <1>10, <1>11, <1>12, <1>14, WorkSound

\* The chunk is counted, and the request answers or goes on to Finalize.
LEMMA CountSound ==
  ASSUME ReqShape, Sound, NEW p \in Procs, Count(p)
  PROVE  Sound'
<1>1. PICK s : s = req[p].s
  OBVIOUS
<1>2. PICK u : u = upload[s]
  OBVIOUS
<1>3. /\ req[p].at = "count" /\ req[p].at \in Working /\ ReqTyped(req[p])
      /\ Respond(p) \/ Goto(p, "take")
  BY DEF Count, Working, Appending, Sound, Typed, UploadsTyped
<1>4. s \in Sessions /\ upload = [t \in Sessions |-> upload[t]] /\ IsUpload(u)
  BY <1>1, <1>2, <1>3 DEF Sound, Typed, ReqTyped, UploadsTyped
<1>5. PICK n : n = IF req[p].body = NoChunk THEN 0 ELSE 1
  OBVIOUS
<1>6. PICK v : /\ upload' = [upload EXCEPT ![s] = v]
               /\ \/ v = Grown(u, req[p].body)
                  \/ /\ v = [u EXCEPT !.idle = FALSE]
                     /\ \E q \in Others(p, req[p].s) : req[q].at = "count"
  BY <1>1, <1>2, <1>4 DEF Count
<1>7. PICK z : z = u.size + n
  OBVIOUS
<1>8. /\ IsUpload(v) /\ v.faults = u.faults /\ v.hash = u.hash /\ v.file = u.file /\ v.off = u.off
      /\ \/ v.size = z
         \/ \E q \in Others(p, req[p].s) : req[q].at = "count"
  <2>1. CASE v = Grown(u, req[p].body)
    <3>1. v = [[u EXCEPT !.size = z] EXCEPT !.idle = FALSE]
      BY <1>4, <1>5, <1>7, <2>1 DEF Grown, IsUpload, UploadFields
    <3> QED
      BY <1>4, <3>1 DEF IsUpload, UploadFields
  <2>2. CASE /\ v = [u EXCEPT !.idle = FALSE]
             /\ \E q \in Others(p, req[p].s) : req[q].at = "count"
    BY <1>4, <2>2 DEF IsUpload, UploadFields
  <2> QED
    BY <1>6, <2>1, <2>2
<1>9. ASSUME ~Spoiled(s), FitsAt(u, req[p]) PROVE Fits(v)
  <2>1. v.size = z
    BY <1>1, <1>3, <1>8, <1>9, NobodyElse
  <2>2. /\ u.file \in Seq(Chunks) /\ u.hash = u.file /\ u.off = Len(u.file)
        /\ u.faults = {} => z = Len(u.file)
    BY <1>3, <1>5, <1>7, <1>9 DEF FitsAt
  <2> QED
    BY <1>8, <2>1, <2>2 DEF Fits
<1>10. "spoiled" \in v.faults \/ (FitsAt(u, req[p]) => Fits(v))
  BY <1>2, <1>8, <1>9 DEF Spoiled
<1>11. upload' = [upload EXCEPT ![s] = v] /\ IsUpload(v) /\ u.faults \subseteq v.faults
  BY <1>6, <1>8
<1>12. req[p].at \in Working
  BY <1>3
<1>13. CASE Respond(p)
  BY <1>1, <1>2, <1>10, <1>13, <1>11, <1>12, LeaveSound
<1>14. CASE Goto(p, "take")
  <2>1. /\ req'[p].at = "take" /\ req'[p].s = s /\ req'[p].body = req[p].body
        /\ req'[p].buf = req[p].buf /\ \A q \in Procs \ {p} : req'[q] = req[q]
    BY <1>1, <1>14, GotoReq
  <2>2. ReqTyped(req'[p]) /\ req'[p].at \notin Working
    BY <1>1, <1>3, <2>1 DEF ReqTyped, Labels, Appending, Working
  <2>3. \/ "spoiled" \in v.faults
        \/ FitsAt(u, req[p]) => IF req'[p].at \in Working THEN FitsAt(v, req'[p]) ELSE Fits(v)
    BY <1>10, <2>2
  <2> QED
    BY <1>1, <1>2, <1>10, <1>11, <1>12, <2>1, <2>2, <2>3, WorkSound
<1> QED
  BY <1>3, <1>13, <1>14

\* A body that ends in an error: what was hashed but not counted is remembered as cut.
LEMMA BodySound ==
  ASSUME ReqShape, Sound, NEW p \in Procs, BodyFails(p)
  PROVE  Sound'
<1>1. PICK s : s = req[p].s
  OBVIOUS
<1>2. PICK u : u = upload[s]
  OBVIOUS
<1>3. /\ req[p].at \in {"write", "count"} /\ req[p].at \in Working /\ ReqTyped(req[p]) /\ Respond(p)
  BY DEF BodyFails, Working, Appending, Sound, Typed, UploadsTyped
<1>4. s \in Sessions /\ upload = [t \in Sessions |-> upload[t]] /\ IsUpload(u)
  BY <1>1, <1>2, <1>3 DEF Sound, Typed, ReqTyped, UploadsTyped
<1>5. CASE req[p].at = "write"
  <2>1. upload' = [upload EXCEPT ![s] = u]
    BY <1>2, <1>4, <1>5 DEF BodyFails
  <2>2. FitsAt(u, req[p]) => Fits(u)
    BY <1>5 DEF FitsAt
  <2> QED
    BY <1>1, <1>2, <1>3, <1>4, <2>1, <2>2, LeaveSound
<1>6. CASE req[p].at = "count"
  <2>1. PICK f : f = u.faults \cup {"cut"}
    OBVIOUS
  <2>2. PICK v : v = [u EXCEPT !.faults = f]
    OBVIOUS
  <2>3. upload' = [upload EXCEPT ![s] = v]
    BY <1>1, <1>2, <1>4, <1>6, <2>1, <2>2 DEF BodyFails
  <2>4. IsUpload(v) /\ v.faults = f /\ v.hash = u.hash /\ v.file = u.file /\ v.off = u.off
    BY <1>4, <2>2 DEF IsUpload, UploadFields
  <2>5. u.faults \subseteq v.faults /\ v.faults # {}
    BY <2>1, <2>4
  <2>6. FitsAt(u, req[p]) => Fits(v)
    BY <1>6, <2>4, <2>5 DEF FitsAt, Fits
  <2> QED
    BY <1>1, <1>2, <1>3, <2>3, <2>4, <2>5, <2>6, LeaveSound
<1> QED
  BY <1>3, <1>5, <1>6

\* An empty session fits.
LEMMA NewFits == IsUpload(NewUpload) /\ Fits(NewUpload)
<1>1. IsUpload(NewUpload)
  BY DEF IsUpload, UploadFields, NewUpload
<1>2. NewUpload.file = <<>> /\ NewUpload.hash = <<>> /\ NewUpload.off = 0 /\ NewUpload.size = 0
  BY DEF NewUpload
<1> QED
  BY <1>1, <1>2 DEF Fits

\* The owner drops the file and leaves.
LEMMA DropSound ==
  ASSUME OwnershipInv, Sound, NEW p \in Procs, req[p].at \in Owning, Respond(p),
         NEW s, s = req[p].s, Discarded(s, Others(p, s))
  PROVE  Sound'
<1>1. s \in Sessions /\ upload = [t \in Sessions |-> upload[t]] /\ IsUpload(upload[s])
  BY DEF Sound, Typed, ReqTyped, UploadsTyped, Owning
<1>2. ReqTyped(req'[p]) /\ req'[p].at \notin Working /\ \A q \in Procs \ {p} : req'[q] = req[q]
  BY RespondReq DEF OwnershipInv
<1>3. PICK v : v = (IF Others(p, s) = {} THEN NewUpload ELSE upload[s]) /\ upload' = [upload EXCEPT ![s] = v]
  BY <1>1 DEF Discarded
<1>4. upload'[s] = v /\ \A t \in Sessions \ {s} : upload'[t] = upload[t]
  BY <1>1, <1>3
<1>5. IsUpload(NewUpload) /\ Fits(NewUpload)
  BY NewFits
<1>6. UploadsTyped'
  BY <1>1, <1>3, <1>4, <1>5 DEF Sound, Typed, UploadsTyped
<1>7. Clean(s)'
  <2>1. CASE Others(p, s) = {}
    <3>1. \A q \in Procs \ {p} : ~Works(q, s)'
      BY <1>2, <2>1 DEF Others, Users, Works, Working, Owning
    <3>2. ~Works(p, s)' /\ Fits(upload'[s])
      BY <1>2, <1>3, <1>4, <1>5, <2>1 DEF Works
    <3> QED
      BY <1>1, <3>1, <3>2, CleanAlone
  <2>2. CASE Others(p, s) # {} /\ Spoiled(s)
    BY <1>1, <1>3, <1>4, <2>2, CleanSpoiled DEF Spoiled
  <2>3. CASE Others(p, s) # {} /\ ~Spoiled(s)
    <3>1. req[p].at = "discard"
      <4> SUFFICES ASSUME req[p].at # "discard" PROVE FALSE
        OBVIOUS
      <4>1. req[p].at \in Working
        BY DEF Working, Owning
      <4>2. PICK q \in Others(p, s) : req[q].at = "discard"
        BY <2>3, <4>1, NobodyElse
      <4> QED
        BY <4>2 DEF OwnershipInv, SingleOwner, Others, Users, Owning
    <3>2. \A q \in Procs : /\ Works(q, s)' <=> Works(q, s)
                           /\ Works(q, s) => req'[q] = req[q]
      BY <1>2, <3>1 DEF Works, Working, Appending
    <3>3. upload'[s] = upload[s]
      BY <1>3, <1>4, <2>3
    <3> QED
      BY <1>1, <3>2, <3>3, CleanStays DEF Sound, Typed, UploadsTyped
  <2> QED
    BY <2>1, <2>2, <2>3
<1>8. \A t \in Sessions : t # s => Clean(t)'
  BY <1>2, <1>4, OthersClean DEF Sound, Typed, UploadsTyped
<1> QED
  BY <1>2, <1>6, <1>7, <1>8 DEF Sound, Typed, UploadsTyped

\* Finalize compares the digest and rewinds, or drops the file.
LEMMA SumSound ==
  ASSUME OwnershipInv, Sound, NEW p \in Procs, Sum(p)
  PROVE  Sound'
<1>1. PICK s : s = req[p].s
  OBVIOUS
<1>2. PICK u : u = upload[s]
  OBVIOUS
<1>3. /\ req[p].at = "sum" /\ req[p].at \in Working /\ ReqTyped(req[p]) /\ req[p].at \in Owning
  BY DEF Sum, Working, Sound, Typed, UploadsTyped, Owning
<1>4. s \in Sessions /\ upload = [t \in Sessions |-> upload[t]] /\ IsUpload(u)
  BY <1>1, <1>2, <1>3 DEF Sound, Typed, ReqTyped, UploadsTyped
<1>5. CASE /\ u.hash = req[p].want /\ upload' = [upload EXCEPT ![s].off = 0]
           /\ req' = [req EXCEPT ![p].at = "rewind", ![p].n = u.size]
  <2>1. PICK v : v = [u EXCEPT !.off = 0]
    OBVIOUS
  <2>2. upload' = [upload EXCEPT ![s] = v]
    BY <1>2, <1>4, <1>5, <2>1
  <2>3. /\ IsUpload(v) /\ v.faults = u.faults /\ v.hash = u.hash /\ v.file = u.file /\ v.size = u.size
    BY <1>4, <2>1 DEF IsUpload, UploadFields
  <2>4. /\ req'[p].at = "rewind" /\ req'[p].s = s /\ req'[p].body = req[p].body
        /\ req'[p].want = req[p].want /\ req'[p].buf = req[p].buf /\ req'[p].n = u.size
        /\ \A q \in Procs \ {p} : req'[q] = req[q]
    BY <1>1, <1>5 DEF OwnershipInv, ReqShape, Fields
  <2>5. ReqTyped(req'[p]) /\ req'[p].at \in Working
    BY <1>1, <1>3, <2>4 DEF ReqTyped, Labels, Owning, Working
  <2>6. FitsAt(u, req[p]) => FitsAt(v, req'[p])
    BY <1>3, <1>5, <2>3, <2>4 DEF FitsAt, Fits, Sized
  <2> QED
    BY <1>1, <1>2, <1>3, <2>2, <2>3, <2>4, <2>5, <2>6, WorkSound
<1>6. CASE Respond(p) /\ Discarded(s, Others(p, s))
  BY <1>1, <1>3, <1>6, DropSound
<1> QED
  BY <1>1, <1>2, <1>5, <1>6 DEF Sum, DigestMatches, DropMismatched

\* storeStagedFile seeks, reads chunk by chunk and names what it read.
LEMMA StoreSound ==
  ASSUME OwnershipInv, Sound, NEW p \in Procs, Rewind(p) \/ ReadChunk(p) \/ Save(p)
  PROVE  Sound'
<1>1. PICK s : s = req[p].s
  OBVIOUS
<1>2. PICK u : u = upload[s]
  OBVIOUS
<1>3. /\ req[p].at \in {"rewind", "save"} /\ req[p].at \in Working /\ ReqTyped(req[p])
  BY DEF Rewind, ReadChunk, Save, Working, Sound, Typed, UploadsTyped
<1>4. s \in Sessions /\ upload = [t \in Sessions |-> upload[t]] /\ IsUpload(u)
  BY <1>1, <1>2, <1>3 DEF Sound, Typed, ReqTyped, UploadsTyped
<1>5. CASE Rewind(p)
  <2>1. PICK v : v = [u EXCEPT !.off = 0]
    OBVIOUS
  <2>2. upload' = [upload EXCEPT ![s] = v] /\ req[p].at = "rewind"
    BY <1>1, <1>2, <1>4, <1>5, <2>1 DEF Rewind
  <2>3. /\ IsUpload(v) /\ v.faults = u.faults /\ v.file = u.file /\ v.off = 0
    BY <1>4, <2>1 DEF IsUpload, UploadFields
  <2>4. /\ req'[p].at = "save" /\ req'[p].s = s /\ req'[p].body = req[p].body
        /\ req'[p].want = req[p].want /\ req'[p].buf = req[p].buf /\ req'[p].n = req[p].n
        /\ \A q \in Procs \ {p} : req'[q] = req[q]
    BY <1>1, <1>5, GotoReq DEF Rewind, OwnershipInv
  <2>5. ReqTyped(req'[p]) /\ req'[p].at \in Working
    BY <1>1, <1>3, <2>4 DEF ReqTyped, Labels, Owning, Working
  <2>6. req'[p].buf = <<>>
    BY <1>3, <2>2, <2>4 DEF ReqTyped
  <2>7. FitsAt(u, req[p]) => FitsAt(v, req'[p])
    BY <2>2, <2>3, <2>4, <2>6 DEF FitsAt, Sized
  <2> QED
    BY <1>1, <1>2, <1>3, <2>2, <2>3, <2>4, <2>5, <2>7, WorkSound
<1>6. CASE ReadChunk(p)
  <2>1. PICK o : o = u.off + 1
    OBVIOUS
  <2>2. PICK v : v = [u EXCEPT !.off = o]
    OBVIOUS
  <2>3. upload' = [upload EXCEPT ![s] = v] /\ req[p].at = "save" /\ u.off < Len(u.file)
    BY <1>1, <1>2, <1>4, <1>6, <2>1, <2>2 DEF ReadChunk
  <2>4. /\ IsUpload(v) /\ v.faults = u.faults /\ v.file = u.file /\ v.off = o
    BY <1>4, <2>2 DEF IsUpload, UploadFields
  <2>5. /\ req'[p].at = "save" /\ req'[p].s = s /\ req'[p].body = req[p].body
        /\ req'[p].want = req[p].want /\ req'[p].n = req[p].n
        /\ req'[p].buf = Append(req[p].buf, u.file[o])
        /\ \A q \in Procs \ {p} : req'[q] = req[q]
    BY <1>1, <1>2, <1>6, <2>1 DEF ReadChunk, OwnershipInv, ReqShape, Fields
  <2>6. ReqTyped(req'[p]) /\ req'[p].at \in Working
    BY <1>1, <1>3, <2>5 DEF ReqTyped, Labels, Owning, Working
  <2>7. ASSUME FitsAt(u, req[p]) PROVE FitsAt(v, req'[p])
    <3>1. PICK buf : buf = req[p].buf
      OBVIOUS
    <3>2. /\ u.file \in Seq(Chunks) /\ u.off \in Nat /\ u.off <= Len(u.file)
          /\ buf \in Seq(Chunks) /\ Len(buf) = u.off
          /\ \A i \in 1 .. u.off : buf[i] = u.file[i]
          /\ req[p].want = u.file /\ Sized(u, req[p])
      BY <2>3, <2>7, <3>1 DEF FitsAt
    <3>3. /\ o \in Nat /\ o <= Len(u.file) /\ u.file[o] \in Chunks
      BY <2>1, <2>3, <3>2
    <3>4. PICK b2 : b2 = Append(buf, u.file[o])
      OBVIOUS
    <3>5. b2 \in Seq(Chunks) /\ Len(b2) = o /\ \A i \in 1 .. o : b2[i] = u.file[i]
      BY <2>1, <3>2, <3>3, <3>4
    <3>6. req'[p].buf = b2
      BY <2>5, <3>1, <3>4
    <3>7. Sized(v, req'[p])
      BY <2>4, <2>5, <3>2 DEF Sized
    <3> QED
      BY <2>4, <2>5, <3>2, <3>3, <3>5, <3>6, <3>7 DEF FitsAt
  <2> QED
    BY <1>1, <1>2, <1>3, <2>3, <2>4, <2>5, <2>6, <2>7, WorkSound
<1>7. CASE Save(p)
  <2>1. upload' = [upload EXCEPT ![s] = u] /\ req[p].at = "save"
    BY <1>2, <1>4, <1>7 DEF Save, tracker
  <2>2. /\ req'[p].at = "row" /\ req'[p].s = s /\ req'[p].body = req[p].body
        /\ req'[p].want = req[p].want /\ req'[p].buf = req[p].buf /\ req'[p].n = req[p].n
        /\ \A q \in Procs \ {p} : req'[q] = req[q]
    BY <1>1, <1>7, GotoReq DEF Save, OwnershipInv
  <2>3. ReqTyped(req'[p]) /\ req'[p].at \in Working
    BY <1>1, <1>3, <2>2 DEF ReqTyped, Labels, Owning, Working
  <2>4. FitsAt(u, req[p]) => FitsAt(u, req'[p])
    BY <2>1, <2>2 DEF FitsAt, Sized
  <2> QED
    BY <1>1, <1>2, <1>3, <1>4, <2>1, <2>2, <2>3, <2>4, WorkSound
<1> QED
  BY <1>5, <1>6, <1>7

\* The sweeper drops a session nobody uses, or leaves the struct to its users.
LEMMA SweepSound ==
  ASSUME Sound, Sweep
  PROVE  Sound'
<1>1. CASE SweepTake
  BY <1>1 DEF SweepTake, Sound, Typed, UploadsTyped, Clean, Spoiled, Works
<1>2. CASE SweepDrop
  <2>1. PICK s : Discarded(s, Users(s)) /\ UNCHANGED req
    BY <1>2 DEF SweepDrop
  <2>2. \A q \in Procs, t \in Sessions : Works(q, t)' <=> Works(q, t)
    BY <2>1 DEF Works
  <2>3. CASE Users(s) # {}
    <3>1. upload' = upload
      BY <2>1, <2>3 DEF Discarded, Sound, Typed, UploadsTyped
    <3>2. \A t \in Sessions : Clean(t)'
      BY <2>1, <2>2, <3>1, CleanStays DEF Sound, Typed, UploadsTyped
    <3> QED
      BY <2>1, <3>1, <3>2 DEF Sound, Typed, UploadsTyped
  <2>4. CASE Users(s) = {}
    <3>1. PICK v : v = NewUpload /\ upload' = [upload EXCEPT ![s] = v]
      BY <2>1, <2>4 DEF Discarded
    <3>2. IsUpload(v) /\ Fits(v)
      BY <3>1, NewFits
    <3>3. /\ upload' = [t \in Sessions |-> upload'[t]]
          /\ \A t \in Sessions : upload'[t] = IF t = s THEN v ELSE upload[t]
      BY <3>1 DEF Sound, Typed, UploadsTyped
    <3>4. ASSUME NEW t \in Sessions PROVE Clean(t)'
      <4>1. CASE t # s
        BY <2>1, <2>2, <3>3, <4>1, CleanStays DEF Sound, Typed, UploadsTyped
      <4>2. CASE t = s
        <5>1. \A q \in Procs : ~Works(q, t)'
          BY <2>2, <2>4, <4>2 DEF Users, Works, Working, Owning
        <5>2. Fits(upload'[t])
          BY <3>2, <3>3, <4>2
        <5> QED
          BY <5>1, <5>2 DEF Clean
      <4> QED
        BY <4>1, <4>2
    <3> QED
      BY <2>1, <3>2, <3>3, <3>4 DEF Sound, Typed, UploadsTyped
  <2> QED
    BY <2>3, <2>4
<1> QED
  BY <1>1, <1>2 DEF Sweep

\* Time passes without activity.
LEMMA IdleSound ==
  ASSUME Sound, NEW s \in Sessions, GoesIdle(s)
  PROVE  Sound'
<1>1. PICK u : u = upload[s] /\ IsUpload(u)
  BY DEF Sound, Typed, UploadsTyped
<1>2. PICK v : v = [u EXCEPT !.idle = TRUE]
  OBVIOUS
<1>3. upload' = [upload EXCEPT ![s] = v] /\ req' = req
  BY <1>1, <1>2 DEF GoesIdle, Sound, Typed, UploadsTyped
<1>4. /\ IsUpload(v) /\ v.faults = u.faults /\ v.hash = u.hash /\ v.file = u.file /\ v.off = u.off
      /\ v.size = u.size
  BY <1>1, <1>2 DEF IsUpload, UploadFields
<1>5. /\ upload' = [t \in Sessions |-> upload'[t]]
      /\ \A t \in Sessions : upload'[t] = IF t = s THEN v ELSE upload[t]
  BY <1>3 DEF Sound, Typed, UploadsTyped
<1>6. ASSUME NEW t \in Sessions PROVE Clean(t)'
  <2>1. \A q \in Procs : Works(q, t)' <=> Works(q, t)
    BY <1>3 DEF Works
  <2>2. CASE t # s
    BY <1>3, <1>5, <2>1, <2>2, CleanStays DEF Sound, Typed, UploadsTyped
  <2>3. CASE t = s
    <3>1. Fits(u) => Fits(v)
      BY <1>4 DEF Fits
    <3>2. \A r : FitsAt(u, r) => FitsAt(v, r)
      BY <1>4, <3>1 DEF FitsAt, Sized
    <3>3. Spoiled(t)' <=> Spoiled(t)
      BY <1>1, <1>4, <1>5, <2>3 DEF Spoiled
    <3>4. Clean(t) /\ upload[t] = u /\ upload'[t] = v
      BY <1>1, <1>5, <2>3 DEF Sound, Typed, UploadsTyped
    <3> QED
      BY <1>3, <2>1, <3>1, <3>2, <3>3, <3>4 DEF Clean
  <2> QED
    BY <2>2, <2>3
<1> QED
  BY <1>3, <1>4, <1>5, <1>6 DEF Sound, Typed, UploadsTyped

\* Nothing is in progress at start-up.
LEMMA FreshSound ==
  ASSUME upload = [s \in Sessions |-> NewUpload], req = [p \in Procs |-> Idle]
  PROVE  Sound
<1>1. \A p \in Procs : ReqTyped(req[p]) /\ req[p].at = "idle"
  BY DEF Idle, ReqTyped, Labels
<1>2. UploadsTyped
  BY NewFits DEF UploadsTyped
<1>3. \A s \in Sessions : Clean(s)
  BY <1>1, NewFits DEF Clean, Works, Working, Appending
<1> QED
  BY <1>1, <1>2, <1>3 DEF Sound, Typed, UploadsTyped

\* Nor after a restart.
LEMMA RestartSound ==
  ASSUME Restart
  PROVE  Sound'
<1>1. upload' = [s \in Sessions |-> NewUpload] /\ req' = [p \in Procs |-> Idle]
  BY DEF Restart
<1>2. \A p \in Procs : ReqTyped(req'[p]) /\ req'[p].at = "idle"
  BY <1>1 DEF Idle, ReqTyped, Labels
<1>3. UploadsTyped'
  BY <1>1, NewFits DEF UploadsTyped
<1>4. \A s \in Sessions : Clean(s)'
  BY <1>1, <1>2, NewFits DEF Clean, Works, Working, Appending
<1> QED
  BY <1>2, <1>3, <1>4 DEF Sound, Typed, UploadsTyped

\* Every step keeps unspoiled sessions to one user and fitting.
LEMMA SoundStep ==
  ASSUME OwnershipInv, Sound, [Next]_vars
  PROVE  Sound'
<1>1. ReqShape
  BY DEF OwnershipInv
<1>2. CASE UNCHANGED vars
  BY <1>2 DEF vars, tracker, Sound, Typed, UploadsTyped, Clean, Spoiled, Works
<1>3. ASSUME NEW p \in Procs, AppendStep(p) PROVE Sound'
  BY <1>1, <1>3, LookupSound, WriteSound, HashSound, CountSound, BodySound DEF AppendStep
<1>4. ASSUME NEW p \in Procs, GetOrCreateBlob(p) \/ Discard(p) \/ StoreFails(p) PROVE Sound'
  <2>1. PICK s : s = req[p].s
    OBVIOUS
  <2>2. req[p].at \in Owning /\ Respond(p) /\ Discarded(s, Others(p, s))
    BY <1>4, <2>1 DEF GetOrCreateBlob, Discard, StoreFails, Owning
  <2> QED
    BY <1>1, <2>1, <2>2, DropSound
<1>5. ASSUME NEW p \in Procs, OwnStep(p) PROVE Sound'
  BY <1>1, <1>4, <1>5, SumSound, StoreSound DEF OwnStep
<1> QED
  BY <1>1, <1>2, <1>3, <1>4, <1>5, ArriveSound, LookupSound, SweepSound, IdleSound, RestartSound
  DEF Next

-----------------------------------------------------------------------------
\* The blob store and the blob rows, with what they promise.
StoreInv ==
    /\ Sound
    /\ objects = [d \in Contents |-> objects[d]]
    /\ blobs = [d \in Contents |-> blobs[d]]
    /\ StoredBytesUnlessSpoiled

\* What Save names after the digest is the file, read back whole.
LEMMA SaveStores ==
  ASSUME OwnershipInv, StoreInv, NEW p \in Procs, Save(p)
  PROVE  StoredBytesUnlessSpoiled' /\ objects' = [d \in Contents |-> objects'[d]]
<1>1. PICK s : s = req[p].s
  OBVIOUS
<1>2. PICK u : u = upload[s]
  OBVIOUS
<1>3. PICK o : o = [bytes |-> req[p].buf, spoiled |-> "spoiled" \in u.faults]
  OBVIOUS
<1>4. /\ objects' = [objects EXCEPT ![req[p].want] = o] /\ blobs' = blobs
      /\ req[p].at = "save" /\ u.off >= Len(u.file)
  BY <1>1, <1>2, <1>3 DEF Save
<1>5. s \in Sessions /\ Works(p, s)
  BY <1>1, <1>4 DEF StoreInv, Sound, Typed, UploadsTyped, ReqTyped, Works, Working
<1>6. ASSUME "spoiled" \notin u.faults PROVE req[p].buf = req[p].want
  <2>1. FitsAt(u, req[p])
    BY <1>2, <1>5, <1>6 DEF StoreInv, Sound, Typed, UploadsTyped, Clean, Spoiled
  <2>2. PICK buf : buf = req[p].buf
    OBVIOUS
  <2>3. /\ u.file \in Seq(Chunks) /\ u.off \in Nat /\ u.off <= Len(u.file)
        /\ buf \in Seq(Chunks) /\ Len(buf) = u.off
        /\ \A i \in 1 .. u.off : buf[i] = u.file[i]
        /\ req[p].want = u.file
    BY <1>4, <2>1, <2>2 DEF FitsAt
  <2>4. Len(buf) = Len(u.file) /\ \A i \in 1 .. Len(buf) : buf[i] = u.file[i]
    BY <1>4, <2>3
  <2>5. buf = u.file
    BY <2>3, <2>4
  <2> QED
    BY <2>2, <2>3, <2>5
<1>7. o.bytes = req[p].want \/ o.spoiled
  BY <1>3, <1>6
<1>8. \A d \in Contents : objects'[d] = IF d = req[p].want THEN o ELSE objects[d]
  BY <1>4 DEF StoreInv
<1>9. objects' = [d \in Contents |-> objects'[d]]
  BY <1>4 DEF StoreInv
<1> QED
  BY <1>4, <1>7, <1>8, <1>9 DEF StoreInv, StoredBytesUnlessSpoiled

\* The size of a new row is that of the file, unless an append failed.
LEMMA RowStores ==
  ASSUME OwnershipInv, StoreInv, NEW p \in Procs, GetOrCreateBlob(p)
  PROVE  StoredBytesUnlessSpoiled' /\ blobs' = [d \in Contents |-> blobs'[d]]
<1>1. PICK s : s = req[p].s
  OBVIOUS
<1>2. PICK u : u = upload[s]
  OBVIOUS
<1>3. PICK o : o = [size |-> req[p].n, spoiled |-> u.faults # {}]
  OBVIOUS
<1>4. PICK w : w = req[p].want
  OBVIOUS
<1>5. /\ blobs' = [blobs EXCEPT ![w] = IF blobs[w] = NoBlob THEN o ELSE blobs[w]]
      /\ objects' = objects /\ req[p].at = "row"
  BY <1>1, <1>2, <1>3, <1>4 DEF GetOrCreateBlob
<1>6. s \in Sessions /\ Works(p, s)
  BY <1>1, <1>5 DEF StoreInv, Sound, Typed, UploadsTyped, ReqTyped, Works, Working
<1>7. ASSUME u.faults = {} PROVE o.size = Len(w)
  <2>1. FitsAt(u, req[p])
    BY <1>2, <1>6, <1>7 DEF StoreInv, Sound, Typed, UploadsTyped, Clean, Spoiled
  <2>2. w = u.file /\ req[p].n = Len(u.file)
    BY <1>4, <1>5, <1>7, <2>1 DEF FitsAt, Sized
  <2> QED
    BY <1>3, <2>2
<1>8. o.size = Len(w) \/ o.spoiled
  BY <1>3, <1>7
<1>9. \A d \in Contents : blobs'[d] = IF d = w /\ blobs[w] = NoBlob THEN o ELSE blobs[d]
  BY <1>5 DEF StoreInv
<1>10. blobs' = [d \in Contents |-> blobs'[d]]
  BY <1>5 DEF StoreInv
<1> QED
  BY <1>5, <1>8, <1>9, <1>10 DEF StoreInv, StoredBytesUnlessSpoiled

\* The other steps leave the store alone.
LEMMA OtherSteps ==
  ASSUME [Next]_vars
  PROVE  \/ UNCHANGED store
         \/ \E p \in Procs : Save(p) \/ GetOrCreateBlob(p)
<1>1. CASE UNCHANGED vars
  BY <1>1 DEF vars
<1>2. ASSUME NEW p \in Procs, Arrive(p) PROVE UNCHANGED store
  BY <1>2, Zenon DEF Arrive, Post, Patch, Put, Cancel
<1>3. ASSUME NEW p \in Procs, AppendStep(p) PROVE UNCHANGED store
  BY <1>3, Zenon DEF AppendStep, AppendLookup, WriteFile, WriteFails, HashWrite, Count, BodyFails
<1>4. ASSUME NEW p \in Procs, Take(p) \/ StoreFails(p) \/ Sum(p) \/ Rewind(p) \/ ReadChunk(p) \/ Discard(p)
      PROVE  UNCHANGED store
  BY <1>4, Zenon DEF Take, StoreFails, Sum, Rewind, ReadChunk, Discard
<1>5. ASSUME Sweep \/ Restart \/ \E s \in Sessions : GoesIdle(s) PROVE UNCHANGED store
  BY <1>5, Zenon DEF Sweep, SweepTake, SweepDrop, Restart, GoesIdle
<1> QED
  BY <1>1, <1>2, <1>3, <1>4, <1>5 DEF Next, OwnStep

\* Unspoiled sessions carry what was hashed to the store, from Init on.
THEOREM StoreHolds == Spec => []StoreInv
<1>1. Init => StoreInv
  <2> SUFFICES ASSUME Init PROVE StoreInv
    OBVIOUS
  <2>1. Sound
    BY FreshSound DEF Init
  <2>2. PICK D \in SUBSET Earlier :
          /\ objects = [d \in Contents |-> IF d \in D THEN [bytes |-> d, spoiled |-> FALSE] ELSE NoBlob]
          /\ blobs = [d \in Contents |-> IF d \in D THEN [size |-> Len(d), spoiled |-> FALSE] ELSE NoBlob]
    BY Zenon DEF Init
  <2>3. StoredBytesUnlessSpoiled
    BY <2>2 DEF StoredBytesUnlessSpoiled
  <2> QED
    BY <2>1, <2>2, <2>3 DEF StoreInv
<1>2. OwnershipInv /\ StoreInv /\ [Next]_vars => StoreInv'
  <2> SUFFICES ASSUME OwnershipInv, StoreInv, [Next]_vars PROVE StoreInv'
    OBVIOUS
  <2>1. Sound'
    BY SoundStep DEF StoreInv
  <2>2. CASE UNCHANGED store
    BY <2>1, <2>2 DEF StoreInv, store, StoredBytesUnlessSpoiled
  <2>3. ASSUME NEW p \in Procs, Save(p) PROVE StoreInv'
    BY <2>1, <2>3, SaveStores DEF StoreInv, Save
  <2>4. ASSUME NEW p \in Procs, GetOrCreateBlob(p) PROVE StoreInv'
    BY <2>1, <2>4, RowStores DEF StoreInv, GetOrCreateBlob
  <2> QED
    BY <2>2, <2>3, <2>4, OtherSteps
<1> QED
  BY <1>1, <1>2, Ownership, PTL DEF Spec

\* "Finalize verifies that the assembled bytes hash to wantDigest": what the store holds
\* under a digest has that digest, and the row its size, for any number of requests and
\* sessions, except what came from a session that the code lets two requests share, that
\* took a failed write or whose append was cut off.
THEOREM StoredBytesHold == Spec => []StoredBytesUnlessSpoiled
<1>1. StoreInv => StoredBytesUnlessSpoiled
  BY DEF StoreInv
<1> QED
  BY <1>1, StoreHolds, PTL

=============================================================================
