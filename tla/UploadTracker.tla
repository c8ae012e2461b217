--------------------------- MODULE UploadTracker ---------------------------
(***************************************************************************)
(* internal/packages/container/upload.go and the handlers that drive it:   *)
(* blob upload sessions of the container registry.  A session is a staging *)
(* file with a running hash; POST begins it, PATCH and PUT append to it,   *)
(* PUT finalizes it into the blob store, DELETE cancels it, a sweeper      *)
(* drops idle ones and a restart drops them all.                           *)
(*                                                                         *)
(* The tracker's mutex covers the map only.  What happens to the file, the *)
(* hash and the size happens outside it, so two requests on one session    *)
(* interleave; unsynchronised updates of the hash and of the size may be   *)
(* lost or garbled when they meet.  Bytes are sequences of chunks and the  *)
(* digest of a sequence is the sequence itself.                            *)
(***************************************************************************)
EXTENDS Naturals, Sequences, FiniteSets, SequencesExt

CONSTANTS
    Procs,        \* requests being handled
    Sessions,     \* upload UUIDs, never reused
    Chunks,       \* what one read of a request body returns
    MaxLen,       \* bound: chunks in one staging file
    Earlier,      \* digests that earlier sessions may have stored
    NoDigest,     \* a request that does not finalize (PATCH, DELETE, plain POST)
    NoChunk,      \* an empty body
    NoSession,
    Garbled,      \* a hash state that no digest matches
    NoBlob

ASSUME MaxLenAssumption == MaxLen \in Nat \ {0}
ASSUME EarlierAssumption == Earlier \subseteq SeqOf(Chunks, MaxLen)
ASSUME GarbledAssumption == Garbled \notin SeqOf(Chunks, MaxLen)

VARIABLES
    tracked,      \* keys of UploadTracker.uploads
    begun,        \* UUIDs handed out so far
    upload,       \* the upload structs; they outlive the map entry
    open,         \* sessions whose descriptor is open
    staged,       \* sessions whose file is in TmpDir
    stale,        \* the sweeper's local list
    req,          \* the requests' locals and position
    objects,      \* the blob store: the bytes under a digest
    blobs         \* the blob rows: the size recorded for a digest

tracker == <<tracked, begun, upload, open, staged, stale>>
store == <<objects, blobs>>
vars == <<tracker, store, req>>

Contents == SeqOf(Chunks, MaxLen)

Appending == {"write", "hash", "count"}
Owning == {"sum", "rewind", "save", "row", "discard"}

Idle == [at |-> "idle", s |-> NoSession, body |-> NoChunk, want |-> NoDigest,
         buf |-> <<>>, n |-> 0]
\* faults is a history: "spoiled" once two requests shared the session or a write
\* failed, "cut" once an append was cut off.
NewUpload == [file |-> <<>>, off |-> 0, hash |-> <<>>, size |-> 0, idle |-> FALSE, faults |-> {}]

Init ==
    /\ tracked = {} /\ begun = {} /\ open = {} /\ staged = {} /\ stale = {}
    /\ upload = [s \in Sessions |-> NewUpload]
    /\ req = [p \in Procs |-> Idle]
    /\ \E D \in SUBSET Earlier :
         /\ objects = [d \in Contents |->
                         IF d \in D THEN [bytes |-> d, spoiled |-> FALSE] ELSE NoBlob]
         /\ blobs = [d \in Contents |->
                       IF d \in D THEN [size |-> Len(d), spoiled |-> FALSE] ELSE NoBlob]

-----------------------------------------------------------------------------
\* The request moves on, or is answered and leaves.
Goto(p, l) == req' = [req EXCEPT ![p].at = l]
Respond(p) == req' = [req EXCEPT ![p] = Idle]

\* The requests that hold a pointer to the struct of session s.
Users(s) == {q \in Procs : req[q].s = s /\ req[q].at \in Appending \cup Owning}
Others(p, s) == Users(s) \ {p}
MarkShared(p, s) ==
    upload' = IF Others(p, s) = {} THEN upload ELSE [upload EXCEPT ![s].faults = @ \cup {"spoiled"}]

\* u.file.Close and os.Remove.  With no other user the struct is garbage.
Discarded(s, others) ==
    /\ open' = open \ {s} /\ staged' = staged \ {s}
    /\ upload' = [upload EXCEPT ![s] = IF others = {} THEN NewUpload ELSE @]

-----------------------------------------------------------------------------
\* startUpload and Begin: a fresh UUID and staging file.  With a digest and a
\* body the same request goes on to append and finalize (monolithic POST).
Post(p, s, b, d) ==
    /\ req[p].at = "idle" /\ s \notin begun
    /\ begun' = begun \cup {s} /\ tracked' = tracked \cup {s}
    /\ open' = open \cup {s} /\ staged' = staged \cup {s}
    /\ IF d = NoDigest
         THEN UNCHANGED req
         ELSE req' = [req EXCEPT ![p] = [Idle EXCEPT !.at = "lookup", !.s = s,
                                                     !.body = b, !.want = d]]
    /\ UNCHANGED <<upload, stale, store>>

\* patchUpload and putUpload.  A PUT without a body goes straight to Finalize.
Patch(p, s, b) ==
    /\ req[p].at = "idle" /\ s \in begun
    /\ req' = [req EXCEPT ![p] = [Idle EXCEPT !.at = "lookup", !.s = s, !.body = b]]
    /\ UNCHANGED <<tracker, store>>

Put(p, s, b, d) ==
    /\ req[p].at = "idle" /\ s \in begun /\ d # NoDigest
    /\ req' = [req EXCEPT ![p] = [Idle EXCEPT !.at = IF b = NoChunk THEN "take" ELSE "lookup",
                                              !.s = s, !.body = b, !.want = d]]
    /\ UNCHANGED <<tracker, store>>

\* Append: look the session up under the mutex; 404 when it is gone.
AppendLookup(p) ==
    /\ req[p].at = "lookup"
    /\ \/ req[p].s \notin tracked /\ Respond(p) /\ UNCHANGED upload
       \/ req[p].s \in tracked /\ Goto(p, "write") /\ MarkShared(p, req[p].s)
    /\ UNCHANGED <<tracked, begun, open, staged, stale, store>>

\* A write at the descriptor's offset, which every user of the session shares.
WrittenAt(u, c) ==
    [u EXCEPT !.file = IF u.off < Len(u.file) THEN [@ EXCEPT ![u.off + 1] = c] ELSE Append(@, c),
              !.off = @ + 1]

\* io.Copy, first half of the MultiWriter: the file.  It fails when the
\* descriptor was closed under it.
WriteFile(p) ==
    LET s == req[p].s IN
    /\ req[p].at = "write"
    /\ \/ /\ req[p].body = NoChunk
          /\ Goto(p, "count")
          /\ UNCHANGED upload
       \/ /\ req[p].body # NoChunk /\ s \in open
          /\ upload[s].off < MaxLen
          /\ upload' = [upload EXCEPT ![s] = WrittenAt(@, req[p].body)]
          /\ Goto(p, "hash")
       \/ /\ req[p].body # NoChunk /\ s \notin open
          /\ Respond(p)
          /\ UNCHANGED upload
    /\ UNCHANGED <<tracked, begun, open, staged, stale, store>>

\* The write fails half way (a full disk): some bytes are in the file, none
\* are hashed, and the session lives on.
WriteFails(p) ==
    LET s == req[p].s IN
    /\ req[p].at = "write" /\ req[p].body # NoChunk /\ s \in open
    /\ upload[s].off < MaxLen
    /\ upload' = [upload EXCEPT ![s] = [WrittenAt(upload[s], req[p].body) EXCEPT
                                           !.faults = @ \cup {"spoiled"}]]
    /\ Respond(p)
    /\ UNCHANGED <<tracked, begun, open, staged, stale, store>>

\* Second half: the hash.  Two writers at once may lose one update or leave
\* a state that matches nothing.  (A hash of more than MaxLen chunks matches none
\* of the digests asked for.)
HashWrite(p) ==
    LET s == req[p].s
        racing == \E q \in Others(p, s) : req[q].at \in {"hash", "sum"}
        h == upload[s].hash
        good == IF h = Garbled \/ Len(h) = MaxLen THEN Garbled ELSE Append(h, req[p].body)
    IN  /\ req[p].at = "hash"
        /\ \E h2 \in {good} \cup (IF racing THEN {h, Garbled} ELSE {}) :
             upload' = [upload EXCEPT ![s].hash = h2]
        /\ Goto(p, "count")
        /\ UNCHANGED <<tracked, begun, open, staged, stale, store>>

\* u.size += n; then lastActive under the mutex.  A PUT goes on to Finalize.
Grown(u, b) == [u EXCEPT !.size = @ + (IF b = NoChunk THEN 0 ELSE 1), !.idle = FALSE]
Count(p) ==
    LET s == req[p].s
        racing == \E q \in Others(p, s) : req[q].at = "count"
    IN  /\ req[p].at = "count"
        /\ \/ upload' = [upload EXCEPT ![s] = Grown(@, req[p].body)]
           \/ racing /\ upload' = [upload EXCEPT ![s].idle = FALSE]
        /\ IF req[p].want = NoDigest THEN Respond(p) ELSE Goto(p, "take")
        /\ UNCHANGED <<tracked, begun, open, staged, stale, store>>

\* The client's body ends in an error before or after the chunk: Append returns
\* early, and what was written stays.
BodyFails(p) ==
    /\ req[p].at \in {"write", "count"}
    /\ upload' = IF req[p].at = "count"
                    THEN [upload EXCEPT ![req[p].s].faults = @ \cup {"cut"}] ELSE upload
    /\ Respond(p)
    /\ UNCHANGED <<tracked, begun, open, staged, stale, store>>

-----------------------------------------------------------------------------
\* Finalize, under the mutex: the entry is taken out of the map.
StillTracked(s) == tracked
Untracked(s) == tracked \ {s}
Take(p) ==
    /\ req[p].at = "take"
    /\ \/ req[p].s \notin tracked /\ Respond(p) /\ UNCHANGED <<tracked, upload>>
       \/ /\ req[p].s \in tracked
          /\ tracked' = Untracked(req[p].s)
          /\ Goto(p, "sum")
          /\ MarkShared(p, req[p].s)
    /\ UNCHANGED <<begun, open, staged, stale, store>>

\* Finalize, outside the mutex: compare the digest; on a mismatch drop the
\* file, else rewind.  The size is read here.
DigestIgnored(h, d) == TRUE
DigestMatches(h, d) == h = d
CloseMismatched(p) == open' = open \ {req[p].s} /\ UNCHANGED <<staged, upload>>
DropMismatched(p) == Discarded(req[p].s, Others(p, req[p].s))
Sum(p) ==
    LET s == req[p].s
        u == upload[s]
        racing == \E q \in Others(p, s) : req[q].at = "hash"
    IN  /\ req[p].at = "sum"
        /\ \/ /\ DigestMatches(u.hash, req[p].want)
              /\ upload' = [upload EXCEPT ![s].off = 0]
              /\ req' = [req EXCEPT ![p].at = "rewind", ![p].n = u.size]
              /\ UNCHANGED <<open, staged>>
           \/ /\ ~DigestMatches(u.hash, req[p].want) \/ racing
              /\ DropMismatched(p)
              /\ Respond(p)
        /\ UNCHANGED <<tracked, begun, stale, store>>

\* storeStagedFile seeks to the start once more.
Rewind(p) ==
    /\ req[p].at = "rewind"
    /\ upload' = [upload EXCEPT ![req[p].s].off = 0]
    /\ Goto(p, "save")
    /\ UNCHANGED <<tracked, begun, open, staged, stale, store>>

\* Storage.Save reads the file from the shared offset to its end, ...
ReadChunk(p) ==
    LET u == upload[req[p].s] IN
    /\ req[p].at = "save" /\ u.off < Len(u.file)
    /\ req' = [req EXCEPT ![p].buf = Append(@, u.file[u.off + 1])]
    /\ upload' = [upload EXCEPT ![req[p].s].off = @ + 1]
    /\ UNCHANGED <<tracked, begun, open, staged, stale, store>>

\* ... and renames what it read to the digest's path, over what was there.
Save(p) ==
    LET u == upload[req[p].s] IN
    /\ req[p].at = "save" /\ u.off >= Len(u.file)
    /\ objects' = [objects EXCEPT ![req[p].want] =
                     [bytes |-> req[p].buf, spoiled |-> "spoiled" \in u.faults]]
    /\ Goto(p, "row")
    /\ UNCHANGED <<tracker, blobs>>

\* GetOrCreateBlob, the answer, and the deferred Close and Remove.  (The blob's
\* property of the repository, written in between, is in module Container.)
GetOrCreateBlob(p) ==
    LET s == req[p].s IN
    /\ req[p].at = "row"
    /\ blobs' = [blobs EXCEPT ![req[p].want] =
                   IF @ = NoBlob THEN [size |-> req[p].n, spoiled |-> upload[s].faults # {}] ELSE @]
    /\ Discarded(s, Others(p, s))
    /\ Respond(p)
    /\ UNCHANGED <<tracked, begun, stale, objects>>

\* Save or the blob row fails: 500, and the deferred calls run all the same.
StoreFails(p) ==
    /\ req[p].at \in {"save", "row"}
    /\ Discarded(req[p].s, Others(p, req[p].s))
    /\ Respond(p)
    /\ UNCHANGED <<tracked, begun, stale, store>>

-----------------------------------------------------------------------------
\* cancelUpload: take the entry, then drop the file outside the mutex.
Cancel(p, s) ==
    /\ req[p].at = "idle" /\ s \in tracked
    /\ tracked' = Untracked(s)
    /\ req' = [req EXCEPT ![p].at = "discard", ![p].s = s]
    /\ UNCHANGED <<begun, upload, open, staged, stale, store>>

Discard(p) ==
    /\ req[p].at = "discard"
    /\ Discarded(req[p].s, Others(p, req[p].s))
    /\ Respond(p)
    /\ UNCHANGED <<tracked, begun, stale, store>>

\* sweepIdle: take every idle entry in one critical section, then drop the
\* files one by one.
NoIdleSessions == {}
IdleSessions == {s \in tracked : upload[s].idle}
SweepTake ==
    /\ stale = {} /\ IdleSessions # {}
    /\ stale' = IdleSessions
    /\ tracked' = tracked \ IdleSessions
    /\ UNCHANGED <<begun, upload, open, staged, store, req>>

SweepDrop ==
    /\ \E s \in stale : stale' = stale \ {s} /\ Discarded(s, Users(s))
    /\ UNCHANGED <<tracked, begun, store, req>>

\* IdleTimeout passes without activity on s, an append in progress or not.
GoesIdle(s) ==
    /\ s \in tracked /\ ~upload[s].idle
    /\ upload' = [upload EXCEPT ![s].idle = TRUE]
    /\ UNCHANGED <<tracked, begun, open, staged, stale, store, req>>

\* The process dies; at the next start SweepOrphans clears TmpDir before any
\* request is served.
SweepOrphans == staged' = {}
Restart ==
    /\ tracked' = {} /\ open' = {} /\ stale' = {}
    /\ SweepOrphans
    /\ req' = [p \in Procs |-> Idle]
    /\ upload' = [s \in Sessions |-> NewUpload]
    /\ UNCHANGED <<begun, store>>

-----------------------------------------------------------------------------
Arrive(p) ==
    \E s \in Sessions :
      \/ Post(p, s, NoChunk, NoDigest)
      \/ \E b \in Chunks, d \in Contents : Post(p, s, b, d)
      \/ \E b \in Chunks \cup {NoChunk} : Patch(p, s, b)
      \/ \E b \in Chunks \cup {NoChunk}, d \in Contents : Put(p, s, b, d)
      \/ Cancel(p, s)

AppendStep(p) ==
    AppendLookup(p) \/ WriteFile(p) \/ WriteFails(p) \/ HashWrite(p) \/ Count(p) \/ BodyFails(p)

\* What a request does once the session is its own.
OwnStep(p) ==
    Sum(p) \/ Rewind(p) \/ ReadChunk(p) \/ Save(p) \/ GetOrCreateBlob(p) \/ Discard(p)

Sweep == SweepTake \/ SweepDrop

Next ==
    \/ \E p \in Procs : Arrive(p) \/ AppendStep(p) \/ Take(p) \/ OwnStep(p) \/ StoreFails(p)
    \/ Sweep
    \/ \E s \in Sessions : GoesIdle(s)
    \/ Restart

Spec == Init /\ [][Next]_vars

\* The sweeper's goroutine runs for ever and a request that owns a session
\* finishes it; nothing is assumed of clients, who may stall in a body.
FairSpec == Spec /\ WF_vars(Sweep) /\ \A p \in Procs : WF_vars(OwnStep(p))

-----------------------------------------------------------------------------
\* What the blob store serves under a digest are bytes with that digest
\* (Finalize "verifies that the assembled bytes hash to wantDigest"), except for
\* bytes from a session that two requests used at once or whose staging file
\* took a failed write: the hash then says nothing of the file.  And the size in
\* the blob row, which becomes Content-Length, is theirs, unless an append of the
\* session failed or overlapped another.
StoredBytesUnlessSpoiled == \A d \in Contents :
    /\ objects[d] # NoBlob => objects[d].bytes = d \/ objects[d].spoiled
    /\ blobs[d] # NoBlob => blobs[d].size = Len(d) \/ blobs[d].spoiled

\* A session taken out of the map has exactly one owner, a request that
\* finalizes or cancels it or the sweeper, so no file is closed or stored twice.
SingleOwner ==
    \A p \in Procs : req[p].at \in Owning =>
      /\ req[p].s \notin tracked \cup stale
      /\ \A q \in Procs \ {p} : req[q].at \in Owning => req[q].s # req[p].s

\* No staging file leaks: whatever is in TmpDir is in the map, on the sweeper's
\* list or owned by a request.
NoLeakedStaging ==
    staged \subseteq tracked \cup stale \cup {req[p].s : p \in {q \in Procs : req[q].at \in Owning}}

\* An idle session's staging file is removed, unless it becomes active again,
\* even while clients stall in the middle of an append.
IdleStagingDrains ==
    \A s \in Sessions :
      (s \in staged /\ upload[s].idle) ~> (s \notin staged \/ ~upload[s].idle)
=============================================================================
