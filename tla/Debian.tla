------------------------------- MODULE Debian -------------------------------
(***************************************************************************)
(* internal/packages/debian.  A stored name is                             *)
(* "distribution|component|architecture|basename": the coordinates are in  *)
(* it, and the properties with the same names are written and not read.    *)
(***************************************************************************)
EXTENDS Hosted

DebParses(c) == c \notin Malformed

DebUpload(p, n, c) ==
    \/ ~DebParses(c) /\ AnswerAtOnce(p, Status("400"))
    \/ DebParses(c) /\ IngestDenied /\ AnswerAtOnce(p, Status("403"))
    \/ /\ DebParses(c) /\ ~IngestDenied
       /\ Begin(p, "svcPackage", [NoLocal EXCEPT !.op = "upload", !.name = n, !.sha = c])

\* The three properties with the coordinates are read by nobody: one step.
DebProps == <<"coordinates", "control">>

\* The file is stored, then described; whoever asks for an index in between sees
\* it without its control file.
DebStore(p) ==
    /\ rq[p].op = "upload"
    /\ \/ GetOrCreatePackage(p)
       \/ GetOrAddVersion(p, None)
       \/ CreateFile(p, Continue(p, "setProps", [rq[p] EXCEPT !.fileId = FreshFile(rq[p].name),
                                                              !.todo = DebProps]),
                     Respond(p, "409"))
       \/ SetProperties(p, Created(p, {rq[p].name}))

\* lookupFile, by the stored name.
DebFound(n) == FileRows(n)

DebDownload(p, n) == ServeFile(p, DebFound(n))

DebDelete(p, n) ==
    BeginDelete(p, "delFile", [NoLocal EXCEPT !.op = "delete", !.name = n], {n})
DebDeleteStep(p) == DeleteLookup(p, DebFound(rq[p].name)) \/ DeleteCount(p) \/ DeleteApply(p)

\* loadEntriesByCoord, of one coordinate or of all.
DebEntries(n) == Listed(n)

\* getPackages: one coordinate, unsigned.
DebPackages(p, n) == Begin(p, "listRows", [NoLocal EXCEPT !.op = "packages", !.name = n])

\* serveReleaseFamily: every coordinate of the distribution, then signed.
DebRelease(p) == Begin(p, "distinct", [NoLocal EXCEPT !.op = "release"])

DebDistinct(p) ==
    /\ pc[p] = "distinct"
    /\ \/ DebEntries(None) = {} /\ Respond(p, "404")
       \/ DebEntries(None) # {} /\ Continue(p, "listRows", rq[p])
    /\ UNCHANGED <<repo, rows, keys, verdict, events>>

\* The key is looked for under the ExclusivePool key "<tenant>|debian-key".
DebKeyUnlocked == "keyPackage"
DebKeyEntry == "keyCheckIn"

DebIndex(p) ==
    \/ DebDistinct(p)
    \/ ListRows(p, DebEntries(rq[p].name))
    \/ rq[p].op = "packages" /\ Index(p, "control")
    \/ rq[p].op # "packages" /\ SignIndex(p, DebKeyEntry, "control")

DebGetKey(p) == Begin(p, DebKeyEntry, [NoLocal EXCEPT !.op = "key"])

DebNext(p) ==
    \/ \E n \in repo.names, c \in Bodies[fmt] : DebUpload(p, n, c)
    \/ \E n \in repo.names : DebDownload(p, n) \/ DebDelete(p, n) \/ DebPackages(p, n)
    \/ DebRelease(p) \/ DebGetKey(p)
    \/ DebStore(p) \/ DebDeleteStep(p) \/ DebIndex(p) \/ KeyStep(p)
=============================================================================
