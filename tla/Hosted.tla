------------------------------- MODULE Hosted -------------------------------
(***************************************************************************)
(* What the formats without pull-through share: one package of one tenant, *)
(* its versions and files, the repository key of the formats that sign     *)
(* their index, the ingest service and the administrator.  A behaviour is  *)
(* about one repository, of one format: every format has rows              *)
(* of its own type and a lock pool of its own, so two formats never meet.  *)
(*                                                                         *)
(* Requests that fail tenantFromPath, RequireRead or RequireWrite have no  *)
(* effect and are left to module Access.  Properties are rows without a    *)
(* foreign key; ids are never used twice, so those of a deleted row cannot *)
(* be read again, and they are kept with the row they describe.            *)
(***************************************************************************)
EXTENDS Naturals, FiniteSets, Sequences

CONSTANTS
    Procs,      \* requests in flight
    Repos,      \* the repositories to look at: [fmt, names, keyed, env], the format,
                \* the names clients use, whether it has its key already, and which
                \* of EnvKinds happen
    Names,      \* stored file names (coordinates included)
    Vers,       \* version strings
    VerOf,      \* format -> file name -> version
    Bodies,     \* format -> the bodies clients send
    Malformed,  \* bodies that do not parse as a package
    MaxEvents,  \* bound: how many environment events
    None

EnvKinds == {"rule", "delete", "deletekey", "quarantine", "fail", "crash"}
Verdicts == {"allow", "quarantine", "deny"}

ASSUME HostedAssumption ==
    /\ \A r \in Repos : /\ VerOf[r.fmt] \in [Names -> Vers]
                       /\ r.names \subseteq Names /\ r.keyed \in BOOLEAN
                       /\ r.env \subseteq EnvKinds
    /\ IsFiniteSet(Procs) /\ MaxEvents \in Nat
    /\ None \notin Names \cup Vers \cup Procs \cup UNION {Bodies[r.fmt] : r \in Repos}

VARIABLES
    repo,      \* which of Repos this is; it never changes
    pkg,       \* id of the package row, 0 when there is none
    versions,  \* [id, ver, quar, lic, meta, tag]: quarantined, license
               \* recorded, the pom whose metadata it has, the dist-tag
    files,     \* [id, vid, name, sha, props]
    keys,      \* the synthetic "_debian" package: [pkg, priv, pub]
    holder,    \* who is checked in to the format's ExclusivePool
    verdict,   \* what the policy engine says of the package
    pc, rq,    \* where each request is, and its locals
    answer,    \* the response this step sent, if it sent one
    events,    \* environment events so far (bounded by MaxEvents)
    hist       \* history, see NoHist

rows == <<pkg, versions, files>>
ctl == <<pc, rq, holder>>
vars == <<repo, rows, keys, verdict, ctl, answer, events, hist>>

\* The id of a version or a package row is a number; that of a file is its name
\* with a number, so that runs do not differ in the order of ids only.
NoId == <<None, 0>>

NoLocal == [op |-> "none", name |-> None, sha |-> None, pkgId |-> 0, verId |-> 0,
            fileId |-> NoId, todo |-> <<>>, rest |-> {}, ids |-> {}, tagIds |-> {}, one |-> FALSE,
            priv |-> 0, pub |-> 0,
            met |-> FALSE]     \* history: it overlapped a write

NoAnswer == [code |-> "none", bare |-> FALSE, met |-> FALSE]

NoHist == [acked |-> {},       \* names whose upload was answered 201, not deleted since
           given |-> {},       \* keys that signed an index or were handed out
           tagged |-> FALSE,   \* a tag was set and nobody asked to remove it
           sole |-> None,      \* the version a lone setDistTag chose last
           crossed |-> FALSE,  \* a delete overlapped another write
           twoKeys |-> FALSE,  \* two requests together found no key
           rekeyed |-> FALSE,  \* the administrator deleted the key
           broken |-> FALSE]   \* a request failed or died half-way

NoKeys == [pkg |-> 0, priv |-> 0, pub |-> 0]

fmt == repo.fmt

Init ==
    /\ repo \in Repos
    /\ pkg = 0 /\ versions = {} /\ files = {}
    /\ keys = IF repo.keyed THEN [pkg |-> 1, priv |-> 1, pub |-> 1] ELSE NoKeys
    /\ holder = None
    /\ verdict = "allow"
    /\ pc = [p \in Procs |-> "idle"]
    /\ rq = [p \in Procs |-> NoLocal]
    /\ answer = NoAnswer
    /\ events = 0
    /\ hist = [NoHist EXCEPT !.given = {keys.pub} \ {0}]

-----------------------------------------------------------------------------
\* Requests.
Busy == {p \in Procs : pc[p] # "idle"}
Writes == {"upload", "delete", "tag", "untag"}
InFlight(ops) == \E q \in Busy : rq[q].op \in ops

\* The requests for which it is recorded whether they overlapped a write.
Watched(local) == local.op \notin {"none", "upload", "delete", "checksum"}

Goto(p, l) == pc' = [pc EXCEPT ![p] = l]
Set(p, local) == rq' = [rq EXCEPT ![p] = local]

\* A request arrives; doomed are the names it asks to delete.
BeginDelete(p, l, local, doomed) ==
    /\ pc[p] = "idle"
    /\ Goto(p, l)
    /\ rq' = [q \in Procs |->
                IF q = p THEN [local EXCEPT !.met = Watched(local) /\ InFlight(Writes)]
                ELSE [rq[q] EXCEPT !.met = @ \/ (Watched(rq[q]) /\ local.op \in Writes)]]
    /\ answer' = NoAnswer
    /\ hist' = [hist EXCEPT
          !.acked = @ \ doomed,
          !.crossed = @ \/ (local.op = "delete" /\ InFlight(Writes))
                        \/ (local.op \in Writes /\ InFlight({"delete"})),
          !.tagged = @ /\ local.op # "untag",
          !.sole = IF local.op \in Writes THEN None ELSE @]
    /\ UNCHANGED <<repo, rows, keys, verdict, holder, events>>

Begin(p, l, local) == BeginDelete(p, l, local, {})

\* The response; deferred CheckOuts run.
Answer(p, a) ==
    /\ Goto(p, "idle")
    /\ Set(p, NoLocal)
    /\ answer' = [a EXCEPT !.met = a.bare /\ rq[p].met]
    /\ holder' = IF holder = p THEN None ELSE holder

Status(code) == [NoAnswer EXCEPT !.code = code]
Respond(p, code) == Answer(p, Status(code)) /\ UNCHANGED hist
Created(p, names) ==
    /\ Answer(p, Status("201"))
    /\ hist' = [hist EXCEPT !.acked = @ \cup names]

Continue(p, l, local) ==
    /\ Goto(p, l)
    /\ Set(p, local)
    /\ answer' = NoAnswer
    /\ UNCHANGED <<holder, hist>>

\* A request that is answered from one query.
AnswerAtOnce(p, a) ==
    /\ pc[p] = "idle"
    /\ answer' = [a EXCEPT !.met = a.bare /\ InFlight(Writes)]
    /\ UNCHANGED <<repo, rows, keys, verdict, pc, rq, holder, events, hist>>

\* checkIngest stops on Deny only, checkRead on everything that blocks.
IngestDenied == verdict = "deny"
IsBlocked == verdict \in {"quarantine", "deny"}

\* Something of the environment happens.
Event(kind) ==
    /\ kind \in repo.env
    /\ events < MaxEvents
    /\ events' = events + 1
    /\ UNCHANGED repo

-----------------------------------------------------------------------------
\* The ingest service (module Ingest has it statement by statement).
Unused(S) == CHOOSE n \in 1 .. Cardinality(S) + 1 : n \notin S

FreshPackage == Unused({pkg} \cup {rq[q].pkgId : q \in Procs})
FreshVersion == Unused({v.id : v \in versions} \cup {rq[q].verId : q \in Procs}
                         \cup UNION {rq[q].tagIds : q \in Procs})
FreshFile(n) ==
    LET used == {f.id : f \in files} \cup {rq[q].fileId : q \in Procs}
                  \cup UNION {rq[q].ids : q \in Procs} IN
    <<n, Unused({i[2] : i \in {j \in used : j[1] = n}})>>

VersionOf(p) == VerOf[fmt][rq[p].name]
VersionRows(v) == {r \in versions : r.ver = v}
FileRows(n) == {f \in files : f.name = n /\ \E v \in versions : v.id = f.vid}

GetOrCreatePackage(p) ==
    /\ pc[p] = "svcPackage"
    /\ pkg' = IF pkg = 0 THEN FreshPackage ELSE pkg
    /\ Continue(p, "svcVersion", [rq[p] EXCEPT !.pkgId = pkg'])
    /\ UNCHANGED <<repo, versions, files, keys, verdict, events>>

\* The version's row is inserted with the metadata of the first file, unless
\* its package is gone.
CreateVersion(p, meta) ==
    \/ /\ pkg = rq[p].pkgId
       /\ versions' = versions \cup {[id |-> FreshVersion, ver |-> VersionOf(p),
              quar |-> FALSE, lic |-> FALSE, meta |-> meta, tag |-> FALSE]}
       /\ Continue(p, "svcFile", [rq[p] EXCEPT !.verId = FreshVersion])
    \/ /\ pkg # rq[p].pkgId
       /\ Respond(p, "500")
       /\ UNCHANGED versions

\* CreatePackageOrAddFileToExisting.
GetOrAddVersion(p, meta) ==
    /\ pc[p] = "svcVersion"
    /\ \/ \E r \in VersionRows(VersionOf(p)) :
            /\ Continue(p, "svcFile", [rq[p] EXCEPT !.verId = r.id])
            /\ UNCHANGED versions
       \/ VersionRows(VersionOf(p)) = {} /\ CreateVersion(p, meta)
    /\ UNCHANGED <<repo, pkg, files, keys, verdict, events>>

\* CreatePackageAndAddFile: a version that exists is refused.
AddVersion(p, meta) ==
    /\ pc[p] = "svcVersion"
    /\ \/ VersionRows(VersionOf(p)) # {} /\ Respond(p, "409") /\ UNCHANGED versions
       \/ VersionRows(VersionOf(p)) = {} /\ CreateVersion(p, meta)
    /\ UNCHANGED <<repo, pkg, files, keys, verdict, events>>

\* A file row; then stored continues the request.  A name the version has
\* already is a duplicate, a version that is gone an error.
CreateFile(p, stored, onDup) ==
    LET row == [id |-> FreshFile(rq[p].name), vid |-> rq[p].verId, name |-> rq[p].name,
                sha |-> rq[p].sha, props |-> {}]
        dup == \E f \in files : f.vid = row.vid /\ f.name = row.name
        alive == \E v \in versions : v.id = row.vid IN
    /\ pc[p] = "svcFile"
    /\ \/ ~dup /\ alive /\ files' = files \cup {row} /\ stored
       \/ dup /\ UNCHANGED files /\ onDup
       \/ ~dup /\ ~alive /\ UNCHANGED files /\ Respond(p, "500")
    /\ UNCHANGED <<repo, pkg, versions, keys, verdict, events>>

\* The loop of SetProperty calls over rq.todo; then next continues the request.
\* The file may be gone, the property is written all the same.
SetProperties(p, next) ==
    /\ pc[p] = "setProps"
    /\ files' = {IF f.id = rq[p].fileId
                 THEN [f EXCEPT !.props = @ \cup {Head(rq[p].todo)}] ELSE f : f \in files}
    /\ IF Len(rq[p].todo) > 1
         THEN Continue(p, "setProps", [rq[p] EXCEPT !.todo = Tail(@)])
         ELSE next
    /\ UNCHANGED <<repo, pkg, versions, keys, verdict, events>>

\* SetLicense; its error is ignored.
SetLicense(p, next) ==
    /\ pc[p] = "setLicense"
    /\ \/ /\ versions' = {IF v.id = rq[p].verId THEN [v EXCEPT !.lic = TRUE] ELSE v :
                           v \in versions}
          /\ UNCHANGED <<repo, events>>
       \/ Event("fail") /\ UNCHANGED versions
    /\ next
    /\ UNCHANGED <<pkg, files, keys, verdict>>

\* Model.DeleteVersion: the row and, by cascade, its files.
RemoveVersion(vid) ==
    /\ versions' = {v \in versions : v.id # vid}
    /\ files' = {f \in files : f.vid # vid}

\* DELETE of a version: looked up, then deleted.
DeleteLookupVersion(p, v) ==
    /\ pc[p] = "delVersion"
    /\ \/ \E r \in VersionRows(v) : Continue(p, "delApply", [rq[p] EXCEPT !.verId = r.id,
                                                                        !.one = TRUE])
       \/ VersionRows(v) = {} /\ Respond(p, "404")
    /\ UNCHANGED <<repo, rows, keys, verdict, events>>

\* DELETE of a file: the file is looked up ...
DeleteLookup(p, found) ==
    /\ pc[p] = "delFile"
    /\ \/ \E f \in found :
            Continue(p, "delCount", [rq[p] EXCEPT !.verId = f.vid, !.fileId = f.id])
       \/ found = {} /\ Respond(p, "404")
    /\ UNCHANGED <<repo, rows, keys, verdict, events>>

\* ... its siblings are counted ...
IsLastNever(vid) == FALSE
IsLastAlways(vid) == TRUE
IsLast(vid) == Cardinality({f \in files : f.vid = vid}) = 1

DeleteCount(p) ==
    /\ pc[p] = "delCount"
    /\ Continue(p, "delApply", [rq[p] EXCEPT !.one = IsLast(rq[p].verId)])
    /\ UNCHANGED <<repo, rows, keys, verdict, events>>

\* ... and the version goes with its last file.
DeleteApply(p) ==
    /\ pc[p] = "delApply"
    /\ \/ rq[p].one /\ RemoveVersion(rq[p].verId)
       \/ /\ ~rq[p].one
          /\ files' = {f \in files : f.id # rq[p].fileId}
          /\ UNCHANGED versions
    /\ Respond(p, "204")
    /\ UNCHANGED <<repo, pkg, keys, verdict, events>>

\* A download: one lookup, the read gate, the blob (which is never deleted).
ServeFile(p, found) ==
    AnswerAtOnce(p, Status(IF found = {} THEN "404" ELSE IF IsBlocked THEN "403" ELSE "200"))

-----------------------------------------------------------------------------
\* The repository key, GetOrCreateKeyPair, entered at "keyPackage" by formats
\* that take no lock and at "keyCheckIn" by those that do.
KeyPcs == {"keyPackage", "keyPrivate", "keyPublic", "keySetPrivate", "keySetPublic"}

KeyCheckIn(p) ==
    /\ pc[p] = "keyCheckIn"
    /\ holder = None
    /\ holder' = p
    /\ Goto(p, "keyPackage")
    /\ answer' = NoAnswer
    /\ UNCHANGED <<repo, rows, keys, verdict, rq, events, hist>>

KeyPackage(p) ==
    /\ pc[p] = "keyPackage"
    /\ keys' = IF keys.pkg = 0
                 THEN [NoKeys EXCEPT !.pkg = Unused({0} \cup {rq[q].pkgId : q \in Procs})]
                 ELSE keys
    /\ Goto(p, "keyPrivate")
    /\ Set(p, [rq[p] EXCEPT !.pkgId = keys'.pkg])
    /\ hist' = [hist EXCEPT !.twoKeys = @ \/ (0 \in {keys.priv, keys.pub} /\ \E q \in Procs \ {p} : pc[q] \in KeyPcs)]
    /\ answer' = NoAnswer
    /\ UNCHANGED <<repo, rows, verdict, holder, events>>

KeyOf(p, k) == IF keys.pkg = rq[p].pkgId THEN k ELSE 0

KeyPrivate(p) ==
    /\ pc[p] = "keyPrivate"
    /\ Continue(p, "keyPublic", [rq[p] EXCEPT !.priv = KeyOf(p, keys.priv)])
    /\ UNCHANGED <<repo, rows, keys, verdict, events>>

\* Both halves there: they are used.  Otherwise a pair is generated.
FreshKey == Unused({keys.priv, keys.pub} \cup hist.given
                     \cup UNION {{rq[q].priv, rq[q].pub} : q \in Procs})

\* What the request wanted the key for: the public half for a client, or the
\* private half to sign an index, whose entries may lack their metadata.
KeyUsed(p, priv, pub, bare) ==
    /\ Answer(p, [Status("200") EXCEPT !.bare = bare])
    /\ hist' = [hist EXCEPT !.given = @ \cup {IF rq[p].op = "key" THEN pub ELSE priv}]

KeyPublic(p) ==
    LET pub == KeyOf(p, keys.pub) IN
    /\ pc[p] = "keyPublic"
    /\ IF rq[p].priv # 0 /\ pub # 0
         THEN KeyUsed(p, rq[p].priv, pub, rq[p].one)
         ELSE Continue(p, "keySetPrivate", [rq[p] EXCEPT !.priv = FreshKey, !.pub = FreshKey])
    /\ UNCHANGED <<repo, rows, keys, verdict, events>>

KeySetPrivate(p) ==
    /\ pc[p] = "keySetPrivate"
    /\ keys' = IF keys.pkg = rq[p].pkgId THEN [keys EXCEPT !.priv = rq[p].priv] ELSE keys
    /\ Continue(p, "keySetPublic", rq[p])
    /\ UNCHANGED <<repo, rows, verdict, events>>

KeySetPublic(p) ==
    /\ pc[p] = "keySetPublic"
    /\ keys' = IF keys.pkg = rq[p].pkgId THEN [keys EXCEPT !.pub = rq[p].pub] ELSE keys
    /\ KeyUsed(p, rq[p].priv, rq[p].pub, rq[p].one)
    /\ UNCHANGED <<repo, rows, verdict, events>>

KeyStep(p) == KeyCheckIn(p) \/ KeyPackage(p) \/ KeyPrivate(p) \/ KeyPublic(p)
                \/ KeySetPrivate(p) \/ KeySetPublic(p)

-----------------------------------------------------------------------------
\* An index: the rows that are not quarantined, of one coordinate or of all ...
Listed(n) == {f \in files : n \in {None, f.name} /\ \E v \in versions : v.id = f.vid /\ ~v.quar}

ListRows(p, entries) ==
    LET ids == {f.id : f \in entries} IN
    /\ pc[p] = "listRows"
    /\ \/ ids = {} /\ Respond(p, "404")
       \/ ids # {} /\ Continue(p, "listProps", [rq[p] EXCEPT !.ids = ids])
    /\ UNCHANGED <<repo, rows, keys, verdict, events>>

\* ... and, file by file, the property that describes it.  An entry without it,
\* or whose version has gone meanwhile, is listed all the same: is there one?
ListProps(p, prop) == \E i \in rq[p].ids : ~ \E f \in files : f.id = i /\ prop \in f.props

\* An index that is sent as it is, or signed first.
Index(p, prop) ==
    /\ pc[p] = "listProps"
    /\ Answer(p, [Status("200") EXCEPT !.bare = ListProps(p, prop)])
    /\ UNCHANGED <<repo, rows, keys, verdict, events, hist>>
SignIndex(p, l, prop) ==
    /\ pc[p] = "listProps"
    /\ Continue(p, l, [rq[p] EXCEPT !.one = ListProps(p, prop), !.ids = {}])
    /\ UNCHANGED <<repo, rows, keys, verdict, events>>

-----------------------------------------------------------------------------
\* The administrator, failures and restarts.
ChangeVerdict(v) ==
    /\ Event("rule")
    /\ v # verdict
    /\ verdict' = v
    /\ answer' = NoAnswer
    /\ UNCHANGED <<rows, keys, ctl, hist>>

\* The administrator's deletes are writes too.
Disturb ==
    /\ rq' = [q \in Procs |-> [rq[q] EXCEPT !.met = Watched(rq[q])]]
    /\ answer' = NoAnswer
    /\ UNCHANGED <<pc, holder>>

NamesIn(vid) == {f.name : f \in {x \in files : x.vid = vid}}

DeleteVersion(r) ==
    /\ Event("delete")
    /\ RemoveVersion(r.id)
    /\ hist' = [hist EXCEPT !.acked = @ \ NamesIn(r.id), !.tagged = FALSE, !.sole = None,
                            !.crossed = @ \/ InFlight(Writes)]
    /\ Disturb
    /\ UNCHANGED <<pkg, keys, verdict>>

DeletePackage ==
    /\ Event("delete")
    /\ pkg # 0
    /\ pkg' = 0 /\ versions' = {} /\ files' = {}
    /\ hist' = [hist EXCEPT !.acked = {}, !.tagged = FALSE, !.sole = None,
                            !.crossed = @ \/ InFlight(Writes)]
    /\ Disturb
    /\ UNCHANGED <<keys, verdict>>

\* The synthetic package is listed like any other, and can be deleted.
DeleteKeyPackage ==
    /\ Event("deletekey")
    /\ keys.pkg # 0
    /\ keys' = NoKeys
    /\ hist' = [hist EXCEPT !.rekeyed = TRUE]
    /\ answer' = NoAnswer
    /\ UNCHANGED <<rows, verdict, ctl>>

SetQuarantine(r) ==
    /\ Event("quarantine")
    /\ versions' = (versions \ {r}) \cup {[r EXCEPT !.quar = ~@]}
    /\ answer' = NoAnswer
    /\ UNCHANGED <<pkg, files, keys, verdict, ctl, hist>>

\* A call of the handler returns an error: 500, nothing is undone.
Fail(p) ==
    /\ Event("fail")
    /\ p \in Busy
    /\ Answer(p, Status("500"))
    /\ hist' = [hist EXCEPT !.broken = TRUE]
    /\ UNCHANGED <<rows, keys, verdict>>

Crash ==
    /\ Event("crash")
    /\ Busy # {}
    /\ pc' = [p \in Procs |-> "idle"]
    /\ rq' = [p \in Procs |-> NoLocal]
    /\ answer' = NoAnswer
    /\ holder' = None
    /\ hist' = [hist EXCEPT !.broken = TRUE]
    /\ UNCHANGED <<rows, keys, verdict>>

Environment ==
    \/ \E v \in Verdicts : ChangeVerdict(v)
    \/ \E r \in versions : DeleteVersion(r) \/ SetQuarantine(r)
    \/ DeletePackage \/ DeleteKeyPackage
    \/ \E p \in Procs : Fail(p)
    \/ Crash
=============================================================================
