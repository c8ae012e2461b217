------------------------------ MODULE Registry ------------------------------
(***************************************************************************)
(* What the pull-through formats (PyPI, RubyGems, Go) share: the rows of   *)
(* one package of one tenant, the policy engine's verdict on a version,    *)
(* the ingest service, the upstream registry and the administrator.  The   *)
(* HTTP handlers of a format are in the module of that format.             *)
(*                                                                         *)
(* Here the service is three steps (package, version, file); module Ingest *)
(* has it statement by statement, with the race its LastInsertId loses.    *)
(*                                                                         *)
(* An id is only ever compared with rows and with ids that a request       *)
(* remembers, so AUTOINCREMENT is modelled as "an id nobody refers to".    *)
(***************************************************************************)
EXTENDS Naturals, FiniteSets

CONSTANTS
    Procs,       \* requests in flight
    Vers,        \* versions of the package
    Files,       \* file names
    VerOf,       \* the version a file belongs to
    Contents,    \* what a file's bytes can be
    Young,       \* versions upstream published inside the cooldown window
    Rules,       \* rules an administrator may put in force
    Licenses,    \* licenses uploads declare, within License
    Env,         \* which of EnvKinds happen in a run
    MaxEvents,   \* bound: how many of them
    NoFile, NoContent

License == {"none", "ok", "bad"}

Rule == [kind : {"none", "cooldown", "license"},
         action : {"warn", "quarantine", "deny"}]
NoRule == [kind |-> "none", action |-> "warn"]

EnvKinds == {"rule", "mode", "upstream", "delete", "flip", "quarantine", "fail", "crash"}

ASSUME ProcsAssumption == IsFiniteSet(Procs)
ASSUME VerOfAssumption == VerOf \in [Files -> Vers]
ASSUME RulesAssumption == Rules \subseteq Rule /\ NoRule \in Rules
ASSUME EnvAssumption == Env \subseteq EnvKinds /\ MaxEvents \in Nat
ASSUME NoneAssumption == NoFile \notin Files /\ NoContent \notin Contents

VARIABLES
    pkg,       \* the packages row [id, via]; id 0 when there is none
    versions,  \* [id, pkg, ver, lic, pub, quar]: license, whether upstream's
               \* publish time is stamped, quarantine_reason IS NOT NULL
    files,     \* [vid, file, sha, src, want]; src and want are history: who
               \* sent the bytes, and the hash upstream's index advertised
    rule,      \* the rule in force (the engine's snapshot)
    mode,      \* tenant_upstreams: pull-through is on
    up,        \* what upstream serves now
    pc, rq,    \* where each request is, and its locals
    resp,      \* the last response each client got
    events,    \* environment events so far (bounded by MaxEvents)
    overlapped \* history: an upload has been in flight together with a request
               \* that may pull through

rows == <<pkg, versions, files>>
world == <<rule, mode, up>>
history == <<events, overlapped>>
vars == <<rows, world, pc, rq, resp, history>>

CreatedVia == {"uploaded", "pull_through"}
NoAttrs == [lic |-> "none", pub |-> FALSE]

\* A request's locals.
NoLocal == [op |-> "none", file |-> NoFile,
            sha |-> NoContent,             \* the HashedBuffer
            lic |-> "none",                \* the license sent along
            pkgId |-> 0, verId |-> 0,
            via |-> "none",                \* created_via as looked up
            want |-> NoContent,            \* the advertised hash (Go: the go.mod)
            havePub |-> FALSE,             \* the publish time was fetched
            attrs |-> NoAttrs,             \* of the version row as loaded
            local |-> {}]                  \* index entries so far

NoResp == [code |-> "none", file |-> NoFile, sha |-> NoContent, local |-> {}, up |-> {}]

Init ==
    /\ pkg = [id |-> 0, via |-> "none"]
    /\ versions = {} /\ files = {}
    /\ rule \in Rules
    /\ mode = TRUE
    /\ up \in [Files -> Contents \cup {NoContent}]
    /\ pc = [p \in Procs |-> "idle"]
    /\ rq = [p \in Procs |-> NoLocal]
    /\ resp = [p \in Procs |-> NoResp]
    /\ events = 0
    /\ overlapped = FALSE

-----------------------------------------------------------------------------
\* The policy engine: the verdict of rule r on version v with attributes a.

\* cooldown, time_source upstream_publish: without a publish time the age is
\* the ingest age, which stays below the window for as long as a run lasts.
CooldownEvaluate(r, v, a) == IF a.pub /\ v \notin Young THEN "allow" ELSE r.action

\* license_allow with on_unknown at its default, "warn".
LicenseEvaluate(r, a) ==
    CASE a.lic = "ok"   -> "allow"
      [] a.lic = "bad"  -> r.action
      [] a.lic = "none" -> "warn"

Evaluate(r, v, a) ==
    CASE r.kind = "cooldown" -> CooldownEvaluate(r, v, a)
      [] r.kind = "license"  -> LicenseEvaluate(r, a)
      [] r.kind = "none"     -> "allow"

IsBlocked(d) == d \in {"quarantine", "deny"}

AttrsOf(row) == [lic |-> row.lic, pub |-> row.pub]

-----------------------------------------------------------------------------
\* Rows.

LiveVersionRows(k, v) == {r \in versions : r.pkg = k /\ r.ver = v /\ ~r.quar}
VersionRows(k, v) == {r \in versions : r.pkg = k /\ r.ver = v}
FileRows(vid, f) == {x \in files : x.vid = vid /\ x.file = f}

\* The file rows GetPackage, GetVersion and ListFilesByVersion lead to.
Found(f) == {h \in versions \X files :
                h[1].pkg = pkg.id /\ h[1].ver = VerOf[f] /\ h[2].vid = h[1].id /\ h[2].file = f}

\* An id outside S.
Unused(S) == CHOOSE n \in 1 .. Cardinality(S) + 1 : n \notin S

FreshPackage == Unused({pkg.id} \cup {rq[p].pkgId : p \in Procs})
FreshVersion == Unused({r.id : r \in versions} \cup {rq[p].verId : p \in Procs})

Goto(p, l) == pc' = [pc EXCEPT ![p] = l]

\* The request is answered; its locals are gone.
RespondWith(p, r) ==
    /\ Goto(p, "idle")
    /\ rq' = [rq EXCEPT ![p] = NoLocal]
    /\ resp' = [resp EXCEPT ![p] = r]

Respond(p, code) == RespondWith(p, [NoResp EXCEPT !.code = code, !.file = rq[p].file])
ServeBytes(p, c) ==
    RespondWith(p, [NoResp EXCEPT !.code = "200", !.file = rq[p].file, !.sha = c])

\* A request arrives.
MayPullThrough == {"download", "info", "mod", "zip", "latest"}
Overlap(a, b) == a = "upload" /\ b \in MayPullThrough

Begin(p, l, locals) ==
    /\ pc[p] = "idle"
    /\ Goto(p, l)
    /\ rq' = [rq EXCEPT ![p] = locals]
    /\ resp' = [resp EXCEPT ![p] = NoResp]
    /\ overlapped' = (overlapped \/ \E q \in Procs :
            Overlap(locals.op, rq[q].op) \/ Overlap(rq[q].op, locals.op))
    /\ UNCHANGED <<rows, world, events>>

-----------------------------------------------------------------------------
\* The ingest service.

\* getOrCreatePackage: created_via is set by whoever inserts the row.
GetOrCreatePackage(p, via) ==
    /\ pc[p] = "svcPackage"
    /\ pkg' = IF pkg.id = 0 THEN [id |-> FreshPackage, via |-> via] ELSE pkg
    /\ rq' = [rq EXCEPT ![p].pkgId = pkg'.id]
    /\ Goto(p, "svcVersion")
    /\ UNCHANGED <<versions, files, world, resp, history>>

NewVersion(p) ==
    [id |-> FreshVersion, pkg |-> rq[p].pkgId, ver |-> VerOf[rq[p].file],
     lic |-> "none", pub |-> FALSE, quar |-> FALSE]

\* CreateVersion, and the version's foreign key; onErr is the handler's answer
\* to an error.
CreateVersion(p, next, onErr) ==
    \/ /\ pkg.id = rq[p].pkgId
       /\ versions' = versions \cup {NewVersion(p)}
       /\ rq' = [rq EXCEPT ![p].verId = FreshVersion]
       /\ Goto(p, next)
       /\ UNCHANGED resp
    \/ /\ pkg.id # rq[p].pkgId
       /\ onErr
       /\ UNCHANGED versions

\* CreatePackageAndAddFile: an existing version is refused.
AddVersion(p, next, onErr) ==
    /\ pc[p] = "svcVersion"
    /\ \/ /\ VersionRows(rq[p].pkgId, VerOf[rq[p].file]) # {}
          /\ Respond(p, "409")
          /\ UNCHANGED versions
       \/ /\ VersionRows(rq[p].pkgId, VerOf[rq[p].file]) = {}
          /\ CreateVersion(p, next, onErr)
    /\ UNCHANGED <<pkg, files, world, history>>

\* CreatePackageOrAddFileToExisting: an existing version is used.
GetOrAddVersion(p, next, onErr) ==
    /\ pc[p] = "svcVersion"
    /\ \/ \E r \in VersionRows(rq[p].pkgId, VerOf[rq[p].file]) :
            /\ rq' = [rq EXCEPT ![p].verId = r.id, ![p].attrs = AttrsOf(r)]
            /\ Goto(p, next)
            /\ UNCHANGED <<versions, resp>>
       \/ /\ VersionRows(rq[p].pkgId, VerOf[rq[p].file]) = {}
          /\ CreateVersion(p, next, onErr)
    /\ UNCHANGED <<pkg, files, world, history>>

\* Storage.Save, GetOrCreateBlob and CreateFile; a duplicate file name is an
\* error that onDup answers, any other is onErr's.
CreateFile(p, src, next, onDup, onErr) ==
    LET vid == rq[p].verId
        f == rq[p].file IN
    /\ pc[p] = "svcFile"
    /\ \/ /\ FileRows(vid, f) # {}
          /\ onDup
          /\ UNCHANGED files
       \/ /\ FileRows(vid, f) = {}
          /\ \A r \in versions : r.id # vid
          /\ onErr
          /\ UNCHANGED files
       \/ /\ FileRows(vid, f) = {}
          /\ \E r \in versions : r.id = vid
          /\ files' = files \cup {[vid |-> vid, file |-> f, sha |-> rq[p].sha,
                                   src |-> src, want |-> rq[p].want]}
          /\ Goto(p, next)
          /\ UNCHANGED <<rq, resp>>
    /\ UNCHANGED <<pkg, versions, world, history>>

\* UPDATE package_versions ... WHERE id = vid.
Updated(vid, new(_)) == {IF r.id = vid THEN new(r) ELSE r : r \in versions}

-----------------------------------------------------------------------------
\* The rest of the world.
Event(kind) ==
    /\ kind \in Env
    /\ events < MaxEvents
    /\ events' = events + 1
    /\ UNCHANGED overlapped

\* Rules are edited and refreshed, or a cooldown window ends.
ChangeRule(r) ==
    /\ Event("rule")
    /\ r # rule
    /\ rule' = r
    /\ UNCHANGED <<rows, mode, up, pc, rq, resp>>

\* An administrator changes the tenant's upstream mode.
SetMode ==
    /\ Event("mode")
    /\ mode' = ~mode
    /\ UNCHANGED <<rows, rule, up, pc, rq, resp>>

\* Upstream publishes, replaces or removes a file.
UpstreamChanges(f, c) ==
    /\ Event("upstream")
    /\ up[f] # c
    /\ up' = [up EXCEPT ![f] = c]
    /\ UNCHANGED <<rows, rule, mode, pc, rq, resp>>

DeleteVersion(r) ==
    /\ Event("delete")
    /\ versions' = versions \ {r}
    /\ files' = {x \in files : x.vid # r.id}
    /\ UNCHANGED <<pkg, world, pc, rq, resp>>

DeletePackage ==
    /\ Event("delete")
    /\ pkg.id # 0
    /\ pkg' = [id |-> 0, via |-> "none"]
    /\ versions' = {} /\ files' = {}
    /\ UNCHANGED <<world, pc, rq, resp>>

\* The console's "Flip to ..." form.
SetPackageCreatedVia(v) ==
    /\ Event("flip")
    /\ pkg.id # 0 /\ pkg.via # v
    /\ pkg' = [pkg EXCEPT !.via = v]
    /\ UNCHANGED <<versions, files, world, pc, rq, resp>>

\* The administrator's reject: QuarantineVersion with an operator's note.
RejectVersion(r) ==
    /\ Event("quarantine")
    /\ versions' = Updated(r.id, LAMBDA x : [x EXCEPT !.quar = TRUE])
    /\ UNCHANGED <<pkg, files, world, pc, rq, resp>>

PromoteVersion(r) ==
    /\ Event("quarantine")
    /\ r.quar
    /\ versions' = Updated(r.id, LAMBDA x : [x EXCEPT !.quar = FALSE])
    /\ UNCHANGED <<pkg, files, world, pc, rq, resp>>

\* A call of the handler returns an error: it answers, with some error status,
\* and undoes nothing.
Fail(p) ==
    /\ Event("fail")
    /\ pc[p] # "idle"
    /\ Respond(p, "500")
    /\ UNCHANGED <<rows, world>>

\* The process dies and starts again.
Crash ==
    /\ Event("crash")
    /\ \E p \in Procs : pc[p] # "idle"
    /\ pc' = [p \in Procs |-> "idle"]
    /\ rq' = [p \in Procs |-> NoLocal]
    /\ resp' = [p \in Procs |-> IF pc[p] = "idle" THEN resp[p] ELSE NoResp]
    /\ UNCHANGED <<rows, world>>

Environment ==
    \/ \E r \in Rules : ChangeRule(r)
    \/ SetMode
    \/ \E f \in Files, c \in Contents \cup {NoContent} : UpstreamChanges(f, c)
    \/ \E r \in versions : DeleteVersion(r) \/ RejectVersion(r) \/ PromoteVersion(r)
    \/ DeletePackage
    \/ \E v \in CreatedVia : SetPackageCreatedVia(v)
    \/ \E p \in Procs : Fail(p)
    \/ Crash

-----------------------------------------------------------------------------
(* What the formats promise about rows and responses, each checked for the
   formats that make the promise. *)

Served(p) == resp[p].code = "200" /\ resp[p].sha # NoContent

\* A cooldown rule that stays in force hides young versions from every client
\* of PyPI and RubyGems, the one whose request fetched them included: "or the
\* very first downloader bypasses every quarantine" (pypi/upstream.go).
YoungNeverServed == "rule" \notin Env => \A p \in Procs :
    Served(p) => ~ /\ rule.kind = "cooldown" /\ IsBlocked(rule.action)
                   /\ VerOf[resp[p].file] \in Young

\* Gems pulled through are the bytes the compact index announced, even when
\* upstream replaces the gem between the two fetches: its checksum "is the only
\* thing standing between us and a mid-flight tamper" (rubygems/upstream.go).
GemVerified == \A x \in files : x.src = "upstream" => x.sha = x.want

\* Neither a push nor a pull-through of a gem brings a yanked version back: only
\* an administrator's promotion or deletion does (the yank's quarantine row).
YankedNotReplaced == [][\A r \in versions, s \in versions' :
    r.quar /\ s.pkg = r.pkg /\ s.ver = r.ver /\ ~s.quar => events' # events]_vars
=============================================================================
