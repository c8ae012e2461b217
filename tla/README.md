# pkgmirror in TLA+

A verification project for `pkgmirror`, a multi-tenant package registry and
pull-through mirror written in Go: SQLite for rows, a content-addressed
directory for bytes, one HTTP server with a handler package per format. The
modules translate the parts of the program that keep state across requests or
whose steps interleave; TLC checks them on small instances, and TLAPS proves
the facts that matter most for every instance.

Paths below are relative to `src/`.

## 1. Inventory

| Part | State | Operations | Talks to | What is hard | What makes it correct |
|---|---|---|---|---|---|
| Ingest service: `internal/packages/service.go`, `internal/models/models.go` | five tables (packages, versions, blobs, files, properties) | `CreatePackageAndAddFile`, `CreatePackageOrAddFileToExisting`, `OpenFile`, deletes, provenance flip | storage; called by every format | no transaction around an ingest; pooled connections; cascades; crash between statements | blob rows have bytes; file rows resolve; a file row is what its client sent |
| Object store: `internal/storage/storage.go` | objects by sha256 | `Save` (temp file, rename), `Open`, `Stat` | ingest, container | crash between bytes and row | bytes precede the row that names them |
| Keyed lock: `internal/syncutil/exclusive_pool.go` | map of mutexes with reference counts | `CheckIn`, `CheckOut` | maven, nuget, debian, rpm | two locks, with gaps between them | exclusion per key, no stranded waiter, bounded map, every `CheckIn` returns |
| PyPI: `internal/packages/pypi` | rows of the package | upload, simple index with upstream merge, download with pull-through | ingest, policy, upstream | gate read before the ingest; publish time written after the row was loaded; upstream changes between two fetches | verified bytes, hidden versions stay hidden, provenance kept, interrupted ingest heals |
| RubyGems: `internal/packages/rubygems` | rows of the gem | push, yank, `/info`, `/versions`, download with pull-through | the same | the same; yank is a quarantine row; license inside the gem | the same; yanked stays yanked |
| Go proxy: `internal/packages/goproxy` | rows of the module, go.mod as a property | upload, list, info, mod, zip, @latest, eager ingest | the same | three endpoints share one ingest; go.mod written between version and file | one verdict for all endpoints; `.mod` and `.zip` of one tree |
| OCI registry: `internal/packages/container` | upload sessions (staging file, hash, size); blob/manifest properties; tags | begin, append, finalize, cancel, sweep; push, tag, delete, pull | storage, ingest, policy | session used by two requests at once; sweep against requests; restart | stored bytes match the digest; one owner per session; no leaked staging file; tagged image complete |
| Policy: `internal/policy`, rules pages of `internal/admin` and `internal/console` | rules table, engine snapshot | upsert, enable, delete, YAML sync, refresh, cascade by specificity, verdicts (cooldown, license) | every format's gates; audit | look-up-then-write upsert; snapshot up to 30 s old; failed pulls; a verdict depends on attributes written later | the engine decides what the table says, soon after it changed; an upsert stands |
| Upstream: `internal/upstream`, `internal/upstreamstore` | single-flight table, metadata cache, token buckets, rows per tenant | `Fetch`, `doFetch`, cache get/put/refresh, `Allow`, upsert and reset of a row | PyPI, RubyGems, Go | shared response, byte budget, TTL, refill at the boundary, configuration edited under a fetch | cache within its budget; answers of bounded age, of the right upstream; rate within the limit; whole bodies |
| Audit log: `internal/audit` | bounded queue, drop counter, table | `Log`, `Close`, drain, prune | policy engine, admin, console | full queue; `Close` against `Log`; rows whose foreign keys went | every event that is owed is stored, on its way or counted |
| npm, Maven, NuGet, generic | rows | publish, delete, dist-tags, pom backfill, two files per version | ingest, keyed lock (Maven, NuGet) | counting files before deleting; tags cleared version by version; pom before or after the jar | acknowledged files stay; no empty version; a tag resolves; metadata is the pom's |
| Debian, RPM, Alpine, CRAN | rows, repository key, index generated per read | upload, delete, signed index, key | ingest, keyed lock (Debian, RPM) | file visible before its description; key made on first use; noarch fan-out | every entry described; one key for good |
| Users, tokens, tenants, authentication | rows | mint, revoke, expire, members, visibility; checks of each route | every handler | revocation against requests in flight, parts read one after another | who gets in had a live credential and a role since the request came |
| Console: pages, login, sessions, CSRF, login limiter, one-shot values | cookies, counters | login, logout, forms | everything | counters at their limit | one use per one-shot value |
| Configuration, bootstrap, wiring, UI | none of their own | start-up, shutdown | policy, audit | what a restart sets back | no event lost by a clean shutdown |
| Migrations: `internal/db/db.go` | schema version | `Open`, `migrate` | | crash between two migrations, existing rows | each migration applied once |
| Command line, dedup tool | none | | | | |

The components with their status, and the hazards with the line where each one
bites and the properties that would catch it, are in `PROJECT.json`.

How they interact: a request passes authentication and policy middleware and
reaches the handler of its format. Handlers share nothing in memory except the
keyed lock, the upload tracker and the upstream cache; everything else meets in
SQLite, one statement at a time, and in the object directory. The administrator
(deletions, provenance flip, reject/promote, rules, upstream mode) is one more
concurrent writer.

## 2. Modules

| Module | Models | Notes |
|---|---|---|
| `KeyedLock` | what `ExclusivePool` promises: a lock per identity | abstract specification |
| `ExclusivePool` | `exclusive_pool.go`, step by step | `KeyedLockSpec` is the refinement; `ExclusivePoolProofs` the proofs |
| `Ingest` | the two ingest functions statement by statement, SQLite's ids, cascades and `last_insert_rowid`, storage, deletes, failures, crash | `IngestProofs` the proofs |
| `Registry` | what the pull-through formats share: rows of one package, the ingest in three steps, verdicts, upstream, administrator; the properties that more than one format has, or that RubyGems has | extended by the next four |
| `GoModule` | what Go keeps beside those rows, the go.mod properties, and what it promises | extended by `GoProxy` |
| `PyPI`, `RubyGems`, `GoProxy` | the handlers of the format | `PullThroughProofs` the proofs, of all three |
| `UploadTracker` | `container/upload.go` and the handlers of blob uploads | `UploadTrackerProofs` the proofs |
| `Container` | manifests, tags, blobs and pulls of one OCI repository | `ContainerProofs` the proofs |
| `Hosted` | what the eight formats without pull-through share: rows, ingest, delete, listing, repository key, administrator | extended by the next eight |
| `Debian`, `Rpm`, `Alpine`, `Cran`, `Generic`, `Maven`, `NuGet`, `Npm` | the handlers of the format | composed by `HostedFormats`, which states the properties; `HostedProofs` the proofs, for all eight at once |
| `MetadataCache` | `upstream/metadata_cache.go`, as operators on a cache value | used by `Upstream` |
| `Upstream` | `Fetch`: configuration, cache, token bucket, single flight, body; the administrator's rows | `UpstreamProofs` the proofs, of the cache's operators too |
| `Policy` | rules, cascade, the two evaluators as operators; the reference the cascade is compared with | used by `Gate` |
| `Access` | `auth.go`: identities, scopes, roles | instantiated by `Gate` |
| `Gate` | authentication, engine with its refresher, audit log, administrators, start and shutdown | `GateProofs` the proofs, of the cascade's operators too |
| `MC_*` | definitions that give the constants their values | nothing is redefined |

### How state and actions correspond to the code

**ExclusivePool.** `pool`, `count` are the two maps, `lock` is `p.lock` where it
is held over more than one step, `locked` the set of locked per-key mutexes.
`CheckInRegister` is `CheckIn` up to `p.lock.Unlock()`; `CheckInLock` is
`mu.Lock()`; `CheckOutUnlock` takes `p.lock`, looks the mutex up and unlocks it;
`CheckOutDrop` tests and decrements the count and releases `p.lock`. The gap
between the last two is where a waiter can get in.

**Ingest.** A table is a set of records, one action per SQL statement, each on
any connection of the pool. `lastId[c]` is what SQLite's
`last_insert_rowid()` returns on a connection, which an
`INSERT ... ON CONFLICT DO NOTHING` that does nothing leaves alone. `files` rows
carry a history field `want` (the request that inserted them). `Fail` ends a
call with an error anywhere, `Crash` kills all calls, `Reconnect` is a
connection that the pool replaces. `lostRace` is a history variable, see the
findings. Content is named by its hash; hash collisions are left out.

**Registry and formats.** The rows of one package of one tenant. `rule` is the
rule in force (kind and action); `Evaluate` the verdict of the cooldown or
license evaluator on a version row *as the request loaded it*, which is how the
gates after an ingest can see less than the next reader. Every call of a handler
to the database, the engine or upstream is a step; the `SELECT`s of one lookup
are one step, since what a deletion between two of them yields, a deletion
before the first yields too. The ingest is three steps here (package, version,
file) since `Ingest` has it in full. `resp` is the last answer each client got,
`overlapped` records that an upload and a request that may pull through were in
flight together. `Env` selects which environment events a run has, `MaxEvents`
how many.

**UploadTracker.** The mutex of the tracker covers the map only, so the file,
the running hash and the size are updated by separate steps of `Append`, and
unsynchronised updates that meet have a nondeterministic result (the last write
wins, or the hash is `Garbled`). Bytes are sequences of chunks, the digest of a
sequence the sequence itself. `Sweep` is the idle sweeper in its two phases
(collect under the mutex, then close and remove), `Restart` a crash with the
orphan sweep of the next start. `spoiled` marks sessions that two requests used
at once or whose write failed half way.

**Container.** One repository: its `container.blob` and `container.manifest`
properties, tags as version rows whose metadata names a manifest, blob rows and
objects. A push of a manifest checks its references (`container.blob` only, for
child manifests too), stores the bytes, writes both properties, then the tag with
its file row. A pull resolves the tag, then fetches every reference afresh: a layer
by `GET blobs`, a child manifest of an index by `GET manifests/<digest>`, which wants
`container.manifest` (`ResolveDigest`), and then that child's references. The two
get-or-creates (`RepoPackage`, `GetOrCreateBlob`) are the code's `SELECT`, `INSERT ...
DO NOTHING` and `LastInsertId`: the loser of a race may go on with the id of another
row. `Excused` names the exceptions of the three properties, and all of them: a
property write that failed unnoticed or a repository deleted under a request that
had looked it up (`tainted`), and a lost race that gave a wrong id (`lostRace`).
`cut` marks pushes whose digest was deleted while they ran; they promise the blob,
not the manifest. The verdict of each gate is arbitrary, since rules change at any
time. The id of a blob row is written as the digest the row is or will be for.
What a misled request writes into another repository is left out (`Elsewhere`),
and what it finds there is arbitrary.

**Hosted formats.** A behaviour is about one package in one repository of one
format (rows of two formats never meet, and each has its own lock pool). The
ingest is three steps as in `Registry`; deletion is look up, count, apply, as in
the code; an index is two steps, rows and then the property that describes each
file. Keys: `GetOrCreateKeyPair` step by step, under the pool in Debian and RPM,
bare in Alpine. What an index contains is one flag, "some entry lacks its
description". `hist` records what the properties except: overlapping deletes,
requests that broke off, two first requests for a key. Requests refused by
authentication have no effect and are left to `Gate`.

**Upstream.** One caller passes `Fetch` (configuration), `CacheGet`, `Allow`,
`Do` (lead or join the flight), `Respond` (the answer arrives), `FinishFetch`
(cache and hand out) and the reading of the body, chunk by chunk, with the size
cap. Time is a clock of ticks; a flight lasts at most `FetchTimeout` ticks, and
no tick falls between reading the configuration and sending the request, which
are microseconds apart. A 304 comes only for a validator that upstream gave (no
handler sends conditional requests, so it needs a cached entry that expired).
Buckets count sixtieths of a token, so that the float arithmetic of the code is
exact. The callers of a flight share its reader.

**Policy, Access, Gate.** A handler is authenticated in the code's steps (token,
memberships, then the route's check with visibility), then evaluates on the
snapshot or changes a table, and logs. The refresher lists and then swaps
(`List`, `Refresh`); the drainer takes an event and then inserts it (`Drain`,
`Write`), and the insert respects the foreign keys of `audit_log`. `Boot` is
`main` from the database to the listening socket in one step, since nothing else
runs: `bootstrap.Ensure`, the policy file (of one rule at most), the first pull.
`Shutdown`, `Close` and `Exit` are the end of `main` with its deferred calls; a
handler that outlives the ten seconds panics on the closed channel, and what it
was about to log is owed to nobody. `sort.Slice` is not stable, so rules that tie
may come out in any order. Users and tenants are constants: the program never
deletes either. The one change of `is_admin`, the promotion of the bootstrap
administrator at sign-in (`console/middleware/proxyauth.go:124`), is left out: it
only gives grounds, and `GrantedOnGrounds` is about access without them. A database error during authentication
makes an anonymous caller, like an unknown token, and has no action of its own;
nor has the default priority of a rule saved with priority 0. A pull of the
rules takes less than a tick.

## 3. Runs

| Run | Instance | Checks and shows |
|---|---|---|
| `exclusive_pool` | 3 goroutines, 2 identities, 3 mutexes | exclusion; the inductive invariant of the proof (counts, map, owners), from which `OwnMutex` and `NoStranded` are proved; every `CheckIn` returns; the pool implements `KeyedLock` |
| `ingest` | 2 calls of 3 kinds of request, 2 connections | blob rows have bytes, file rows resolve, rows are what was sent unless a race was lost; the inductive invariant |
| `pypi` | 2 requests, 1 file, 2 contents, 4 rules; upstream, deletions, failures | stored bytes are those the index advertised; young versions are not served, to the first client either; an upload lands in a mirrored package only if it overlapped a download |
| `pypi_live` | 2 requests, rule change, mode, deletion, quarantine, failure, crash | the gate after an ingest decides as the next read does; a client that keeps asking gets the file once nothing interferes |
| `rubygems` | 2 requests, 1 gem, 2 contents, 3 rules; all events but rule changes | checksums, young gems, yanked versions not replaced |
| `goproxy` | 2 requests, 1 version, 2 trees, 3 rules | one verdict for info, mod, zip and @latest; `.mod` and `.zip` of one tree, unless an upload and a pull-through overlapped or upstream replaced the version |
| `uploads` | 2 requests, 1 session, files of up to 2 chunks | digest and size of what is stored; one owner per session; no staging file leaks; idle files are removed |
| `container` | 2 requests, 1 tag, an image and an index over it | what a tag or a digest gives is complete; what was answered 201 stays until it is deleted; a pull stops half way only at a child manifest that was deleted by digest or never acknowledged as one; `Excused` apart |
| `hosted_formats` | 2 requests, 2 files (npm: 2 versions), 9 repositories of 8 formats, 1 event | acknowledged files stay; no version without files; listed files are described; one repository key; dist-tags resolve; Maven metadata is the pom's |
| `upstream` | 2 callers, 2 tenants, 4 documents, 3 scenarios | the cache's books; age and origin of what is served; rate bound over any span; whole bodies for a caller alone on its flight |
| `gate` | 2 handlers, 10 scenarios of up to 4 operations, 2 tenants, queue of 1 | audit events accounted for; upserts stand; decisions are the table's; rules in force within an interval per failed pull; access on grounds |
| `upstream_shared` | as `upstream` | the finding below: TLC finds the violation |

**Bounds.** Two requests are enough for every race between two handlers; none
of the handlers waits for a third one. The pool gets a third goroutine because
its hard case is a waiter and a newcomer around a `CheckOut`; three mutexes are
one per goroutine, so that an address can be dropped, collected and reused. One
file suffices where files of a package do not interact.
Two contents tell "the bytes that were promised" from others. `MaxRequests`
bounds the calls of `ingest`; requests in the other modules are unbounded, since
an answered request leaves nothing but rows and its answer. `MaxEvents` bounds
what administrators, upstream and failures do: one event at an arbitrary point
between any two steps of two requests already yields the cases of section 4
(`container` also holds with three, for one image without an index). `MaxLen = 2` lets a session be appended to
twice. Symmetry is used over requests (and connections) in runs that check
safety only. In `hosted_formats` two files share a version, since counting and
deleting is what they fight over; a repository either has two files or its key
still to make. `upstream` and `gate` work from scenarios, small sets of requests
and operations, each chosen for one question (a cache of two bytes against
documents of one, two and three; a row edited between fetches; a body over the
cap; a full queue; two saves and a delete of one rule name; a membership that
comes and goes); within a scenario every order and interleaving happens. Rates
are 2 per minute with ticks of 20 s, so that a refill is a fraction of a token.
The queue of one event is full whenever the drainer is one event behind.
`hosted_formats` uses a view that drops the status code of the last answer,
which no property reads.

Deadlock is checked everywhere except in `ingest`, `upstream` and `gate`, whose
bounds on calls, fetches and operations make them stop.

**Fairness.** *Pool:* strong fairness of the lock steps, because Go mutexes hand
over to a waiter after 1 ms (starvation mode); weak fairness of the last step of
`CheckOut`, which callers defer. *PyPI:* handlers run to their end (weak
fairness of a request's steps) and a client that got nothing asks again (strong
fairness of its request); the antecedent of `Heals` says that from some point on
pull-through is on, no rule blocks and upstream has the file. *Uploads:* the
sweeper's goroutine runs for ever and a request that owns a session finishes it;
nothing is assumed of clients, who may stall in a body. The other runs check
safety and assume no fairness.

## 4. Findings

With a run that ends in the violation, **`upstream_shared`**
(`internal/upstream/fetcher.go:114`). The callers that `singleflight` collapses
onto one flight receive the same `*Result`, and with it one reader: for metadata
one `bytes.Reader`, for blobs one HTTP body. One reads what the other then
misses, and may take a part of a document, or nothing, for all of it. The comment
at line 115 says the bytes are "safe to re-read" and that the body of a blob is
never shared. `WholeUnlessShared` says what holds.

Divergences that no run is spent on:

* `models/models.go:215`, also 624: `LastInsertId() > 0` is taken as proof that
  `INSERT ... ON CONFLICT DO NOTHING` inserted. When it did nothing, SQLite still
  reports the previous insert of the same connection, possibly into another
  table; the losing request then puts its file under the wrong package or with
  other bytes. `SentUnlessLostRace` has the exception, and without it TLC finds
  the violation (`FilesAreWhatWasSent` in `Ingest`).
* `pypi/handler.go:505`: a download of a file that an uploaded package lacks goes
  upstream and is stored in it; `docs/supply-chain.md:343` says upstream is
  "never" contacted.
* `goproxy/upstream.go:587`: after a crash or error between the version row and
  the file row of a pull-through, the version counts as persisted; the zip is 404
  until somebody deletes the version.
* `container/handler.go:491`: a second push of a tag with another manifest is
  answered 201 and does not move the tag, since an existing version keeps its
  metadata ("creates/updates a Version row keyed on the tag", line 411).
* `container/handler.go:448` and 635: the references of an index are looked for as
  blobs, but fetched as manifests (line 590). A child that was pushed as a plain
  blob, or whose digest is deleted later, leaves a tagged index that cannot be
  pulled whole, although every push was answered 201. `PullNeverIncomplete` names
  these two cases and shows that there is no other.
* `admin/admin.go:214`: the event of a rule deletion is queued before the delete
  "so the row's rule_id FK still points at a real row", but the drainer may insert
  it after, and the insert fails. `console/rules.go:264` logs after deleting, so
  its event is never stored. Likewise events of a token that is revoked before the
  drainer gets to them, and events that name a rule id which never existed. An
  `INSERT` that fails is counted nowhere; `AuditAccounted` allows one missing event
  for each of them and for each count of `drops`, and no other.
* `policy/rule_store.go:138`: two upserts of a new name at once make two rules of
  it, and an upsert whose row is deleted in between answers with an id that does
  not exist. `UpsertStands` has the exception.
* `console/rules.go:172` accepts rules of kind `license`, which no evaluator reads:
  the evaluator's kind is `license_allow` (`policy/license/license.go:21`).
* `debian/handler.go:511` and its siblings in the other formats: a file uploaded
  between the count and the delete of a version goes with it, though answered 201.
  `AckedFileStays` has the exception. `alpine/index.go:259`: two first requests
  can be given different keys, since no lock is held. `OneRepositoryKey` says so.
* `pypi/handler.go:226`: the provenance gate of an upload is a read before the
  ingest; an overlapping pull-through can create the package in between, although
  "a subsequent manual upload to the same name MUST be refused with 409"
  (`internal/models/models.go:84`). `MirroredUnlessOverlap` has the exception.
* `pypi/handler.go:645`: the read gate ignores `quarantine_reason`; a rejected
  version is still served to who knows its file name ("the version stays hidden",
  `docs/supply-chain.md:478`). `rubygems/handler.go:525` is the same for yanks.
* `pypi/handler.go:264`: a quarantine verdict on an upload never sets
  `quarantine_reason` (`docs/supply-chain.md:451`).
* `pypi/handler.go:396`: the merged index lists upstream's copy of a version that
  is hidden locally (`docs/supply-chain.md:274`).
* `rubygems/upstream.go:608`: the gate after an ingest does not see the license
  written just before; the first client gets what the second is refused
  (`docs/adding-jit-pull-through.md:133`).
* `goproxy/handler.go:141`: `list` of a mirrored module is not merged with
  upstream's (`docs/supply-chain.md:325`, 344).
* `packages/service.go:275`: a version deleted between `CreateVersion` and
  `SetProperty` leaves a property row without an owner.
* `container/upload.go:137`: two requests on one session, or a write that fails
  half way, let bytes be stored under a digest they do not have, against "Safe for
  concurrent use." (line 84). `StoredBytesUnlessSpoiled` has the exception.
* `container/handler.go:640`: deleting a manifest by tag writes a property that
  nothing reads and keeps the version row (comment at 615); deleting by digest
  leaves it reachable through its tag (616).

## 5. Proofs

What TLC checks on the instances of section 3 is proved here for any number of
requests, names, versions, tenants, rules and operations, with any bounds on
events, queue and cache. Each theorem has the named assumptions of its module and
no other; they type the constants and say that the values standing for "none"
are not among the real ones. Two patterns run through all of it. A handler
decides at one call and acts several calls later, so an invariant says, for each
position, what the request has established *and nobody can have undone*; and an
exception that a property makes (`spoiled`, `tainted`, `overlapped`, `raced`,
`hist`) is recorded by a history variable, so that the invariant is carried only
while it does not apply.

**`ExclusivePoolProofs`**, from `ProcsAssumption` (finitely many goroutines,
`NoProc` is none of them) and
`MutexAssumption`: `Invariance` (`Spec => []IInv`), `Exclusion`, `OwnMutex`,
`NoStranded`, `Refinement`. Mutual exclusion is not inductive by itself: `CheckOut` looks the
mutex up again, so the map entry must survive for as long as anyone waits or
holds. `IInv` says so: `count[i]` is the number of goroutines between the start
of `CheckIn` and the end of `CheckOut` (`CountIsUsers`), the map has an entry
exactly for those identities (`PoolIsBounded`), entries are distinct, a waiter's
mutex is the entry (`MuIsPool`), a locked mutex has one holder
(`LockedByHolder`, `OneHolderPerMutex`), and `p.lock` belongs to the goroutine
in the middle of `CheckOut`. The proof goes by action; the counting steps use
lemmas on the cardinality of the set of users. `Refinement` (`Spec =>
KeyedLockSpec`) maps `mu.Lock()` in `CheckIn` to `Acquire`, the `Unlock` in
`CheckOut` to `Release` and every other step to a stutter; it needs mutual
exclusion on both sides of a step, so that the mapping's `CHOOSE` has one answer.

**`IngestProofs`**, from `RequestsAssumption`: `Invariance`, `TypeCorrect`,
`BlobDurability`, `Referential`, `SentIntegrity`. The strengthening: ids are
unique and bounded by the table's counter (`AUTOINCREMENT` never reuses one, so
a local that outlived its row points at nothing rather than at another row),
version and file rows resolve, a request past `Save` has its bytes in the store,
and, unless a race was lost, the locals of a request name the rows it asked for.

**`UploadTrackerProofs`**. `Ownership`, `OneOwner` (`SingleOwner`), `NoLeak`
(`NoLeakedStaging`): that an owned session has one owner is not inductive, since a
new session could carry the UUID of an owned one, and `Finalize` could take a
session the sweeper holds. `OwnershipInv` adds that whatever the map, the sweeper
or a request holds was handed out (UUIDs are not reused), and that the map and the
sweeper's list are disjoint. The actions fall into four kinds (a visitor moves,
an owner moves, an owner leaves with the file, a session passes from the map to
a request), one lemma each, plus `Begin`, the sweeper and the restart. `StoreHolds`,
`StoredBytesHold` (`StoredBytesUnlessSpoiled`), from `GarbledAssumption`: an object
has the bytes its name promises, and its row their size. `Clean` says of an
unspoiled session that at most one request works on it, and that file, hash and size
agree up to the step that request is in; `Finalize` and `Save` then compare and store
what they think they do.

**`ContainerProofs`**, from `RefsAssumption`, `NoneAssumption` and
`ElsewhereAssumption` (the id of another package is not a number of this
repository's): `ImageHolds`, `TaggedImageCompleteHolds`, `AckedStaysHolds`,
`PullNeverIncompleteHolds`. The last is an action property: what no step does is
answer a pull with an incomplete image. `putManifest` looks for the references first
and writes properties and tag many calls later. `ImageInv` carries what is true for
ever once seen (`Known`: the object and its row are there, a blob row's id is the
digest's own unless a race was lost) and what is true with `Excused` apart (`Steady`:
the package looked up is the live one, and which references are linked at this
position, each to its own row). `StepKeeps` shows once that a request's step leaves
the others' knowledge alone; one lemma per group of statements shows what the
request itself then knows (`RepoKeeps` and `RowKeeps` for the get-or-creates, every
outcome of their race included), and deletions get their own, since they are what
takes knowledge away.

**`PullThroughProofs`**, from the assumptions of `Registry`, and for Go of `GoModule`
(`OneZipAssumption`: a version has one zip). `PyPI` is extended; `RubyGems` and
`GoProxy` are instantiated beside it on the same constants and variables, and a few
lemmas (`GemAnswers`, `GoReads`, `GoWorld`, ...) show that what an instance takes from
`Registry` is what `PyPI` takes, so that lemmas about rows, ids and verdicts serve all
three. On version rows in general: `VersionsOk` (ids are unique, a package has a
version once) survives an `INSERT` under a new id, a `DELETE` and an `UPDATE` of a
column that is no key.
- *PyPI*: `PullHolds`, `UpstreamBytesVerifiedHolds`, `YoungNeverServedHolds`,
  `MirroredUnlessOverlapHolds`. `PullInv` says per position what was fetched (the
  bytes have the advertised hash), what the gate decided (no young version is on its
  way to a client, unless rules may change) and what an upload was let through on
  (the package was not mirrored, unless the two overlapped); `Apart` ties the history
  variable to the requests in flight.
- `GateIsNextReadHolds`, an action property: the gate after the ingest judges a row
  that was loaded before the stamp. `Judging` says that the id it remembers, if a row
  has it still, is of the version asked for. That is kept because ids are not given
  out again while a request remembers them, which is where `VersionsOk` comes in.
- *RubyGems*: `GemVerifiedHolds`, `YoungGemNeverServed` (the property is
  `YoungNeverServed`), from `GemInv`, which carries the checksum and the verdict along
  the pull-through; and `YankedNotReplacedHolds`, an action property over all
  handlers: each write of a handler is an `UPDATE` that keeps the quarantine, or an
  `INSERT` of a version that has no row, and a yanked version has one.
- *Go*: `YoungNeverAnsweredHolds`; `ModMatchesZipHolds`. The go.mod is written
  between the version and the zip, by several requests at once. `GoInv` says that an
  upload has its version to itself (`Distinct`) and finds no zip there when it writes
  the go.mod (`UploadOk`); that a pull-through found nothing of the version when it
  began to fetch, so that whatever is stored under it since came from pull-throughs
  too (`PullOk`, `FromUpstream`), which all store the same while upstream stands still;
  and that files and properties go with their version (`GoRows`). A step either is
  `Quiet` (it brings in no file, no go.mod, and no version under a remembered id), and
  nobody's knowledge is touched, or it stores what it may (`GoStored`).

**`HostedProofs`**, from `HostedAssumption`, `NugetAssumption`,
`DefaultNameAssumption`, for all eight formats: `BaseHolds`, `FilesHold`,
`AckedFileStaysHolds`, `NoOrphanVersionHolds`, `ListedIsDescribedHolds`,
`OneRepositoryKeyHolds`, `TagResolvesHolds`, `PomDescribesVersionHolds`. The formats
are put together from the same few steps: `NextKinds` shows that every step of every
format is of one of the kinds of `Kinds`, and from there the proofs go kind by kind.
`Base` types the rows and says which operation is where. On top of it, each property
has its invariant:
- `LockInv` (in the formats with a lock pool, whoever is past `CheckIn` is the
  holder), which the next two need;
- `KeyInv`: a request between the two halves of `GetOrCreateKeyPair` has the pair the
  rows have or will have, and while there is no public key nobody else is in there;
- `PomInv`: a pom whose version has not its metadata has a request on its way, inside
  the lock, to write it;
- `FileInv`: while deletes do not overlap other writes, what a delete has decided to
  remove is acknowledged to nobody, and a version without files is one an upload is
  about to fill;
- `DescInv`: a file without its description has an upload that is writing it, and a
  reader who runs beside an upload is marked as such;
- `TagInv`: a lone `setDistTag` has cleared what it has listed, so that the tag it
  sets is the only one.

**`UpstreamProofs`**, from `UpstreamAssumption`, `NoneAssumption`, `CacheMaxBytesIsNat`:
`RateIsBounded` (`RateBound`), `SharingHolds`, `WholeUnlessSharedHolds`,
`StaleBoundedHolds`, `CacheBooksBalanceHolds`. The rate bound is about any span of time; `BucketsInv` reduces
it to one number per tenant (the bucket plus the largest load of a span that ends
now is within the capacity). `SharingInv`: a caller that shares no
reader has all its reader gave out. `FreshInv` follows an answer from the
configuration read to the body: what a caller asks for was configured when it
started, a flight is no older than its timeout, an entry is when it expires no older
than its time to live and one fetch, and a 304 is about the entry of the URL that was
asked. The cache's operators have lemmas of their own (`RemoveKeeps`, `EvictKeeps`,
...): none of them changes an entry that stays. `Books` is the invariant of the cache
value: the order lists the keys once each, sizes are numbers, the running count is the
sum of the sizes and within the budget. `EvictOldest` removes an unknown number of
entries at once, so the sum over a set has to be taken apart along any subset
(`BytesTake`); that goes by induction over finite sets, whose theorem in the library
takes a predicate. `SetInduction` says the same of a set of sets, which is a value
the provers can instantiate.

**`GateProofs`**, from `GateAssumption`, `ScenarioAssumption` and well-founded
induction on numbers, for any operations: `TypesHold`; `ClockHolds`,
`RulesFreshHolds` (the refresher is never late: one interval per failed pull, and
one); `UpsertStandsHolds` (a name that nobody raced for belongs to one rule, and
stands as the first half of `Upsert` found it); `GrantsHold`,
`GrantedOnGroundsHolds` (what a request read along the way was a ground when it was
read); `CascadeDecidesHolds` (the snapshot is one of the orders `sort.Slice` may give
the enabled rules; in any of them the first rule that matches is the most specific
of those that match and among these has the least priority number, so that the
engine's verdict is one the table allows; `SnapInv`, `Ordered`); `AuditAccountedHolds` (`AuditInv`: an operation's
number is heard by the logger once, so that an event that is neither stored nor on
its way was dropped and counted, or its insert failed). The attempt at the last one
showed that the bound holds event by event, and `AuditAccounted` says so.

Every invariant and every action property that a passing run checks is a theorem.
Only model-checked: liveness and everything under fairness (`CheckInReturns`, `Heals`,
`IdleStagingDrains`; the prover has no rule for it that is usable here, nor for
`ENABLED`).

## 6. Not modelled, and why

Rendering (HTML, JSON, Marshal, XML), parsers of package formats, password
hashing and TLS are pure functions or library code. The console's sessions and
CSRF tokens are cookies signed by a library; its login limiter and one-shot
values are small maps under one mutex and come last in the plan. Migrations run
once at start, each in one transaction with its version number. The configuration
is read from the environment into constants. `policy`'s `safeEvaluate` recovers
from panics the two evaluators do not have. HTTP is a request and an
answer. Left out of the modelled parts: the PyPI root index and the RubyGems
specs endpoints (reads), the order of `created_unix` in Go's `@latest`, media
types, file rows of OCI tags (no handler of that format reads them). Several
tenants: every key of the package tables carries its tenant, so one tenant stands
for all there; `Upstream` and `Gate` have two. Loss of
power that undoes a write the operating system acknowledged is outside.

## 7. Plan

Done: every module of section 2; the theorems of section 5. Next, in this order:

1. Liveness of `Gate`: an edited rule takes effect, the queue drains.
2. The login rate limiter and the one-shot values of the console.
