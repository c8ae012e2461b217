------------------------------ MODULE Upstream ------------------------------
(***************************************************************************)
(* internal/upstream: the fetcher behind pull-through.  A caller (a format *)
(* handler) asks for a document of a tenant; Fetch resolves the tenant's   *)
(* configuration, looks in the metadata cache, takes a token of the        *)
(* tenant's bucket and joins or leads the single flight of the document.   *)
(* The callers of a flight receive the same *Result and so the same body.  *)
(*                                                                         *)
(* The clock counts ticks of TickSec seconds.  What is not ours: the       *)
(* upstream server, the HTTP client and golang.org/x/sync/singleflight.    *)
(***************************************************************************)
EXTENDS MetadataCache

CONSTANTS
    Callers, Tenants, Docs, Formats, URLs, None,
    FormatOf,           \* [Docs -> Formats]
    Metadata,           \* documents of KindMetadata; the others are blobs
    AbsoluteURL,        \* [Docs -> URLs \cup {None}]: an absolute UpstreamPath
    SizesOf,            \* [Docs -> sizes the upstream may serve]
    Supported,          \* formats whose default says PullThroughSupported
    DefaultURL,         \* [Formats -> URLs \cup {None}]: None = no canonical upstream
    Allowed,            \* the URLs that pass scheme and allowlist
    DefaultOff, DefaultTTL,     \* the process defaults; ticks
    Rows,               \* the rows an administrator writes: [off, url or None, ttl or 0]
    Scenarios,          \* [asks, time, edited]: what is asked for, a bound on
                        \* the clock, and whose row is written (once)
    MaxBytesPerFetch, Rpm, TickSec, FetchTimeout,
    MaxFetches          \* a bound

ASSUME UpstreamAssumption ==
    /\ {Rpm, TickSec, FetchTimeout, MaxFetches, DefaultTTL, MaxBytesPerFetch} \subseteq Nat
    /\ FormatOf \in [Docs -> Formats]
    /\ AbsoluteURL \in [Docs -> URLs \cup {None}]
    /\ SizesOf \in [Docs -> SUBSET Nat]
    /\ DefaultURL \in [Formats -> URLs \cup {None}]
    /\ Supported \subseteq {f \in Formats : DefaultURL[f] # None}
    /\ Rows \subseteq [off : BOOLEAN, url : URLs \cup {None}, ttl : Nat]
    /\ \A s \in Scenarios : s.asks \subseteq Tenants \X Docs

\* None is no time, URL, row or bucket.
ASSUME NoneAssumption ==
    /\ None \notin Nat
    /\ None \notin URLs
    /\ None \notin Rows
    /\ None \notin [tokens : Nat, last : Nat]

VARIABLES
    now,        \* the clock
    rows,       \* tenant_upstreams: <<tenant, format>> -> the row or None
    cache,      \* metadataCache
    buckets,    \* rateLimiter.buckets, in sixtieths of a token
    flights,    \* the singleflight group: one record per key in flight
    pc, rq,     \* per caller: where it is, and its request
    answer,     \* what a caller read, in the step that ends its read; else NoAnswer
    hist,       \* load: permits given beyond the refill; until: the last time a
                \* URL was the one configured
    left,       \* what is left of the bounds
    asks        \* the scenario's requests; never changes

vars == <<now, rows, cache, buckets, flights, pc, rq, answer, hist, left, asks>>

NoAnswer == [ok |-> FALSE]
Idle == [key |-> None]
Capacity == 60 * Rpm

Init ==
    /\ now = 0
    /\ cache = EmptyCache
    /\ buckets = [t \in Tenants |-> None]
    /\ flights = <<>>
    /\ pc = [p \in Callers |-> "idle"]
    /\ rq = [p \in Callers |-> Idle]
    /\ answer = NoAnswer
    /\ hist = [load |-> [t \in Tenants |-> 0],
               until |-> [tf \in Tenants \X Formats |-> [u \in URLs |-> None]]]
    /\ \E s \in Scenarios :
          /\ asks = s.asks
          /\ left = [fetches |-> MaxFetches, edited |-> s.edited, time |-> s.time]
          /\ \E r \in {None} \cup {x \in Rows : x.url # None} :
                rows = [tf \in Tenants \X Formats |-> IF tf[1] \in s.edited THEN r ELSE None]

\* An error return: no property tells one error from another.
Failed(p) ==
    /\ pc' = [pc EXCEPT ![p] = "idle"]
    /\ rq' = [rq EXCEPT ![p] = Idle]
    /\ answer' = NoAnswer

Goto(p, label) ==
    /\ pc' = [pc EXCEPT ![p] = label]
    /\ answer' = NoAnswer

-----------------------------------------------------------------------------
\* resolveConfig: a default URL and mode, each overridden by the tenant's row.
ResolveConfig(t, f) ==
    LET row == rows[<<t, f>>]
    IN  IF row = None
        THEN [off |-> DefaultOff \/ f \notin Supported, url |-> DefaultURL[f], ttl |-> DefaultTTL]
        ELSE [off |-> row.off,
              url |-> IF row.url = None THEN DefaultURL[f] ELSE row.url,
              ttl |-> IF row.ttl > 0 THEN row.ttl ELSE DefaultTTL]

\* resolveURL and checkSchemeAndHost.
Target(d, url) == IF AbsoluteURL[d] # None THEN AbsoluteURL[d] ELSE url
Permitted(u) == u # None /\ u \in Allowed

\* The canonical key of a document names the tenant, as every adapter's does.
CanonicalKeyOfDoc(t, d) == <<CHOOSE x \in Tenants : TRUE, d>>
CanonicalKey(t, d) == <<t, d>>

Fetch(p) ==
    /\ pc[p] = "idle"
    /\ left.fetches > 0
    /\ left' = [left EXCEPT !.fetches = @ - 1]
    /\ \E ask \in asks :
          LET t == ask[1]
              d == ask[2]
              cfg == ResolveConfig(t, FormatOf[d])
              url == Target(d, cfg.url)
          IN  \/ /\ cfg.off \/ ~Permitted(url)
                 /\ Failed(p)
              \/ /\ ~cfg.off /\ Permitted(url)
                 /\ Goto(p, IF d \in Metadata THEN "cache" ELSE "limit")
                 /\ rq' = [rq EXCEPT ![p] =
                       [tenant |-> t, doc |-> d, key |-> CanonicalKey(t, d), url |-> url,
                        ttl |-> cfg.ttl, started |-> now]]
    /\ UNCHANGED <<now, rows, cache, buckets, flights, hist>>

\* The body a caller of a flight or of the cache holds: the bytes, how far the
\* reader is, how much of them this caller has (None once it missed some), and
\* who else reads from the same reader.
Body(src, asOf, size, ttl, mates) ==
    [src |-> src, asOf |-> asOf, size |-> size, ttl |-> ttl, pos |-> 0, got |-> 0,
     chunk |-> 0, closed |-> FALSE, mates |-> mates, shared |-> mates # {}]

Deliver(p, body) ==
    /\ rq' = [rq EXCEPT ![p] = [tenant |-> @.tenant, doc |-> @.doc, key |-> @.key,
                                started |-> @.started, body |-> body]]
    /\ Goto(p, "read")

CacheGet(p) ==
    /\ pc[p] = "cache"
    /\ cache' = AfterGet(cache, rq[p].key, now)
    /\ IF Live(cache, rq[p].key, now)
       THEN LET e == cache.entries[rq[p].key]
            IN  Deliver(p, Body(e.src, e.asOf, e.size, e.ttl, {}))
       ELSE Goto(p, "limit") /\ UNCHANGED rq
    /\ UNCHANGED <<now, rows, buckets, flights, hist, left>>

-----------------------------------------------------------------------------
\* Allow: refill for the time since the last call, up to one minute's worth,
\* then take one token if there is one.
Refill(b) == LET more == b.tokens + (now - b.last) * TickSec * Rpm
             IN  IF more > Capacity THEN Capacity ELSE more

HasFraction(tokens) == tokens > 0
HasToken(tokens) == tokens >= 60

Allow(p) ==
    /\ pc[p] = "limit"
    /\ LET t == rq[p].tenant
           tokens == IF buckets[t] = None THEN Capacity ELSE Refill(buckets[t])
           Bucket(n) == [buckets EXCEPT ![t] = [tokens |-> n, last |-> now]]
       IN  IF HasToken(tokens)
           THEN /\ buckets' = Bucket(tokens - 60)
                /\ hist' = [hist EXCEPT !.load[t] = @ + 60]
                /\ Goto(p, "do")
                /\ UNCHANGED rq
           ELSE /\ buckets' = Bucket(tokens)
                /\ Failed(p)
                /\ UNCHANGED hist
    /\ UNCHANGED <<now, rows, cache, flights, left>>

\* sf.Do: the first caller of a key leads, the others wait for its result.
Do(p) ==
    /\ pc[p] = "do"
    /\ LET key == rq[p].key
       IN  IF key \in DOMAIN flights
           THEN flights' = [flights EXCEPT ![key].callers = @ \cup {p}]
           ELSE flights' = [k \in DOMAIN flights \cup {key} |->
                   IF k # key THEN flights[k]
                   ELSE [leader |-> p, callers |-> {p}, started |-> now, resp |-> None]]
    /\ Goto(p, "wait")
    /\ UNCHANGED <<now, rows, cache, buckets, rq, hist, left>>

\* The upstream answers: a body (with or without a Content-Length), 304 to a
\* validator it gave out itself, or a failure (any 4xx or 5xx, the overall timeout, a
\* blocked redirect or address, or the leader's own client going away).
Respond(p) ==
    /\ pc[p] = "wait"
    /\ LET key == rq[p].key
           Resp(kind, size) == [flights EXCEPT ![key].resp =
                                   [kind |-> kind, size |-> size, asOf |-> now]]
       IN  /\ flights[key].leader = p
           /\ flights[key].resp = None
           /\ \/ flights' = Resp("fail", 0)
              \/ /\ Cached(cache, key) => cache.entries[key].src = rq[p].url
                 /\ flights' = Resp("304", 0)
              \/ \E n \in SizesOf[rq[p].doc] : flights' = Resp("body", n)
              \/ \E n \in SizesOf[rq[p].doc] :      \* declared too long, or a long index
                    /\ n > MaxBytesPerFetch
                    /\ flights' = Resp("fail", 0)
    /\ answer' = NoAnswer
    /\ UNCHANGED <<now, rows, cache, buckets, pc, rq, hist, left>>

Without(key) == Restrict(flights, DOMAIN flights \ {key})

\* Every caller of the flight gets the one Result, or the one error.
LandWith(flight, key, result) ==
    /\ flights' = Without(key)
    /\ pc' = [q \in Callers |-> IF q \in flight.callers THEN "read" ELSE pc[q]]
    /\ rq' = [q \in Callers |->
                IF q \notin flight.callers THEN rq[q]
                ELSE [tenant |-> rq[q].tenant, doc |-> rq[q].doc, key |-> key,
                      started |-> rq[q].started,
                      body |-> Body(result.src, result.asOf, result.size, result.ttl,
                                    flight.callers \ {q})]]
    /\ answer' = NoAnswer

LandError(flight, key) ==
    /\ flights' = Without(key)
    /\ pc' = [q \in Callers |-> IF q \in flight.callers THEN "idle" ELSE pc[q]]
    /\ rq' = [q \in Callers |-> IF q \in flight.callers THEN Idle ELSE rq[q]]
    /\ answer' = NoAnswer

\* The rest of doFetch, and singleflight waking the others.  A 304 confirms what
\* the caller has; the cache is never older than that, so it confirms the entry
\* too.  With no entry the result is an empty body.
FinishFetch(p) ==
    /\ pc[p] = "wait"
    /\ LET key == rq[p].key
           flight == flights[key]
           resp == flight.resp
           src == rq[p].url
           ttl == rq[p].ttl
           fresh == [src |-> src, asOf |-> resp.asOf, size |-> resp.size, ttl |-> 0]
           Entry(from, size) == [src |-> from, asOf |-> resp.asOf, size |-> size,
                                 ttl |-> ttl, expires |-> now + ttl]
           meta == rq[p].doc \in Metadata
       IN  /\ flight.leader = p
           /\ resp # None
           /\ \/ /\ resp.kind = "fail" \/ (meta /\ resp.size > MaxBytesPerFetch)
                 /\ LandError(flight, key)
                 /\ UNCHANGED cache
              \/ /\ resp.kind = "304" /\ meta /\ Refreshable(cache, key)
                 /\ cache' = Refresh(cache, key, Entry(cache.entries[key].src,
                                                       cache.entries[key].size))
                 /\ LandWith(flight, key, cache'.entries[key])
              \/ /\ resp.kind = "304" /\ ~(meta /\ Refreshable(cache, key))
                 /\ LandWith(flight, key, fresh)
                 /\ UNCHANGED cache
              \/ /\ resp.kind = "body" /\ meta /\ resp.size <= MaxBytesPerFetch
                 /\ cache' = Put(cache, key, Entry(src, resp.size), ttl)
                 /\ LandWith(flight, key, fresh)
              \/ /\ resp.kind = "body" /\ ~meta
                 /\ LandWith(flight, key, fresh)
                 /\ UNCHANGED cache
    /\ UNCHANGED <<now, rows, buckets, hist, left>>

-----------------------------------------------------------------------------
\* The caller reads to the end of its body.  The reader of a metadata body is a
\* bytes.Reader, whose Read copies and then advances with nothing to keep a second
\* reader out in between; that of a blob is the HTTP body behind a cap.  Nobody
\* sees in how many reads a caller that is alone gets there.
Limit(b, d) == IF d \in Metadata \/ b.size < MaxBytesPerFetch THEN b.size ELSE MaxBytesPerFetch

TakeChunk(b, k) == [b EXCEPT !.got = IF @ = b.pos THEN @ + k ELSE None, !.chunk = k]

\* Whoever shares the reader sees it advance.
AdvanceReader(p, k) ==
    [q \in Callers |->
        IF q \in rq[p].body.mates \cup {p} THEN [rq[q] EXCEPT !.body.pos = @ + k] ELSE rq[q]]

Read(p) ==
    /\ pc[p] = "read"
    /\ LET b == rq[p].body
           d == rq[p].doc
           rest == Limit(b, d) - b.pos
       IN  /\ ~b.closed /\ rest > 0
           /\ \E k \in IF b.mates = {} THEN {rest} ELSE {1, rest} :
                 IF d \in Metadata /\ b.mates # {}
                 THEN /\ rq' = [rq EXCEPT ![p].body = TakeChunk(b, k)]
                      /\ Goto(p, "advance")
                 ELSE /\ rq' = [AdvanceReader(p, k) EXCEPT
                                   ![p].body.got = TakeChunk(b, k).got]
                      /\ Goto(p, "read")
    /\ UNCHANGED <<now, rows, cache, buckets, flights, hist, left>>

Advance(p) ==
    /\ pc[p] = "advance"
    /\ rq' = AdvanceReader(p, rq[p].body.chunk)
    /\ Goto(p, "read")
    /\ UNCHANGED <<now, rows, cache, buckets, flights, hist, left>>

\* cappedReadCloser: a blob that goes on past the cap fails the read.
CapTruncates(b, d) == FALSE
OverCap(b, d) == d \notin Metadata /\ b.size > MaxBytesPerFetch /\ b.pos >= MaxBytesPerFetch

\* The caller closes the body when it is done; closing a blob ends it for the
\* others that hold it.
CloseBody(p, q) ==
    LET b == rq[q].body
    IN  IF p \notin b.mates THEN rq[q]
        ELSE [rq[q] EXCEPT !.body = [b EXCEPT !.mates = @ \ {p},
                                              !.closed = rq[p].doc \notin Metadata]]

Holding(q) == pc[q] \in {"read", "advance"}

Leave(p, result) ==
    /\ pc' = [pc EXCEPT ![p] = "idle"]
    /\ rq' = [q \in Callers |-> IF q = p THEN Idle
                                ELSE IF Holding(q) THEN CloseBody(p, q) ELSE rq[q]]
    /\ answer' = result

ReadEnds(p) ==
    /\ pc[p] = "read"
    /\ LET b == rq[p].body
           d == rq[p].doc
       IN  \/ /\ ~b.closed /\ b.pos >= Limit(b, d) /\ ~OverCap(b, d)
              /\ Leave(p, [ok |-> TRUE, tenant |-> rq[p].tenant, doc |-> d,
                           started |-> rq[p].started, src |-> b.src, asOf |-> b.asOf,
                           ttl |-> b.ttl, whole |-> b.got = b.size, shared |-> b.shared])
           \/ /\ b.closed \/ OverCap(b, d)
              /\ Leave(p, NoAnswer)
    /\ UNCHANGED <<now, rows, cache, buckets, flights, hist, left>>

\* A blob's connection breaks, or the caller's own client goes away.
ReadBreaks(p) ==
    /\ pc[p] = "read"
    /\ rq[p].doc \notin Metadata
    /\ Leave(p, NoAnswer)
    /\ UNCHANGED <<now, rows, cache, buckets, flights, hist, left>>

-----------------------------------------------------------------------------
\* tenantUpstreamUpsert and tenantUpstreamReset: the row is written; the caches
\* are not told.
SetRow(t, f, row) ==
    /\ t \in left.edited
    /\ left' = [left EXCEPT !.edited = @ \ {t}]
    /\ rows' = [rows EXCEPT ![<<t, f>>] = row]
    /\ hist' = [hist EXCEPT !.until[<<t, f>>] =
          LET url == ResolveConfig(t, f).url
          IN  IF url = None THEN @ ELSE [@ EXCEPT ![url] = now]]
    /\ answer' = NoAnswer
    /\ UNCHANGED <<now, cache, buckets, flights, pc, rq>>

Upsert == \E t \in Tenants, f \in {g \in Formats : DefaultURL[g] # None}, row \in Rows :
             SetRow(t, f, row)

Reset == \E t \in Tenants, f \in {g \in Formats : DefaultURL[g] # None} :
            rows[<<t, f>>] # None /\ SetRow(t, f, None)

\* The HTTP client gives up after FetchTimeout, so no flight is older than that;
\* and nothing between resolving the configuration and sending the request waits,
\* so it takes no tick.
Tick ==
    /\ now < left.time
    /\ \A p \in Callers : pc[p] \in {"idle", "wait", "read"}
    /\ \A k \in DOMAIN flights : now < flights[k].started + FetchTimeout
    /\ now' = now + 1
    /\ answer' = NoAnswer
    /\ hist' = [hist EXCEPT !.load = [t \in Tenants |-> Max({0, @[t] - TickSec * Rpm})]]
    /\ UNCHANGED <<rows, cache, buckets, flights, pc, rq, left>>

Step(p) ==
    \/ CacheGet(p) \/ Allow(p) \/ Do(p) \/ Respond(p) \/ FinishFetch(p)
    \/ Read(p) \/ Advance(p) \/ ReadEnds(p) \/ ReadBreaks(p)

Next ==
    /\ \/ \E p \in Callers : Fetch(p) \/ Step(p)
       \/ Upsert \/ Reset \/ Tick
    /\ UNCHANGED asks

Spec == Init /\ [][Next]_vars

-----------------------------------------------------------------------------
\* The cache never holds more than its budget and counts what it holds, through
\* replacements, expiries, refreshes and evictions (metadata_cache.go:76-99).
CacheBooksBalance == Balanced(cache)

\* What a caller is given was current, at the upstream configured for its own
\* tenant, no longer before its request than the time to live of the cached
\* answer and the duration of one fetch: not one tenant's answer to another, and
\* the old upstream's answers no longer than that after a change.
StaleBounded == answer.ok =>
    LET oldest == answer.started - answer.ttl - FetchTimeout
        tf == <<answer.tenant, FormatOf[answer.doc]>>
        until == hist.until[tf][answer.src]
    IN  /\ answer.asOf >= oldest
        /\ \/ answer.src = Target(answer.doc, ResolveConfig(tf[1], tf[2]).url)
           \/ until # None /\ until >= oldest

\* "a runaway loop is bounded" (ratelimit.go:11): in any span of time a tenant is
\* let through upstream no more often than one minute's worth and the refill of
\* the span, however the requests interleave.  (load is the most by which the
\* permits of a span that ends now exceed the span's refill, in sixtieths.)
RateBound == \A t \in Tenants : hist.load[t] <= Capacity

\* A caller that was alone on its flight reads the whole document or is told of
\* an error, never a part of it as if it were all.
WholeUnlessShared == answer.ok /\ ~answer.shared => answer.whole

\* "When sf collapsed multiple callers onto one Result for a metadata fetch, we
\* served the body bytes from the cache slice and they're safe to re-read"
\* (fetcher.go:115): every caller reads the whole document.
SharedBodyWhole == answer.ok => answer.whole

=============================================================================
