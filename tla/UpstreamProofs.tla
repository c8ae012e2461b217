--------------------------- MODULE UpstreamProofs ---------------------------
(***************************************************************************)
(* Proofs about Upstream, for any number of callers, tenants, documents,   *)
(* upstreams and scenarios: how often a tenant is let through (RateBound), *)
(* how old an answer can be and whose it is (StaleBounded), that a body is *)
(* whole for a caller that does not share it (WholeUnlessShared), and that *)
(* the cache's count of bytes is right (CacheBooksBalance).                *)
(***************************************************************************)
EXTENDS Upstream, FiniteSetTheorems, WellFoundedInduction, TLAPS

Keys == Tenants \X Docs
Asking == {"cache", "limit", "do", "wait"}

Requests == [tenant : Tenants, doc : Docs, key : Keys, url : URLs, ttl : Nat, started : Nat]

Bodies == [src : URLs, asOf : Nat, size : Nat, ttl : Nat, pos : Nat, got : Nat \cup {None},
           chunk : Nat, closed : BOOLEAN, mates : SUBSET Callers, shared : BOOLEAN]

Holdings == [tenant : Tenants, doc : Docs, key : Keys, started : Nat, body : Bodies]

Entries == [src : URLs, asOf : Nat, size : Nat, ttl : Nat, expires : Nat]

Responses == [kind : {"fail", "304", "body"}, size : Nat, asOf : Nat]

IsResult(r) == r.src \in URLs /\ r.asOf \in Nat /\ r.size \in Nat /\ r.ttl \in Nat

Flights == [leader : Callers, callers : SUBSET Callers, started : Nat,
            resp : Responses \cup {None}]

\* A cache is a record whose entries are a function.
Wellformed(c) ==
    /\ c = [entries |-> c.entries, order |-> c.order, used |-> c.used]
    /\ c.entries = [k \in DOMAIN c.entries |-> c.entries[k]]

\* What each caller holds goes with where it is.
CallersTyped ==
    /\ pc \in [Callers -> Asking \cup {"idle", "read", "advance"}]
    /\ rq = [p \in Callers |-> rq[p]]
    /\ \A p \in Callers : pc[p] \in Asking => rq[p] \in Requests
    /\ \A p \in Callers : Holding(p) => rq[p] \in Holdings

ConfigTyped ==
    /\ now \in Nat
    /\ asks \subseteq Keys
    /\ rows \in [Tenants \X Formats -> Rows \cup {None}]
    /\ hist \in [load : [Tenants -> Nat],
                 until : [Tenants \X Formats -> [URLs -> Nat \cup {None}]]]

CacheTyped ==
    /\ Wellformed(cache)
    /\ DOMAIN cache.entries \subseteq Keys
    /\ \A k \in DOMAIN cache.entries : cache.entries[k] \in Entries

FlightsTyped ==
    /\ flights = [k \in DOMAIN flights |-> flights[k]]
    /\ DOMAIN flights \subseteq Keys
    /\ \A k \in DOMAIN flights : flights[k] \in Flights

\* A request's key names its tenant and its document.
KeysNamed == \A p \in Callers : (pc[p] \in Asking \/ Holding(p)) =>
    rq[p].key = <<rq[p].tenant, rq[p].doc>>

\* The callers of a flight are those that wait for its key, its leader among them.
FlightsManned ==
    /\ \A k \in DOMAIN flights :
          /\ flights[k].leader \in flights[k].callers
          /\ \A p \in flights[k].callers : pc[p] = "wait" /\ rq[p].key = k
    /\ \A p \in Callers : pc[p] = "wait" =>
          rq[p].key \in DOMAIN flights /\ p \in flights[rq[p].key].callers

TypeInv == CallersTyped /\ ConfigTyped /\ CacheTyped /\ FlightsTyped /\ KeysNamed /\ FlightsManned

\* A bucket holds no more than its capacity, and what it holds after the refill
\* due now leaves room for the load.
BucketsInv ==
    /\ buckets = [t \in Tenants |-> buckets[t]]
    /\ \A t \in Tenants :
          \/ buckets[t] = None /\ hist.load[t] = 0
          \/ /\ buckets[t] \in [tokens : Nat, last : Nat]
             /\ buckets[t].last <= now
             /\ hist.load[t] + Refill(buckets[t]) <= Capacity

\* Whoever shares a reader knows that it does, and a caller that shares none has
\* taken all that its reader has given out.
SharingInv == \A p \in Callers : Holding(p) =>
    LET b == rq[p].body
    IN  /\ \A q \in b.mates : q # p /\ Holding(q) /\ rq[q].body.shared
        /\ ~b.shared => /\ b.mates = {}
                        /\ pc[p] = "read"
                        /\ b.got = b.pos
                        /\ b.pos <= Limit(b, rq[p].doc)

\* u is where the tenant's document is to be had, or was at some time from since on.
Configured(t, d, u, since) ==
    LET tf == <<t, FormatOf[d]>>
        until == hist.until[tf][u]
    IN  \/ u = Target(d, ResolveConfig(tf[1], tf[2]).url)
        \/ until # None /\ until >= since

\* Up to sending its request, a caller has let no time pass.
AskerFresh(p) ==
    /\ pc[p] # "wait" => rq[p].started = now
    /\ rq[p].started <= now
    /\ Configured(rq[p].tenant, rq[p].doc, rq[p].url, rq[p].started)

AskingFresh == \A p \in Callers : pc[p] \in Asking => AskerFresh(p)

\* A flight is no older than the timeout, its callers joined it within that time,
\* and a 304 is about the entry of the URL its leader asked.
FlightFresh(k) ==
    LET f == flights[k]
    IN  /\ rq[f.leader].started = f.started
        /\ now <= f.started + FetchTimeout
        /\ \A p \in f.callers : rq[p].started <= f.started + FetchTimeout
        /\ f.resp # None => f.started <= f.resp.asOf /\ f.resp.asOf <= now
        /\ (f.resp # None /\ f.resp.kind = "304" /\ k \in DOMAIN cache.entries) =>
              cache.entries[k].src = rq[f.leader].url

FlightsFresh == \A k \in DOMAIN flights : FlightFresh(k)

\* What was current, and configured, from oldest on.
Current(t, d, src, asOf, oldest) ==
    /\ oldest <= asOf
    /\ asOf <= now
    /\ Configured(t, d, src, oldest)

\* When it expires, an entry is no older than its time to live and one fetch.
EntryFresh(k) ==
    LET e == cache.entries[k]
    IN  Current(k[1], k[2], e.src, e.asOf, e.expires - e.ttl - FetchTimeout)

CacheFresh == \A k \in DOMAIN cache.entries : EntryFresh(k)

\* A body is, when it was asked for, no older than that either.
BodyFresh(p) ==
    LET b == rq[p].body
    IN  Current(rq[p].tenant, rq[p].doc, b.src, b.asOf, rq[p].started - b.ttl - FetchTimeout)

HeldFresh == \A p \in Callers : Holding(p) => BodyFresh(p)

FreshInv == AskingFresh /\ FlightsFresh /\ CacheFresh /\ HeldFresh

-----------------------------------------------------------------------------
(* What the operations of the cache do to its entries. *)

\* Every entry of d is one of c.
Within(d, c) == \A k \in DOMAIN d.entries : k \in DOMAIN c.entries /\ d.entries[k] = c.entries[k]

\* removeLocked takes the entry of one key away and leaves the others.
LEMMA RemoveKeeps ==
  ASSUME NEW c, NEW key, Wellformed(c)
  PROVE  /\ Wellformed(RemoveLocked(c, key))
         /\ Within(RemoveLocked(c, key), c)
         /\ key \notin DOMAIN RemoveLocked(c, key).entries
  BY DEF Wellformed, RemoveLocked, Cached, Restrict, Within

\* touchLocked changes the order alone.
LEMMA TouchKeeps ==
  ASSUME NEW c, NEW key, Wellformed(c)
  PROVE  /\ Wellformed(TouchLocked(c, key))
         /\ TouchLocked(c, key).entries = c.entries
  BY DEF Wellformed, TouchLocked

\* get adds nothing and changes no entry.
LEMMA GetKeeps ==
  ASSUME NEW c, NEW key, NEW t, Wellformed(c)
  PROVE  Wellformed(AfterGet(c, key, t)) /\ Within(AfterGet(c, key, t), c)
  BY RemoveKeeps, TouchKeeps DEF AfterGet, Within

\* The eviction loop removes entries and changes none.
LEMMA EvictKeeps ==
  ASSUME NEW c, NEW size, Wellformed(c)
  PROVE  Wellformed(EvictOldest(c, size)) /\ Within(EvictOldest(c, size), c)
  BY DEF Wellformed, EvictOldest, Restrict, Within

\* put: the key's entry is the new one; every other entry was there before.
LEMMA PutKeeps ==
  ASSUME NEW c, NEW key, NEW entry, NEW ttl, Wellformed(c)
  PROVE  LET d == Put(c, key, entry, ttl)
         IN  /\ Wellformed(d)
             /\ \A k \in DOMAIN d.entries :
                   \/ k = key /\ d.entries[k] = entry
                   \/ k \in DOMAIN c.entries /\ d.entries[k] = c.entries[k]
<1> DEFINE dropped == RemoveLocked(c, key)
           fits == EvictOldest(dropped, entry.size)
<1>1. Wellformed(dropped) /\ Within(dropped, c)
  BY RemoveKeeps
<1>2. Wellformed(fits) /\ Within(fits, dropped)
  BY <1>1, EvictKeeps
<1>3. CASE Put(c, key, entry, ttl) = c
  BY <1>3
<1>4. CASE Put(c, key, entry, ttl) = dropped
  BY <1>1, <1>4 DEF Within
<1>5. CASE Put(c, key, entry, ttl) = Insert(fits, key, entry)
  BY <1>1, <1>2, <1>5 DEF Insert, Within, Wellformed
<1> QED
  BY <1>3, <1>4, <1>5 DEF Put

\* refresh replaces one entry.
LEMMA RefreshKeeps ==
  ASSUME NEW c, NEW key, NEW renewed, Wellformed(c), key \in DOMAIN c.entries
  PROVE  LET d == Refresh(c, key, renewed)
         IN  /\ Wellformed(d)
             /\ d.entries = [c.entries EXCEPT ![key] = renewed]
<1> DEFINE c1 == [c EXCEPT !.entries[key] = renewed]
<1>1. c1 = [entries |-> [c.entries EXCEPT ![key] = renewed], order |-> c.order, used |-> c.used]
  BY DEF Wellformed
<1>2. Wellformed(c1)
  <2> HIDE DEF c1
  <2> QED BY <1>1 DEF Wellformed
<1> HIDE DEF c1
<1> QED
  BY <1>1, <1>2, TouchKeeps DEF Refresh, c1

-----------------------------------------------------------------------------
(* The types, and who waits for which flight. *)

\* The configuration's URL is a URL or None, its time to live a number.
LEMMA ConfigType ==
  ASSUME ConfigTyped, NEW t \in Tenants, NEW f \in Formats
  PROVE  ResolveConfig(t, f).url \in URLs \cup {None} /\ ResolveConfig(t, f).ttl \in Nat
<1>1. rows[<<t, f>>] \in Rows \cup {None}
  BY DEF ConfigTyped
<1> QED
  BY <1>1, UpstreamAssumption DEF ResolveConfig

\* What is permitted is a URL.
LEMMA TargetType ==
  ASSUME NEW d \in Docs, NEW u \in URLs \cup {None}, Permitted(Target(d, u))
  PROVE  Target(d, u) \in URLs
  BY UpstreamAssumption DEF Permitted, Target

\* A caller outside every flight that stays outside leaves the flights manned.
LEMMA VisitorKeepsFlights ==
  ASSUME TypeInv, NEW p \in Callers, pc[p] # "wait", pc'[p] # "wait",
         \A q \in Callers \ {p} : pc'[q] = pc[q] /\ rq'[q] = rq[q], UNCHANGED flights
  PROVE  FlightsManned'
  BY DEF TypeInv, FlightsManned, FlightsTyped, Flights

\* Fetch resolves the configuration and leaves a typed request.
LEMMA FetchType ==
  ASSUME TypeInv, NEW p \in Callers, Fetch(p), UNCHANGED asks
  PROVE  TypeInv'
<1> USE DEF TypeInv
<1>1. PICK ask \in asks :
         \/ Failed(p)
         \/ LET d == ask[2]
                cfg == ResolveConfig(ask[1], FormatOf[d])
                url == Target(d, cfg.url)
            IN  /\ Permitted(url)
                /\ Goto(p, IF d \in Metadata THEN "cache" ELSE "limit")
                /\ rq' = [rq EXCEPT ![p] = [tenant |-> ask[1], doc |-> d, key |-> CanonicalKey(ask[1], d),
                                           url |-> url, ttl |-> cfg.ttl, started |-> now]]
  BY DEF Fetch
<1>2. ask[1] \in Tenants /\ ask[2] \in Docs /\ FormatOf[ask[2]] \in Formats
  BY UpstreamAssumption DEF ConfigTyped, Keys
<1>3. ConfigTyped' /\ CacheTyped' /\ FlightsTyped'
  BY DEF Fetch, ConfigTyped, CacheTyped, FlightsTyped
<1>4. pc[p] = "idle" /\ UNCHANGED flights
  BY DEF Fetch
<1>5. CASE Failed(p)
  <2>1. CallersTyped' /\ KeysNamed'
    BY <1>5 DEF Failed, CallersTyped, KeysNamed, Asking, Holding
  <2>2. FlightsManned'
    BY <1>4, <1>5, VisitorKeepsFlights DEF Failed, CallersTyped
  <2> QED
    BY <1>3, <2>1, <2>2
<1>6. CASE ~Failed(p)
  <2> DEFINE cfg == ResolveConfig(ask[1], FormatOf[ask[2]])
             r == [tenant |-> ask[1], doc |-> ask[2], key |-> CanonicalKey(ask[1], ask[2]),
                   url |-> Target(ask[2], cfg.url), ttl |-> cfg.ttl, started |-> now]
  <2>1. r \in Requests /\ r.key = <<r.tenant, r.doc>>
    BY <1>1, <1>2, <1>6, ConfigType, TargetType DEF Requests, CanonicalKey, Keys, ConfigTyped
  <2>2. rq' = [rq EXCEPT ![p] = r] /\ \E l \in {"cache", "limit"} : pc' = [pc EXCEPT ![p] = l]
    BY <1>1, <1>6 DEF Goto
  <2> HIDE DEF r
  <2>3. CallersTyped' /\ KeysNamed'
    BY <2>1, <2>2 DEF CallersTyped, KeysNamed, Asking, Holding
  <2>4. FlightsManned'
    BY <1>4, <2>2, VisitorKeepsFlights DEF CallersTyped
  <2> QED
    BY <1>3, <2>3, <2>4
<1> QED
  BY <1>5, <1>6

\* A body as it is handed out.
LEMMA BodyType ==
  ASSUME NEW src \in URLs, NEW asOf \in Nat, NEW size \in Nat, NEW ttl \in Nat,
         NEW mates \in SUBSET Callers
  PROVE  Body(src, asOf, size, ttl, mates) \in Bodies
  BY DEF Body, Bodies

\* CacheGet hands out a body or goes on.
LEMMA CacheGetType ==
  ASSUME TypeInv, NEW p \in Callers, CacheGet(p), UNCHANGED asks
  PROVE  TypeInv'
<1> USE DEF TypeInv
<1> DEFINE key == rq[p].key
           e == cache.entries[key]
           b == Body(e.src, e.asOf, e.size, e.ttl, {})
           live == Live(cache, key, now)
<1>1. pc[p] = "cache" /\ rq[p] \in Requests /\ UNCHANGED <<now, rows, flights, hist>>
  BY DEF CacheGet, CallersTyped, Asking
<1>2. CacheTyped'
  BY GetKeeps DEF CacheGet, CacheTyped, Within
<1>3. ConfigTyped' /\ FlightsTyped'
  BY <1>1 DEF ConfigTyped, FlightsTyped
<1>4. CallersTyped' /\ KeysNamed'
  <2>1. CASE live
    <3>1. b \in Bodies
      BY <2>1, BodyType DEF Live, Cached, CacheTyped, Entries
    <3> DEFINE r == [tenant |-> rq[p].tenant, doc |-> rq[p].doc, key |-> key,
                     started |-> rq[p].started, body |-> b]
    <3>2. rq' = [rq EXCEPT ![p] = r] /\ pc' = [pc EXCEPT ![p] = "read"]
      BY <2>1 DEF CacheGet, Deliver, Goto
    <3>3. r \in Holdings /\ r.key = <<r.tenant, r.doc>>
      BY <1>1, <3>1 DEF Holdings, Requests, KeysNamed, Asking
    <3> HIDE DEF r
    <3> QED
      BY <3>2, <3>3 DEF CallersTyped, KeysNamed, Asking, Holding
  <2>2. CASE ~live
    BY <2>2, <1>1 DEF CacheGet, Goto, CallersTyped, KeysNamed, Asking, Holding
  <2> QED
    BY <2>1, <2>2
<1>5. FlightsManned'
  BY <1>1, VisitorKeepsFlights DEF CacheGet, Deliver, Goto, CallersTyped
<1> QED
  BY <1>2, <1>3, <1>4, <1>5

\* Allow counts a permit or turns the caller away.
LEMMA AllowType ==
  ASSUME TypeInv, NEW p \in Callers, Allow(p), UNCHANGED asks
  PROVE  TypeInv'
<1> USE DEF TypeInv
<1>1. /\ pc[p] = "limit" /\ UNCHANGED <<now, rows, cache, flights>>
      /\ \/ hist' = [hist EXCEPT !.load[rq[p].tenant] = @ + 60] /\ Goto(p, "do") /\ UNCHANGED rq
         \/ Failed(p) /\ UNCHANGED hist
  BY DEF Allow
<1>2. ConfigTyped' /\ CacheTyped' /\ FlightsTyped'
  BY <1>1 DEF ConfigTyped, CacheTyped, FlightsTyped
<1>3. CallersTyped' /\ KeysNamed'
  BY <1>1 DEF Goto, Failed, CallersTyped, KeysNamed, Asking, Holding
<1>4. FlightsManned'
  BY <1>1, VisitorKeepsFlights DEF Goto, Failed, CallersTyped
<1> QED
  BY <1>2, <1>3, <1>4

\* Do joins the flight of the key or makes one.
LEMMA DoType ==
  ASSUME TypeInv, NEW p \in Callers, Do(p), UNCHANGED asks
  PROVE  TypeInv'
<1> USE DEF TypeInv
<1> DEFINE key == rq[p].key
           others == IF key \in DOMAIN flights THEN flights[key].callers ELSE {}
<1>1. pc[p] = "do" /\ rq[p] \in Requests /\ key \in Keys
  BY DEF Do, CallersTyped, Asking, Requests
<1>2. ConfigTyped' /\ CacheTyped'
  BY DEF Do, ConfigTyped, CacheTyped
<1>3. CallersTyped' /\ KeysNamed'
  BY <1>1 DEF Do, Goto, CallersTyped, KeysNamed, Asking, Holding
<1>4. rq' = rq /\ pc'[p] = "wait" /\ \A q \in Callers \ {p} : pc'[q] = pc[q]
  BY DEF Do, Goto, CallersTyped
<1>5. /\ FlightsTyped'
      /\ DOMAIN flights' = DOMAIN flights \cup {key}
      /\ flights'[key].callers = others \cup {p}
      /\ flights'[key].leader \in others \cup {p}
      /\ \A k \in DOMAIN flights \ {key} : flights'[k] = flights[k]
  <2>1. CASE key \in DOMAIN flights
    <3>1. flights' = [flights EXCEPT ![key].callers = @ \cup {p}]
      BY <2>1 DEF Do
    <3>2. FlightsTyped'
      BY <2>1, <3>1 DEF FlightsTyped, Flights
    <3>3. flights[key] \in Flights /\ flights[key].leader \in flights[key].callers
      BY <2>1 DEF FlightsTyped, FlightsManned
    <3>4. /\ DOMAIN flights' = DOMAIN flights
          /\ flights'[key].callers = flights[key].callers \cup {p}
          /\ flights'[key].leader = flights[key].leader
          /\ \A k \in DOMAIN flights \ {key} : flights'[k] = flights[k]
      BY <2>1, <3>1, <3>3 DEF Flights
    <3> QED
      BY <2>1, <3>2, <3>3, <3>4
  <2>2. CASE key \notin DOMAIN flights
    <3> DEFINE f == [leader |-> p, callers |-> {p}, started |-> now, resp |-> None]
    <3>1. flights' = [k \in DOMAIN flights \cup {key} |-> IF k # key THEN flights[k] ELSE f]
      BY <2>2 DEF Do
    <3>2. f \in Flights
      BY DEF Flights, ConfigTyped
    <3> HIDE DEF f
    <3>3. /\ DOMAIN flights' = DOMAIN flights \cup {key}
          /\ flights'[key] = f
          /\ \A k \in DOMAIN flights : flights'[k] = flights[k]
      BY <2>2, <3>1
    <3>4. FlightsTyped'
      BY <1>1, <3>1, <3>2, <3>3 DEF FlightsTyped
    <3> QED
      BY <2>2, <3>3, <3>4 DEF f
  <2> QED
    BY <2>1, <2>2
<1>6. others \subseteq Callers /\ \A q \in others : pc[q] = "wait" /\ rq[q].key = key
  BY DEF FlightsManned, FlightsTyped, Flights
<1>7. ASSUME NEW k \in DOMAIN flights'
      PROVE  /\ flights'[k].leader \in flights'[k].callers
             /\ \A q \in flights'[k].callers : pc'[q] = "wait" /\ rq'[q].key = k
  <2>1. CASE k = key
    BY <1>1, <1>4, <1>5, <1>6, <2>1
  <2>2. CASE k # key
    BY <1>1, <1>4, <1>5, <2>2 DEF FlightsManned, FlightsTyped, Flights
  <2> QED
    BY <2>1, <2>2
<1>8. ASSUME NEW q \in Callers, pc'[q] = "wait"
      PROVE  rq'[q].key \in DOMAIN flights' /\ q \in flights'[rq'[q].key].callers
  <2>1. CASE q = p
    BY <1>4, <1>5, <2>1
  <2>2. CASE q # p
    BY <1>4, <1>5, <1>8, <2>2 DEF FlightsManned
  <2> QED
    BY <2>1, <2>2
<1>9. FlightsManned'
  BY <1>7, <1>8 DEF FlightsManned
<1> QED
  BY <1>2, <1>3, <1>5, <1>9

\* Respond sets the flight's response.
LEMMA RespondType ==
  ASSUME TypeInv, NEW p \in Callers, Respond(p), UNCHANGED asks
  PROVE  TypeInv'
<1> USE DEF TypeInv
<1> DEFINE key == rq[p].key
<1>1. key \in DOMAIN flights /\ rq[p] \in Requests /\ UNCHANGED <<now, rows, cache, pc, rq, hist>>
  BY DEF Respond, FlightsManned, CallersTyped, Asking
<1>2. PICK r \in Responses : flights' = [flights EXCEPT ![key].resp = r]
  BY <1>1, UpstreamAssumption DEF Respond, Responses, ConfigTyped, Requests
<1>3. ConfigTyped' /\ CacheTyped' /\ CallersTyped' /\ KeysNamed'
  BY <1>1 DEF ConfigTyped, CacheTyped, CallersTyped, KeysNamed, Holding
<1>4. FlightsTyped'
  BY <1>1, <1>2 DEF FlightsTyped, Flights
<1>5. FlightsManned'
  BY <1>1, <1>2 DEF FlightsManned, FlightsTyped, Flights
<1> QED
  BY <1>3, <1>4, <1>5

\* When a flight has landed, its callers wait no more and the other flights are
\* as they were.
LEMMA LandedKeepsFlights ==
  ASSUME TypeInv, NEW key \in DOMAIN flights, flights' = Without(key),
         \A q \in flights[key].callers : pc'[q] # "wait",
         \A q \in Callers \ flights[key].callers : pc'[q] = pc[q] /\ rq'[q] = rq[q]
  PROVE  FlightsTyped' /\ FlightsManned'
<1> USE DEF TypeInv
<1>1. flights' = [k \in DOMAIN flights \ {key} |-> flights[k]]
  BY DEF Without, Restrict
<1>2. FlightsTyped'
  BY <1>1 DEF FlightsTyped
<1>3. ASSUME NEW k \in DOMAIN flights'
      PROVE  /\ flights'[k].leader \in flights'[k].callers
             /\ \A q \in flights'[k].callers : pc'[q] = "wait" /\ rq'[q].key = k
  BY <1>1 DEF FlightsManned, FlightsTyped, Flights
<1>4. ASSUME NEW q \in Callers, pc'[q] = "wait"
      PROVE  rq'[q].key \in DOMAIN flights' /\ q \in flights'[rq'[q].key].callers
  BY <1>1, <1>4 DEF FlightsManned, FlightsTyped, Flights
<1> QED
  BY <1>2, <1>3, <1>4 DEF FlightsManned

\* An error ends the requests of the flight's callers.
LEMMA LandErrorType ==
  ASSUME TypeInv, NEW key \in DOMAIN flights, LandError(flights[key], key)
  PROVE  CallersTyped' /\ KeysNamed' /\ FlightsTyped' /\ FlightsManned'
<1>1. CallersTyped' /\ KeysNamed'
  BY DEF TypeInv, LandError, CallersTyped, KeysNamed, Asking, Holding
<1>2. FlightsTyped' /\ FlightsManned'
  BY LandedKeepsFlights DEF LandError, TypeInv, FlightsTyped, Flights
<1> QED
  BY <1>1, <1>2

\* A result is handed to every caller of the flight.
LEMMA LandWithType ==
  ASSUME TypeInv, NEW key \in DOMAIN flights, NEW result, IsResult(result),
         LandWith(flights[key], key, result)
  PROVE  CallersTyped' /\ KeysNamed' /\ FlightsTyped' /\ FlightsManned'
<1> DEFINE callers == flights[key].callers
           given(q) == Body(result.src, result.asOf, result.size, result.ttl, callers \ {q})
           r(q) == [tenant |-> rq[q].tenant, doc |-> rq[q].doc, key |-> key,
                    started |-> rq[q].started, body |-> given(q)]
<1>1. /\ pc' = [q \in Callers |-> IF q \in callers THEN "read" ELSE pc[q]]
      /\ rq' = [q \in Callers |-> IF q \notin callers THEN rq[q] ELSE r(q)]
      /\ flights' = Without(key)
  BY DEF LandWith
<1>2. callers \subseteq Callers /\ \A q \in callers : rq[q] \in Requests /\ rq[q].key = key
                                                    /\ rq[q].key = <<rq[q].tenant, rq[q].doc>>
  BY DEF TypeInv, FlightsTyped, Flights, FlightsManned, CallersTyped, KeysNamed, Asking
<1>3. ASSUME NEW q \in callers
      PROVE  r(q) \in Holdings /\ r(q).key = <<r(q).tenant, r(q).doc>>
  <2>1. given(q) \in Bodies
    BY <1>2, BodyType DEF IsResult
  <2> HIDE DEF given
  <2> QED
    BY <1>2, <2>1 DEF Holdings, Requests
<1> HIDE DEF r
<1>4. CallersTyped' /\ KeysNamed'
  BY <1>1, <1>3 DEF TypeInv, CallersTyped, KeysNamed, Asking, Holding
<1>5. FlightsTyped' /\ FlightsManned'
  BY <1>1, <1>2, LandedKeepsFlights
<1> QED
  BY <1>4, <1>5

\* FinishFetch ends in an error or in a result: what was fetched, or the entry a
\* 304 renewed.
LEMMA FinishFetchCases ==
  ASSUME TypeInv, NEW p \in Callers, FinishFetch(p)
  PROVE  LET key == rq[p].key
             resp == flights[key].resp
             ttl == rq[p].ttl
             fresh == [src |-> rq[p].url, asOf |-> resp.asOf, size |-> resp.size, ttl |-> 0]
             Entry(from, size) == [src |-> from, asOf |-> resp.asOf, size |-> size,
                                   ttl |-> ttl, expires |-> now + ttl]
             entry == Entry(rq[p].url, resp.size)
             renewed == Entry(cache.entries[key].src, cache.entries[key].size)
         IN  /\ key \in DOMAIN flights /\ flights[key].leader = p
             /\ rq[p] \in Requests
             /\ resp \in Responses /\ resp # None
             /\ UNCHANGED <<now, rows, hist>>
             /\ entry \in Entries
             /\ IsResult(fresh)
             /\ \/ LandError(flights[key], key) /\ UNCHANGED cache
                \/ LandWith(flights[key], key, fresh) /\ UNCHANGED cache
                \/ cache' = Put(cache, key, entry, ttl) /\ LandWith(flights[key], key, fresh)
                \/ /\ resp.kind = "304" /\ key \in DOMAIN cache.entries
                   /\ renewed \in Entries
                   /\ Wellformed(cache')
                   /\ cache'.entries = [cache.entries EXCEPT ![key] = renewed]
                   /\ LandWith(flights[key], key, renewed)
<1> DEFINE key == rq[p].key
           resp == flights[key].resp
           ttl == rq[p].ttl
           fresh == [src |-> rq[p].url, asOf |-> resp.asOf, size |-> resp.size, ttl |-> 0]
           Entry(from, size) == [src |-> from, asOf |-> resp.asOf, size |-> size,
                                 ttl |-> ttl, expires |-> now + ttl]
           entry == Entry(rq[p].url, resp.size)
           renewed == Entry(cache.entries[key].src, cache.entries[key].size)
<1>1. /\ key \in DOMAIN flights /\ flights[key].leader = p
      /\ rq[p] \in Requests
      /\ resp \in Responses /\ resp # None
      /\ UNCHANGED <<now, rows, hist>>
  BY DEF FinishFetch, TypeInv, FlightsManned, FlightsTyped, Flights, CallersTyped, Asking
<1>2. IsResult(fresh)
  BY <1>1 DEF Requests, Responses, IsResult
<1>3. entry \in Entries
  BY <1>1 DEF Requests, Responses, Entries, TypeInv, ConfigTyped
<1>4. \/ LandError(flights[key], key) /\ UNCHANGED cache
      \/ LandWith(flights[key], key, fresh) /\ UNCHANGED cache
      \/ cache' = Put(cache, key, entry, ttl) /\ LandWith(flights[key], key, fresh)
      \/ /\ resp.kind = "304" /\ Refreshable(cache, key)
         /\ cache' = Refresh(cache, key, renewed)
         /\ LandWith(flights[key], key, cache'.entries[key])
  BY DEF FinishFetch
<1>5. ASSUME resp.kind = "304", Refreshable(cache, key), cache' = Refresh(cache, key, renewed),
             LandWith(flights[key], key, cache'.entries[key])
      PROVE  /\ key \in DOMAIN cache.entries
             /\ renewed \in Entries
             /\ Wellformed(cache')
             /\ cache'.entries = [cache.entries EXCEPT ![key] = renewed]
             /\ LandWith(flights[key], key, renewed)
  <2>1. key \in DOMAIN cache.entries
    BY <1>5 DEF Refreshable, Cached
  <2>2. renewed \in Entries
    BY <1>1, <2>1 DEF TypeInv, CacheTyped, ConfigTyped, Entries, Requests, Responses
  <2> HIDE DEF renewed
  <2>3. Wellformed(cache') /\ cache'.entries = [cache.entries EXCEPT ![key] = renewed]
    BY <1>5, <2>1, RefreshKeeps DEF TypeInv, CacheTyped
  <2> QED
    BY <1>5, <2>1, <2>2, <2>3
<1> HIDE DEF fresh, entry, renewed
<1>6. \/ LandError(flights[key], key) /\ UNCHANGED cache
      \/ LandWith(flights[key], key, fresh) /\ UNCHANGED cache
      \/ cache' = Put(cache, key, entry, ttl) /\ LandWith(flights[key], key, fresh)
      \/ /\ resp.kind = "304" /\ key \in DOMAIN cache.entries
         /\ renewed \in Entries
         /\ Wellformed(cache')
         /\ cache'.entries = [cache.entries EXCEPT ![key] = renewed]
         /\ LandWith(flights[key], key, renewed)
  BY <1>4, <1>5
<1> QED
  BY <1>1, <1>2, <1>3, <1>6, Zenon DEF fresh, entry, renewed

\* FinishFetch, whatever the upstream answered.
LEMMA FinishFetchType ==
  ASSUME TypeInv, NEW p \in Callers, FinishFetch(p), UNCHANGED asks
  PROVE  TypeInv'
<1> DEFINE key == rq[p].key
           resp == flights[key].resp
           ttl == rq[p].ttl
           fresh == [src |-> rq[p].url, asOf |-> resp.asOf, size |-> resp.size, ttl |-> 0]
           Entry(from, size) == [src |-> from, asOf |-> resp.asOf, size |-> size,
                                 ttl |-> ttl, expires |-> now + ttl]
           entry == Entry(rq[p].url, resp.size)
           renewed == Entry(cache.entries[key].src, cache.entries[key].size)
<1>1. /\ key \in DOMAIN flights /\ entry \in Entries /\ IsResult(fresh)
      /\ UNCHANGED <<now, rows, hist>>
      /\ \/ LandError(flights[key], key) /\ UNCHANGED cache
         \/ LandWith(flights[key], key, fresh) /\ UNCHANGED cache
         \/ cache' = Put(cache, key, entry, ttl) /\ LandWith(flights[key], key, fresh)
         \/ /\ key \in DOMAIN cache.entries
            /\ renewed \in Entries
            /\ Wellformed(cache')
            /\ cache'.entries = [cache.entries EXCEPT ![key] = renewed]
            /\ LandWith(flights[key], key, renewed)
  BY FinishFetchCases, Zenon
<1> HIDE DEF key, fresh, entry, renewed, ttl
<1>2. ConfigTyped'
  BY <1>1 DEF TypeInv, ConfigTyped
<1>3. CacheTyped'
  <2>1. key \in Keys
    BY <1>1 DEF TypeInv, FlightsTyped
  <2>2. CASE UNCHANGED cache
    BY <2>2 DEF TypeInv, CacheTyped
  <2>3. CASE cache' = Put(cache, key, entry, ttl)
    BY <1>1, <2>1, <2>3, PutKeeps DEF TypeInv, CacheTyped
  <2>4. CASE /\ renewed \in Entries /\ Wellformed(cache')
             /\ cache'.entries = [cache.entries EXCEPT ![key] = renewed]
    BY <2>1, <2>4 DEF TypeInv, CacheTyped
  <2> QED
    BY <1>1, <2>2, <2>3, <2>4
<1>4. renewed \in Entries => IsResult(renewed)
  BY DEF Entries, IsResult
<1>5. CallersTyped' /\ KeysNamed' /\ FlightsTyped' /\ FlightsManned'
  BY <1>1, <1>4, LandErrorType, LandWithType
<1> QED
  BY <1>2, <1>3, <1>5 DEF TypeInv

\* A step that leaves the flights, the cache and the configuration alone, and
\* moves no caller from or to a flight.
LEMMA HoldersMove ==
  ASSUME TypeInv, UNCHANGED <<now, rows, cache, flights, hist, asks>>, CallersTyped', KeysNamed',
         \A q \in Callers : \/ pc'[q] = pc[q] /\ rq'[q].key = rq[q].key
                            \/ pc[q] # "wait" /\ pc'[q] # "wait"
  PROVE  TypeInv'
<1>1. ConfigTyped' /\ CacheTyped' /\ FlightsTyped'
  BY DEF TypeInv, ConfigTyped, CacheTyped, FlightsTyped
<1>2. FlightsManned'
  BY DEF TypeInv, FlightsManned, FlightsTyped, Flights
<1> QED
  BY <1>1, <1>2 DEF TypeInv

\* Whoever shares a reader holds a body (what SharingInv says of mates).
MatesHold == \A p \in Callers : Holding(p) => \A q \in rq[p].body.mates : Holding(q)

\* The reader moves on for those who hold it.
LEMMA AdvanceReaderType ==
  ASSUME TypeInv, MatesHold, NEW p \in Callers, Holding(p), NEW k \in Nat
  PROVE  LET r == AdvanceReader(p, k)
         IN  /\ r = [q \in Callers |-> r[q]]
             /\ \A q \in Callers : r[q].key = rq[q].key
             /\ \A q \in Callers : ~Holding(q) => r[q] = rq[q]
             /\ \A q \in Callers : Holding(q) =>
                   /\ r[q] \in Holdings
                   /\ r[q].tenant = rq[q].tenant
                   /\ r[q].doc = rq[q].doc
                   /\ r[q].started = rq[q].started
                   /\ r[q].body = [rq[q].body EXCEPT !.pos = r[q].body.pos]
<1> DEFINE r == AdvanceReader(p, k)
<1>1. r = [q \in Callers |->
             IF q \in rq[p].body.mates \cup {p} THEN [rq[q] EXCEPT !.body.pos = @ + k] ELSE rq[q]]
  BY DEF AdvanceReader
<1>2. ASSUME NEW q \in Callers, Holding(q)
      PROVE  /\ rq[q] \in Holdings
             /\ [rq[q] EXCEPT !.body.pos = @ + k] \in Holdings
  BY <1>2 DEF TypeInv, CallersTyped, Holdings, Bodies
<1>3. \A q \in Callers : ~Holding(q) => r[q] = rq[q]
  BY <1>1 DEF MatesHold
<1>4. ASSUME NEW q \in Callers, Holding(q)
      PROVE  /\ r[q] \in Holdings
             /\ r[q].tenant = rq[q].tenant
             /\ r[q].doc = rq[q].doc
             /\ r[q].key = rq[q].key
             /\ r[q].started = rq[q].started
             /\ r[q].body = [rq[q].body EXCEPT !.pos = r[q].body.pos]
  <2>1. CASE r[q] = rq[q]
    BY <1>2, <1>4, <2>1 DEF Holdings, Bodies
  <2>2. CASE r[q] = [rq[q] EXCEPT !.body.pos = @ + k]
    BY <1>2, <1>4, <2>2 DEF Holdings, Bodies
  <2> QED
    BY <1>1, <2>1, <2>2
<1> HIDE DEF r
<1>5. r = [q \in Callers |-> r[q]]
  BY <1>1
<1> QED
  BY <1>3, <1>4, <1>5 DEF r

\* Advance.
LEMMA AdvanceType ==
  ASSUME TypeInv, MatesHold, NEW p \in Callers, Advance(p), UNCHANGED asks
  PROVE  TypeInv'
<1> DEFINE k == rq[p].body.chunk
<1>1. Holding(p) /\ k \in Nat /\ pc[p] = "advance"
  BY DEF Advance, Holding, TypeInv, CallersTyped, Holdings, Bodies
<1>2. rq' = AdvanceReader(p, k) /\ pc' = [pc EXCEPT ![p] = "read"]
  BY DEF Advance, Goto
<1>3. /\ rq' = [q \in Callers |-> rq'[q]]
      /\ \A q \in Callers : rq'[q].key = rq[q].key
      /\ \A q \in Callers : ~Holding(q) => rq'[q] = rq[q]
      /\ \A q \in Callers : Holding(q) => /\ rq'[q] \in Holdings
                                         /\ rq'[q].tenant = rq[q].tenant
                                         /\ rq'[q].doc = rq[q].doc
  <2> HIDE DEF k
  <2> QED BY <1>1, <1>2, AdvanceReaderType
<1>4. CallersTyped' /\ KeysNamed'
  <2> HIDE DEF k
  <2> QED BY <1>1, <1>2, <1>3 DEF TypeInv, CallersTyped, KeysNamed, Holding, Asking
<1> QED
  BY <1>1, <1>2, <1>3, <1>4, HoldersMove DEF Advance, TypeInv, CallersTyped

\* What Read takes is a number, and moves the reader no further than the limit.
LEMMA ReadChunk ==
  ASSUME TypeInv, NEW p \in Callers, Read(p)
  PROVE  LET b == rq[p].body
             d == rq[p].doc
             rest == Limit(b, d) - b.pos
         IN  /\ pc[p] = "read" /\ rq[p] \in Holdings /\ b \in Bodies
             /\ \E k \in Nat :
                   /\ b.mates = {} => k = rest
                   /\ IF d \in Metadata /\ b.mates # {}
                      THEN /\ rq' = [rq EXCEPT ![p].body = TakeChunk(b, k)]
                           /\ pc' = [pc EXCEPT ![p] = "advance"]
                      ELSE /\ rq' = [AdvanceReader(p, k) EXCEPT ![p].body.got = TakeChunk(b, k).got]
                           /\ pc' = [pc EXCEPT ![p] = "read"]
<1> DEFINE b == rq[p].body
           d == rq[p].doc
           rest == Limit(b, d) - b.pos
<1>1. pc[p] = "read" /\ rq[p] \in Holdings /\ b \in Bodies
  BY DEF Read, TypeInv, CallersTyped, Holding, Holdings
<1>2. rest > 0 /\ Limit(b, d) \in Nat /\ rest \in Nat
  BY <1>1, UpstreamAssumption DEF Read, Limit, Bodies
<1> HIDE DEF rest
<1>3. PICK k \in IF b.mates = {} THEN {rest} ELSE {1, rest} :
         IF d \in Metadata /\ b.mates # {}
         THEN /\ rq' = [rq EXCEPT ![p].body = TakeChunk(b, k)]
              /\ Goto(p, "advance")
         ELSE /\ rq' = [AdvanceReader(p, k) EXCEPT ![p].body.got = TakeChunk(b, k).got]
              /\ Goto(p, "read")
  BY DEF Read, rest
<1>4. k \in Nat /\ (b.mates = {} => k = rest)
  BY <1>2, <1>3
<1> QED
  BY <1>1, <1>3, <1>4 DEF Goto, rest

\* The chunk that is taken leaves a typed body.
LEMMA TakeChunkType ==
  ASSUME NEW b \in Bodies, NEW k \in Nat
  PROVE  TakeChunk(b, k) \in Bodies
<1> DEFINE got == IF b.got = b.pos THEN b.got + k ELSE None
<1>1. got \in Nat \cup {None}
  BY DEF Bodies
<1>2. TakeChunk(b, k) = [b EXCEPT !.got = got, !.chunk = k]
  BY DEF TakeChunk
<1> HIDE DEF got
<1> QED
  BY <1>1, <1>2 DEF Bodies

\* Read.
LEMMA ReadType ==
  ASSUME TypeInv, MatesHold, NEW p \in Callers, Read(p), UNCHANGED asks
  PROVE  TypeInv'
<1> DEFINE b == rq[p].body
           d == rq[p].doc
<1>1. pc[p] = "read" /\ rq[p] \in Holdings /\ b \in Bodies /\ Holding(p)
  BY ReadChunk DEF Holding
<1>2. UNCHANGED <<now, rows, cache, flights, hist>>
  BY DEF Read
<1>3. PICK k \in Nat :
         \/ /\ rq' = [rq EXCEPT ![p].body = TakeChunk(b, k)]
            /\ pc' = [pc EXCEPT ![p] = "advance"]
         \/ /\ rq' = [AdvanceReader(p, k) EXCEPT ![p].body.got = TakeChunk(b, k).got]
            /\ pc' = [pc EXCEPT ![p] = "read"]
  BY ReadChunk
<1>4. TakeChunk(b, k) \in Bodies
  BY <1>1, TakeChunkType
<1>5. /\ rq' = [q \in Callers |-> rq'[q]]
      /\ \A q \in Callers : rq'[q].key = rq[q].key
      /\ \A q \in Callers : ~Holding(q) => rq'[q] = rq[q]
      /\ \A q \in Callers : Holding(q) => /\ rq'[q] \in Holdings
                                         /\ rq'[q].tenant = rq[q].tenant
                                         /\ rq'[q].doc = rq[q].doc
  <2>1. CASE rq' = [rq EXCEPT ![p].body = TakeChunk(b, k)]
    BY <1>1, <1>4, <2>1 DEF TypeInv, CallersTyped, Holdings
  <2>2. CASE rq' = [AdvanceReader(p, k) EXCEPT ![p].body.got = TakeChunk(b, k).got]
    <3> DEFINE r == AdvanceReader(p, k)
               got == TakeChunk(b, k).got
    <3>1. /\ r = [q \in Callers |-> r[q]]
          /\ \A q \in Callers : r[q].key = rq[q].key
          /\ \A q \in Callers : ~Holding(q) => r[q] = rq[q]
          /\ \A q \in Callers : Holding(q) => /\ r[q] \in Holdings
                                             /\ r[q].tenant = rq[q].tenant
                                             /\ r[q].doc = rq[q].doc
      BY <1>1, AdvanceReaderType
    <3>2. got \in Nat \cup {None}
      BY <1>4 DEF Bodies
    <3> HIDE DEF r, got
    <3>3. rq' = [r EXCEPT ![p].body.got = got]
      BY <2>2 DEF r, got
    <3>4. \A q \in Callers \ {p} : rq'[q] = r[q]
      BY <3>1, <3>3
    <3>5. rq'[p] = [r[p] EXCEPT !.body.got = got]
      BY <3>1, <3>3
    <3>6. rq'[p] \in Holdings /\ rq'[p].key = r[p].key /\ rq'[p].tenant = r[p].tenant
                              /\ rq'[p].doc = r[p].doc
      BY <1>1, <3>1, <3>2, <3>5 DEF Holdings, Bodies
    <3>7. rq' = [q \in Callers |-> rq'[q]]
      BY <3>1, <3>3
    <3> QED
      BY <1>1, <3>1, <3>4, <3>6, <3>7
  <2> QED
    BY <1>3, <2>1, <2>2
<1>6. pc \in [Callers -> Asking \cup {"idle", "read", "advance"}]
  BY DEF TypeInv, CallersTyped
<1>7. \E l \in {"read", "advance"} : pc' = [pc EXCEPT ![p] = l]
  BY <1>3
<1>8. CallersTyped' /\ KeysNamed'
  BY <1>1, <1>5, <1>6, <1>7 DEF TypeInv, CallersTyped, KeysNamed, Holding, Asking
<1> QED
  BY <1>1, <1>2, <1>5, <1>6, <1>7, <1>8, HoldersMove

\* Leave: the others see the body closed.
LEMMA LeaveType ==
  ASSUME TypeInv, NEW p \in Callers, pc[p] = "read", NEW result, Leave(p, result),
         UNCHANGED <<now, rows, cache, flights, hist, asks>>
  PROVE  TypeInv'
<1>1. /\ pc' = [pc EXCEPT ![p] = "idle"]
      /\ rq' = [q \in Callers |-> IF q = p THEN Idle
                                  ELSE IF Holding(q) THEN CloseBody(p, q) ELSE rq[q]]
  BY DEF Leave
<1>2. ASSUME NEW q \in Callers, Holding(q)
      PROVE  /\ CloseBody(p, q) \in Holdings
             /\ CloseBody(p, q).tenant = rq[q].tenant
             /\ CloseBody(p, q).doc = rq[q].doc
             /\ CloseBody(p, q).key = rq[q].key
  <2> DEFINE b == rq[q].body
             c == [b EXCEPT !.mates = @ \ {p}, !.closed = rq[p].doc \notin Metadata]
  <2>1. rq[q] \in Holdings /\ b \in Bodies
    BY <1>2 DEF TypeInv, CallersTyped, Holdings
  <2>2. c \in Bodies
    <3> DEFINE closed == rq[p].doc \notin Metadata
    <3>1. closed \in BOOLEAN
      OBVIOUS
    <3> HIDE DEF closed
    <3>2. [b EXCEPT !.mates = @ \ {p}, !.closed = closed] \in Bodies
      BY <2>1, <3>1 DEF Bodies
    <3> QED
      BY <3>2 DEF closed
  <2>3. CloseBody(p, q) = rq[q] \/ CloseBody(p, q) = [rq[q] EXCEPT !.body = c]
    BY DEF CloseBody
  <2> HIDE DEF c
  <2> QED
    BY <2>1, <2>2, <2>3 DEF Holdings
<1>3. CallersTyped' /\ KeysNamed'
  BY <1>1, <1>2 DEF TypeInv, CallersTyped, KeysNamed, Holding, Asking
<1>4. \A q \in Callers : \/ pc'[q] = pc[q] /\ rq'[q].key = rq[q].key
                         \/ pc[q] # "wait" /\ pc'[q] # "wait"
  BY <1>1, <1>2 DEF TypeInv, CallersTyped
<1> QED
  BY <1>3, <1>4, HoldersMove

\* Upsert and Reset write a row of the table and the time its old URL was left.
SetsRow == \E t \in Tenants, f \in Formats, row \in Rows \cup {None} : SetRow(t, f, row)

\* What SetRow does to the history.
LEMMA SetRowHist ==
  ASSUME ConfigTyped, NEW t \in Tenants, NEW f \in Formats, NEW row \in Rows \cup {None},
         SetRow(t, f, row)
  PROVE  LET url == ResolveConfig(t, f).url
         IN  /\ hist' \in [load : [Tenants -> Nat],
                           until : [Tenants \X Formats -> [URLs -> Nat \cup {None}]]]
             /\ hist'.load = hist.load
             /\ \A g \in Tenants \X Formats, u \in URLs :
                   hist'.until[g][u] = IF g = <<t, f>> /\ u = url THEN now ELSE hist.until[g][u]
<1> DEFINE url == ResolveConfig(t, f).url
           tf == <<t, f>>
           U == [URLs -> Nat \cup {None}]
           until == IF url = None THEN hist.until[tf] ELSE [hist.until[tf] EXCEPT ![url] = now]
<1>1. url \in URLs \cup {None}
  BY ConfigType
<1>2. hist.until \in [Tenants \X Formats -> U] /\ hist.until[tf] \in U /\ now \in Nat
  BY DEF ConfigTyped
<1>3. until \in U
  BY <1>1, <1>2
<1>4. \A u \in URLs : until[u] = IF u = url THEN now ELSE hist.until[tf][u]
  BY <1>1, <1>2, NoneAssumption
<1>5. hist' = [hist EXCEPT !.until[tf] = until]
  BY DEF SetRow
<1> HIDE DEF until, U, url, tf
<1>6. tf \in Tenants \X Formats
  BY DEF tf
<1>7. /\ hist' \in [load : [Tenants -> Nat], until : [Tenants \X Formats -> U]]
      /\ hist'.load = hist.load
      /\ hist'.until = [hist.until EXCEPT ![tf] = until]
  BY <1>2, <1>3, <1>5, <1>6 DEF ConfigTyped, U
<1>8. \A g \in Tenants \X Formats, u \in URLs :
         hist'.until[g][u] = IF g = tf /\ u = url THEN now ELSE hist.until[g][u]
  BY <1>2, <1>4, <1>6, <1>7
<1> QED
  BY <1>7, <1>8 DEF U, url, tf

\* A change of the upstream configuration keeps the types.
LEMMA SetRowType ==
  ASSUME TypeInv, SetsRow, UNCHANGED asks
  PROVE  TypeInv'
<1>1. PICK t \in Tenants, f \in Formats, row \in Rows \cup {None} : SetRow(t, f, row)
  BY DEF SetsRow
<1>2. UNCHANGED <<now, cache, buckets, flights, pc, rq>> /\ rows' = [rows EXCEPT ![<<t, f>>] = row]
  BY <1>1 DEF SetRow
<1>3. ConfigTyped'
  BY <1>1, <1>2, SetRowHist DEF TypeInv, ConfigTyped
<1> QED
  BY <1>2, <1>3
  DEF TypeInv, CallersTyped, CacheTyped, FlightsTyped, KeysNamed, FlightsManned, Holding

\* The clock's step takes the refill off the load.
LEMMA TickLoad ==
  ASSUME TypeInv, Tick
  PROVE  /\ now' = now + 1
         /\ hist' \in [load : [Tenants -> Nat],
                       until : [Tenants \X Formats -> [URLs -> Nat \cup {None}]]]
         /\ hist'.until = hist.until
         /\ \A t \in Tenants : \/ hist'.load[t] = 0
                               \/ hist'.load[t] = hist.load[t] - TickSec * Rpm
<1> DEFINE refill == TickSec * Rpm
           load == [t \in Tenants |-> Max({0, hist.load[t] - refill})]
<1>1. refill \in Nat
  BY UpstreamAssumption
<1>2. hist.load \in [Tenants -> Nat]
  BY DEF TypeInv, ConfigTyped
<1> HIDE DEF refill
<1>3. ASSUME NEW n \in Int
      PROVE  Max({0, n}) \in Nat /\ Max({0, n}) \in {0, n}
  BY DEF Max
<1>4. load \in [Tenants -> Nat]
  BY <1>1, <1>2, <1>3
<1>5. \A t \in Tenants : load[t] \in {0, hist.load[t] - refill}
  BY <1>1, <1>2, <1>3
<1>6. hist' = [hist EXCEPT !.load = load] /\ now' = now + 1
  BY DEF Tick, refill
<1> HIDE DEF load
<1>7. /\ hist' \in [load : [Tenants -> Nat],
                    until : [Tenants \X Formats -> [URLs -> Nat \cup {None}]]]
      /\ hist'.until = hist.until
      /\ hist'.load = load
  BY <1>4, <1>6 DEF TypeInv, ConfigTyped
<1> QED
  BY <1>5, <1>6, <1>7 DEF refill

\* The passing of time keeps the types.
LEMMA TickType ==
  ASSUME TypeInv, Tick, UNCHANGED asks
  PROVE  TypeInv'
<1>1. UNCHANGED <<rows, cache, flights, pc, rq>>
  BY DEF Tick
<1>2. ConfigTyped'
  BY <1>1, TickLoad DEF TypeInv, ConfigTyped
<1> QED
  BY <1>1, <1>2
  DEF TypeInv, CallersTyped, CacheTyped, FlightsTyped, KeysNamed, FlightsManned, Holding

\* Init.
LEMMA InitType ==
  ASSUME Init
  PROVE  TypeInv
<1>1. PICK s \in Scenarios :
        /\ asks = s.asks
        /\ \E r \in {None} \cup Rows : rows = [tf \in Tenants \X Formats |->
                                                IF tf[1] \in s.edited THEN r ELSE None]
  BY DEF Init
<1>2. /\ hist = [load |-> [t \in Tenants |-> 0],
                 until |-> [tf \in Tenants \X Formats |-> [u \in URLs |-> None]]]
      /\ now = 0
  BY DEF Init
<1>3. ConfigTyped
  BY <1>1, <1>2, UpstreamAssumption DEF ConfigTyped, Keys
<1>4. CacheTyped
  BY DEF Init, EmptyCache, CacheTyped, Wellformed
<1>5. CallersTyped /\ KeysNamed
  BY DEF Init, CallersTyped, KeysNamed, Asking, Holding
<1>6. FlightsTyped /\ FlightsManned
  BY DEF Init, FlightsTyped, FlightsManned
<1> QED
  BY <1>3, <1>4, <1>5, <1>6 DEF TypeInv

\* The steps of the specification, one by one.
LEMMA NextCases ==
  ASSUME Next
  PROVE  /\ UNCHANGED asks
         /\ \/ \E p \in Callers : \/ Fetch(p) \/ CacheGet(p) \/ Allow(p) \/ Do(p) \/ Respond(p)
                                  \/ FinishFetch(p) \/ Read(p) \/ Advance(p)
                                  \/ ReadEnds(p) \/ ReadBreaks(p)
            \/ SetsRow
            \/ Tick
  BY Zenon DEF Next, Step, Upsert, Reset, SetsRow

\* A caller leaves by reaching the end of its body or by failing.
LEMMA LeavingStep ==
  ASSUME NEW p \in Callers, ReadEnds(p) \/ ReadBreaks(p)
  PROVE  /\ pc[p] = "read"
         /\ \E result : Leave(p, result)
         /\ UNCHANGED <<now, rows, cache, buckets, flights, hist, left>>
  BY DEF ReadEnds, ReadBreaks

\* Every step keeps the types.
LEMMA TypeStep ==
  ASSUME TypeInv, MatesHold, [Next]_vars
  PROVE  TypeInv'
<1>1. CASE UNCHANGED vars
  <2>1. ConfigTyped' /\ CacheTyped'
    BY <1>1 DEF vars, TypeInv, ConfigTyped, CacheTyped
  <2>2. CallersTyped' /\ KeysNamed' /\ FlightsTyped' /\ FlightsManned'
    BY <1>1 DEF vars, TypeInv, CallersTyped, FlightsTyped, KeysNamed, FlightsManned, Holding
  <2> QED
    BY <2>1, <2>2 DEF TypeInv
<1>2. ASSUME Next, NEW p \in Callers, Fetch(p) \/ CacheGet(p) \/ Allow(p) \/ Do(p)
      PROVE  TypeInv'
  BY <1>2, NextCases, FetchType, CacheGetType, AllowType, DoType
<1>3. ASSUME Next, NEW p \in Callers, Respond(p) \/ FinishFetch(p) \/ Read(p) \/ Advance(p)
      PROVE  TypeInv'
  BY <1>3, NextCases, RespondType, FinishFetchType, ReadType, AdvanceType
<1>4. ASSUME Next, NEW p \in Callers, ReadEnds(p) \/ ReadBreaks(p)
      PROVE  TypeInv'
  BY <1>4, NextCases, LeavingStep, LeaveType
<1>5. ASSUME Next, SetsRow \/ Tick
      PROVE  TypeInv'
  BY <1>5, NextCases, SetRowType, TickType
<1> QED
  BY <1>1, <1>2, <1>3, <1>4, <1>5, NextCases

-----------------------------------------------------------------------------
(* The rate limiter. *)

\* A bucket holds a number of tokens, within its capacity; as time goes by it
\* fills by no more than the refill of a tick.
LEMMA RefillTicks ==
  ASSUME now \in Nat, NEW b \in [tokens : Nat, last : Nat], b.last <= now
  PROVE  /\ Refill(b) \in Nat
         /\ Refill(b) <= Capacity
         /\ now' = now + 1 => /\ Refill(b)' <= Capacity
                              /\ Refill(b)' <= Refill(b) + TickSec * Rpm
<1> DEFINE since == now - b.last
           rate == TickSec * Rpm
<1>1. since \in Nat /\ rate \in Nat /\ Capacity \in Nat
  BY UpstreamAssumption DEF Capacity
<1>2. (since + 1) * TickSec * Rpm = since * TickSec * Rpm + rate /\ since * TickSec * Rpm \in Nat
  BY <1>1, UpstreamAssumption
<1>3. now' = now + 1 => now' - b.last = since + 1
  OBVIOUS
<1> QED
  BY <1>1, <1>2, <1>3 DEF Refill, Capacity

\* Allow takes from the bucket what it adds to the load; nothing else but the
\* clock touches either.
LEMMA AllowBuckets ==
  ASSUME TypeInv, BucketsInv, NEW p \in Callers, Allow(p)
  PROVE  BucketsInv'
<1> DEFINE t == rq[p].tenant
           tokens == IF buckets[t] = None THEN Capacity ELSE Refill(buckets[t])
<1>1. t \in Tenants /\ now \in Nat /\ Capacity \in Nat /\ UNCHANGED now
  BY UpstreamAssumption
  DEF Allow, TypeInv, CallersTyped, ConfigTyped, Asking, Requests, Capacity
<1>2. tokens \in Nat /\ tokens <= Capacity /\ hist.load[t] + tokens <= Capacity
  <2>1. CASE buckets[t] = None
    BY <1>1, <2>1, NoneAssumption DEF BucketsInv
  <2>2. CASE buckets[t] # None
    <3>1. /\ buckets[t] \in [tokens : Nat, last : Nat]
          /\ buckets[t].last <= now
          /\ hist.load[t] + Refill(buckets[t]) <= Capacity
      BY <1>1, <2>2 DEF BucketsInv
    <3> QED
      BY <1>1, <2>2, <3>1, RefillTicks
  <2> QED
    BY <2>1, <2>2
<1>3. hist.load \in [Tenants -> Nat]
  BY DEF TypeInv, ConfigTyped
<1> HIDE DEF tokens
<1>4. PICK n \in Nat : /\ n <= Capacity
                       /\ buckets' = [buckets EXCEPT ![t] = [tokens |-> n, last |-> now]]
                       /\ hist'.load[t] + n <= Capacity
                       /\ \A u \in Tenants \ {t} : hist'.load[u] = hist.load[u]
  <2>1. CASE HasToken(tokens)
    <3>1. /\ buckets' = [buckets EXCEPT ![t] = [tokens |-> tokens - 60, last |-> now]]
          /\ hist' = [hist EXCEPT !.load[t] = @ + 60]
      BY <2>1 DEF Allow, tokens
    <3>2. tokens - 60 \in Nat
      BY <1>2, <2>1 DEF HasToken
    <3>3. hist'.load = [hist.load EXCEPT ![t] = @ + 60]
      BY <3>1 DEF TypeInv, ConfigTyped
    <3>4. /\ hist'.load[t] = hist.load[t] + 60
          /\ \A u \in Tenants \ {t} : hist'.load[u] = hist.load[u]
      BY <1>1, <1>3, <3>3
    <3>5. hist'.load[t] + (tokens - 60) <= Capacity /\ tokens - 60 <= Capacity
      BY <1>1, <1>2, <1>3, <3>2, <3>4
    <3> QED
      BY <3>1, <3>2, <3>4, <3>5
  <2>2. CASE ~HasToken(tokens)
    <3>1. /\ buckets' = [buckets EXCEPT ![t] = [tokens |-> tokens, last |-> now]]
          /\ hist' = hist
      BY <2>2 DEF Allow, tokens
    <3> QED
      BY <1>2, <3>1
  <2> QED
    BY <2>1, <2>2
<1>5. Refill([tokens |-> n, last |-> now])' = n
  BY <1>1, <1>4, UpstreamAssumption DEF Refill, Capacity
<1>6. ASSUME NEW u \in Tenants
      PROVE  (\/ buckets[u] = None /\ hist.load[u] = 0
              \/ /\ buckets[u] \in [tokens : Nat, last : Nat]
                 /\ buckets[u].last <= now
                 /\ hist.load[u] + Refill(buckets[u]) <= Capacity)'
  <2>1. CASE u = t
    <3>1. buckets'[t] = [tokens |-> n, last |-> now]
      BY <1>1, <1>4 DEF BucketsInv
    <3> QED
      BY <1>1, <1>4, <1>5, <2>1, <3>1
  <2>2. CASE u # t
    <3>1. buckets'[u] = buckets[u] /\ hist'.load[u] = hist.load[u]
      BY <1>4, <2>2 DEF BucketsInv
    <3> QED
      BY <1>1, <3>1 DEF BucketsInv, Refill
  <2> QED
    BY <2>1, <2>2
<1>7. buckets' = [u \in Tenants |-> buckets'[u]]
  BY <1>4 DEF BucketsInv
<1> QED
  BY <1>6, <1>7 DEF BucketsInv

\* A tick refills every bucket and takes as much off the load.
LEMMA TickBuckets ==
  ASSUME TypeInv, BucketsInv, Tick
  PROVE  BucketsInv'
<1>1. UNCHANGED buckets /\ now \in Nat /\ Capacity \in Nat
  BY UpstreamAssumption DEF Tick, TypeInv, ConfigTyped, Capacity
<1>2. TickSec * Rpm \in Nat
  BY UpstreamAssumption
<1>3. ASSUME NEW u \in Tenants
      PROVE  (\/ buckets[u] = None /\ hist.load[u] = 0
              \/ /\ buckets[u] \in [tokens : Nat, last : Nat]
                 /\ buckets[u].last <= now
                 /\ hist.load[u] + Refill(buckets[u]) <= Capacity)'
  <2> DEFINE rate == TickSec * Rpm
  <2>1. /\ hist.load[u] \in Nat /\ hist'.load[u] \in Nat
        /\ hist'.load[u] = 0 \/ hist'.load[u] = hist.load[u] - rate
        /\ now' = now + 1
    BY TickLoad DEF TypeInv, ConfigTyped
  <2>2. CASE buckets[u] = None
    BY <1>1, <1>2, <2>1, <2>2, NoneAssumption DEF BucketsInv
  <2>3. CASE buckets[u] # None
    <3>1. /\ buckets[u] \in [tokens : Nat, last : Nat]
          /\ buckets[u].last <= now
          /\ hist.load[u] + Refill(buckets[u]) <= Capacity
      BY <2>3 DEF BucketsInv
    <3>2. /\ Refill(buckets[u]) \in Nat
          /\ Refill(buckets[u])' <= Capacity
          /\ Refill(buckets[u])' <= Refill(buckets[u]) + rate
      BY <1>1, <2>1, <3>1, RefillTicks
    <3>3. Refill(buckets[u])' \in Int
      BY <1>1, <2>1, <3>1, UpstreamAssumption DEF Refill, Capacity
    <3> HIDE DEF rate
    <3>4. hist'.load[u] + Refill(buckets[u])' <= Capacity
      BY <1>1, <1>2, <2>1, <3>1, <3>2, <3>3 DEF rate
    <3> QED
      BY <1>1, <2>1, <3>1, <3>4
  <2> QED
    BY <2>2, <2>3
<1> QED
  BY <1>1, <1>3 DEF BucketsInv

\* Every step keeps the load of a tenant and what its bucket still holds within the capacity.
LEMMA BucketsStep ==
  ASSUME TypeInv, BucketsInv, [Next]_vars
  PROVE  BucketsInv'
<1>1. CASE UNCHANGED <<now, buckets, hist>>
  BY <1>1 DEF BucketsInv, Refill
<1>2. CASE \E p \in Callers : Allow(p)
  BY <1>2, AllowBuckets
<1>3. CASE Tick
  BY <1>3, TickBuckets
<1>4. CASE SetsRow
  <2>1. UNCHANGED <<now, buckets>> /\ hist'.load = hist.load
    BY <1>4, SetRowHist DEF SetsRow, SetRow, TypeInv
  <2> QED
    BY <2>1 DEF BucketsInv, Refill
<1>5. ASSUME NEW p \in Callers,
             \/ Fetch(p) \/ CacheGet(p) \/ Do(p) \/ Respond(p) \/ FinishFetch(p)
             \/ Read(p) \/ Advance(p) \/ ReadEnds(p) \/ ReadBreaks(p)
      PROVE  UNCHANGED <<now, buckets, hist>>
  <2>1. CASE Fetch(p)
    BY <2>1 DEF Fetch
  <2>2. CASE CacheGet(p)
    BY <2>2 DEF CacheGet
  <2>3. CASE Do(p)
    BY <2>3 DEF Do
  <2>4. CASE Respond(p)
    BY <2>4 DEF Respond
  <2>5. CASE FinishFetch(p)
    BY <2>5 DEF FinishFetch
  <2>6. CASE Read(p)
    BY <2>6 DEF Read
  <2>7. CASE Advance(p)
    BY <2>7 DEF Advance
  <2> QED
    BY <1>5, <2>1, <2>2, <2>3, <2>4, <2>5, <2>6, <2>7, LeavingStep
<1> QED
  BY <1>1, <1>2, <1>3, <1>4, <1>5, NextCases DEF vars

-----------------------------------------------------------------------------
(* Who shares a reader. *)

\* A step that gives nobody a body and takes none away.
LEMMA SharingKept ==
  ASSUME TypeInv, SharingInv, \A q \in Callers : Holding(q) => Holding(q)',
         \A q \in Callers : Holding(q)' => Holding(q) /\ pc'[q] = pc[q] /\ rq'[q] = rq[q]
  PROVE  SharingInv'
<1>1. \A q \in Callers : Holding(q) => rq[q].body.mates \subseteq Callers
  BY DEF TypeInv, CallersTyped, Holdings, Bodies
<1> QED
  BY <1>1 DEF SharingInv, Limit

\* A body at its beginning; it is shared when somebody else reads it.
LEMMA FreshBody ==
  ASSUME NEW src, NEW asOf, NEW size \in Nat, NEW ttl, NEW mates, NEW d
  PROVE  LET b == Body(src, asOf, size, ttl, mates)
         IN  /\ b.mates = mates
             /\ b.shared <=> mates # {}
             /\ b.got = b.pos
             /\ b.pos <= Limit(b, d)
             /\ b.src = src /\ b.asOf = asOf /\ b.size = size /\ b.ttl = ttl
<1> DEFINE b == Body(src, asOf, size, ttl, mates)
<1>1. b.shared <=> mates # {}
  BY Zenon DEF Body
<1>2. /\ b.mates = mates /\ b.got = 0 /\ b.pos = 0
      /\ b.src = src /\ b.asOf = asOf /\ b.size = size /\ b.ttl = ttl
  BY DEF Body
<1> HIDE DEF b
<1>3. Limit(b, d) \in Nat
  BY <1>2, UpstreamAssumption DEF Limit
<1> QED
  BY <1>1, <1>2, <1>3 DEF b

\* A cached body is the caller's own.
LEMMA CacheGetSharing ==
  ASSUME TypeInv, SharingInv, NEW p \in Callers, CacheGet(p)
  PROVE  SharingInv'
<1> DEFINE key == rq[p].key
           e == cache.entries[key]
           b == Body(e.src, e.asOf, e.size, e.ttl, {})
<1>1. pc[p] = "cache" /\ rq[p] \in Requests
  BY DEF CacheGet, TypeInv, CallersTyped, Asking
<1>2. CASE Live(cache, key, now)
  <2> DEFINE r == [tenant |-> rq[p].tenant, doc |-> rq[p].doc, key |-> rq[p].key,
                   started |-> rq[p].started, body |-> b]
  <2>1. e.size \in Nat
    BY <1>2 DEF Live, Cached, TypeInv, CacheTyped, Entries
  <2>2. b.mates = {} /\ b.got = b.pos /\ b.pos <= Limit(b, rq[p].doc)
    BY <2>1, FreshBody
  <2> HIDE DEF b
  <2>3. rq' = [rq EXCEPT ![p] = r] /\ pc' = [pc EXCEPT ![p] = "read"]
    BY <1>2 DEF CacheGet, Deliver, Goto, b
  <2>4. rq'[p].body = b /\ rq'[p].doc = rq[p].doc /\ pc'[p] = "read" /\ ~Holding(p)
    BY <1>1, <2>3 DEF TypeInv, CallersTyped, Holding
  <2>5. \A q \in Callers \ {p} : rq'[q] = rq[q] /\ pc'[q] = pc[q]
    BY <2>3 DEF TypeInv, CallersTyped
  <2>6. ASSUME NEW q \in Callers, Holding(q)
        PROVE  q # p /\ Holding(q)' /\ rq'[q] = rq[q] /\ p \notin rq[q].body.mates
    BY <2>4, <2>5, <2>6 DEF SharingInv, Holding
  <2>7. \A q \in Callers : Holding(q)' => q = p \/ Holding(q)
    BY <2>5 DEF Holding
  <2> QED
    BY <2>2, <2>4, <2>5, <2>6, <2>7 DEF SharingInv, Limit, TypeInv, CallersTyped, Holdings, Bodies
<1>3. CASE ~Live(cache, key, now)
  <2>1. rq' = rq /\ pc' = [pc EXCEPT ![p] = "limit"]
    BY <1>3 DEF CacheGet, Goto
  <2> QED
    BY <1>1, <2>1, SharingKept DEF TypeInv, CallersTyped, Holding
<1> QED
  BY <1>2, <1>3

\* A flight's callers share what they are given with each other and nobody else.
LEMMA LandWithSharing ==
  ASSUME TypeInv, SharingInv, NEW key \in DOMAIN flights, NEW result, IsResult(result),
         LandWith(flights[key], key, result)
  PROVE  SharingInv'
<1> DEFINE callers == flights[key].callers
           given(q) == Body(result.src, result.asOf, result.size, result.ttl, callers \ {q})
           r(q) == [tenant |-> rq[q].tenant, doc |-> rq[q].doc, key |-> key,
                    started |-> rq[q].started, body |-> given(q)]
<1>1. /\ pc' = [q \in Callers |-> IF q \in callers THEN "read" ELSE pc[q]]
      /\ rq' = [q \in Callers |-> IF q \notin callers THEN rq[q] ELSE r(q)]
  BY DEF LandWith
<1>2. callers \subseteq Callers /\ \A q \in callers : pc[q] = "wait"
  BY DEF TypeInv, FlightsTyped, Flights, FlightsManned
<1>3. ASSUME NEW q \in callers
      PROVE  LET b == given(q)
             IN  /\ b.mates = callers \ {q}
                 /\ b.shared <=> callers \ {q} # {}
                 /\ b.got = b.pos
                 /\ b.pos <= Limit(b, rq[q].doc)
  BY FreshBody DEF IsResult
<1>4. \A q \in callers : rq'[q].body = given(q) /\ rq'[q].doc = rq[q].doc /\ pc'[q] = "read"
  BY <1>1, <1>2
<1>5. \A q \in Callers \ callers : rq'[q] = rq[q] /\ pc'[q] = pc[q]
  BY <1>1
<1> HIDE DEF given, r
<1>6. ASSUME NEW q \in Callers, Holding(q)'
      PROVE  LET b == rq'[q].body
             IN  /\ \A o \in b.mates : o # q /\ Holding(o)' /\ rq'[o].body.shared
                 /\ ~b.shared => /\ b.mates = {}
                                 /\ pc'[q] = "read"
                                 /\ b.got = b.pos
                                 /\ b.pos <= Limit(b, rq'[q].doc)
  <2>1. CASE q \in callers
    BY <1>3, <1>4, <2>1 DEF Holding
  <2>2. CASE q \notin callers
    <3>1. Holding(q) /\ rq'[q] = rq[q] /\ pc'[q] = pc[q]
      BY <1>5, <1>6, <2>2 DEF Holding
    <3>2. ASSUME NEW o \in rq[q].body.mates
          PROVE  o # q /\ Holding(o)' /\ rq'[o].body.shared
      <4>1. o \in Callers /\ o # q /\ Holding(o) /\ rq[o].body.shared
        BY <3>1 DEF SharingInv, TypeInv, CallersTyped, Holdings, Bodies
      <4>2. o \notin callers
        BY <1>2, <4>1 DEF Holding
      <4> QED
        BY <1>5, <4>1, <4>2 DEF Holding
    <3> QED
      BY <3>1, <3>2 DEF SharingInv
  <2> QED
    BY <2>1, <2>2
<1> QED
  BY <1>6 DEF SharingInv, Limit

\* A step that keeps who holds a body and who shares it.
LEMMA SharingMoves ==
  ASSUME TypeInv, SharingInv, \A q \in Callers : Holding(q)' <=> Holding(q),
         \A q \in Callers : Holding(q) => /\ rq'[q].body.mates = rq[q].body.mates
                                          /\ rq'[q].body.shared = rq[q].body.shared,
         \A q \in Callers : Holding(q) /\ ~rq[q].body.shared =>
             /\ pc'[q] = "read"
             /\ rq'[q].body.got = rq'[q].body.pos
             /\ rq'[q].body.pos <= Limit(rq'[q].body, rq'[q].doc)
  PROVE  SharingInv'
<1>1. \A q \in Callers : Holding(q) => rq[q].body.mates \subseteq Callers
  BY DEF TypeInv, CallersTyped, Holdings, Bodies
<1> QED
  BY <1>1 DEF SharingInv, Limit

\* Whose reader moves on, and how far.
LEMMA AdvanceReaderMoves ==
  ASSUME TypeInv, SharingInv, NEW p \in Callers, Holding(p), NEW k \in Nat
  PROVE  LET r == AdvanceReader(p, k)
         IN  /\ \A q \in Callers : Holding(q) => /\ r[q].body.mates = rq[q].body.mates
                                                 /\ r[q].body.shared = rq[q].body.shared
             /\ \A q \in Callers \ {p} : Holding(q) /\ ~rq[q].body.shared => r[q] = rq[q]
             /\ r[p].body.pos = rq[p].body.pos + k
<1> DEFINE r == AdvanceReader(p, k)
<1>1. r = [q \in Callers |->
             IF q \in rq[p].body.mates \cup {p} THEN [rq[q] EXCEPT !.body.pos = @ + k] ELSE rq[q]]
  BY DEF AdvanceReader
<1>2. ASSUME NEW q \in Callers, Holding(q)
      PROVE  LET c == [rq[q] EXCEPT !.body.pos = @ + k].body
             IN  /\ c.mates = rq[q].body.mates
                 /\ c.shared = rq[q].body.shared
                 /\ c.pos = rq[q].body.pos + k
  BY <1>2 DEF TypeInv, CallersTyped, Holdings, Bodies
<1>3. \A q \in Callers \ {p} : Holding(q) /\ ~rq[q].body.shared => q \notin rq[p].body.mates
  BY DEF SharingInv
<1> QED
  BY <1>1, <1>2, <1>3

\* Whoever shares a reader is still reading.
LEMMA SharingImpliesMatesHold ==
  ASSUME SharingInv
  PROVE  MatesHold
  BY DEF SharingInv, MatesHold

\* Moving a shared reader on keeps the record of who shares it.
LEMMA AdvanceSharing ==
  ASSUME TypeInv, SharingInv, NEW p \in Callers, Advance(p)
  PROVE  SharingInv'
<1> DEFINE k == rq[p].body.chunk
<1>1. Holding(p) /\ k \in Nat /\ pc[p] = "advance"
  BY DEF Advance, Holding, TypeInv, CallersTyped, Holdings, Bodies
<1>2. rq' = AdvanceReader(p, k) /\ pc' = [pc EXCEPT ![p] = "read"]
  BY DEF Advance, Goto
<1> HIDE DEF k
<1>3. /\ \A q \in Callers : Holding(q) => /\ rq'[q].body.mates = rq[q].body.mates
                                          /\ rq'[q].body.shared = rq[q].body.shared
      /\ \A q \in Callers \ {p} : Holding(q) /\ ~rq[q].body.shared => rq'[q] = rq[q]
  BY <1>1, <1>2, AdvanceReaderMoves
<1>4. rq[p].body.shared
  BY <1>1 DEF SharingInv
<1>5. \A q \in Callers \ {p} : pc'[q] = pc[q]
  BY <1>2 DEF TypeInv, CallersTyped
<1>6. \A q \in Callers : Holding(q)' <=> Holding(q)
  BY <1>1, <1>2, <1>5 DEF Holding, TypeInv, CallersTyped
<1>7. \A q \in Callers : Holding(q) /\ ~rq[q].body.shared =>
          pc'[q] = "read" /\ rq'[q].body.got = rq'[q].body.pos
                          /\ rq'[q].body.pos <= Limit(rq'[q].body, rq'[q].doc)
  BY <1>3, <1>4, <1>5 DEF SharingInv
<1> QED
  BY <1>3, <1>6, <1>7, SharingMoves

\* Reading a chunk keeps the record of who shares the reader.
LEMMA ReadSharing ==
  ASSUME TypeInv, SharingInv, NEW p \in Callers, Read(p)
  PROVE  SharingInv'
<1> DEFINE b == rq[p].body
           d == rq[p].doc
           rest == Limit(b, d) - b.pos
<1>1. pc[p] = "read" /\ rq[p] \in Holdings /\ b \in Bodies /\ Holding(p)
  BY ReadChunk DEF Holding
<1>2. PICK k \in Nat :
        /\ b.mates = {} => k = rest
        /\ IF d \in Metadata /\ b.mates # {}
           THEN /\ rq' = [rq EXCEPT ![p].body = TakeChunk(b, k)]
                /\ pc' = [pc EXCEPT ![p] = "advance"]
           ELSE /\ rq' = [AdvanceReader(p, k) EXCEPT ![p].body.got = TakeChunk(b, k).got]
                /\ pc' = [pc EXCEPT ![p] = "read"]
  BY ReadChunk
<1>3. /\ \A q \in Callers \ {p} : pc'[q] = pc[q]
      /\ Holding(p)'
      /\ \A q \in Callers : Holding(q)' <=> Holding(q)
  BY <1>1, <1>2 DEF Holding, TypeInv, CallersTyped
<1>4. TakeChunk(b, k) = [b EXCEPT !.got = IF @ = b.pos THEN @ + k ELSE None, !.chunk = k]
  BY DEF TakeChunk
<1>5. CASE d \in Metadata /\ b.mates # {}
  <2> DEFINE c == TakeChunk(b, k)
  <2>1. c.mates = b.mates /\ c.shared = b.shared
    BY <1>1, <1>4 DEF Bodies
  <2> HIDE DEF c
  <2>2. rq' = [rq EXCEPT ![p].body = c]
    BY <1>2, <1>5 DEF c
  <2>3. rq'[p].body = c /\ \A q \in Callers \ {p} : rq'[q] = rq[q]
    BY <1>1, <2>2 DEF TypeInv, CallersTyped, Holdings
  <2>4. b.shared
    BY <1>1, <1>5 DEF SharingInv
  <2>5. \A q \in Callers : Holding(q) /\ ~rq[q].body.shared =>
            pc'[q] = "read" /\ rq'[q].body.got = rq'[q].body.pos
                            /\ rq'[q].body.pos <= Limit(rq'[q].body, rq'[q].doc)
    BY <1>3, <2>3, <2>4 DEF SharingInv
  <2> QED
    BY <1>3, <2>1, <2>3, <2>5, SharingMoves
<1>6. CASE ~(d \in Metadata /\ b.mates # {})
  <2> DEFINE r == AdvanceReader(p, k)
             got == TakeChunk(b, k).got
  <2>1. /\ r = [q \in Callers |-> r[q]]
        /\ r[p] \in Holdings /\ r[p].doc = d
        /\ r[p].body = [b EXCEPT !.pos = r[p].body.pos]
        /\ \A q \in Callers : Holding(q) => /\ r[q].body.mates = rq[q].body.mates
                                            /\ r[q].body.shared = rq[q].body.shared
        /\ \A q \in Callers \ {p} : Holding(q) /\ ~rq[q].body.shared => r[q] = rq[q]
        /\ r[p].body.pos = b.pos + k
    BY <1>1, AdvanceReaderType, AdvanceReaderMoves, SharingImpliesMatesHold
  <2>2. b.got = b.pos => got = b.pos + k
    BY <1>1, <1>4 DEF Bodies
  <2> HIDE DEF r, got
  <2>3. rq' = [r EXCEPT ![p].body.got = got] /\ pc' = [pc EXCEPT ![p] = "read"]
    BY <1>2, <1>6 DEF r, got
  <2>4. \A q \in Callers \ {p} : rq'[q] = r[q]
    BY <2>1, <2>3
  <2>5. /\ rq'[p].body.mates = b.mates /\ rq'[p].body.shared = b.shared
        /\ rq'[p].body.got = got /\ rq'[p].body.pos = b.pos + k
        /\ rq'[p].body.size = b.size /\ rq'[p].doc = d
    BY <1>1, <2>1, <2>3 DEF Holdings, Bodies
  <2>6. pc'[p] = "read" /\ Limit(rq'[p].body, rq'[p].doc) = Limit(b, d)
    BY <2>3, <2>5 DEF Limit, TypeInv, CallersTyped
  <2>7. ~b.shared => rq'[p].body.got = rq'[p].body.pos /\ rq'[p].body.pos <= Limit(b, d)
    <3>1. ~b.shared => b.mates = {} /\ b.got = b.pos
      BY <1>1 DEF SharingInv
    <3>2. Limit(b, d) \in Nat /\ b.pos \in Nat
      BY <1>1, UpstreamAssumption DEF Limit, Bodies
    <3>3. ~b.shared => b.pos + k = Limit(b, d)
      BY <1>2, <3>1, <3>2
    <3> QED
      BY <2>2, <2>5, <3>1, <3>2, <3>3
  <2>8. \A q \in Callers : Holding(q) /\ ~rq[q].body.shared =>
            pc'[q] = "read" /\ rq'[q].body.got = rq'[q].body.pos
                            /\ rq'[q].body.pos <= Limit(rq'[q].body, rq'[q].doc)
    BY <1>3, <2>1, <2>4, <2>6, <2>7 DEF SharingInv
  <2> QED
    BY <1>3, <2>1, <2>4, <2>5, <2>8, SharingMoves
<1> QED
  BY <1>5, <1>6

\* Who leaves is forgotten by those it shared a reader with.
LEMMA LeaveSharing ==
  ASSUME TypeInv, SharingInv, NEW p \in Callers, NEW result, Leave(p, result)
  PROVE  SharingInv'
<1>1. /\ pc' = [pc EXCEPT ![p] = "idle"]
      /\ rq' = [q \in Callers |-> IF q = p THEN Idle
                                  ELSE IF Holding(q) THEN CloseBody(p, q) ELSE rq[q]]
  BY DEF Leave
<1>2. /\ pc'[p] = "idle"
      /\ \A q \in Callers \ {p} : pc'[q] = pc[q]
      /\ \A q \in Callers : Holding(q)' <=> q # p /\ Holding(q)
  BY <1>1 DEF TypeInv, CallersTyped, Holding
<1>3. ASSUME NEW q \in Callers \ {p}, Holding(q)
      PROVE  /\ rq'[q].body.mates = rq[q].body.mates \ {p}
             /\ rq'[q].body.shared = rq[q].body.shared
             /\ ~rq[q].body.shared => rq'[q] = rq[q]
  <2> DEFINE b == rq[q].body
             closed == rq[p].doc \notin Metadata
             c == [b EXCEPT !.mates = @ \ {p}, !.closed = closed]
  <2>1. rq[q] \in Holdings /\ b \in Bodies
    BY <1>3 DEF TypeInv, CallersTyped, Holdings
  <2>2. rq'[q] = CloseBody(p, q)
    BY <1>1, <1>3
  <2>3. CASE p \notin b.mates
    BY <2>1, <2>2, <2>3 DEF CloseBody
  <2>4. CASE p \in b.mates
    <3> HIDE DEF closed
    <3>1. c.mates = b.mates \ {p} /\ c.shared = b.shared
      BY <2>1 DEF Bodies
    <3> HIDE DEF c
    <3>2. rq'[q] = [rq[q] EXCEPT !.body = c]
      BY <2>2, <2>4 DEF CloseBody, c, closed
    <3>3. rq'[q].body = c
      BY <2>1, <3>2 DEF Holdings
    <3>4. b.shared
      BY <1>3, <2>4 DEF SharingInv
    <3> QED
      BY <3>1, <3>3, <3>4
  <2> QED
    BY <2>3, <2>4
<1>4. \A q \in Callers : Holding(q) => rq[q].body.mates \subseteq Callers
  BY DEF TypeInv, CallersTyped, Holdings, Bodies
<1>5. ASSUME NEW q \in Callers, Holding(q)'
      PROVE  LET b == rq'[q].body
             IN  /\ \A o \in b.mates : o # q /\ Holding(o)' /\ rq'[o].body.shared
                 /\ ~b.shared => /\ b.mates = {}
                                 /\ pc'[q] = "read"
                                 /\ b.got = b.pos
                                 /\ b.pos <= Limit(b, rq'[q].doc)
  <2>1. q # p /\ Holding(q)
    BY <1>2, <1>5
  <2>2. ASSUME NEW o \in rq'[q].body.mates
        PROVE  o # q /\ Holding(o)' /\ rq'[o].body.shared
    BY <1>2, <1>3, <1>4, <2>1 DEF SharingInv
  <2>3. ASSUME ~rq'[q].body.shared
        PROVE  /\ rq'[q] = rq[q] /\ pc'[q] = pc[q]
    BY <1>2, <1>3, <2>1, <2>3
  <2> QED
    BY <2>1, <2>2, <2>3 DEF SharingInv
<1> QED
  BY <1>5 DEF SharingInv, Limit

\* Failing a request that holds no body, and waiting for a flight, share nothing.
LEMMA AskingSharing ==
  ASSUME TypeInv, SharingInv, NEW p \in Callers, Fetch(p) \/ Allow(p) \/ Do(p) \/ Respond(p)
  PROVE  SharingInv'
<1>1. ~Holding(p)
  BY DEF Fetch, Allow, Do, Respond, Holding
<1>2. /\ \A q \in Callers \ {p} : pc'[q] = pc[q] /\ rq'[q] = rq[q]
      /\ ~Holding(p)'
  <2>1. CASE Fetch(p)
    BY <2>1 DEF Fetch, Failed, Goto, TypeInv, CallersTyped, Holding
  <2>2. CASE Allow(p)
    BY <2>2 DEF Allow, Failed, Goto, TypeInv, CallersTyped, Holding
  <2>3. CASE Do(p)
    BY <2>3 DEF Do, Goto, TypeInv, CallersTyped, Holding
  <2>4. CASE Respond(p)
    BY <2>4 DEF Respond, Holding
  <2> QED
    BY <2>1, <2>2, <2>3, <2>4
<1> QED
  BY <1>1, <1>2, SharingKept DEF Holding

\* A flight that fails hands out no reader.
LEMMA LandErrorSharing ==
  ASSUME TypeInv, SharingInv, NEW key \in DOMAIN flights, LandError(flights[key], key)
  PROVE  SharingInv'
<1>1. \A q \in flights[key].callers : q \in Callers /\ pc[q] = "wait"
  BY DEF TypeInv, FlightsTyped, Flights, FlightsManned
<1>2. \A q \in Callers : IF q \in flights[key].callers THEN pc'[q] = "idle"
                         ELSE pc'[q] = pc[q] /\ rq'[q] = rq[q]
  BY DEF LandError
<1> QED
  BY <1>1, <1>2, SharingKept DEF Holding

\* A flight that lands gives one reader to all its callers, who are recorded as sharing it.
LEMMA FinishFetchSharing ==
  ASSUME TypeInv, SharingInv, NEW p \in Callers, FinishFetch(p)
  PROVE  SharingInv'
<1> DEFINE key == rq[p].key
           resp == flights[key].resp
           fresh == [src |-> rq[p].url, asOf |-> resp.asOf, size |-> resp.size, ttl |-> 0]
           renewed == [src |-> cache.entries[key].src, asOf |-> resp.asOf,
                       size |-> cache.entries[key].size, ttl |-> rq[p].ttl,
                       expires |-> now + rq[p].ttl]
<1>1. /\ key \in DOMAIN flights /\ IsResult(fresh)
      /\ \/ LandError(flights[key], key)
         \/ LandWith(flights[key], key, fresh)
         \/ renewed \in Entries /\ LandWith(flights[key], key, renewed)
  BY FinishFetchCases, Zenon
<1> HIDE DEF key, fresh, renewed
<1>2. renewed \in Entries => IsResult(renewed)
  BY DEF Entries, IsResult
<1> QED
  BY <1>1, <1>2, LandErrorSharing, LandWithSharing

\* Every step keeps the record of who shares which flight and body.
LEMMA SharingStep ==
  ASSUME TypeInv, SharingInv, [Next]_vars
  PROVE  SharingInv'
<1>1. CASE UNCHANGED <<pc, rq>>
  BY <1>1 DEF SharingInv, Holding, Limit
<1>2. ASSUME NEW p \in Callers, Fetch(p) \/ CacheGet(p) \/ Allow(p) \/ Do(p) \/ Respond(p)
      PROVE  SharingInv'
  BY <1>2, AskingSharing, CacheGetSharing
<1>3. ASSUME NEW p \in Callers, FinishFetch(p) \/ Read(p) \/ Advance(p)
      PROVE  SharingInv'
  BY <1>3, FinishFetchSharing, ReadSharing, AdvanceSharing
<1>4. ASSUME NEW p \in Callers, ReadEnds(p) \/ ReadBreaks(p)
      PROVE  SharingInv'
  BY <1>4, LeavingStep, LeaveSharing
<1>5. ASSUME SetsRow \/ Tick
      PROVE  UNCHANGED <<pc, rq>>
  BY <1>5 DEF SetsRow, SetRow, Tick
<1> QED
  BY <1>1, <1>2, <1>3, <1>4, <1>5, NextCases DEF vars

\* Only the end of a read gives an answer.
LEMMA AnswerComesFromRead ==
  ASSUME Next, answer'.ok
  PROVE  \E p \in Callers :
           LET b == rq[p].body
               d == rq[p].doc
           IN  /\ ReadEnds(p) /\ pc[p] = "read"
               /\ b.pos >= Limit(b, d) /\ ~OverCap(b, d)
               /\ answer' = [ok |-> TRUE, tenant |-> rq[p].tenant, doc |-> d,
                             started |-> rq[p].started, src |-> b.src, asOf |-> b.asOf,
                             ttl |-> b.ttl, whole |-> b.got = b.size, shared |-> b.shared]
<1>1. answer' # NoAnswer
  BY DEF NoAnswer
<1>2. ASSUME NEW p \in Callers, \/ Fetch(p) \/ CacheGet(p) \/ Allow(p) \/ Do(p) \/ Respond(p)
      PROVE  answer' = NoAnswer
  BY <1>2 DEF Fetch, Failed, Goto, CacheGet, Deliver, Allow, Do, Respond
<1>3. ASSUME NEW p \in Callers, \/ FinishFetch(p) \/ Read(p) \/ Advance(p) \/ ReadBreaks(p)
      PROVE  answer' = NoAnswer
  <2>1. CASE FinishFetch(p)
    <3>1. \E f, k, r : LandError(f, k) \/ LandWith(f, k, r)
      BY <2>1, Zenon DEF FinishFetch
    <3> QED
      BY <3>1 DEF LandWith, LandError
  <2>2. CASE Read(p) \/ Advance(p) \/ ReadBreaks(p)
    BY <2>2 DEF Read, Goto, Advance, ReadBreaks, Leave
  <2> QED
    BY <1>3, <2>1, <2>2
<1>4. ASSUME SetsRow \/ Tick
      PROVE  answer' = NoAnswer
  BY <1>4 DEF SetsRow, SetRow, Tick
<1>5. PICK p \in Callers : ReadEnds(p)
  BY <1>1, <1>2, <1>3, <1>4, NextCases
<1> QED
  BY <1>1, <1>5, Zenon DEF ReadEnds, Leave

\* A caller that shares no reader answers with all of the document.
LEMMA WholeStep ==
  ASSUME TypeInv, SharingInv, WholeUnlessShared, [Next]_vars
  PROVE  WholeUnlessShared'
<1>1. CASE UNCHANGED vars
  BY <1>1 DEF vars, WholeUnlessShared
<1>2. CASE Next /\ ~answer'.ok
  BY <1>2 DEF WholeUnlessShared
<1>3. CASE Next /\ answer'.ok
  <2>1. PICK p \in Callers :
          LET b == rq[p].body
              d == rq[p].doc
          IN  /\ pc[p] = "read"
              /\ b.pos >= Limit(b, d) /\ ~OverCap(b, d)
              /\ answer'.whole = (b.got = b.size) /\ answer'.shared = b.shared
    BY <1>3, AnswerComesFromRead
  <2> DEFINE b == rq[p].body
             d == rq[p].doc
  <2>2. Holding(p) /\ b \in Bodies
    BY <2>1 DEF Holding, TypeInv, CallersTyped, Holdings
  <2>3. ASSUME ~b.shared
        PROVE  b.got = b.size
    <3>1. b.got = b.pos /\ b.pos <= Limit(b, d)
      BY <2>2, <2>3 DEF SharingInv
    <3>2. Limit(b, d) \in Nat /\ b.pos \in Nat /\ b.size \in Nat /\ MaxBytesPerFetch \in Nat
      BY <2>2, UpstreamAssumption DEF Limit, Bodies
    <3>3. b.pos = Limit(b, d)
      BY <2>1, <3>1, <3>2
    <3>4. Limit(b, d) = b.size
      BY <2>1, <3>2, <3>3 DEF Limit, OverCap
    <3> QED
      BY <3>1, <3>3, <3>4
  <2> HIDE DEF b
  <2>4. answer'.whole = (b.got = b.size) /\ answer'.shared = b.shared
    BY <2>1 DEF b
  <2> QED
    BY <2>3, <2>4 DEF WholeUnlessShared
<1> QED
  BY <1>1, <1>2, <1>3

\* Initially nothing is shared, taken or cached.
LEMMA InitSharing ==
  ASSUME Init
  PROVE  BucketsInv /\ SharingInv /\ WholeUnlessShared /\ StaleBounded
<1>1. BucketsInv
  BY DEF Init, BucketsInv
<1>2. SharingInv
  BY DEF Init, SharingInv, Holding
<1>3. WholeUnlessShared /\ StaleBounded
  BY DEF Init, NoAnswer, WholeUnlessShared, StaleBounded
<1> QED
  BY <1>1, <1>2, <1>3

\* The types and the way bodies are shared hold together: to know that what a
\* caller reads stays typed one must know that its mates hold bodies too.
THEOREM SharingHolds == Spec => [](TypeInv /\ SharingInv)
<1>1. Init => TypeInv /\ SharingInv
  BY InitType, InitSharing
<1>2. TypeInv /\ SharingInv /\ [Next]_vars => TypeInv' /\ SharingInv'
  BY TypeStep, SharingStep, SharingImpliesMatesHold
<1> QED
  BY <1>1, <1>2, PTL DEF Spec

\* ratelimit.go's Allow keeps every tenant within one minute's worth of permits
\* and the refill, however its requests interleave.
THEOREM RateIsBounded == Spec => []RateBound
<1>1. Init => BucketsInv
  BY InitSharing
<1>2. TypeInv /\ SharingInv /\ BucketsInv /\ [Next]_vars => BucketsInv'
  BY BucketsStep
<1>3. TypeInv /\ BucketsInv => RateBound
  <2> SUFFICES ASSUME TypeInv, BucketsInv, NEW t \in Tenants
               PROVE  hist.load[t] <= Capacity
    BY DEF RateBound
  <2>1. hist.load[t] \in Nat /\ now \in Nat /\ Capacity \in Nat
    BY UpstreamAssumption DEF TypeInv, ConfigTyped, Capacity
  <2>2. CASE buckets[t] = None
    BY <2>1, <2>2, NoneAssumption DEF BucketsInv
  <2>3. CASE buckets[t] # None
    <3>1. /\ buckets[t] \in [tokens : Nat, last : Nat]
          /\ buckets[t].last <= now
          /\ hist.load[t] + Refill(buckets[t]) <= Capacity
      BY <2>3 DEF BucketsInv
    <3>2. Refill(buckets[t]) \in Nat
      BY <2>1, <3>1, RefillTicks
    <3> QED
      BY <2>1, <3>1, <3>2
  <2> QED
    BY <2>2, <2>3
<1> QED
  BY <1>1, <1>2, <1>3, SharingHolds, PTL DEF Spec

\* A caller alone on its flight reads the whole document or gets an error, for
\* any number of callers, sizes and limits (fetcher.go's bodies and the cap).
THEOREM WholeUnlessSharedHolds == Spec => []WholeUnlessShared
<1>1. Init => WholeUnlessShared
  BY InitSharing
<1>2. TypeInv /\ SharingInv /\ WholeUnlessShared /\ [Next]_vars => WholeUnlessShared'
  BY WholeStep
<1> QED
  BY <1>1, <1>2, SharingHolds, PTL DEF Spec

-----------------------------------------------------------------------------
(* How old an answer can be. *)

\* What was configured from one time on was so from any earlier one on.
LEMMA ConfiguredSince ==
  ASSUME ConfigTyped, NEW t \in Tenants, NEW d \in Docs, NEW u \in URLs,
         NEW s \in Int, NEW r \in Int, r <= s, Configured(t, d, u, s)
  PROVE  Configured(t, d, u, r)
<1> DEFINE until == hist.until[<<t, FormatOf[d]>>][u]
<1>1. FormatOf[d] \in Formats
  BY UpstreamAssumption
<1>2. until \in Nat \cup {None}
  BY <1>1 DEF ConfigTyped
<1> HIDE DEF until
<1>3. until # None /\ until >= s => until # None /\ until >= r
  BY <1>2
<1> QED
  BY <1>3 DEF Configured, until

\* As long as neither the table nor the history changes, the same is configured.
LEMMA ConfiguredStays ==
  ASSUME UNCHANGED rows, hist'.until = hist.until, NEW t, NEW d, NEW u, NEW s
  PROVE  Configured(t, d, u, s)' <=> Configured(t, d, u, s)
  BY DEF Configured, ResolveConfig

\* When a row is written, what was configured becomes what was configured until now.
LEMMA SetRowConfigured ==
  ASSUME ConfigTyped, NEW t0 \in Tenants, NEW f0 \in Formats, NEW row \in Rows \cup {None},
         SetRow(t0, f0, row),
         NEW t \in Tenants, NEW d \in Docs, NEW u \in URLs, NEW s \in Int, s <= now,
         Configured(t, d, u, s)
  PROVE  Configured(t, d, u, s)'
<1> DEFINE tf == <<t, FormatOf[d]>>
           url == ResolveConfig(t0, f0).url
<1>1. FormatOf[d] \in Formats /\ tf \in Tenants \X Formats
  BY UpstreamAssumption
<1>2. /\ hist.until[tf][u] \in Nat \cup {None} /\ now \in Nat
      /\ hist'.until[tf][u] = IF tf = <<t0, f0>> /\ u = url THEN now ELSE hist.until[tf][u]
  BY <1>1, SetRowHist DEF ConfigTyped
<1>3. rows' = [rows EXCEPT ![<<t0, f0>>] = row] /\ rows \in [Tenants \X Formats -> Rows \cup {None}]
  BY DEF SetRow, ConfigTyped
<1>4. CASE AbsoluteURL[d] # None /\ u = AbsoluteURL[d]
  BY <1>4 DEF Configured, Target
<1>5. CASE ~(AbsoluteURL[d] # None /\ u = AbsoluteURL[d])
  <2>1. CASE tf = <<t0, f0>> /\ u = url
    BY <1>2, <2>1, NoneAssumption DEF Configured
  <2>2. CASE tf = <<t0, f0>> /\ u # url
    <3>1. t = t0 /\ FormatOf[d] = f0
      BY <2>2
    <3> QED
      BY <1>2, <1>5, <2>2, <3>1 DEF Configured, Target
  <2>3. CASE tf # <<t0, f0>>
    <3>1. rows'[tf] = rows[tf] /\ hist'.until[tf][u] = hist.until[tf][u]
      BY <1>1, <1>2, <1>3, <2>3
    <3>2. ResolveConfig(t, FormatOf[d])' = ResolveConfig(t, FormatOf[d])
      BY <3>1 DEF ResolveConfig
    <3> QED
      BY <3>1, <3>2 DEF Configured
  <2> QED
    BY <2>1, <2>2, <2>3
<1> QED
  BY <1>4, <1>5

\* The same of what is current.
LEMMA CurrentStays ==
  ASSUME now \in Nat, now' \in Nat, now <= now', UNCHANGED rows, hist'.until = hist.until,
         NEW t, NEW d, NEW u, NEW a \in Int, NEW s, Current(t, d, u, a, s)
  PROVE  Current(t, d, u, a, s)'
  BY ConfiguredStays DEF Current

\* A change of the configuration leaves what was current until now current.
LEMMA SetRowCurrent ==
  ASSUME ConfigTyped, SetsRow, NEW t \in Tenants, NEW d \in Docs, NEW u \in URLs,
         NEW a \in Int, NEW s \in Int, Current(t, d, u, a, s)
  PROVE  Current(t, d, u, a, s)'
<1>1. PICK t0 \in Tenants, f0 \in Formats, row \in Rows \cup {None} : SetRow(t0, f0, row)
  BY DEF SetsRow
<1>2. UNCHANGED now /\ now \in Nat /\ s <= now
  BY <1>1 DEF SetRow, ConfigTyped, Current
<1> QED
  BY <1>1, <1>2, SetRowConfigured DEF Current

\* What was current since a moment was current since any earlier one.
LEMMA CurrentSince ==
  ASSUME ConfigTyped, NEW t \in Tenants, NEW d \in Docs, NEW u \in URLs, NEW a \in Int,
         NEW s \in Int, NEW r \in Int, r <= s, Current(t, d, u, a, s)
  PROVE  Current(t, d, u, a, r)
<1>1. now \in Nat
  BY DEF ConfigTyped
<1> QED
  BY <1>1, ConfiguredSince DEF Current

\* The configuration is as it was, and time may have passed.
Settled == ConfigTyped /\ ConfigTyped' /\ now <= now' /\ UNCHANGED rows /\ hist'.until = hist.until

\* Entries that stay stay current.
LEMMA EntryStaysFresh ==
  ASSUME Settled, CacheTyped, CacheFresh, NEW k \in DOMAIN cache.entries,
         cache'.entries[k] = cache.entries[k]
  PROVE  EntryFresh(k)'
<1>1. PICK e : e = cache.entries[k]
  OBVIOUS
<1>2. e \in Entries /\ Current(k[1], k[2], e.src, e.asOf, e.expires - e.ttl - FetchTimeout)
  BY <1>1 DEF CacheTyped, CacheFresh, EntryFresh
<1>3. now \in Nat /\ now' \in Nat /\ e.asOf \in Int
  BY <1>2 DEF Settled, ConfigTyped, Entries
<1>4. Current(k[1], k[2], e.src, e.asOf, e.expires - e.ttl - FetchTimeout)'
  BY <1>2, <1>3, CurrentStays DEF Settled
<1> QED
  BY <1>1, <1>4 DEF EntryFresh

\* A cache that only loses entries stays fresh.
LEMMA CacheStaysFresh ==
  ASSUME Settled, CacheTyped, CacheFresh, Within(cache', cache)
  PROVE  CacheFresh'
  BY EntryStaysFresh DEF CacheFresh, Within

\* The same document, asked for at the same time.
SameBody(r, s) ==
    /\ r.tenant = s.tenant /\ r.doc = s.doc /\ r.started = s.started
    /\ r.body.src = s.body.src /\ r.body.asOf = s.body.asOf /\ r.body.ttl = s.body.ttl

\* Bodies that are kept stay current.
LEMMA BodyStaysFresh ==
  ASSUME Settled, CallersTyped, HeldFresh, NEW q \in Callers, Holding(q), SameBody(rq'[q], rq[q])
  PROVE  BodyFresh(q)'
<1>1. PICK r : r = rq[q]
  OBVIOUS
<1> DEFINE b == r.body
           oldest == r.started - b.ttl - FetchTimeout
<1>2. b.asOf \in Int /\ Current(r.tenant, r.doc, b.src, b.asOf, oldest)
  BY <1>1 DEF CallersTyped, Holdings, Bodies, HeldFresh, BodyFresh
<1>3. now \in Nat /\ now' \in Nat
  BY DEF Settled, ConfigTyped
<1>4. Current(r.tenant, r.doc, b.src, b.asOf, oldest)'
  BY <1>2, <1>3, CurrentStays DEF Settled
<1> QED
  BY <1>1, <1>4 DEF SameBody, BodyFresh

\* Bodies already held stay as fresh as they were.
LEMMA HoldersStayFresh ==
  ASSUME Settled, CallersTyped, HeldFresh,
         \A q \in Callers : Holding(q)' => Holding(q) /\ SameBody(rq'[q], rq[q])
  PROVE  HeldFresh'
  BY BodyStaysFresh DEF HeldFresh

\* Requests and flights that a step leaves alone, no time having passed.
LEMMA AskerStaysFresh ==
  ASSUME Settled, UNCHANGED now, AskingFresh, NEW q \in Callers, pc[q] \in Asking, rq'[q] = rq[q],
         pc'[q] # "wait" => pc[q] # "wait"
  PROVE  AskerFresh(q)'
<1>1. PICK r : r = rq[q]
  OBVIOUS
<1>2. Configured(r.tenant, r.doc, r.url, r.started)
  BY <1>1 DEF AskingFresh, AskerFresh
<1>3. Configured(r.tenant, r.doc, r.url, r.started)'
  BY <1>2, ConfiguredStays DEF Settled
<1> QED
  BY <1>1, <1>3 DEF AskingFresh, AskerFresh

\* Callers that have asked keep the time they asked at.
LEMMA AskersStayFresh ==
  ASSUME Settled, UNCHANGED now, AskingFresh,
         \A q \in Callers : pc'[q] \in Asking =>
             /\ pc[q] \in Asking /\ rq'[q] = rq[q]
             /\ pc'[q] # "wait" => pc[q] # "wait"
  PROVE  AskingFresh'
  BY AskerStaysFresh DEF AskingFresh

\* A flight nobody touches stays as fresh as its callers were promised.
LEMMA FlightStaysFresh ==
  ASSUME TypeInv, FlightsFresh, UNCHANGED now, NEW k \in DOMAIN flights, flights'[k] = flights[k],
         k \in DOMAIN cache'.entries =>
             k \in DOMAIN cache.entries /\ cache'.entries[k] = cache.entries[k],
         \A q \in flights[k].callers : rq'[q] = rq[q]
  PROVE  FlightFresh(k)'
<1>1. flights[k].leader \in flights[k].callers
  BY DEF TypeInv, FlightsManned
<1> QED
  BY <1>1 DEF FlightsFresh, FlightFresh

\* So do all flights.
LEMMA FlightsStayFresh ==
  ASSUME TypeInv, FlightsFresh, UNCHANGED <<now, flights>>, Within(cache', cache),
         \A k \in DOMAIN flights : \A q \in flights[k].callers : rq'[q] = rq[q]
  PROVE  FlightsFresh'
  BY FlightStaysFresh DEF FlightsFresh, Within

\* Fetch asks for what is configured now; Allow and Do take no time.
LEMMA FetchFresh ==
  ASSUME TypeInv, TypeInv', FreshInv, NEW p \in Callers, Fetch(p)
  PROVE  FreshInv'
<1>1. Settled /\ UNCHANGED <<now, rows, cache, flights, hist>> /\ pc[p] = "idle"
  BY DEF Fetch, Settled, TypeInv, ConfigTyped
<1>2. \A q \in Callers \ {p} : pc'[q] = pc[q] /\ rq'[q] = rq[q]
  BY DEF Fetch, Failed, Goto, TypeInv, CallersTyped
<1>3. \/ pc'[p] = "idle"
      \/ /\ pc'[p] \in {"cache", "limit"}
         /\ rq'[p].started = now
         /\ rq'[p].url = Target(rq'[p].doc, ResolveConfig(rq'[p].tenant, FormatOf[rq'[p].doc]).url)
  BY DEF Fetch, Failed, Goto, TypeInv, CallersTyped
<1>4. ASSUME NEW q \in Callers, pc'[q] \in Asking
      PROVE  AskerFresh(q)'
  <2>1. CASE q = p
    <3>1. /\ rq'[p].started = now
          /\ rq'[p].url = Target(rq'[p].doc, ResolveConfig(rq'[p].tenant, FormatOf[rq'[p].doc]).url)
      BY <1>3, <1>4, <2>1 DEF Asking
    <3>2. PICK r : r = rq'[p]
      OBVIOUS
    <3>3. Configured(r.tenant, r.doc, r.url, r.started)
      BY <3>1, <3>2 DEF Configured
    <3>4. Configured(r.tenant, r.doc, r.url, r.started)'
      BY <1>1, <3>3, ConfiguredStays
    <3>5. now \in Nat
      BY DEF TypeInv, ConfigTyped
    <3> QED
      BY <1>1, <2>1, <3>1, <3>2, <3>4, <3>5 DEF AskerFresh
  <2>2. CASE q # p
    BY <1>1, <1>2, <1>4, <2>2, AskerStaysFresh DEF FreshInv
  <2> QED
    BY <2>1, <2>2
<1>5. AskingFresh'
  BY <1>4 DEF AskingFresh
<1>6. FlightsFresh'
  <2>1. \A k \in DOMAIN flights : \A q \in flights[k].callers : rq'[q] = rq[q]
    BY <1>1, <1>2 DEF TypeInv, FlightsManned, FlightsTyped, Flights
  <2>2. Within(cache', cache)
    BY <1>1 DEF Within
  <2> QED
    BY <1>1, <2>1, <2>2, FlightsStayFresh DEF FreshInv
<1>7. CacheFresh'
  BY <1>1, CacheStaysFresh DEF FreshInv, TypeInv, Within
<1>8. HeldFresh'
  BY <1>1, <1>2, <1>3, HoldersStayFresh DEF FreshInv, TypeInv, Holding, SameBody
<1> QED
  BY <1>5, <1>6, <1>7, <1>8 DEF FreshInv

\* A caller that asks on, or stops asking.
LEMMA AskOnFresh ==
  ASSUME TypeInv, TypeInv', FreshInv, NEW p \in Callers, pc[p] \in {"cache", "limit"},
         UNCHANGED <<now, rows, flights>>, hist'.until = hist.until, Within(cache', cache),
         \A q \in Callers \ {p} : pc'[q] = pc[q] /\ rq'[q] = rq[q],
         pc'[p] = "idle" \/ (pc'[p] \in {"limit", "do"} /\ rq'[p] = rq[p])
  PROVE  FreshInv'
<1>1. Settled
  BY DEF Settled, TypeInv, ConfigTyped
<1>2. AskingFresh'
  BY <1>1, AskersStayFresh DEF FreshInv, Asking
<1>3. FlightsFresh'
  <2>1. \A k \in DOMAIN flights : \A q \in flights[k].callers : rq'[q] = rq[q]
    BY DEF TypeInv, FlightsManned, FlightsTyped, Flights
  <2> QED
    BY <2>1, FlightsStayFresh DEF FreshInv
<1>4. CacheFresh'
  BY <1>1, CacheStaysFresh DEF FreshInv, TypeInv
<1>5. HeldFresh'
  BY <1>1, HoldersStayFresh DEF FreshInv, TypeInv, Holding, SameBody
<1> QED
  BY <1>2, <1>3, <1>4, <1>5 DEF FreshInv

\* The limiter's answer does not disturb freshness.
LEMMA AllowFresh ==
  ASSUME TypeInv, TypeInv', FreshInv, NEW p \in Callers, Allow(p)
  PROVE  FreshInv'
<1>1. /\ pc[p] = "limit" /\ UNCHANGED <<now, rows, cache, flights>>
      /\ \/ hist' = [hist EXCEPT !.load[rq[p].tenant] = @ + 60] /\ Goto(p, "do") /\ UNCHANGED rq
         \/ Failed(p) /\ UNCHANGED hist
  BY DEF Allow
<1>2. hist'.until = hist.until /\ Within(cache', cache)
  BY <1>1 DEF TypeInv, ConfigTyped, Within
<1>3. /\ \A q \in Callers \ {p} : pc'[q] = pc[q] /\ rq'[q] = rq[q]
      /\ pc'[p] = "idle" \/ (pc'[p] = "do" /\ rq'[p] = rq[p])
  BY <1>1 DEF Goto, Failed, TypeInv, CallersTyped
<1> QED
  BY <1>1, <1>2, <1>3, AskOnFresh

\* An entry that is served has not expired.
LEMMA CacheGetFresh ==
  ASSUME TypeInv, TypeInv', FreshInv, NEW p \in Callers, CacheGet(p)
  PROVE  FreshInv'
<1> DEFINE key == rq[p].key
<1>1. /\ pc[p] = "cache" /\ rq[p] \in Requests /\ UNCHANGED <<now, rows, flights, hist>>
      /\ key = <<rq[p].tenant, rq[p].doc>> /\ Settled
  BY DEF CacheGet, TypeInv, CallersTyped, KeysNamed, ConfigTyped, Asking, Settled
<1>2. Within(cache', cache)
  BY GetKeeps DEF CacheGet, TypeInv, CacheTyped
<1>3. CASE Live(cache, key, now)
  <2>1. PICK e : e = cache.entries[key]
    OBVIOUS
  <2> DEFINE b == Body(e.src, e.asOf, e.size, e.ttl, {})
             r == [tenant |-> rq[p].tenant, doc |-> rq[p].doc, key |-> rq[p].key,
                   started |-> rq[p].started, body |-> b]
  <2>2. rq' = [rq EXCEPT ![p] = r] /\ pc' = [pc EXCEPT ![p] = "read"]
    <3>1. Deliver(p, b)
      BY <1>3, <2>1 DEF CacheGet
    <3> HIDE DEF b
    <3> QED
      BY <3>1 DEF Deliver, Goto
  <2>3. key \in DOMAIN cache.entries /\ now <= e.expires /\ e \in Entries
    BY <1>3, <2>1 DEF Live, Cached, TypeInv, CacheTyped
  <2>4. b.src = e.src /\ b.asOf = e.asOf /\ b.ttl = e.ttl
    BY DEF Body
  <2> HIDE DEF b
  <2>5. /\ rq'[p].tenant = rq[p].tenant /\ rq'[p].doc = rq[p].doc
        /\ rq'[p].started = rq[p].started /\ rq'[p].body = b
        /\ pc'[p] = "read"
        /\ \A q \in Callers \ {p} : rq'[q] = rq[q] /\ pc'[q] = pc[q]
    BY <2>2 DEF TypeInv, CallersTyped
  <2>6. PICK t, d, started : t = rq[p].tenant /\ d = rq[p].doc /\ started = rq[p].started
    OBVIOUS
  <2>7. Current(t, d, e.src, e.asOf, e.expires - e.ttl - FetchTimeout)
    BY <1>1, <2>1, <2>3, <2>6 DEF FreshInv, CacheFresh, EntryFresh
  <2>8. started = now
    BY <1>1, <2>6 DEF FreshInv, AskingFresh, AskerFresh, Asking
  <2>9. Current(t, d, e.src, e.asOf, started - e.ttl - FetchTimeout)
    <3>1. t \in Tenants /\ d \in Docs /\ e.src \in URLs /\ started \in Nat /\ e.asOf \in Int
          /\ e.ttl \in Nat /\ e.expires \in Nat /\ FetchTimeout \in Nat /\ ConfigTyped
      BY <1>1, <2>3, <2>6, UpstreamAssumption DEF Requests, Entries, TypeInv
    <3> QED
      BY <2>3, <2>7, <2>8, <3>1, CurrentSince
  <2>10. Current(t, d, e.src, e.asOf, started - e.ttl - FetchTimeout)'
    BY <1>1, <2>3, <2>9, CurrentStays DEF Settled, ConfigTyped, Entries
  <2>11. PICK c : c = b
    OBVIOUS
  <2>12. BodyFresh(p)'
    BY <2>4, <2>5, <2>6, <2>10, <2>11 DEF BodyFresh
  <2>13. HeldFresh'
    <3>1. ASSUME NEW q \in Callers \ {p}, Holding(q)'
          PROVE  BodyFresh(q)'
      BY <1>1, <2>5, <3>1, BodyStaysFresh DEF FreshInv, TypeInv, Holding, SameBody
    <3> QED
      BY <2>12, <3>1 DEF HeldFresh
  <2>14. AskingFresh'
    BY <1>1, <2>5, AskersStayFresh DEF FreshInv, Asking
  <2>15. FlightsFresh'
    <3>1. \A k \in DOMAIN flights : \A q \in flights[k].callers : rq'[q] = rq[q]
      BY <1>1, <2>5 DEF TypeInv, FlightsManned, FlightsTyped, Flights
    <3> QED
      BY <1>1, <1>2, <3>1, FlightsStayFresh DEF FreshInv
  <2>16. CacheFresh'
    BY <1>1, <1>2, CacheStaysFresh DEF FreshInv, TypeInv
  <2> QED
    BY <2>13, <2>14, <2>15, <2>16 DEF FreshInv
<1>4. CASE ~Live(cache, key, now)
  <2>1. rq' = rq /\ pc' = [pc EXCEPT ![p] = "limit"]
    BY <1>4 DEF CacheGet, Goto
  <2>2. pc'[p] = "limit" /\ \A q \in Callers \ {p} : pc'[q] = pc[q]
    BY <2>1 DEF TypeInv, CallersTyped
  <2> QED
    BY <1>1, <1>2, <2>1, <2>2, AskOnFresh
<1> QED
  BY <1>3, <1>4

\* Do: a flight starts when its leader's request does; who joins is in time.
LEMMA DoFresh ==
  ASSUME TypeInv, TypeInv', FreshInv, NEW p \in Callers, Do(p)
  PROVE  FreshInv'
<1>0. PICK key : key = rq[p].key
  OBVIOUS
<1>1. /\ pc[p] = "do" /\ UNCHANGED <<now, rows, cache, rq, hist>> /\ Settled /\ rq[p].started = now
      /\ now \in Nat /\ FetchTimeout \in Nat
  BY UpstreamAssumption
  DEF Do, Settled, TypeInv, ConfigTyped, FreshInv, AskingFresh, AskerFresh, Asking
<1>2. pc'[p] = "wait" /\ \A q \in Callers \ {p} : pc'[q] = pc[q]
  BY DEF Do, Goto, TypeInv, CallersTyped
<1>3. AskingFresh'
  BY <1>1, <1>2, AskersStayFresh DEF FreshInv, Asking
<1>4. CacheFresh'
  BY <1>1, CacheStaysFresh DEF FreshInv, TypeInv, Within
<1>5. HeldFresh'
  BY <1>1, <1>2, HoldersStayFresh DEF FreshInv, TypeInv, Holding, SameBody
<1>6. ASSUME NEW k \in DOMAIN flights', k # key
      PROVE  FlightFresh(k)'
  <2>1. k \in DOMAIN flights /\ flights'[k] = flights[k]
    BY <1>0, <1>6 DEF Do, TypeInv, FlightsTyped
  <2> QED
    BY <1>1, <2>1, FlightStaysFresh DEF FreshInv
<1>7. FlightFresh(key)'
  <2>1. CASE key \in DOMAIN flights
    <3>1. flights' = [flights EXCEPT ![key].callers = @ \cup {p}]
      BY <1>0, <2>1 DEF Do
    <3>2. PICK f : f = flights[key]
      OBVIOUS
    <3>3. f \in Flights
      BY <2>1, <3>2 DEF TypeInv, FlightsTyped
    <3>4. /\ flights'[key].leader = f.leader /\ flights'[key].started = f.started
          /\ flights'[key].resp = f.resp /\ flights'[key].callers = f.callers \cup {p}
      BY <2>1, <3>1, <3>2, <3>3 DEF Flights
    <3>5. FlightFresh(key)
      BY <2>1 DEF FreshInv, FlightsFresh
    <3> QED
      BY <1>1, <3>2, <3>4, <3>5 DEF FlightFresh
  <2>2. CASE key \notin DOMAIN flights
    <3> DEFINE f == [leader |-> p, callers |-> {p}, started |-> now, resp |-> None]
    <3>1. flights' = [k \in DOMAIN flights \cup {key} |-> IF k # key THEN flights[k] ELSE f]
      BY <1>0, <2>2 DEF Do
    <3>2. flights'[key] = f
      BY <3>1
    <3> QED
      BY <1>1, <3>2 DEF FlightFresh
  <2> QED
    BY <2>1, <2>2
<1>8. FlightsFresh'
  BY <1>6, <1>7 DEF FlightsFresh
<1> QED
  BY <1>3, <1>4, <1>5, <1>8 DEF FreshInv

\* Respond: the answer is of now, and a 304 of the URL the leader asked.
LEMMA RespondFresh ==
  ASSUME TypeInv, TypeInv', FreshInv, NEW p \in Callers, Respond(p)
  PROVE  FreshInv'
<1>0. PICK key : key = rq[p].key
  OBVIOUS
<1>1. /\ pc[p] = "wait" /\ key \in DOMAIN flights /\ flights[key].leader = p
      /\ UNCHANGED <<now, rows, cache, pc, rq, hist>> /\ Settled /\ now \in Nat
  BY <1>0 DEF Respond, Settled, TypeInv, ConfigTyped, FlightsManned
<1>2. AskingFresh'
  BY <1>1, AskersStayFresh DEF FreshInv
<1>3. CacheFresh'
  BY <1>1, CacheStaysFresh DEF FreshInv, TypeInv, Within
<1>4. HeldFresh'
  BY <1>1, HoldersStayFresh DEF FreshInv, TypeInv, Holding, SameBody
<1>5. PICK r : /\ flights' = [flights EXCEPT ![key].resp = r]
               /\ r.asOf = now
               /\ r.kind = "304" /\ key \in DOMAIN cache.entries => cache.entries[key].src = rq[p].url
  <2> DEFINE R(kind, size) == [kind |-> kind, size |-> size, asOf |-> now]
             Resp(kind, size) == [flights EXCEPT ![key].resp = R(kind, size)]
  <2>1. \/ flights' = Resp("fail", 0)
        \/ /\ key \in DOMAIN cache.entries => cache.entries[key].src = rq[p].url
           /\ flights' = Resp("304", 0)
        \/ \E n \in SizesOf[rq[p].doc] : flights' = Resp("body", n)
    BY <1>0 DEF Respond, Cached
  <2>2. \A kind, size : R(kind, size).asOf = now /\ R(kind, size).kind = kind
    OBVIOUS
  <2> HIDE DEF R
  <2> QED
    BY <2>1, <2>2
<1>6. ASSUME NEW k \in DOMAIN flights', k # key
      PROVE  FlightFresh(k)'
  <2>1. k \in DOMAIN flights /\ flights'[k] = flights[k]
    BY <1>5, <1>6 DEF TypeInv, FlightsTyped
  <2> QED
    BY <1>1, <2>1, FlightStaysFresh DEF FreshInv
<1>7. FlightFresh(key)'
  <2>1. PICK f : f = flights[key]
    OBVIOUS
  <2>2. f \in Flights
    BY <1>1, <2>1 DEF TypeInv, FlightsTyped
  <2>3. /\ flights'[key].leader = f.leader /\ flights'[key].started = f.started
        /\ flights'[key].resp = r /\ flights'[key].callers = f.callers
    BY <1>1, <1>5, <2>1, <2>2 DEF Flights
  <2>4. FlightFresh(key)
    BY <1>1 DEF FreshInv, FlightsFresh
  <2>5. rq[p].started <= now /\ f.started = rq[p].started
    BY <1>1, <2>1, <2>4 DEF FreshInv, AskingFresh, AskerFresh, Asking, FlightFresh
  <2> QED
    BY <1>1, <1>5, <2>1, <2>3, <2>4, <2>5 DEF FlightFresh
<1>8. FlightsFresh'
  BY <1>6, <1>7 DEF FlightsFresh
<1> QED
  BY <1>2, <1>3, <1>4, <1>8 DEF FreshInv

\* The readers: no body changes but in how far it is read.
LEMMA ReadersFresh ==
  ASSUME TypeInv, TypeInv', FreshInv, UNCHANGED <<now, rows, cache, flights, hist>>,
         \A q \in Callers : ~Holding(q) => pc'[q] = pc[q] /\ rq'[q] = rq[q],
         \A q \in Callers : Holding(q) => pc'[q] = "idle" \/ (Holding(q)' /\ SameBody(rq'[q], rq[q]))
  PROVE  FreshInv'
<1>1. Settled
  BY DEF Settled, TypeInv, ConfigTyped
<1>2. \A q \in Callers : pc[q] \in Asking => ~Holding(q)
  BY DEF Asking, Holding
<1>3. AskingFresh'
  <2>1. \A q \in Callers : pc'[q] \in Asking => ~Holding(q)
    BY DEF Asking, Holding
  <2> QED
    BY <1>1, <2>1, AskersStayFresh DEF FreshInv
<1>4. FlightsFresh'
  <2>1. \A k \in DOMAIN flights : \A q \in flights[k].callers : rq'[q] = rq[q]
    BY <1>2 DEF TypeInv, FlightsManned, FlightsTyped, Flights, Asking
  <2> QED
    BY <2>1, FlightsStayFresh DEF FreshInv, Within
<1>5. CacheFresh'
  BY <1>1, CacheStaysFresh DEF FreshInv, TypeInv, Within
<1>6. HeldFresh'
  <2>1. \A q \in Callers : Holding(q)' => Holding(q) /\ SameBody(rq'[q], rq[q])
    BY DEF Holding
  <2> QED
    BY <1>1, <2>1, HoldersStayFresh DEF FreshInv, TypeInv
<1> QED
  BY <1>3, <1>4, <1>5, <1>6 DEF FreshInv

\* The reader that moves on gives the same document.
LEMMA AdvanceReaderSame ==
  ASSUME TypeInv, MatesHold, NEW p \in Callers, Holding(p), NEW k \in Nat,
         NEW q \in Callers, Holding(q)
  PROVE  SameBody(AdvanceReader(p, k)[q], rq[q])
<1> DEFINE r == AdvanceReader(p, k)
<1>1. /\ r[q] \in Holdings /\ rq[q] \in Holdings
      /\ r[q].tenant = rq[q].tenant /\ r[q].doc = rq[q].doc /\ r[q].started = rq[q].started
      /\ r[q].body = [rq[q].body EXCEPT !.pos = r[q].body.pos]
  BY AdvanceReaderType DEF TypeInv, CallersTyped
<1> HIDE DEF r
<1>2. r[q].body.src = rq[q].body.src /\ r[q].body.asOf = rq[q].body.asOf
                                     /\ r[q].body.ttl = rq[q].body.ttl
  BY <1>1 DEF Holdings, Bodies
<1>3. SameBody(r[q], rq[q])
  BY <1>1, <1>2 DEF SameBody
<1> QED
  BY <1>3 DEF r

\* Advance.
LEMMA AdvanceFresh ==
  ASSUME TypeInv, TypeInv', SharingInv, FreshInv, NEW p \in Callers, Advance(p)
  PROVE  FreshInv'
<1>1. PICK k : k = rq[p].body.chunk
  OBVIOUS
<1>2. Holding(p) /\ k \in Nat /\ UNCHANGED <<now, rows, cache, flights, hist>> /\ MatesHold
  BY <1>1, SharingImpliesMatesHold DEF Advance, Holding, TypeInv, CallersTyped, Holdings, Bodies
<1>3. rq' = AdvanceReader(p, k) /\ pc' = [pc EXCEPT ![p] = "read"]
  BY <1>1 DEF Advance, Goto
<1>4. \A q \in Callers : pc'[q] = IF q = p THEN "read" ELSE pc[q]
  BY <1>3 DEF TypeInv, CallersTyped
<1>5. \A q \in Callers : Holding(q) => SameBody(rq'[q], rq[q])
  BY <1>2, <1>3, AdvanceReaderSame
<1>6. \A q \in Callers : ~Holding(q) => rq'[q] = rq[q]
  BY <1>2, <1>3, AdvanceReaderType
<1>7. /\ \A q \in Callers : ~Holding(q) => pc'[q] = pc[q] /\ rq'[q] = rq[q]
      /\ \A q \in Callers : Holding(q) => Holding(q)' /\ SameBody(rq'[q], rq[q])
  BY <1>2, <1>4, <1>5, <1>6 DEF Holding
<1> QED
  BY <1>2, <1>7, ReadersFresh

\* Read.
LEMMA ReadFresh ==
  ASSUME TypeInv, TypeInv', SharingInv, FreshInv, NEW p \in Callers, Read(p)
  PROVE  FreshInv'
<1> DEFINE b == rq[p].body
           d == rq[p].doc
<1>1. /\ pc[p] = "read" /\ rq[p] \in Holdings /\ b \in Bodies /\ Holding(p) /\ MatesHold
      /\ UNCHANGED <<now, rows, cache, flights, hist>>
  BY ReadChunk, SharingImpliesMatesHold DEF Holding, Read
<1>2. PICK k \in Nat :
         \/ /\ rq' = [rq EXCEPT ![p].body = TakeChunk(b, k)]
            /\ pc' = [pc EXCEPT ![p] = "advance"]
         \/ /\ rq' = [AdvanceReader(p, k) EXCEPT ![p].body.got = TakeChunk(b, k).got]
            /\ pc' = [pc EXCEPT ![p] = "read"]
  BY ReadChunk
<1>3. /\ \A q \in Callers \ {p} : pc'[q] = pc[q]
      /\ \A q \in Callers : Holding(q)' <=> Holding(q)
  BY <1>1, <1>2 DEF Holding, TypeInv, CallersTyped
<1>4. /\ \A q \in Callers : ~Holding(q) => rq'[q] = rq[q]
      /\ \A q \in Callers : Holding(q) => SameBody(rq'[q], rq[q])
  <2>1. CASE rq' = [rq EXCEPT ![p].body = TakeChunk(b, k)]
    <3> DEFINE c == TakeChunk(b, k)
    <3>1. c.src = b.src /\ c.asOf = b.asOf /\ c.ttl = b.ttl
      BY <1>1 DEF TakeChunk, Bodies
    <3> HIDE DEF c
    <3>2. rq' = [rq EXCEPT ![p].body = c]
      BY <2>1 DEF c
    <3>3. \A q \in Callers \ {p} : rq'[q] = rq[q]
      BY <3>2 DEF TypeInv, CallersTyped
    <3>4. rq'[p].body = c /\ rq'[p].tenant = rq[p].tenant /\ rq'[p].doc = rq[p].doc
                          /\ rq'[p].started = rq[p].started
      BY <1>1, <3>2 DEF TypeInv, CallersTyped, Holdings
    <3>5. SameBody(rq'[p], rq[p])
      BY <3>1, <3>4 DEF SameBody
    <3>6. \A q \in Callers : SameBody(rq[q], rq[q])
      BY DEF SameBody
    <3> QED
      BY <1>1, <3>3, <3>5, <3>6
  <2>2. CASE rq' = [AdvanceReader(p, k) EXCEPT ![p].body.got = TakeChunk(b, k).got]
    <3> DEFINE r == AdvanceReader(p, k)
               got == TakeChunk(b, k).got
    <3>1. /\ r = [q \in Callers |-> r[q]] /\ r[p] \in Holdings
          /\ \A q \in Callers : ~Holding(q) => r[q] = rq[q]
      BY <1>1, AdvanceReaderType
    <3>2. \A q \in Callers : Holding(q) => SameBody(r[q], rq[q])
      BY <1>1, AdvanceReaderSame
    <3> HIDE DEF r, got
    <3>3. rq' = [r EXCEPT ![p].body.got = got]
      BY <2>2 DEF r, got
    <3>4. \A q \in Callers \ {p} : rq'[q] = r[q]
      BY <3>1, <3>3
    <3>5. rq'[p] = [r[p] EXCEPT !.body.got = got]
      BY <3>1, <3>3
    <3>6. SameBody(rq'[p], r[p])
      BY <3>1, <3>5 DEF SameBody, Holdings, Bodies
    <3>7. SameBody(rq'[p], rq[p])
      BY <1>1, <3>2, <3>6 DEF SameBody
    <3> QED
      BY <1>1, <3>1, <3>2, <3>4, <3>7
  <2> QED
    BY <1>2, <2>1, <2>2
<1>5. /\ \A q \in Callers : ~Holding(q) => pc'[q] = pc[q] /\ rq'[q] = rq[q]
      /\ \A q \in Callers : Holding(q) => Holding(q)' /\ SameBody(rq'[q], rq[q])
  BY <1>1, <1>3, <1>4
<1> QED
  BY <1>1, <1>5, ReadersFresh

\* Leave.
LEMMA LeaveFresh ==
  ASSUME TypeInv, TypeInv', FreshInv, NEW p \in Callers, pc[p] = "read", NEW result,
         Leave(p, result), UNCHANGED <<now, rows, cache, flights, hist>>
  PROVE  FreshInv'
<1>1. /\ pc' = [pc EXCEPT ![p] = "idle"]
      /\ rq' = [q \in Callers |-> IF q = p THEN Idle
                                  ELSE IF Holding(q) THEN CloseBody(p, q) ELSE rq[q]]
  BY DEF Leave
<1>2. ASSUME NEW q \in Callers, Holding(q)
      PROVE  SameBody(CloseBody(p, q), rq[q])
  <2> DEFINE b == rq[q].body
             closed == rq[p].doc \notin Metadata
             c == [b EXCEPT !.mates = @ \ {p}, !.closed = closed]
  <2>1. rq[q] \in Holdings /\ b \in Bodies
    BY <1>2 DEF TypeInv, CallersTyped, Holdings
  <2>2. CloseBody(p, q) = rq[q] \/ CloseBody(p, q) = [rq[q] EXCEPT !.body = c]
    BY DEF CloseBody
  <2> HIDE DEF closed
  <2>3. c.src = b.src /\ c.asOf = b.asOf /\ c.ttl = b.ttl
    BY <2>1 DEF Bodies
  <2> HIDE DEF c
  <2> QED
    BY <2>1, <2>2, <2>3 DEF Holdings, SameBody
<1>3. Holding(p)
  BY DEF Holding
<1>4. \A q \in Callers : pc'[q] = IF q = p THEN "idle" ELSE pc[q]
  BY <1>1 DEF TypeInv, CallersTyped
<1>5. /\ \A q \in Callers : ~Holding(q) => pc'[q] = pc[q] /\ rq'[q] = rq[q]
      /\ \A q \in Callers : Holding(q) => pc'[q] = "idle" \/ (Holding(q)' /\ SameBody(rq'[q], rq[q]))
  BY <1>1, <1>2, <1>3, <1>4 DEF Holding
<1> QED
  BY <1>5, ReadersFresh

\* A row is written: what was configured is remembered to have been until now.
LEMMA SetRowFresh ==
  ASSUME TypeInv, FreshInv, SetsRow
  PROVE  FreshInv'
<1>1. UNCHANGED <<now, cache, flights, pc, rq>> /\ ConfigTyped /\ now \in Nat /\ FetchTimeout \in Nat
  BY UpstreamAssumption DEF SetsRow, SetRow, TypeInv, ConfigTyped
<1>2. ASSUME NEW q \in Callers, pc[q] \in Asking
      PROVE  AskerFresh(q)'
  <2>1. PICK r : r = rq[q]
    OBVIOUS
  <2>2. /\ r.tenant \in Tenants /\ r.doc \in Docs /\ r.url \in URLs /\ r.started \in Int
        /\ AskerFresh(q)
    BY <1>2, <2>1 DEF TypeInv, CallersTyped, Requests, FreshInv, AskingFresh
  <2>3. Configured(r.tenant, r.doc, r.url, r.started) /\ r.started <= now
    BY <2>1, <2>2 DEF AskerFresh
  <2>4. Configured(r.tenant, r.doc, r.url, r.started)'
    BY <1>1, <2>2, <2>3, SetRowConfigured DEF SetsRow
  <2> QED
    BY <1>1, <2>1, <2>2, <2>4 DEF AskerFresh
<1>3. AskingFresh'
  BY <1>1, <1>2 DEF AskingFresh
<1>4. FlightsFresh'
  BY <1>1 DEF FreshInv, FlightsFresh, FlightFresh
<1>5. ASSUME NEW k \in DOMAIN cache.entries
      PROVE  EntryFresh(k)'
  <2>1. PICK e : e = cache.entries[k]
    OBVIOUS
  <2>2. e \in Entries /\ k[1] \in Tenants /\ k[2] \in Docs
    BY <2>1 DEF TypeInv, CacheTyped, Keys
  <2>3. PICK oldest : oldest = e.expires - e.ttl - FetchTimeout
    OBVIOUS
  <2>4. oldest \in Int /\ e.src \in URLs /\ e.asOf \in Int
    BY <1>1, <2>2, <2>3 DEF Entries
  <2>5. Current(k[1], k[2], e.src, e.asOf, oldest)
    BY <2>1, <2>3 DEF FreshInv, CacheFresh, EntryFresh
  <2>6. Current(k[1], k[2], e.src, e.asOf, oldest)'
    BY <1>1, <2>2, <2>4, <2>5, SetRowCurrent
  <2> QED
    BY <1>1, <2>1, <2>3, <2>6 DEF EntryFresh
<1>6. CacheFresh'
  BY <1>1, <1>5 DEF CacheFresh
<1>7. ASSUME NEW q \in Callers, Holding(q)
      PROVE  BodyFresh(q)'
  <2>1. PICK r : r = rq[q]
    OBVIOUS
  <2> DEFINE b == r.body
  <2>2. r.tenant \in Tenants /\ r.doc \in Docs /\ r.started \in Nat /\ b \in Bodies
    BY <1>7, <2>1 DEF TypeInv, CallersTyped, Holdings
  <2>3. PICK oldest : oldest = r.started - b.ttl - FetchTimeout
    OBVIOUS
  <2>4. oldest \in Int /\ b.src \in URLs /\ b.asOf \in Int
    BY <1>1, <2>2, <2>3 DEF Bodies
  <2>5. Current(r.tenant, r.doc, b.src, b.asOf, oldest)
    BY <1>7, <2>1, <2>3 DEF FreshInv, HeldFresh, BodyFresh
  <2>6. Current(r.tenant, r.doc, b.src, b.asOf, oldest)'
    BY <1>1, <2>2, <2>4, <2>5, SetRowCurrent
  <2> QED
    BY <1>1, <2>1, <2>3, <2>6 DEF BodyFresh
<1>8. HeldFresh'
  BY <1>1, <1>7 DEF HeldFresh, Holding
<1> QED
  BY <1>3, <1>4, <1>6, <1>8 DEF FreshInv

\* Time passes only when nobody is between resolving the configuration and sending
\* the request, and no flight outlives the timeout.
LEMMA TickFresh ==
  ASSUME TypeInv, TypeInv', FreshInv, Tick
  PROVE  FreshInv'
<1>1. /\ UNCHANGED <<rows, cache, flights, pc, rq>> /\ now \in Nat /\ now' = now + 1
      /\ FetchTimeout \in Nat
      /\ \A p \in Callers : pc[p] \in {"idle", "wait", "read"}
      /\ \A k \in DOMAIN flights : now < flights[k].started + FetchTimeout
  BY UpstreamAssumption DEF Tick, TypeInv, ConfigTyped
<1>2. hist'.until = hist.until
  BY DEF Tick, TypeInv, ConfigTyped
<1>3. Settled
  BY <1>1, <1>2 DEF Settled, TypeInv
<1>4. ASSUME NEW q \in Callers, pc[q] \in Asking
      PROVE  AskerFresh(q)'
  <2>1. PICK r : r = rq[q]
    OBVIOUS
  <2>2. r.started \in Nat /\ r.started <= now /\ Configured(r.tenant, r.doc, r.url, r.started)
    BY <1>4, <2>1 DEF TypeInv, CallersTyped, Requests, FreshInv, AskingFresh, AskerFresh
  <2>3. Configured(r.tenant, r.doc, r.url, r.started)'
    BY <1>1, <1>2, <2>2, ConfiguredStays
  <2>4. pc[q] = "wait"
    BY <1>1, <1>4 DEF Asking
  <2> QED
    BY <1>1, <2>1, <2>2, <2>3, <2>4 DEF AskerFresh
<1>5. AskingFresh'
  BY <1>1, <1>4 DEF AskingFresh
<1>6. ASSUME NEW k \in DOMAIN flights
      PROVE  FlightFresh(k)'
  <2>1. PICK f : f = flights[k]
    OBVIOUS
  <2>2. f \in Flights /\ FlightFresh(k) /\ now < f.started + FetchTimeout
    BY <1>1, <2>1 DEF TypeInv, FlightsTyped, FreshInv, FlightsFresh
  <2>3. f.started \in Nat /\ (f.resp # None => f.resp.asOf \in Nat)
    BY <2>2 DEF Flights, Responses
  <2> QED
    BY <1>1, <2>1, <2>2, <2>3 DEF FlightFresh
<1>7. FlightsFresh'
  BY <1>1, <1>6 DEF FlightsFresh
<1>8. CacheFresh'
  BY <1>1, <1>3, CacheStaysFresh DEF FreshInv, TypeInv, Within
<1>9. HeldFresh'
  BY <1>1, <1>3, HoldersStayFresh DEF FreshInv, TypeInv, Holding, SameBody
<1> QED
  BY <1>5, <1>7, <1>8, <1>9 DEF FreshInv

\* A flight lands: it is enough that what its callers are given, and what is cached
\* under its key, is current.
LEMMA LandedFresh ==
  ASSUME TypeInv, TypeInv', FreshInv, NEW key \in DOMAIN flights, flights' = Without(key),
         UNCHANGED <<now, rows, hist>>,
         \A q \in Callers \ flights[key].callers : pc'[q] = pc[q] /\ rq'[q] = rq[q],
         \A q \in flights[key].callers : pc'[q] = "idle" \/ (pc'[q] = "read" /\ BodyFresh(q)'),
         \A k \in DOMAIN cache'.entries : k # key =>
             k \in DOMAIN cache.entries /\ cache'.entries[k] = cache.entries[k],
         key \in DOMAIN cache'.entries => EntryFresh(key)'
  PROVE  FreshInv'
<1>1. Settled
  BY DEF Settled, TypeInv, ConfigTyped
<1>2. flights' = [k \in DOMAIN flights \ {key} |-> flights[k]]
  BY DEF Without, Restrict
<1>3. flights[key].callers \subseteq Callers
  BY DEF TypeInv, FlightsTyped, Flights
<1>4. AskingFresh'
  <2>1. \A q \in Callers : pc'[q] \in Asking => q \notin flights[key].callers
    BY DEF Asking
  <2> QED
    BY <1>1, <2>1, AskersStayFresh DEF FreshInv
<1>5. ASSUME NEW k \in DOMAIN flights'
      PROVE  FlightFresh(k)'
  <2>1. k \in DOMAIN flights /\ k # key /\ flights'[k] = flights[k]
    BY <1>2
  <2>2. \A q \in flights[k].callers : q \in Callers \ flights[key].callers
    BY <2>1 DEF TypeInv, FlightsManned, FlightsTyped, Flights
  <2>3. k \in DOMAIN cache'.entries =>
           k \in DOMAIN cache.entries /\ cache'.entries[k] = cache.entries[k]
    BY <2>1
  <2> QED
    BY <2>1, <2>2, <2>3, FlightStaysFresh DEF FreshInv
<1>6. FlightsFresh'
  BY <1>5 DEF FlightsFresh
<1>7. CacheFresh'
  <2>1. ASSUME NEW k \in DOMAIN cache'.entries, k # key
        PROVE  EntryFresh(k)'
    BY <1>1, <2>1, EntryStaysFresh DEF FreshInv, TypeInv
  <2> QED
    BY <2>1 DEF CacheFresh
<1>8. HeldFresh'
  <2>1. ASSUME NEW q \in Callers \ flights[key].callers, Holding(q)'
        PROVE  BodyFresh(q)'
    BY <1>1, <2>1, BodyStaysFresh DEF FreshInv, TypeInv, Holding, SameBody
  <2> QED
    BY <1>3, <2>1 DEF HeldFresh, Holding
<1> QED
  BY <1>4, <1>6, <1>7, <1>8 DEF FreshInv

\* What the leader of a flight was answered was current, where its document was to be
\* had, when the flight had started: for each of its callers soon enough.
LEMMA AnsweredInTime ==
  ASSUME TypeInv, FreshInv, NEW key \in DOMAIN flights, flights[key].resp # None
  PROVE  LET f == flights[key]
         IN  /\ Current(key[1], key[2], rq[f.leader].url, f.resp.asOf, f.started)
             /\ f.started \in Nat /\ f.resp.asOf \in Nat /\ rq[f.leader].url \in URLs
             /\ now <= f.started + FetchTimeout
             /\ \A q \in f.callers :
                   /\ rq[q].started <= f.started + FetchTimeout /\ rq[q].started \in Nat
                   /\ key = <<rq[q].tenant, rq[q].doc>>
<1>1. PICK f : f = flights[key]
  OBVIOUS
<1>2. PICK p : p = f.leader
  OBVIOUS
<1>3. /\ f \in Flights /\ p \in f.callers /\ f.callers \subseteq Callers
      /\ \A q \in f.callers : pc[q] = "wait" /\ rq[q].key = key
  BY <1>1, <1>2 DEF TypeInv, FlightsTyped, FlightsManned, Flights
<1>4. \A q \in f.callers : rq[q] \in Requests /\ key = <<rq[q].tenant, rq[q].doc>>
  BY <1>3 DEF TypeInv, CallersTyped, KeysNamed, Asking
<1>5. /\ rq[p].started = f.started /\ now <= f.started + FetchTimeout
      /\ \A q \in f.callers : rq[q].started <= f.started + FetchTimeout
      /\ f.started <= f.resp.asOf /\ f.resp.asOf <= now
  BY <1>1, <1>2 DEF FreshInv, FlightsFresh, FlightFresh
<1>6. Configured(rq[p].tenant, rq[p].doc, rq[p].url, rq[p].started)
  BY <1>3 DEF FreshInv, AskingFresh, AskerFresh, Asking
<1>7. f.started \in Nat /\ f.resp.asOf \in Nat
  BY <1>1, <1>3 DEF Flights, Responses
<1>8. /\ rq[p].url \in URLs /\ key[1] = rq[p].tenant /\ key[2] = rq[p].doc
      /\ \A q \in f.callers : rq[q].started \in Nat
  BY <1>3, <1>4 DEF Requests
<1>9. Current(key[1], key[2], rq[p].url, f.resp.asOf, f.started)
  BY <1>5, <1>6, <1>8 DEF Current
<1> QED
  BY <1>1, <1>2, <1>4, <1>5, <1>7, <1>8, <1>9

\* The result every caller of a flight is given is current for each of them.
LEMMA LandWithFresh ==
  ASSUME TypeInv, TypeInv', FreshInv, NEW key \in DOMAIN flights, flights[key].resp # None,
         UNCHANGED <<now, rows, hist>>, NEW result, IsResult(result),
         result.src = rq[flights[key].leader].url, result.asOf = flights[key].resp.asOf,
         LandWith(flights[key], key, result),
         NEW q \in flights[key].callers
  PROVE  pc'[q] = "read" /\ BodyFresh(q)'
<1> DEFINE f == flights[key]
           b == Body(result.src, result.asOf, result.size, result.ttl, f.callers \ {q})
           oldest == rq[q].started - result.ttl - FetchTimeout
<1>1. q \in Callers
  BY DEF TypeInv, FlightsTyped, Flights
<1>2. /\ pc'[q] = "read"
      /\ rq'[q] = [tenant |-> rq[q].tenant, doc |-> rq[q].doc, key |-> key,
                   started |-> rq[q].started, body |-> b]
  BY <1>1, Zenon DEF LandWith
<1>3. b.src = result.src /\ b.asOf = result.asOf /\ b.ttl = result.ttl
  BY DEF Body
<1> HIDE DEF b
<1>4. /\ rq'[q].tenant = rq[q].tenant /\ rq'[q].doc = rq[q].doc /\ rq'[q].started = rq[q].started
      /\ rq'[q].body.src = result.src /\ rq'[q].body.asOf = result.asOf
      /\ rq'[q].body.ttl = result.ttl
  BY <1>2, <1>3
<1>5. PICK t, d, src, asOf, s : /\ t = rq[q].tenant /\ d = rq[q].doc /\ src = result.src
                                /\ asOf = result.asOf /\ s = oldest
  OBVIOUS
<1>6. /\ Current(t, d, src, asOf, f.started)
      /\ f.started \in Nat /\ asOf \in Nat /\ src \in URLs
      /\ rq[q].started <= f.started + FetchTimeout /\ rq[q].started \in Nat
      /\ key = <<t, d>>
  BY <1>5, AnsweredInTime
<1>7. t \in Tenants /\ d \in Docs
  BY <1>6 DEF TypeInv, FlightsTyped, Keys
<1>8. s \in Int /\ s <= f.started
  BY <1>5, <1>6, UpstreamAssumption DEF IsResult
<1>9. Current(t, d, src, asOf, s)
  <2> HIDE DEF f
  <2> QED
    BY <1>6, <1>7, <1>8, CurrentSince DEF TypeInv
<1>10. now \in Nat /\ now' = now /\ UNCHANGED rows /\ hist'.until = hist.until
  BY DEF TypeInv, ConfigTyped
<1>11. Current(t, d, src, asOf, s)'
  BY <1>6, <1>9, <1>10, CurrentStays
<1> QED
  BY <1>2, <1>4, <1>5, <1>11 DEF BodyFresh

\* An entry written when a flight lands is current when it expires.
LEMMA LandedEntryFresh ==
  ASSUME TypeInv, FreshInv, NEW key \in DOMAIN flights, flights[key].resp # None,
         UNCHANGED <<now, rows, hist>>, NEW e \in Entries,
         e.src = rq[flights[key].leader].url, e.asOf = flights[key].resp.asOf,
         e.expires = now + e.ttl, cache'.entries[key] = e
  PROVE  EntryFresh(key)'
<1> DEFINE f == flights[key]
<1>1. /\ Current(key[1], key[2], e.src, e.asOf, f.started)
      /\ f.started \in Nat /\ e.asOf \in Nat /\ e.src \in URLs
      /\ now <= f.started + FetchTimeout
  BY AnsweredInTime
<1>2. key[1] \in Tenants /\ key[2] \in Docs /\ now \in Nat /\ ConfigTyped
  BY DEF TypeInv, FlightsTyped, Keys, ConfigTyped
<1>3. PICK s : s = e.expires - e.ttl - FetchTimeout
  OBVIOUS
<1>4. s \in Int /\ s <= f.started
  BY <1>1, <1>2, <1>3, UpstreamAssumption DEF Entries
<1>5. Current(key[1], key[2], e.src, e.asOf, s)
  <2> HIDE DEF f
  <2> QED
    BY <1>1, <1>2, <1>4, CurrentSince
<1>6. now \in Nat /\ now' = now /\ UNCHANGED rows /\ hist'.until = hist.until
  BY <1>2
<1>7. Current(key[1], key[2], e.src, e.asOf, s)'
  BY <1>1, <1>5, <1>6, CurrentStays
<1> QED
  BY <1>3, <1>7 DEF EntryFresh

\* FinishFetch.
LEMMA FinishFetchFresh ==
  ASSUME TypeInv, TypeInv', FreshInv, NEW p \in Callers, FinishFetch(p)
  PROVE  FreshInv'
<1>0. PICK key : key = rq[p].key
  OBVIOUS
<1> DEFINE resp == flights[key].resp
           ttl == rq[p].ttl
           fresh == [src |-> rq[p].url, asOf |-> resp.asOf, size |-> resp.size, ttl |-> 0]
           Entry(from, size) == [src |-> from, asOf |-> resp.asOf, size |-> size,
                                 ttl |-> ttl, expires |-> now + ttl]
           entry == Entry(rq[p].url, resp.size)
           renewed == Entry(cache.entries[key].src, cache.entries[key].size)
           callers == flights[key].callers
<1>1. /\ key \in DOMAIN flights /\ flights[key].leader = p
      /\ resp # None
      /\ UNCHANGED <<now, rows, hist>>
      /\ entry \in Entries
      /\ IsResult(fresh)
      /\ \/ LandError(flights[key], key) /\ UNCHANGED cache
         \/ LandWith(flights[key], key, fresh) /\ UNCHANGED cache
         \/ cache' = Put(cache, key, entry, ttl) /\ LandWith(flights[key], key, fresh)
         \/ /\ resp.kind = "304" /\ key \in DOMAIN cache.entries
            /\ renewed \in Entries
            /\ cache'.entries = [cache.entries EXCEPT ![key] = renewed]
            /\ LandWith(flights[key], key, renewed)
  BY <1>0, FinishFetchCases, Zenon
<1>2. /\ fresh.src = rq[p].url /\ fresh.asOf = resp.asOf
      /\ entry.src = rq[p].url /\ entry.asOf = resp.asOf /\ entry.expires = now + entry.ttl
      /\ renewed.src = cache.entries[key].src /\ renewed.asOf = resp.asOf
      /\ renewed.expires = now + renewed.ttl
  OBVIOUS
<1> HIDE DEF fresh, entry, renewed
<1>3. Settled
  BY <1>1 DEF Settled, TypeInv, ConfigTyped
<1>4. callers \subseteq Callers
  BY <1>1 DEF TypeInv, FlightsTyped, Flights
<1>5. ASSUME UNCHANGED cache
      PROVE  /\ \A k \in DOMAIN cache'.entries : k # key =>
                   k \in DOMAIN cache.entries /\ cache'.entries[k] = cache.entries[k]
             /\ key \in DOMAIN cache'.entries => EntryFresh(key)'
  BY <1>3, <1>5, EntryStaysFresh DEF FreshInv, TypeInv
<1>6. ASSUME NEW result, LandWith(flights[key], key, result)
      PROVE  /\ flights' = Without(key)
             /\ \A q \in Callers \ callers : pc'[q] = pc[q] /\ rq'[q] = rq[q]
  BY <1>6 DEF LandWith
<1>7. CASE LandError(flights[key], key) /\ UNCHANGED cache
  <2>1. /\ flights' = Without(key)
        /\ \A q \in Callers \ callers : pc'[q] = pc[q] /\ rq'[q] = rq[q]
        /\ \A q \in callers : pc'[q] = "idle"
    BY <1>4, <1>7 DEF LandError
  <2> QED
    BY <1>1, <1>5, <1>7, <2>1, LandedFresh
<1>8. ASSUME LandWith(flights[key], key, fresh)
      PROVE  \A q \in callers : pc'[q] = "read" /\ BodyFresh(q)'
  BY <1>1, <1>2, <1>8, LandWithFresh
<1>9. CASE LandWith(flights[key], key, fresh) /\ UNCHANGED cache
  BY <1>1, <1>5, <1>6, <1>8, <1>9, LandedFresh
<1>10. CASE cache' = Put(cache, key, entry, ttl) /\ LandWith(flights[key], key, fresh)
  <2>1. \A k \in DOMAIN cache'.entries :
           \/ k = key /\ cache'.entries[k] = entry
           \/ k \in DOMAIN cache.entries /\ cache'.entries[k] = cache.entries[k]
    BY <1>10, PutKeeps DEF TypeInv, CacheTyped
  <2>2. ASSUME key \in DOMAIN cache'.entries
        PROVE  EntryFresh(key)'
    <3>1. CASE cache'.entries[key] = entry
      BY <1>1, <1>2, <3>1, LandedEntryFresh
    <3>2. CASE key \in DOMAIN cache.entries /\ cache'.entries[key] = cache.entries[key]
      BY <1>3, <3>2, EntryStaysFresh DEF FreshInv, TypeInv
    <3> QED
      BY <2>1, <2>2, <3>1, <3>2
  <2> QED
    BY <1>1, <1>6, <1>8, <1>10, <2>1, <2>2, LandedFresh
<1>11. CASE /\ resp.kind = "304" /\ key \in DOMAIN cache.entries
            /\ renewed \in Entries
            /\ cache'.entries = [cache.entries EXCEPT ![key] = renewed]
            /\ LandWith(flights[key], key, renewed)
  <2>1. renewed.src = rq[p].url
    BY <1>1, <1>2, <1>11 DEF FreshInv, FlightsFresh, FlightFresh
  <2>2. IsResult(renewed)
    BY <1>11 DEF IsResult, Entries
  <2>3. \A q \in callers : pc'[q] = "read" /\ BodyFresh(q)'
    BY <1>1, <1>2, <1>11, <2>1, <2>2, LandWithFresh
  <2>4. /\ cache'.entries[key] = renewed
        /\ \A k \in DOMAIN cache'.entries : k # key =>
              k \in DOMAIN cache.entries /\ cache'.entries[k] = cache.entries[k]
    BY <1>11
  <2>5. EntryFresh(key)'
    BY <1>1, <1>2, <1>11, <2>1, <2>4, LandedEntryFresh
  <2> QED
    BY <1>1, <1>6, <1>11, <2>3, <2>4, <2>5, LandedFresh
<1> QED
  BY <1>1, <1>7, <1>9, <1>10, <1>11

\* Init.
LEMMA InitFresh ==
  ASSUME Init
  PROVE  FreshInv
  BY DEF Init, FreshInv, AskingFresh, FlightsFresh, CacheFresh, HeldFresh, Asking, Holding, EmptyCache

\* Every step keeps what is asked for, in flight, cached and held current.
LEMMA FreshStep ==
  ASSUME TypeInv, TypeInv', SharingInv, FreshInv, [Next]_vars
  PROVE  FreshInv'
<1>1. CASE UNCHANGED vars
  BY <1>1 DEF vars, FreshInv, AskingFresh, FlightsFresh, CacheFresh, HeldFresh, Holding, AskerFresh,
              FlightFresh, EntryFresh, BodyFresh, Current, Configured, ResolveConfig
<1>2. ASSUME NEW p \in Callers, Fetch(p) \/ CacheGet(p) \/ Allow(p) \/ Do(p) \/ Respond(p)
      PROVE  FreshInv'
  BY <1>2, FetchFresh, CacheGetFresh, AllowFresh, DoFresh, RespondFresh
<1>3. ASSUME NEW p \in Callers, FinishFetch(p) \/ Read(p) \/ Advance(p)
      PROVE  FreshInv'
  BY <1>3, FinishFetchFresh, ReadFresh, AdvanceFresh
<1>4. ASSUME NEW p \in Callers, ReadEnds(p) \/ ReadBreaks(p)
      PROVE  FreshInv'
  BY <1>4, LeavingStep, LeaveFresh
<1> QED
  BY <1>1, <1>2, <1>3, <1>4, SetRowFresh, TickFresh, NextCases

\* An answer is as current as the body that was read.
LEMMA StaleStep ==
  ASSUME TypeInv, FreshInv, StaleBounded, [Next]_vars
  PROVE  StaleBounded'
<1>1. CASE UNCHANGED vars
  BY <1>1 DEF vars, StaleBounded, ResolveConfig
<1>2. CASE Next /\ answer'.ok
  <2>1. PICK p \in Callers :
           LET b == rq[p].body
               d == rq[p].doc
           IN  /\ ReadEnds(p) /\ pc[p] = "read"
               /\ answer' = [ok |-> TRUE, tenant |-> rq[p].tenant, doc |-> d,
                             started |-> rq[p].started, src |-> b.src, asOf |-> b.asOf,
                             ttl |-> b.ttl, whole |-> b.got = b.size, shared |-> b.shared]
    BY <1>2, AnswerComesFromRead
  <2>2. UNCHANGED <<rows, hist>> /\ Holding(p)
    BY <2>1 DEF ReadEnds, Holding
  <2>3. PICK a : a = answer'
    OBVIOUS
  <2> DEFINE b == rq[p].body
  <2>4. /\ a.tenant = rq[p].tenant /\ a.doc = rq[p].doc /\ a.started = rq[p].started
        /\ a.src = b.src /\ a.asOf = b.asOf /\ a.ttl = b.ttl
    BY <2>1, <2>3
  <2>5. Current(a.tenant, a.doc, a.src, a.asOf, a.started - a.ttl - FetchTimeout)
    BY <2>2, <2>4 DEF FreshInv, HeldFresh, BodyFresh
  <2>6. a.asOf \in Nat /\ a.started \in Nat /\ a.ttl \in Nat /\ FetchTimeout \in Nat
    BY <2>2, <2>4, UpstreamAssumption DEF TypeInv, CallersTyped, Holdings, Bodies
  <2>7. Configured(a.tenant, a.doc, a.src, a.started - a.ttl - FetchTimeout)'
    BY <2>2, <2>5, ConfiguredStays DEF Current
  <2>8. a.asOf >= a.started - a.ttl - FetchTimeout
    BY <2>5, <2>6 DEF Current
  <2> QED
    BY <2>3, <2>7, <2>8 DEF StaleBounded, Configured
<1>3. CASE ~answer'.ok
  BY <1>3 DEF StaleBounded
<1> QED
  BY <1>1, <1>2, <1>3

\* No answer is older, at the upstream configured for the caller's own tenant, than the
\* time to live it was cached with and the duration of one fetch (fetcher.go's Fetch and
\* doFetch, metadata_cache.go): however many callers, tenants and documents there are,
\* and whenever an administrator points a tenant at another upstream.
THEOREM StaleBoundedHolds == Spec => []StaleBounded
<1>1. Init => TypeInv /\ FreshInv /\ StaleBounded
  BY InitType, InitFresh, InitSharing
<1>2. TypeInv /\ TypeInv' /\ SharingInv /\ FreshInv /\ StaleBounded /\ [Next]_vars
         => FreshInv' /\ StaleBounded'
  BY FreshStep, StaleStep
<1> QED
  BY <1>1, <1>2, SharingHolds, PTL DEF Spec

-----------------------------------------------------------------------------
(* The count of the cache's bytes: induction over finite sets, sums, and the order
   of use. *)

\* A set of numbers has a least one.
LEMMA Least ==
  ASSUME NEW T \in SUBSET Nat, T # {}
  PROVE  Min(T) \in T /\ \A y \in T : Min(T) <= y
<1>1. PICK R : R = OpToRel(<, Nat)
  BY Zenon
<1>2. IsWellFoundedOn(R, Nat)
  BY <1>1, NatLessThanWellFounded, Zenon
<1>3. PICK x \in T : \A y \in T : ~(<<y, x>> \in R)
  BY <1>2, WFMin
<1>4. \A a, b \in Nat : a < b => <<a, b>> \in R
  BY <1>1 DEF OpToRel
<1>5. \A y \in T : ~(y < x)
  BY <1>3, <1>4
<1>6. \E z \in T : \A y \in T : z <= y
  BY <1>5
<1> QED
  BY <1>6 DEF Min

\* Induction over numbers, about the set P of those that have the property.
LEMMA Counting ==
  ASSUME NEW P, 0 \in P, \A n \in Nat : n \in P => n + 1 \in P
  PROVE  Nat \subseteq P
<1> SUFFICES ASSUME ~(Nat \subseteq P) PROVE FALSE
  OBVIOUS
<1>1. PICK T : T = {n \in Nat : n \notin P}
  OBVIOUS
<1>2. PICK m \in T : \A n \in T : m <= n
  BY <1>1, Least
<1>3. m # 0 /\ m \in Nat /\ m \notin P
  BY <1>1, <1>2
<1>4. m - 1 \in Nat /\ m - 1 \notin T
  BY <1>2, <1>3
<1> QED
  BY <1>1, <1>3, <1>4

\* Induction over the subsets of a finite set, about the set P of those that have it.
LEMMA SetInduction ==
  ASSUME NEW S, IsFiniteSet(S), NEW P,
         {} \in P,
         \A T \in SUBSET S : T # {} /\ (\A x \in T : T \ {x} \in P) => T \in P
  PROVE  S \in P
<1>1. PICK Q : Q = {n \in Nat : \A T \in SUBSET S : Cardinality(T) = n => T \in P}
  OBVIOUS
<1>2. \A T \in SUBSET S : IsFiniteSet(T) /\ Cardinality(T) \in Nat
  BY FS_Subset, FS_CardinalityType
<1>3. 0 \in Q
  BY <1>1, <1>2, FS_EmptySet
<1>4. ASSUME NEW n \in Nat, n \in Q PROVE n + 1 \in Q
  <2>1. ASSUME NEW T \in SUBSET S, Cardinality(T) = n + 1 PROVE T \in P
    <3>1. T # {}
      BY <1>2, <2>1, FS_EmptySet
    <3>2. ASSUME NEW x \in T PROVE T \ {x} \in P
      <4>1. Cardinality(T \ {x}) = n
        BY <1>2, <2>1, FS_RemoveElement
      <4> QED
        BY <1>1, <1>4, <4>1
    <3> QED
      BY <3>1, <3>2
  <2> QED
    BY <1>1, <2>1
<1>5. Nat \subseteq Q
  BY <1>3, <1>4, Counting
<1> QED
  BY <1>1, <1>2, <1>5

-----------------------------------------------------------------------------
\* The bytes of the entries of the keys in S.
Bytes(e, S) == MapThenSumSet(LAMBDA k : e[k].size, S)

Pick(S) == CHOOSE x \in S : TRUE

\* g adds up the sizes of e over every subset of S.
Adds(g, e, S) == g = [T \in SUBSET S |->
                        IF T = {} THEN 0 ELSE e[Pick(T)].size + g[T \ {Pick(T)}]]

\* The sum is what such a function gives the set.
LEMMA BytesIs ==
  ASSUME NEW e, NEW S
  PROVE  Bytes(e, S) = (CHOOSE g : Adds(g, e, S))[S]
  BY DEF Bytes, MapThenSumSet, MapThenFoldSet, Adds, Pick

\* Every set that is not empty has an element to begin with.
LEMMA PickIn ==
  ASSUME NEW S, S # {}
  PROVE  Pick(S) \in S
  BY DEF Pick

\* For a finite set there is such a function: one that adds up the subsets of at most n
\* elements is extended by those of n + 1.
LEMMA SomeAdds ==
  ASSUME NEW e, NEW S, IsFiniteSet(S)
  PROVE  \E g : Adds(g, e, S)
<1> DEFINE Small(n) == {T \in SUBSET S : Cardinality(T) <= n}
           Next1(g, T) == IF T = {} THEN 0 ELSE e[Pick(T)].size + g[T \ {Pick(T)}]
<1>1. PICK Q : Q = {n \in Nat : \E g : \A T \in Small(n) : g[T] = Next1(g, T)}
  OBVIOUS
<1>2. \A T \in SUBSET S : IsFiniteSet(T) /\ Cardinality(T) \in Nat
  BY FS_Subset, FS_CardinalityType
<1>3. 0 \in Q
  <2>1. PICK g : g = [T \in SUBSET S |-> 0]
    OBVIOUS
  <2>2. \A T \in Small(0) : T = {}
    BY <1>2, FS_EmptySet
  <2> QED
    BY <1>1, <2>1, <2>2
<1>4. ASSUME NEW n \in Nat, n \in Q PROVE n + 1 \in Q
  <2>1. PICK g : \A T \in Small(n) : g[T] = Next1(g, T)
    BY <1>1, <1>4
  <2>2. PICK h : h = [T \in SUBSET S |-> Next1(g, T)]
    OBVIOUS
  <2>3. \A T \in Small(n) : h[T] = g[T]
    BY <2>1, <2>2
  <2>4. ASSUME NEW T \in Small(n + 1) PROVE h[T] = Next1(h, T)
    <3>1. CASE T = {}
      BY <2>2, <3>1
    <3>2. CASE T # {}
      <4>1. PICK x : x = Pick(T) /\ x \in T
        BY <3>2, PickIn
      <4>2. Cardinality(T \ {x}) = Cardinality(T) - 1
        BY <1>2, <4>1, FS_RemoveElement
      <4>3. T \ {x} \in Small(n)
        BY <1>2, <4>2
      <4> QED
        BY <2>2, <2>3, <4>1, <4>3
    <3> QED
      BY <3>1, <3>2
  <2>5. \E f : \A T \in Small(n + 1) : f[T] = Next1(f, T)
    BY <2>4
  <2> QED
    BY ONLY <1>1, <2>5, n \in Nat, n + 1 \in Nat
<1>5. Cardinality(S) \in Q
  BY <1>2, <1>3, <1>4, Counting
<1>6. PICK g : \A T \in Small(Cardinality(S)) : g[T] = Next1(g, T)
  BY <1>1, <1>5
<1>7. ASSUME NEW T \in SUBSET S PROVE g[T] = Next1(g, T)
  BY <1>6, <1>7, FS_Subset
<1>8. PICK h : h = [T \in SUBSET S |-> g[T]]
  OBVIOUS
<1>9. ASSUME NEW T \in SUBSET S PROVE h[T] = Next1(h, T)
  <2>1. T \ {Pick(T)} \in SUBSET S
    OBVIOUS
  <2> QED
    BY <1>7, <1>8, <2>1
<1>10. h = [T \in SUBSET S |-> Next1(h, T)]
  BY <1>8, <1>9
<1> QED
  BY <1>10 DEF Adds

\* Two such functions agree on the subsets both know.
LEMMA AddsAgree ==
  ASSUME NEW e, NEW S, NEW R \in SUBSET S, IsFiniteSet(R), NEW g, NEW h, Adds(g, e, S), Adds(h, e, R)
  PROVE  g[R] = h[R]
<1>1. PICK P : P = {T \in SUBSET R : g[T] = h[T]}
  OBVIOUS
<1>2. \A T \in SUBSET R :
        /\ g[T] = IF T = {} THEN 0 ELSE e[Pick(T)].size + g[T \ {Pick(T)}]
        /\ h[T] = IF T = {} THEN 0 ELSE e[Pick(T)].size + h[T \ {Pick(T)}]
  BY DEF Adds
<1>3. {} \in P
  BY <1>1, <1>2
<1>4. ASSUME NEW T \in SUBSET R, T # {}, \A x \in T : T \ {x} \in P PROVE T \in P
  <2>1. T \ {Pick(T)} \in P
    BY <1>4, PickIn
  <2> QED
    BY <1>1, <1>2, <1>4, <2>1
<1>5. R \in P
  BY <1>3, <1>4, SetInduction
<1> QED
  BY <1>1, <1>5

\* No keys, no bytes; else the first key's and the others'.
LEMMA BytesEquation ==
  ASSUME NEW e, NEW S, IsFiniteSet(S)
  PROVE  Bytes(e, S) = IF S = {} THEN 0 ELSE e[Pick(S)].size + Bytes(e, S \ {Pick(S)})
<1>1. PICK g : g = (CHOOSE f : Adds(f, e, S)) /\ Adds(g, e, S)
  BY SomeAdds
<1>2. Bytes(e, S) = g[S]
  BY <1>1, BytesIs
<1>3. g[S] = IF S = {} THEN 0 ELSE e[Pick(S)].size + g[S \ {Pick(S)}]
  BY <1>1 DEF Adds
<1>4. PICK R : R = S \ {Pick(S)}
  OBVIOUS
<1>5. IsFiniteSet(R)
  BY <1>4, FS_Subset
<1>6. PICK h : h = (CHOOSE f : Adds(f, e, R)) /\ Adds(h, e, R)
  BY <1>5, SomeAdds
<1>7. Bytes(e, R) = h[R]
  BY <1>6, BytesIs
<1>8. g[R] = h[R]
  BY <1>1, <1>4, <1>5, <1>6, AddsAgree
<1> QED
  BY <1>2, <1>3, <1>4, <1>7, <1>8

\* Sizes are numbers.
Sized(e, S) == \A k \in S : e[k].size \in Nat

\* The sum is a number, and any key can be taken first.
LEMMA BytesTake ==
  ASSUME NEW e, NEW S, IsFiniteSet(S), Sized(e, S)
  PROVE  /\ Bytes(e, S) \in Nat
         /\ \A k \in S : Bytes(e, S) = e[k].size + Bytes(e, S \ {k})
<1> DEFINE Ok(T) == /\ Bytes(e, T) \in Nat
                    /\ \A k \in T : /\ Bytes(e, T) = e[k].size + Bytes(e, T \ {k})
                                    /\ Bytes(e, T \ {k}) \in Nat
<1>1. PICK P : P = {T \in SUBSET S : Ok(T)}
  OBVIOUS
<1>2. {} \in P
  <2>1. Bytes(e, {}) = 0
    BY BytesEquation, FS_EmptySet
  <2> QED
    BY <1>1, <2>1
<1>3. ASSUME NEW T \in SUBSET S, T # {}, \A x \in T : T \ {x} \in P PROVE T \in P
  <2>1. IsFiniteSet(T)
    BY FS_Subset
  <2>2. PICK c : c = Pick(T) /\ c \in T
    BY <1>3, PickIn
  <2>3. Bytes(e, T) = e[c].size + Bytes(e, T \ {c})
    BY <1>3, <2>1, <2>2, BytesEquation
  <2>4. /\ \A x \in T : Bytes(e, T \ {x}) \in Nat /\ e[x].size \in Nat
    BY <1>1, <1>3 DEF Sized
  <2>5. ASSUME NEW k \in T, k # c PROVE Bytes(e, T) = e[k].size + Bytes(e, T \ {k})
    <3>1. Ok(T \ {c}) /\ Ok(T \ {k})
      BY <1>1, <1>3, <2>2
    <3>2. Bytes(e, T \ {c}) = e[k].size + Bytes(e, (T \ {c}) \ {k})
      BY <2>5, <3>1
    <3>3. Bytes(e, T \ {k}) = e[c].size + Bytes(e, (T \ {k}) \ {c})
      BY <2>2, <2>5, <3>1
    <3>4. (T \ {c}) \ {k} = (T \ {k}) \ {c}
      OBVIOUS
    <3>5. PICK rest : rest = Bytes(e, (T \ {k}) \ {c}) /\ Bytes(e, (T \ {c}) \ {k}) = rest
      BY <3>4
    <3>6. rest \in Nat
      BY <2>2, <2>5, <3>1, <3>5
    <3> QED
      BY <2>3, <2>4, <3>2, <3>3, <3>5, <3>6
  <2>6. Bytes(e, T) \in Nat
    BY <2>2, <2>3, <2>4
  <2>7. \A k \in T : Bytes(e, T) = e[k].size + Bytes(e, T \ {k})
    BY <2>2, <2>3, <2>5
  <2> QED
    BY <1>1, <2>4, <2>6, <2>7
<1>4. S \in P
  BY <1>2, <1>3, SetInduction
<1> QED
  BY <1>1, <1>4

\* Only the sizes count.
LEMMA BytesSame ==
  ASSUME NEW e, NEW d, NEW S, IsFiniteSet(S), \A k \in S : e[k].size = d[k].size
  PROVE  Bytes(e, S) = Bytes(d, S)
<1>1. PICK P : P = {T \in SUBSET S : Bytes(e, T) = Bytes(d, T)}
  OBVIOUS
<1>2. {} \in P
  <2>1. Bytes(e, {}) = 0 /\ Bytes(d, {}) = 0
    BY BytesEquation, FS_EmptySet
  <2> QED
    BY <1>1, <2>1
<1>3. ASSUME NEW T \in SUBSET S, T # {}, \A x \in T : T \ {x} \in P PROVE T \in P
  <2>1. IsFiniteSet(T)
    BY FS_Subset
  <2>2. PICK c : c = Pick(T) /\ c \in T
    BY <1>3, PickIn
  <2>3. /\ Bytes(e, T) = e[c].size + Bytes(e, T \ {c})
        /\ Bytes(d, T) = d[c].size + Bytes(d, T \ {c})
    BY <1>3, <2>1, <2>2, BytesEquation
  <2>4. Bytes(e, T) = Bytes(d, T)
    BY <1>1, <1>3, <2>2, <2>3
  <2> QED
    BY <1>1, <2>4
<1>4. S \in P
  BY <1>2, <1>3, SetInduction
<1> QED
  BY <1>1, <1>4

\* A part and the rest make up the whole.
LEMMA BytesSplit ==
  ASSUME NEW e, NEW S, IsFiniteSet(S), Sized(e, S), NEW R \in SUBSET S
  PROVE  /\ Bytes(e, S) = Bytes(e, R) + Bytes(e, S \ R)
         /\ Bytes(e, R) \in Nat
         /\ Bytes(e, S \ R) \in Nat
<1>1. PICK P : P = {T \in SUBSET S : Bytes(e, S) = Bytes(e, T) + Bytes(e, S \ T)}
  OBVIOUS
<1>2. \A T \in SUBSET S : IsFiniteSet(T) /\ Sized(e, T)
  BY FS_Subset DEF Sized
<1>3. {} \in P
  <2>1. Bytes(e, {}) = 0 /\ S \ {} = S
    BY BytesEquation, FS_EmptySet
  <2>2. Bytes(e, S) \in Nat
    BY BytesTake
  <2>3. Bytes(e, S) = Bytes(e, {}) + Bytes(e, S \ {})
    BY <2>1, <2>2
  <2> QED
    BY <1>1, <2>3
<1>4. ASSUME NEW T \in SUBSET S, T # {}, \A x \in T : T \ {x} \in P PROVE T \in P
  <2>1. PICK k \in T : TRUE
    BY <1>4
  <2>2. PICK U : U = T \ {k} /\ U \in SUBSET S /\ U \in P
    BY <1>4
  <2>3. PICK V : V = S \ U /\ V \in SUBSET S
    BY <2>2
  <2>4. k \in V /\ V \ {k} = S \ T /\ S \ T \in SUBSET S
    BY <2>2, <2>3
  <2>5. Bytes(e, T) = e[k].size + Bytes(e, U) /\ Bytes(e, V) = e[k].size + Bytes(e, S \ T)
    BY <1>2, <2>2, <2>3, <2>4, BytesTake
  <2>6. Bytes(e, U) \in Nat /\ Bytes(e, S \ T) \in Nat /\ e[k].size \in Nat
    BY <1>2, <2>2, <2>4, BytesTake DEF Sized
  <2>7. Bytes(e, S) = Bytes(e, U) + Bytes(e, V)
    BY <1>1, <2>2, <2>3
  <2>8. Bytes(e, S) = Bytes(e, T) + Bytes(e, S \ T)
    BY <2>5, <2>6, <2>7
  <2> QED
    BY <1>1, <2>8
<1>5. R \in P
  <2>1. IsFiniteSet(R)
    BY <1>2
  <2>2. \A T \in SUBSET R : T # {} /\ (\A x \in T : T \ {x} \in P) => T \in P
    BY <1>4
  <2> QED
    BY <1>3, <2>1, <2>2, SetInduction
<1>6. S \ R \in SUBSET S
  OBVIOUS
<1> QED
  BY <1>1, <1>2, <1>5, <1>6, BytesTake

-----------------------------------------------------------------------------
\* The sequence o has every element of D once and no other.
Lists(o, D) ==
    /\ o \in Seq(D)
    /\ \A k \in D : \E i \in 1 .. Len(o) : o[i] = k
    /\ \A i, j \in 1 .. Len(o) : o[i] = o[j] => i = j

\* It is then as long as D is large.
LEMMA ListsCount ==
  ASSUME NEW D, NEW o, Lists(o, D)
  PROVE  ToSet(o) = D /\ IsFiniteSet(D) /\ Len(o) = Cardinality(D)
<1>1. Len(o) \in Nat /\ DOMAIN o = 1 .. Len(o) /\ o \in [1 .. Len(o) -> D]
  BY DEF Lists
<1>2. o \in Bijection(1 .. Len(o), D)
  BY <1>1 DEF Lists, Bijection, Injection, Surjection, IsInjective
<1>3. IsFiniteSet(1 .. Len(o)) /\ Cardinality(1 .. Len(o)) = Len(o)
  BY <1>1, FS_Interval
<1>4. ExistsBijection(1 .. Len(o), D)
  BY <1>2 DEF ExistsBijection
<1>5. IsFiniteSet(D) /\ Cardinality(D) = Cardinality(1 .. Len(o))
  BY <1>3, <1>4, FS_Bijection
<1>6. ToSet(o) = D
  BY <1>1 DEF ToSet, Lists
<1> QED
  BY <1>3, <1>5, <1>6

\* What RemoveFirst leaves.
LEMMA RemoveLists ==
  ASSUME NEW D, NEW o, Lists(o, D), NEW k \in D
  PROVE  Lists(RemoveFirst(o, k), D \ {k})
<1>1. PICK I : I = {i \in 1 .. Len(o) : o[i] = k}
  OBVIOUS
<1>2. I # {} /\ I \in SUBSET Nat /\ Len(o) \in Nat
  BY <1>1 DEF Lists
<1>3. PICK m : m = Min(I) /\ m \in I
  BY <1>2, Least
<1>4. m \in 1 .. Len(o) /\ o[m] = k
  BY <1>1, <1>3
<1>5. SelectInSeq(o, LAMBDA v : v = k) = m
  BY <1>1, <1>2, <1>3 DEF SelectInSeq
<1>6. PICK r : r = SubSeq(o, 1, m - 1) \o SubSeq(o, m + 1, Len(o))
  OBVIOUS
<1>7. RemoveFirst(o, k) = r
  BY <1>4, <1>5, <1>6 DEF RemoveFirst, RemoveAt
<1>8. o \in Seq(D)
  BY DEF Lists
<1>9. /\ r \in Seq(D) /\ Len(r) = Len(o) - 1
      /\ \A i \in 1 .. Len(o) - 1 : r[i] = IF i < m THEN o[i] ELSE o[i + 1]
  <2>1. PICK a : a = SubSeq(o, 1, m - 1)
    OBVIOUS
  <2>2. PICK b : b = SubSeq(o, m + 1, Len(o))
    OBVIOUS
  <2>3. a \in Seq(D) /\ Len(a) = m - 1 /\ \A i \in 1 .. m - 1 : a[i] = o[i]
    BY <1>2, <1>4, <1>8, <2>1
  <2>4. b \in Seq(D) /\ Len(b) = Len(o) - m /\ \A i \in 1 .. Len(o) - m : b[i] = o[i + m]
    BY <1>2, <1>4, <1>8, <2>2
  <2>5. r = a \o b
    BY <1>6, <2>1, <2>2
  <2>6. r \in Seq(D) /\ Len(r) = Len(o) - 1
    <3>1. a \in Seq(D) /\ b \in Seq(D)
      BY <2>3, <2>4
    <3>2. r \in Seq(D) /\ Len(r) = Len(a) + Len(b)
      BY ONLY <2>5, <3>1
    <3>3. Len(a) = m - 1 /\ Len(b) = Len(o) - m
      BY <2>3, <2>4
    <3> QED
      BY ONLY <1>2, <1>4, <3>2, <3>3
  <2>7. ASSUME NEW i \in 1 .. m - 1 PROVE r[i] = o[i]
    <3>1. i \in 1 .. Len(a) /\ i \in 1 .. Len(a) + Len(b)
      BY <1>2, <1>4, <2>3, <2>4
    <3>2. r[i] = a[i]
      BY <2>3, <2>4, <2>5, <3>1
    <3> QED
      BY <2>3, <3>2
  <2>8. \A i \in 1 .. Len(o) - 1 : i >= m => r[i] = b[i - (m - 1)]
    BY <1>2, <1>4, <2>3, <2>4, <2>5
  <2>9. ASSUME NEW i \in 1 .. Len(o) - 1, i >= m PROVE r[i] = o[i + 1]
    <3>1. i - (m - 1) \in 1 .. Len(o) - m /\ (i - (m - 1)) + m = i + 1
      BY <1>2, <1>4, <2>9
    <3> QED
      BY <2>4, <2>8, <2>9, <3>1
  <2> QED
    BY <1>2, <1>4, <2>3, <2>6, <2>7, <2>9
<1>10. \A i, j \in 1 .. Len(o) : o[i] = o[j] => i = j
  BY DEF Lists
<1>11. \A i \in 1 .. Len(r) : r[i] \in D \ {k}
  BY <1>2, <1>4, <1>8, <1>9, <1>10
<1>12. r \in Seq(D \ {k})
  BY <1>9, <1>11
<1>13. ASSUME NEW x \in D \ {k} PROVE \E i \in 1 .. Len(r) : r[i] = x
  <2>1. PICK i \in 1 .. Len(o) : o[i] = x
    BY DEF Lists
  <2>2. i # m
    BY <1>4, <2>1
  <2>3. CASE i < m
    BY <1>2, <1>4, <1>9, <2>1, <2>3
  <2>4. CASE i > m
    <3>1. i - 1 \in 1 .. Len(r) /\ ~(i - 1 < m) /\ r[i - 1] = o[(i - 1) + 1]
      BY <1>2, <1>4, <1>9, <2>1, <2>4
    <3> QED
      BY <2>1, <3>1
  <2> QED
    BY <1>2, <1>4, <2>1, <2>2, <2>3, <2>4
<1>14. \A i, j \in 1 .. Len(r) : r[i] = r[j] => i = j
  BY <1>2, <1>4, <1>9, <1>10
<1> QED
  BY <1>7, <1>12, <1>13, <1>14 DEF Lists

\* What Append adds.
LEMMA AppendLists ==
  ASSUME NEW D, NEW o, Lists(o, D), NEW k, k \notin D
  PROVE  Lists(Append(o, k), D \cup {k})
<1>1. PICK r : r = Append(o, k)
  OBVIOUS
<1>2. Len(o) \in Nat /\ o \in Seq(D) /\ \A i \in 1 .. Len(o) : o[i] \in D
  BY DEF Lists
<1>3. /\ r \in Seq(D \cup {k}) /\ Len(r) = Len(o) + 1 /\ r[Len(o) + 1] = k
      /\ \A i \in 1 .. Len(o) : r[i] = o[i]
  BY <1>1, <1>2
<1>4. ASSUME NEW x \in D \cup {k} PROVE \E i \in 1 .. Len(r) : r[i] = x
  <2>1. CASE x = k
    BY <1>2, <1>3, <2>1
  <2>2. CASE x \in D
    <3>1. PICK i \in 1 .. Len(o) : o[i] = x
      BY <2>2 DEF Lists
    <3> QED
      BY <1>2, <1>3, <3>1
  <2> QED
    BY <2>1, <2>2
<1>5. \A i, j \in 1 .. Len(r) : r[i] = r[j] => i = j
  <2>1. \A i, j \in 1 .. Len(o) : o[i] = o[j] => i = j
    BY DEF Lists
  <2> QED
    BY <1>2, <1>3, <2>1
<1> QED
  BY <1>1, <1>3, <1>4, <1>5 DEF Lists

\* What is left behind the first n.
LEMMA TailLists ==
  ASSUME NEW D, NEW o, Lists(o, D), NEW n \in 0 .. Len(o)
  PROVE  /\ Lists(SubSeq(o, n + 1, Len(o)), D \ ToSet(SubSeq(o, 1, n)))
         /\ ToSet(SubSeq(o, 1, n)) \subseteq D
<1>1. Len(o) \in Nat /\ n \in Nat /\ n <= Len(o) /\ o \in Seq(D) /\ \A i \in 1 .. Len(o) : o[i] \in D
  BY DEF Lists
<1>2. PICK r : r = SubSeq(o, n + 1, Len(o))
  OBVIOUS
<1>3. Len(r) = Len(o) - n /\ r \in Seq(D) /\ \A i \in 1 .. Len(o) - n : r[i] = o[i + n]
  BY <1>1, <1>2
<1>4. PICK T : T = {o[i] : i \in 1 .. n}
  OBVIOUS
<1>5. ToSet(SubSeq(o, 1, n)) = T
  <2>1. PICK q : q = SubSeq(o, 1, n)
    OBVIOUS
  <2>2. q \in Seq(D) /\ Len(q) = n /\ \A i \in 1 .. n : q[i] = o[i]
    BY <1>1, <2>1
  <2>3. DOMAIN q = 1 .. n
    BY <2>2
  <2> QED
    BY <1>4, <2>1, <2>2, <2>3 DEF ToSet
<1>6. T \subseteq D
  BY <1>1, <1>4
<1>7. \A i, j \in 1 .. Len(o) : o[i] = o[j] => i = j
  BY DEF Lists
<1>8. ASSUME NEW i \in 1 .. Len(r) PROVE r[i] \in D \ T
  <2>1. i + n \in 1 .. Len(o) /\ r[i] = o[i + n]
    BY <1>1, <1>3
  <2>2. \A j \in 1 .. n : o[j] # o[i + n]
    BY <1>1, <1>7, <2>1
  <2> QED
    BY <1>1, <1>4, <2>1, <2>2
<1>9. r \in Seq(D \ T)
  BY <1>3, <1>8
<1>10. ASSUME NEW x \in D \ T PROVE \E i \in 1 .. Len(r) : r[i] = x
  <2>1. PICK i \in 1 .. Len(o) : o[i] = x
    BY DEF Lists
  <2>2. i > n
    BY <1>1, <1>4, <2>1
  <2>3. i - n \in 1 .. Len(r) /\ r[i - n] = o[(i - n) + n]
    BY <1>1, <1>3, <2>1, <2>2
  <2> QED
    BY <1>1, <2>1, <2>3
<1>11. ASSUME NEW i \in 1 .. Len(r), NEW j \in 1 .. Len(r), r[i] = r[j] PROVE i = j
  <2>1. i + n \in 1 .. Len(o) /\ j + n \in 1 .. Len(o) /\ r[i] = o[i + n] /\ r[j] = o[j + n]
    BY <1>1, <1>3
  <2>2. i + n = j + n
    BY <1>7, <1>11, <2>1
  <2> QED
    BY <1>1, <1>3, <2>2
<1> QED
  BY <1>2, <1>5, <1>6, <1>9, <1>10, <1>11 DEF Lists
-----------------------------------------------------------------------------
\* The books of a cache: order lists the keys of the entries, used is the sum of their
\* sizes, within the budget.
Books(c) ==
    /\ Wellformed(c)
    /\ Lists(c.order, DOMAIN c.entries)
    /\ Sized(c.entries, DOMAIN c.entries)
    /\ c.used = Bytes(c.entries, DOMAIN c.entries)
    /\ c.used <= CacheMaxBytes

\* With such books the cache is balanced.
LEMMA BooksBalance ==
  ASSUME NEW c, Books(c)
  PROVE  Balanced(c)
  BY ListsCount DEF Books, Balanced, Bytes

\* A cache of which some keys are taken away.
LEMMA RestrictBytes ==
  ASSUME NEW e, NEW S, NEW R \in SUBSET S, IsFiniteSet(S), Sized(e, S)
  PROVE  /\ Sized(Restrict(e, R), R)
         /\ Bytes(Restrict(e, R), R) = Bytes(e, R)
<1>1. IsFiniteSet(R)
  BY FS_Subset
<1>2. PICK d : d = Restrict(e, R)
  OBVIOUS
<1>3. \A k \in R : d[k] = e[k]
  BY <1>2 DEF Restrict
<1>4. Sized(d, R)
  BY <1>3 DEF Sized
<1>5. Bytes(d, R) = Bytes(e, R)
  BY <1>1, <1>3, BytesSame
<1> QED
  BY <1>2, <1>4, <1>5

\* An empty cache.
LEMMA EmptyBooks == Books(EmptyCache)
<1>1. DOMAIN EmptyCache.entries = {} /\ EmptyCache.order = <<>> /\ EmptyCache.used = 0
  BY DEF EmptyCache
<1>2. Bytes(EmptyCache.entries, {}) = 0
  BY BytesEquation, FS_EmptySet
<1>3. Lists(<<>>, {})
  BY DEF Lists
<1>4. Wellformed(EmptyCache)
  BY DEF Wellformed, EmptyCache
<1> QED
  BY <1>1, <1>2, <1>3, <1>4, CacheMaxBytesIsNat DEF Books, Sized

\* removeLocked takes the key out of the order and its size off the count.
LEMMA RemoveBooks ==
  ASSUME NEW c, NEW key, Books(c)
  PROVE  Books(RemoveLocked(c, key)) /\ key \notin DOMAIN RemoveLocked(c, key).entries
<1>1. CASE ~Cached(c, key)
  BY <1>1 DEF RemoveLocked, Cached
<1>2. CASE Cached(c, key)
  <2> DEFINE D == DOMAIN c.entries
  <2>1. PICK d : d = RemoveLocked(c, key)
    OBVIOUS
  <2>2. /\ d.entries = Restrict(c.entries, D \ {key})
        /\ d.order = RemoveFirst(c.order, key)
        /\ d.used = c.used - c.entries[key].size
    BY <1>2, <2>1 DEF RemoveLocked
  <2>3. Wellformed(d)
    BY <2>1, RemoveKeeps DEF Books
  <2>4. DOMAIN d.entries = D \ {key}
    BY <2>2 DEF Restrict
  <2>5. key \in D
    BY <1>2 DEF Cached
  <2>6. IsFiniteSet(D) /\ Sized(c.entries, D) /\ c.used = Bytes(c.entries, D) /\ Lists(c.order, D)
        /\ c.used <= CacheMaxBytes
    BY ListsCount DEF Books
  <2>7. Lists(d.order, D \ {key})
    BY <2>2, <2>5, <2>6, RemoveLists
  <2>8. Sized(d.entries, D \ {key}) /\ Bytes(d.entries, D \ {key}) = Bytes(c.entries, D \ {key})
    BY <2>2, <2>6, RestrictBytes
  <2>9. c.used = c.entries[key].size + Bytes(c.entries, D \ {key}) /\ c.used \in Nat
    BY <2>5, <2>6, BytesTake
  <2>10. c.entries[key].size \in Nat /\ Bytes(c.entries, D \ {key}) \in Nat
    <3>1. IsFiniteSet(D \ {key}) /\ Sized(c.entries, D \ {key})
      BY <2>6, FS_Subset DEF Sized
    <3> QED
      BY <2>5, <2>6, <3>1, BytesTake DEF Sized
  <2>11. d.used = Bytes(d.entries, D \ {key}) /\ d.used <= CacheMaxBytes
    BY <2>2, <2>6, <2>8, <2>9, <2>10, CacheMaxBytesIsNat
  <2> QED
    BY <2>1, <2>3, <2>4, <2>7, <2>8, <2>11 DEF Books
<1> QED
  BY <1>1, <1>2

\* touchLocked moves a key to the end.
LEMMA TouchBooks ==
  ASSUME NEW c, NEW key, Books(c)
  PROVE  Books(TouchLocked(c, key))
<1> DEFINE D == DOMAIN c.entries
<1>1. CASE ~Contains(c.order, key)
  BY <1>1 DEF TouchLocked
<1>2. CASE Contains(c.order, key)
  <2>1. Lists(c.order, D)
    BY DEF Books
  <2>2. key \in D
    BY <1>2, <2>1 DEF Contains, Lists
  <2>3. Lists(RemoveFirst(c.order, key), D \ {key})
    BY <2>1, <2>2, RemoveLists
  <2>4. Lists(Append(RemoveFirst(c.order, key), key), (D \ {key}) \cup {key})
    BY <2>3, AppendLists
  <2>5. (D \ {key}) \cup {key} = D
    BY <2>2
  <2>6. PICK d : d = TouchLocked(c, key)
    OBVIOUS
  <2>7. d.order = Append(RemoveFirst(c.order, key), key) /\ d.used = c.used /\ d.entries = c.entries
    BY <1>2, <2>6 DEF TouchLocked, Books, Wellformed
  <2>8. Wellformed(d)
    BY <2>6, TouchKeeps DEF Books
  <2> QED
    BY <2>4, <2>5, <2>6, <2>7, <2>8 DEF Books
<1> QED
  BY <1>1, <1>2

\* get.
LEMMA GetBooks ==
  ASSUME NEW c, NEW key, NEW t, Books(c)
  PROVE  Books(AfterGet(c, key, t))
  BY RemoveBooks, TouchBooks DEF AfterGet

\* The eviction loop: what is left fits beside size bytes, if size bytes fit at all.
LEMMA EvictBooks ==
  ASSUME NEW c, NEW size \in Nat, size <= CacheMaxBytes, Books(c)
  PROVE  /\ Books(EvictOldest(c, size))
         /\ EvictOldest(c, size).used + size <= CacheMaxBytes
         /\ DOMAIN EvictOldest(c, size).entries \subseteq DOMAIN c.entries
<1> DEFINE D == DOMAIN c.entries
           Oldest(n) == ToSet(SubSeq(c.order, 1, n))
           Fits(n) == c.used - Bytes(c.entries, Oldest(n)) + size <= CacheMaxBytes
           all == Len(c.order)
<1>1. /\ IsFiniteSet(D) /\ Sized(c.entries, D) /\ c.used = Bytes(c.entries, D)
      /\ Lists(c.order, D) /\ c.used <= CacheMaxBytes /\ all \in Nat /\ Wellformed(c)
  <2>1. /\ Lists(c.order, D) /\ Sized(c.entries, D) /\ c.used = Bytes(c.entries, D)
        /\ c.used <= CacheMaxBytes /\ Wellformed(c)
    BY DEF Books
  <2>2. IsFiniteSet(D)
    BY <2>1, ListsCount
  <2>3. all \in Nat
    BY <2>1 DEF Lists
  <2> QED
    BY <2>1, <2>2, <2>3
<1>2. PICK T : T = {i \in 0 .. all : i = all \/ Fits(i)}
  OBVIOUS
<1>3. T \in SUBSET Nat /\ T # {}
  BY <1>1, <1>2
<1>4. PICK n : n = Min(T) /\ n \in T
  BY <1>3, Least
<1>5. n \in 0 .. all /\ (n = all \/ Fits(n))
  BY <1>2, <1>4
<1>6. PICK S : S = Oldest(n)
  OBVIOUS
<1>7. PICK e, o, u : /\ e = Restrict(c.entries, D \ S)
                     /\ o = SubSeq(c.order, n + 1, all)
                     /\ u = c.used - Bytes(c.entries, S)
  OBVIOUS
<1>8. PICK d : d = EvictOldest(c, size)
  OBVIOUS
<1>9. /\ d.entries = Restrict(c.entries, D \ S) /\ d.order = SubSeq(c.order, n + 1, all)
      /\ d.used = c.used - Bytes(c.entries, S)
  <2>1. EvictOldest(c, size) = [entries |-> Restrict(c.entries, D \ S),
                                order |-> SubSeq(c.order, n + 1, all),
                                used |-> c.used - Bytes(c.entries, S)]
    BY <1>2, <1>4, <1>6 DEF EvictOldest, Bytes
  <2>2. d = [entries |-> e, order |-> o, used |-> u]
    BY <1>7, <1>8, <2>1
  <2>3. d.entries = e /\ d.order = o /\ d.used = u
    BY <2>2
  <2> QED
    BY <1>7, <2>3
<1>10. DOMAIN d.entries = D \ S
  BY <1>9 DEF Restrict
<1>11. Lists(d.order, D \ S) /\ S \subseteq D
  <2>1. PICK o1, D1 : o1 = c.order /\ D1 = D
    OBVIOUS
  <2>2. Lists(o1, D1) /\ n \in 0 .. Len(o1)
    BY <1>1, <1>5, <2>1
  <2>3. /\ d.order = SubSeq(o1, n + 1, Len(o1))
        /\ S = ToSet(SubSeq(o1, 1, n))
    BY <1>6, <1>9, <2>1
  <2>5. Lists(d.order, D1 \ S) /\ S \subseteq D1
    <3>1. /\ Lists(SubSeq(o1, n + 1, Len(o1)), D1 \ ToSet(SubSeq(o1, 1, n)))
          /\ ToSet(SubSeq(o1, 1, n)) \subseteq D1
      BY <2>2, TailLists, Zenon
    <3> QED
      BY <2>3, <3>1
  <2> QED
    BY <2>1, <2>5
<1>12. /\ Bytes(c.entries, D) = Bytes(c.entries, S) + Bytes(c.entries, D \ S)
       /\ Bytes(c.entries, S) \in Nat /\ Bytes(c.entries, D \ S) \in Nat
  BY <1>1, <1>11, BytesSplit
<1>13. Sized(d.entries, D \ S) /\ Bytes(d.entries, D \ S) = Bytes(c.entries, D \ S)
  BY <1>1, <1>9, RestrictBytes
<1>14. d.used = Bytes(d.entries, D \ S) /\ d.used <= CacheMaxBytes
  BY <1>1, <1>9, <1>12, <1>13, CacheMaxBytesIsNat
<1>15. Wellformed(d)
  BY <1>1, <1>8, EvictKeeps
<1>16. d.used + size <= CacheMaxBytes
  <2>1. CASE Fits(n)
    BY <1>6, <1>9, <2>1
  <2>2. CASE n = all
    <3>1. S = D
      <4>1. SubSeq(c.order, 1, all) = c.order
        BY <1>1 DEF Lists
      <4> QED
        BY <1>1, <1>6, <2>2, <4>1, ListsCount
    <3>2. D \ S = {} /\ Bytes(c.entries, {}) = 0
      BY <3>1, BytesEquation, FS_EmptySet
    <3> QED
      BY <1>13, <1>14, <3>2
  <2> QED
    BY <1>5, <2>1, <2>2
<1> QED
  BY <1>8, <1>10, <1>14, <1>11, <1>13, <1>15, <1>16 DEF Books

\* An entry is added for a key that has none, when it fits.
LEMMA InsertBooks ==
  ASSUME NEW c, Books(c), NEW key, key \notin DOMAIN c.entries,
         NEW entry, entry.size \in Nat, c.used + entry.size <= CacheMaxBytes
  PROVE  Books(Insert(c, key, entry))
<1> DEFINE D == DOMAIN c.entries
           E == D \cup {key}
<1>1. PICK d : d = Insert(c, key, entry)
  OBVIOUS
<1>2. /\ d.entries = [k \in E |-> IF k = key THEN entry ELSE c.entries[k]]
      /\ d.order = Append(c.order, key)
      /\ d.used = c.used + entry.size
      /\ d = [entries |-> d.entries, order |-> d.order, used |-> d.used]
  BY <1>1 DEF Insert
<1>3. DOMAIN d.entries = E /\ d.entries[key] = entry /\ \A k \in D : d.entries[k] = c.entries[k]
  BY <1>2
<1>4. /\ IsFiniteSet(D) /\ Sized(c.entries, D) /\ c.used = Bytes(c.entries, D) /\ Lists(c.order, D)
  BY ListsCount DEF Books
<1>5. Lists(d.order, E)
  BY <1>2, <1>4, AppendLists
<1>6. IsFiniteSet(E) /\ Sized(d.entries, E)
  BY <1>3, <1>4, FS_AddElement DEF Sized
<1>7. Bytes(d.entries, E) = entry.size + Bytes(d.entries, E \ {key})
  BY <1>3, <1>6, BytesTake
<1>8. E \ {key} = D /\ Bytes(d.entries, D) = Bytes(c.entries, D)
  BY <1>3, <1>4, BytesSame
<1>9. Bytes(c.entries, D) \in Nat
  BY <1>4, BytesTake
<1>10. d.used = Bytes(d.entries, E)
  <2>1. PICK b : b = Bytes(c.entries, D)
    OBVIOUS
  <2>2. PICK n : n = entry.size
    OBVIOUS
  <2>3. d.used = b + n /\ Bytes(d.entries, E) = n + b
    BY <1>2, <1>4, <1>7, <1>8, <2>1, <2>2
  <2> QED
    BY <1>9, <2>1, <2>2, <2>3
<1>11. Wellformed(d)
  BY <1>2 DEF Wellformed
<1> QED
  BY <1>1, <1>2, <1>3, <1>5, <1>6, <1>10, <1>11 DEF Books

\* put.
LEMMA PutBooks ==
  ASSUME NEW c, Books(c), NEW key, NEW entry, entry.size \in Nat, NEW ttl
  PROVE  Books(Put(c, key, entry, ttl))
<1>1. PICK dropped : dropped = RemoveLocked(c, key)
  OBVIOUS
<1>2. Books(dropped) /\ key \notin DOMAIN dropped.entries
  BY <1>1, RemoveBooks
<1>3. CASE entry.size <= CacheMaxBytes
  <2>1. PICK fits : fits = EvictOldest(dropped, entry.size)
    OBVIOUS
  <2>2. /\ Books(fits) /\ fits.used + entry.size <= CacheMaxBytes
        /\ DOMAIN fits.entries \subseteq DOMAIN dropped.entries
    BY <1>2, <1>3, <2>1, EvictBooks
  <2>3. Books(Insert(fits, key, entry))
    BY <1>2, <2>2, InsertBooks
  <2> QED
    BY <1>1, <1>2, <1>3, <2>1, <2>3 DEF Put
<1>4. CASE ~(entry.size <= CacheMaxBytes)
  BY <1>1, <1>2, <1>4, CacheMaxBytesIsNat DEF Put
<1> QED
  BY <1>3, <1>4

\* refresh with an entry as large as the one it renews.
LEMMA RefreshBooks ==
  ASSUME NEW c, Books(c), NEW key, key \in DOMAIN c.entries,
         NEW renewed, renewed.size = c.entries[key].size
  PROVE  Books(Refresh(c, key, renewed))
<1> DEFINE D == DOMAIN c.entries
<1>1. PICK c1 : c1 = [c EXCEPT !.entries[key] = renewed]
  OBVIOUS
<1>2. /\ c1 = [entries |-> [c.entries EXCEPT ![key] = renewed], order |-> c.order, used |-> c.used]
  BY <1>1 DEF Books, Wellformed
<1>3. /\ c1.entries = [c.entries EXCEPT ![key] = renewed] /\ c1.order = c.order /\ c1.used = c.used
  BY <1>2
<1>4. Wellformed(c1) /\ DOMAIN c1.entries = D /\ \A k \in D : c1.entries[k].size = c.entries[k].size
  BY <1>2, <1>3 DEF Books, Wellformed
<1>5. IsFiniteSet(D) /\ Sized(c1.entries, D)
  BY <1>4, ListsCount DEF Books, Sized
<1>6. Bytes(c1.entries, D) = Bytes(c.entries, D)
  BY <1>4, <1>5, BytesSame
<1>7. Books(c1)
  BY <1>3, <1>4, <1>5, <1>6 DEF Books
<1> QED
  BY <1>1, <1>7, TouchBooks DEF Refresh

\* The steps that write the cache are CacheGet and FinishFetch.
LEMMA BooksStep ==
  ASSUME TypeInv, Books(cache), [Next]_vars
  PROVE  Books(cache')
<1>1. CASE UNCHANGED cache
  BY <1>1
<1>2. ASSUME NEW p \in Callers, CacheGet(p)
      PROVE  Books(cache')
  BY <1>2, GetBooks DEF CacheGet
<1>3. ASSUME NEW p \in Callers, FinishFetch(p)
      PROVE  Books(cache')
  <2> DEFINE key == rq[p].key
             resp == flights[key].resp
             ttl == rq[p].ttl
             Entry(from, size) == [src |-> from, asOf |-> resp.asOf, size |-> size,
                                   ttl |-> ttl, expires |-> now + ttl]
             entry == Entry(rq[p].url, resp.size)
             renewed == Entry(cache.entries[key].src, cache.entries[key].size)
  <2>1. resp \in Responses
    BY <1>3, FinishFetchCases, Zenon
  <2>2. \/ UNCHANGED cache
        \/ cache' = Put(cache, key, entry, ttl)
        \/ Refreshable(cache, key) /\ cache' = Refresh(cache, key, renewed)
    BY <1>3, Zenon DEF FinishFetch
  <2>3. entry.size \in Nat
    BY <2>1 DEF Responses
  <2>4. renewed.size = cache.entries[key].size
    OBVIOUS
  <2> HIDE DEF entry, renewed
  <2>5. CASE cache' = Put(cache, key, entry, ttl)
    BY <2>3, <2>5, PutBooks
  <2>6. CASE Refreshable(cache, key) /\ cache' = Refresh(cache, key, renewed)
    BY <2>4, <2>6, RefreshBooks DEF Refreshable, Cached
  <2> QED
    BY <2>2, <2>5, <2>6
<1>4. CASE ~(UNCHANGED cache) /\ Next
  <2>1. \E p \in Callers : CacheGet(p) \/ FinishFetch(p)
    <3>1. ASSUME NEW p \in Callers,
                 \/ Fetch(p) \/ Allow(p) \/ Do(p) \/ Respond(p)
                 \/ Read(p) \/ Advance(p) \/ ReadEnds(p) \/ ReadBreaks(p)
          PROVE  UNCHANGED cache
      BY <3>1 DEF Fetch, Allow, Do, Respond, Read, Advance, ReadEnds, ReadBreaks
    <3>2. SetsRow \/ Tick => UNCHANGED cache
      BY DEF SetsRow, SetRow, Tick
    <3> QED
      BY <1>4, <3>1, <3>2, NextCases
  <2> QED
    BY <1>2, <1>3, <2>1
<1> QED
  BY <1>1, <1>4 DEF vars

\* metadata_cache.go's put, get, refresh and removal keep the running count of bytes equal to
\* the sum of what is held, the order a listing of the entries, and both within the
\* budget: whatever the budget, the sizes, and the order of replacements, expiries,
\* refreshes and evictions.
THEOREM CacheBooksBalanceHolds == Spec => []CacheBooksBalance
<1>1. Init => Books(cache)
  BY EmptyBooks DEF Init
<1>2. TypeInv /\ Books(cache) /\ [Next]_vars => Books(cache')
  BY BooksStep
<1>3. TypeInv /\ Books(cache) /\ [Next]_vars => Books(cache)'
  BY <1>2
<1>4. Books(cache) => CacheBooksBalance
  BY BooksBalance DEF CacheBooksBalance
<1> QED
  BY <1>1, <1>3, <1>4, SharingHolds, PTL DEF Spec
=============================================================================
