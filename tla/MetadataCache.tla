--------------------------- MODULE MetadataCache ---------------------------
(***************************************************************************)
(* internal/upstream/metadata_cache.go: an LRU of metadata bodies bounded  *)
(* by their total size, with an expiry per entry.  A cache is a record:    *)
(* the entries by key, the keys from the least to the most recently used,  *)
(* and the running count of bytes.  Every method holds the cache's mutex,  *)
(* so each is one operator on the record.                                  *)
(***************************************************************************)
EXTENDS Integers, Sequences, SequencesExt, FiniteSetsExt, Functions

CONSTANT CacheMaxBytes      \* maxBytes; 0 disables the cache

ASSUME CacheMaxBytesIsNat == CacheMaxBytes \in Nat

EmptyCache == [entries |-> <<>>, order |-> <<>>, used |-> 0]

Cached(c, key) == key \in DOMAIN c.entries

RemoveLocked(c, key) ==
    IF ~Cached(c, key) THEN c
    ELSE [entries |-> Restrict(c.entries, DOMAIN c.entries \ {key}),
          order |-> RemoveFirst(c.order, key),
          used |-> c.used - c.entries[key].size]

TouchLocked(c, key) ==
    IF ~Contains(c.order, key) THEN c
    ELSE [c EXCEPT !.order = Append(RemoveFirst(c.order, key), key)]

\* get serves a live entry and drops an expired one (time.Now().After(expires)).
Live(c, key, now) == CacheMaxBytes > 0 /\ Cached(c, key) /\ now <= c.entries[key].expires

AfterGet(c, key, now) ==
    IF Live(c, key, now) THEN TouchLocked(c, key) ELSE RemoveLocked(c, key)

\* The loop of put: the least recently used entries go, and no more of them than
\* it takes for size bytes to fit.
EvictOldest(c, size) ==
    LET Oldest(n) == ToSet(SubSeq(c.order, 1, n))
        Bytes(keys) == MapThenSumSet(LAMBDA k : c.entries[k].size, keys)
        Fits(n) == c.used - Bytes(Oldest(n)) + size <= CacheMaxBytes
        all == Len(c.order)
        n == Min({i \in 0 .. all : i = all \/ Fits(i)})
    IN  [entries |-> Restrict(c.entries, DOMAIN c.entries \ Oldest(n)),
         order |-> SubSeq(c.order, n + 1, all),
         used |-> c.used - Bytes(Oldest(n))]

Insert(c, key, entry) ==
    [entries |-> [k \in DOMAIN c.entries \cup {key} |->
                     IF k = key THEN entry ELSE c.entries[k]],
     order |-> Append(c.order, key),
     used |-> c.used + entry.size]

\* put without the removal of what the key held before.
PutOver(c, key, entry, ttl) ==
    IF CacheMaxBytes = 0 \/ ttl <= 0 \/ entry.size > CacheMaxBytes THEN c
    ELSE Insert(EvictOldest(c, entry.size), key, entry)

Put(c, key, entry, ttl) ==
    IF CacheMaxBytes = 0 \/ ttl <= 0 THEN c
    ELSE LET dropped == RemoveLocked(c, key)
         IN  IF entry.size > CacheMaxBytes THEN dropped
             ELSE Insert(EvictOldest(dropped, entry.size), key, entry)

\* refresh: a 304 renews the entry, whose bytes stay; it reports whether there
\* was one.
Refreshable(c, key) == CacheMaxBytes > 0 /\ Cached(c, key)
Refresh(c, key, renewed) == TouchLocked([c EXCEPT !.entries[key] = renewed], key)

\* The books balance: order lists the entries' keys once each, used is the sum
\* of their sizes, and the sum is within the budget.
Balanced(c) ==
    /\ ToSet(c.order) = DOMAIN c.entries
    /\ Len(c.order) = Cardinality(DOMAIN c.entries)
    /\ c.used = MapThenSumSet(LAMBDA k : c.entries[k].size, DOMAIN c.entries)
    /\ c.used <= CacheMaxBytes
=============================================================================
