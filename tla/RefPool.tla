------------------------------ MODULE RefPool ------------------------------
(***************************************************************************)
(* store/refs.go: the pool of the manifests and configs of images, kept in *)
(* files.  An LRU cache (see LRUCache) of reference counters owns the      *)
(* files of each image: when a counter is neither cached nor held any more *)
(* its files are removed.  loadRef holds a counter for a while after it    *)
(* has written the files, and use holds one until the last release.        *)
(***************************************************************************)
EXTENDS Naturals, FiniteSets, Sequences, FiniteSetsExt

CONSTANTS Refs,
          refCacheEntry,  \* capacity of the cache
          MaxSleeping,    \* how many done functions of loadRef wait at once
          None

RefPoolAssumption == refCacheEntry \in Nat \ {0} /\ MaxSleeping \in Nat

\* The counters that can be alive for an image at once: in the cache, held by
\* its releaser, and held by done functions of loadRef.
Counters == Refs \X (1 .. MaxSleeping + 2)

VARIABLES
    lru,        \* the cached counters, the most recently used one first
    live,       \* the counters that are cached or held
    sleeping,   \* number of done functions of loadRef that hold a counter
    releaser,   \* refPool.refcounter: how often an image is used, and the
                \* counter this holds
    files       \* images whose manifest and config are on disk

poolVars == <<lru, live, sleeping, releaser, files>>

Unused == [count |-> 0, counter |-> None]

PoolInit ==
    /\ lru = <<>>
    /\ live = {}
    /\ sleeping = [k \in Counters |-> 0]
    /\ releaser = [r \in Refs |-> Unused]
    /\ files = {}

\* OnEvicted of the counters that are neither cached nor held removes their
\* files.
Settle(l, alive, s, rel, f) ==
    LET dead == {k \in alive : /\ k \notin Range(l) /\ s[k] = 0
                               /\ rel[k[1]].counter # k}
    IN /\ lru' = l /\ sleeping' = s /\ releaser' = rel
       /\ live' = alive \ dead
       /\ files' = f \ {k[1] : k \in dead}

\* The counter that cache.Add gives for an image: the cached one or a new one.
CounterFor(r) ==
    IF \E k \in Range(lru) : k[1] = r
    THEN CHOOSE k \in Range(lru) : k[1] = r
    ELSE <<r, Min({n \in 1 .. MaxSleeping + 2 : <<r, n>> \notin live})>>

\* The cache after Add: k is in front, and the last one leaves a full cache.
Added(k) ==
    LET others == SelectSeq(lru, LAMBDA j : j # k) IN
    <<k>> \o SubSeq(others, 1, IF Len(others) < refCacheEntry THEN Len(others)
                               ELSE refCacheEntry - 1)

\* The end of loadRef: the counter is held until the sleep is over.
AddRef(r) ==
    LET k == CounterFor(r) IN
    Settle(Added(k), live \cup {k}, [sleeping EXCEPT ![k] = @ + 1], releaser, files)

\* The sleep of a loadRef is over: done().
Wake(k) ==
    /\ sleeping[k] > 0
    /\ Settle(lru, live, [sleeping EXCEPT ![k] = @ - 1], releaser, files)

PoolUse(r) ==
    LET k == CounterFor(r) IN
    IF releaser[r].count = 0
    THEN Settle(Added(k), live \cup {k}, sleeping,
                [releaser EXCEPT ![r] = [count |-> 1, counter |-> k]], files)
    ELSE Settle(lru, live, sleeping,
                [releaser EXCEPT ![r].count = @ + 1], files)

PoolRelease(r) ==
    CASE releaser[r].count = 0 -> UNCHANGED poolVars   \* not tracked
      [] releaser[r].count = 1 ->
           Settle(lru, live, sleeping, [releaser EXCEPT ![r] = Unused], files)
      [] OTHER ->
           Settle(lru, live, sleeping,
                  [releaser EXCEPT ![r].count = @ - 1], files)

\* writeManifestAndConfig, after the fetch from the registry.
WriteRef(r) ==
    /\ files' = files \cup {r}
    /\ UNCHANGED <<lru, live, sleeping, releaser>>
=============================================================================
