------------------------------ MODULE LRUCache ------------------------------
(***************************************************************************)
(* util/cacheutil/lrucache.go: the reference-counted LRU cache that keeps  *)
(* the buffers and the open files of the blob cache.  Every method runs    *)
(* under c.mu.  The list inside is groupcache's lru.Cache: it moves what   *)
(* is used to the front and drops the last entry when it has too many.     *)
(***************************************************************************)
EXTENDS RefCounter, FiniteSets, Sequences, Functions

CONSTANTS LRUKeys, LRUValues,
          MaxEntries   \* maxEntries of NewLRUCache; 0 is no limit

ASSUME LRUAssumption ==
    /\ Nothing \notin LRUValues \cup LRUKeys
    /\ MaxEntries \in Nat

VARIABLES
    order,     \* the cached values, the most recently used one first
    keyOf,     \* the key a value was added for, Nothing before
    count,     \* the reference counter of each value
    ref,       \* the value a client's done function is for, or Nothing
    released   \* whether the once of that done function has run

lruVars == <<order, keyOf, count, ref, released>>

LRUInit ==
    /\ order = <<>>
    /\ keyOf = [v \in LRUValues |-> Nothing]
    /\ count = [v \in LRUValues |-> NewCounter]
    /\ ref = [c \in Clients |-> Nothing]
    /\ released = [c \in Clients |-> TRUE]

\* Where the list has an entry of key k, and the list without its i-th entry.
At(k) == {i \in 1 .. Len(order) : keyOf[order[i]] = k}
Without(i) == SubSeq(order, 1, i - 1) \o SubSeq(order, i + 1, Len(order))

Refer(c, v) ==
    /\ ref' = [ref EXCEPT ![c] = v]
    /\ released' = [released EXCEPT ![c] = FALSE]

\* What Get and Add do for a cached value.
Hit(c, k) ==
    \E i \in At(k) :
        /\ order' = <<order[i]>> \o Without(i)
        /\ count' = [count EXCEPT ![order[i]] = inc(@)]
        /\ Refer(c, order[i])
        /\ UNCHANGED keyOf

LRUGet(c, k) == released[c] /\ Hit(c, k)

\* Add of a key that is not cached; the last entry leaves when the new one is
\* one too many.
Miss(c, k) ==
    \E v \in LRUValues :
        /\ At(k) = {} /\ keyOf[v] = Nothing
        /\ keyOf' = [keyOf EXCEPT ![v] = k]
        /\ LET added == [count EXCEPT ![v] = inc(initialize(@))] IN
           IF MaxEntries # 0 /\ Len(order) = MaxEntries
           THEN /\ order' = <<v>> \o Without(Len(order))
                /\ count' = [added EXCEPT ![order[Len(order)]] = finalize(@)]
           ELSE order' = <<v>> \o order /\ count' = added
        /\ Refer(c, v)

LRUAdd(c, k) == released[c] /\ (Hit(c, k) \/ Miss(c, k))

\* The method Remove.
RemoveKey(k) ==
    \E i \in At(k) :
        /\ order' = Without(i)
        /\ count' = [count EXCEPT ![order[i]] = finalize(@)]
        /\ UNCHANGED <<keyOf, ref, released>>

\* The done function of a client: decrease once.
LRUDone(c) ==
    /\ ref[c] # Nothing
    /\ released' = [released EXCEPT ![c] = TRUE]
    /\ count' = IF released[c] THEN count ELSE [count EXCEPT ![ref[c]] = dec(@)]
    /\ UNCHANGED <<order, keyOf, ref>>

LRUNext ==
    \/ \E c \in Clients, k \in LRUKeys : LRUGet(c, k) \/ LRUAdd(c, k)
    \/ \E c \in Clients : LRUDone(c)
    \/ \E k \in LRUKeys : RemoveKey(k)

LRUSpec == LRUInit /\ [][LRUNext]_lruVars

-----------------------------------------------------------------------------
Referrers(v) == {c \in Clients : ref[c] = v /\ ~released[c]}

\* "strictly tracks the reference counts of contents and calls OnEvicted when
\* nobody refers to the evicted contents" (lrucache.go:25-27): exactly once,
\* and not before the last holder of an overflowed entry is done.
OverflowEvictsOnce ==
    \A v \in LRUValues :
        count[v].evictions =
            IF keyOf[v] # Nothing /\ v \notin Range(order) /\ Referrers(v) = {} THEN 1 ELSE 0

\* The resources that are open (files of the fd cache, pooled buffers) are at
\* most the limit of the cache and one for each client that holds one.
OpenResourcesBounded ==
    MaxEntries # 0 =>
        Cardinality({v \in LRUValues : keyOf[v] # Nothing /\ count[v].evictions = 0})
            <= MaxEntries + Cardinality({c \in Clients : ~released[c]})

LRUAbstract == INSTANCE RefCounted WITH
    Values <- LRUValues,
    cached <- Range(order),
    held <- [v \in LRUValues |-> Referrers(v)],
    evicted <- {v \in LRUValues : count[v].evictions > 0}

\* The cache implements the promise of RefCounted.
LRUImplementsRefCounted == LRUAbstract!Spec
=============================================================================
