------------------------------ MODULE TTLCache ------------------------------
(***************************************************************************)
(* util/cacheutil/ttlcache.go: the reference-counted cache of layers and   *)
(* blobs.  Every method runs under c.mu, so a method is one step; a timer  *)
(* takes two, because its callback first has to get c.mu: Stop comes too   *)
(* late for a callback that already waits for it.                          *)
(*                                                                         *)
(* A value stands for the refCounterWithTimer that Add makes for it.  A    *)
(* client holds one reference at a time, and may call its done function    *)
(* again after it has given the reference back.                            *)
(***************************************************************************)
EXTENDS RefCounter, FiniteSets

CONSTANTS Keys, Values

ASSUME TTLAssumption == Nothing \notin Values \cup Keys

VARIABLES
    m,         \* c.m: the value of a key, or Nothing
    key,       \* the key a value was added for, Nothing before
    rc,        \* the reference counter of each value
    timer,     \* "none", "armed", "stopped", "fired" (waits for c.mu), "ran"
    handle,    \* the value a client's done function is for, or Nothing
    returned   \* whether the once of that done function has run

ttlVars == <<m, key, rc, timer, handle, returned>>

TTLInit ==
    /\ m = [k \in Keys |-> Nothing]
    /\ key = [v \in Values |-> Nothing]
    /\ rc = [v \in Values |-> NewCounter]
    /\ timer = [v \in Values |-> "none"]
    /\ handle = [c \in Clients |-> Nothing]
    /\ returned = [c \in Clients |-> TRUE]

Take(c, v) ==
    /\ handle' = [handle EXCEPT ![c] = v]
    /\ returned' = [returned EXCEPT ![c] = FALSE]

Stopped(v) == IF timer[v] = "armed" THEN "stopped" ELSE timer[v]

\* Get on a hit (a miss changes nothing).
Get(c, k) ==
    LET v == m[k] IN
    /\ returned[c]
    /\ v # Nothing
    /\ rc' = [rc EXCEPT ![v] = inc(@)]
    /\ Take(c, v)
    /\ UNCHANGED <<m, key, timer>>

\* Add returns the cached value, or caches a new one with a reference of the
\* cache, a reference of the client and a timer.
Add(c, k) ==
    /\ returned[c]
    /\ \/ /\ m[k] # Nothing
          /\ rc' = [rc EXCEPT ![m[k]] = inc(@)]
          /\ Take(c, m[k])
          /\ UNCHANGED <<m, key, timer>>
       \/ /\ m[k] = Nothing
          /\ \E v \in Values :
               /\ key[v] = Nothing
               /\ key' = [key EXCEPT ![v] = k]
               /\ rc' = [rc EXCEPT ![v] = inc(initialize(NewCounter))]
               /\ timer' = [timer EXCEPT ![v] = "armed"]
               /\ m' = [m EXCEPT ![k] = v]
               /\ Take(c, v)

\* Mutant: the entry stays in the map until its value is finalized elsewhere.
evictLockedKeep(k, fired) ==
    LET v == m[k] IN
    IF v = Nothing
    THEN timer' = fired /\ UNCHANGED <<m, rc>>
    ELSE /\ m' = m
         /\ timer' = [fired EXCEPT ![v] = IF @ = "armed" THEN "stopped" ELSE @]
         /\ rc' = [rc EXCEPT ![v] = finalize(@)]

\* evictLocked: drop the entry, stop its timer, give up the cache's reference.
\* fired is the state of the timers when it is called.
evictLocked(k, fired) ==
    LET v == m[k] IN
    IF v = Nothing
    THEN timer' = fired /\ UNCHANGED <<m, rc>>
    ELSE /\ m' = [m EXCEPT ![k] = Nothing]
         /\ timer' = [fired EXCEPT ![v] = IF @ = "armed" THEN "stopped" ELSE @]
         /\ rc' = [rc EXCEPT ![v] = finalize(@)]

Remove(k) ==
    /\ evictLocked(k, timer)
    /\ UNCHANGED <<key, handle, returned>>

\* The ttl of v is over: the callback starts and waits for c.mu.
TimerFires(v) ==
    /\ timer[v] = "armed"
    /\ timer' = [timer EXCEPT ![v] = "fired"]
    /\ UNCHANGED <<m, key, rc, handle, returned>>

\* The callback has c.mu and evicts whatever its KEY maps to.
TimerCallback(v) ==
    /\ timer[v] = "fired"
    /\ evictLocked(key[v], [timer EXCEPT ![v] = "ran"])
    /\ UNCHANGED <<key, handle, returned>>

\* Mutant: done(true) drops whatever its key maps to now.
DoneByKey(c, evict) ==
    LET v == handle[c]
        r == IF returned[c] THEN rc[v] ELSE dec(rc[v])
    IN /\ v # Nothing
       /\ returned' = [returned EXCEPT ![c] = TRUE]
       /\ rc' = [rc EXCEPT ![v] = IF evict THEN finalize(r) ELSE r]
       /\ timer' = IF evict THEN [timer EXCEPT ![v] = Stopped(v)] ELSE timer
       /\ m' = IF evict THEN [m EXCEPT ![key[v]] = Nothing] ELSE m
       /\ UNCHANGED <<key, handle>>

\* done(evict): decrease once; with evict, stop the timer, give up the cache's
\* reference too and drop the entry if the key still maps to this counter.
Done(c, evict) ==
    LET v == handle[c]
        r == IF returned[c] THEN rc[v] ELSE dec(rc[v])
    IN /\ v # Nothing
       /\ returned' = [returned EXCEPT ![c] = TRUE]
       /\ rc' = [rc EXCEPT ![v] = IF evict THEN finalize(r) ELSE r]
       /\ timer' = IF evict THEN [timer EXCEPT ![v] = Stopped(v)] ELSE timer
       /\ m' = IF evict /\ m[key[v]] = v THEN [m EXCEPT ![key[v]] = Nothing] ELSE m
       /\ UNCHANGED <<key, handle>>

TTLNext ==
    \/ \E c \in Clients, k \in Keys : Get(c, k) \/ Add(c, k)
    \/ \E c \in Clients, evict \in BOOLEAN : Done(c, evict)
    \/ \E k \in Keys : Remove(k)
    \/ \E v \in Values : TimerFires(v) \/ TimerCallback(v)

TTLSpec == TTLInit /\ [][TTLNext]_ttlVars

\* Time passes and a callback gets c.mu.
TTLFairSpec == TTLSpec /\ \A v \in Values : WF_ttlVars(TimerFires(v)) /\ WF_ttlVars(TimerCallback(v))

-----------------------------------------------------------------------------
Holders(v) == {c \in Clients : handle[c] = v /\ ~returned[c]}
InCache(v) == \E k \in Keys : m[k] = v

\* Types of the cache and of its clients' references.
TTLTypeOK ==
    /\ m \in [Keys -> Values \cup {Nothing}]
    /\ key \in [Values -> Keys \cup {Nothing}]
    /\ rc \in [Values -> Counters]
    /\ timer \in [Values -> {"none", "armed", "stopped", "fired", "ran"}]
    /\ handle \in [Clients -> Values \cup {Nothing}]
    /\ returned \in [Clients -> BOOLEAN]

\* OnEvicted is called once for a value that is neither cached nor held any
\* more, and never before: nobody is left with a closed layer or blob, and
\* none of them stays open, however Get, Remove, timers and repeated calls of
\* done interleave.
EvictedExactlyWhenDead ==
    \A v \in Values :
        rc[v].evictions =
            IF key[v] # Nothing /\ ~InCache(v) /\ Holders(v) = {} THEN 1 ELSE 0

\* A cached value still has a timer that will remove it: no call leaves an
\* entry behind whose timer is stopped.
CachedValueExpires ==
    \A k \in Keys : m[k] # Nothing => timer[m[k]] \in {"armed", "fired"} /\ key[m[k]] = k

\* A value does not stay in the cache for ever.
EntryLeaves == \A v \in Values : InCache(v) ~> ~InCache(v)

Abstract == INSTANCE RefCounted WITH
    cached <- {v \in Values : InCache(v)},
    held <- [v \in Values |-> Holders(v)],
    evicted <- {v \in Values : rc[v].evictions > 0}

\* The cache implements the promise of RefCounted.
ImplementsRefCounted == Abstract!Spec
=============================================================================
