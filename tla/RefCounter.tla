----------------------------- MODULE RefCounter -----------------------------
(* util/cacheutil/lrucache.go: refCounter, the reference count behind both    *)
(* caches.  A counter is a record; the operators return the counter after the *)
(* call.  onces are the sync.Once that have run, evictions counts the calls   *)
(* of the onEvicted callback.                                                 *)
EXTENDS Integers, FiniteSets

CONSTANTS Clients,   \* of a cache
          Nothing    \* no value, no key

ASSUME ClientsAssumption == IsFiniteSet(Clients)

Onces == {"initialize", "finalize"}

Counters == [refCounts : Nat, onces : SUBSET Onces, evictions : Nat]

NewCounter == [refCounts |-> 0, onces |-> {}, evictions |-> 0]

inc(r) == [r EXCEPT !.refCounts = @ + 1]

\* The callback runs when the last reference goes.
dec(r) ==
    LET d == [r EXCEPT !.refCounts = @ - 1]
    IN IF d.refCounts <= 0 THEN [d EXCEPT !.evictions = @ + 1] ELSE d

initialize(r) ==
    IF "initialize" \in r.onces THEN r ELSE inc([r EXCEPT !.onces = @ \cup {"initialize"}])

\* Mutant: finalize without its sync.Once.
finalizeAgain(r) == dec([r EXCEPT !.onces = @ \cup {"finalize"}])

finalize(r) ==
    IF "finalize" \in r.onces THEN r ELSE dec([r EXCEPT !.onces = @ \cup {"finalize"}])
=============================================================================
