------------------------------- MODULE Caches -------------------------------
(***************************************************************************)
(* util/cacheutil: the two caches side by side.  They share the reference  *)
(* counter and what they promise for it, and no state.                     *)
(***************************************************************************)
EXTENDS TTLCache, LRUCache

\* Both caches implement RefCounted: OnEvicted is called for a value when it is
\* neither cached nor held.  The LRU cache calls it once too, also for an entry
\* that overflowed while it was held, so it keeps no more resources open than it
\* has room and clients.
CachesImplementRefCounted ==
    /\ ImplementsRefCounted
    /\ LRUImplementsRefCounted
    /\ [](OverflowEvictsOnce /\ OpenResourcesBounded)
=============================================================================
