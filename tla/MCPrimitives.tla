---------------------------- MODULE MCPrimitives ----------------------------
(* Building blocks for TLC: the named mutex, the two caches with reference counts    *)
(* and the prefetch of a layer with its waiter.  They share no state, so a behaviour *)
(* is one of them: sel says which.                                                   *)
EXTENDS NamedMutex, LayerPrefetch, Caches

VARIABLE sel   \* the component of this behaviour

\* Neither landmark, the one that forbids prefetching, and one after the first chunk.
MCLandmarks == {None, No, 1}

allVars == <<sel, vars, ttlVars, lruVars, prefetchVars>>

\* The variables of the other components rest in an initial state.
mutexOff == Init /\ name = [p \in Procs |-> CHOOSE n \in Names : TRUE]
prefetchOff == PrefetchInit /\ landmark = None /\ default = CHOOSE n \in Defaults : TRUE

AllInit ==
    \/ sel = "mutex" /\ Init /\ TTLInit /\ LRUInit /\ prefetchOff
    \/ sel = "ttl" /\ TTLInit /\ mutexOff /\ LRUInit /\ prefetchOff
    \/ sel = "lru" /\ LRUInit /\ mutexOff /\ TTLInit /\ prefetchOff
    \/ sel = "prefetch" /\ PrefetchInit /\ mutexOff /\ TTLInit /\ LRUInit

AllNext ==
    \/ sel = "mutex" /\ Next /\ UNCHANGED <<sel, ttlVars, lruVars, prefetchVars>>
    \/ sel = "ttl" /\ TTLNext /\ UNCHANGED <<sel, vars, lruVars, prefetchVars>>
    \/ sel = "lru" /\ LRUNext /\ UNCHANGED <<sel, vars, ttlVars, prefetchVars>>
    \/ sel = "prefetch" /\ PrefetchNext /\ UNCHANGED <<sel, vars, ttlVars, lruVars>>

\* The fairness of each component (see their modules).
Fairness ==
    /\ \A p \in Procs : WF_vars(Step(p)) /\ SF_vars(LockMutex(p))
    /\ \A v \in Values : WF_ttlVars(TimerFires(v)) /\ WF_ttlVars(TimerCallback(v))
    /\ PrefetchFairness

AllSpec == AllInit /\ [][AllNext]_allVars /\ Fairness

-----------------------------------------------------------------------------
\* The properties are those of the components: ImplementsLockService and LockIsGranted
\* of NamedMutex, EvictedExactlyWhenDead and EntryLeaves of TTLCache,
\* CachesImplementRefCounted of Caches, PrefetchHonoursLandmark and CheckEnds of
\* LayerPrefetch.
=============================================================================
