----------------------------- MODULE NamedMutex -----------------------------
(***************************************************************************)
(* util/namedmutex/namedmutex.go: one sync.Mutex per name, created by the  *)
(* first locker of the name and dropped by the last one.  The hazard is    *)
(* the window between the critical section on nl.mu and the operation on   *)
(* the name's own mutex: the mutex may be dropped from the map, and        *)
(* another one created for the same name, while a process still refers to  *)
(* the old one.                                                            *)
(***************************************************************************)
EXTENDS Integers, FiniteSets

CONSTANTS Procs,    \* goroutines
          Names,    \* names passed to Lock
          Mutexes,  \* sync.Mutex objects the allocator can hand out
          NoProc, NoMutex

ASSUME NamesAssumption ==
    /\ IsFiniteSet(Procs)
    /\ NoProc \notin Procs
    /\ NoMutex \notin Mutexes

VARIABLES
    muMap,   \* nl.muMap, NoMutex for a missing key
    refMap,  \* nl.refMap, 0 for a missing key
    locked,  \* the locked mutexes
    pc,      \* "idle", "locking", "held" or "unlocking"
    name,    \* the name a process works with
    mu       \* the mutex a process got from muMap

vars == <<muMap, refMap, locked, pc, name, mu>>

Init ==
    /\ muMap = [n \in Names |-> NoMutex]
    /\ refMap = [n \in Names |-> 0]
    /\ locked = {}
    /\ pc = [p \in Procs |-> "idle"]
    /\ name \in [Procs -> Names]
    /\ mu = [p \in Procs |-> NoMutex]

\* A mutex that nothing refers to: what &sync.Mutex{} may return.
Fresh(m) ==
    /\ \A n \in Names : muMap[n] # m
    /\ \A p \in Procs : pc[p] # "idle" => mu[p] # m

\* The part of Lock under nl.mu: find or create the mutex, count a reference.
LockLookup(p, n) ==
    /\ pc[p] = "idle"
    /\ \E m \in Mutexes :
         /\ IF muMap[n] = NoMutex THEN Fresh(m) ELSE m = muMap[n]
         /\ muMap' = [muMap EXCEPT ![n] = m]
         /\ mu' = [mu EXCEPT ![p] = m]
    /\ refMap' = [refMap EXCEPT ![n] = @ + 1]
    /\ name' = [name EXCEPT ![p] = n]
    /\ pc' = [pc EXCEPT ![p] = "locking"]
    /\ UNCHANGED locked

\* mu.Lock(), outside nl.mu.
LockMutex(p) ==
    /\ pc[p] = "locking"
    /\ mu[p] \notin locked
    /\ locked' = locked \cup {mu[p]}
    /\ pc' = [pc EXCEPT ![p] = "held"]
    /\ UNCHANGED <<muMap, refMap, name, mu>>

\* Mutant: the entry goes when its last holder leaves, waiters or not.
UnlockLookupDrop(p) ==
    LET n == name[p] IN
    /\ pc[p] = "held"
    /\ refMap' = [refMap EXCEPT ![n] = 0]
    /\ muMap' = [muMap EXCEPT ![n] = NoMutex]
    /\ mu' = [mu EXCEPT ![p] = muMap[n]]
    /\ pc' = [pc EXCEPT ![p] = "unlocking"]
    /\ UNCHANGED <<locked, name>>

\* The part of Unlock under nl.mu: uncount the reference, drop the entry with
\* the last one, remember the mutex that the map had.
UnlockLookup(p) ==
    LET n == name[p] IN
    /\ pc[p] = "held"
    /\ refMap' = [refMap EXCEPT ![n] = @ - 1]
    /\ muMap' = [muMap EXCEPT ![n] = IF refMap[n] - 1 <= 0 THEN NoMutex ELSE @]
    /\ mu' = [mu EXCEPT ![p] = muMap[n]]
    /\ pc' = [pc EXCEPT ![p] = "unlocking"]
    /\ UNCHANGED <<locked, name>>

\* mu.Unlock(), outside nl.mu.
UnlockMutex(p) ==
    /\ pc[p] = "unlocking"
    /\ locked' = locked \ {mu[p]}
    /\ pc' = [pc EXCEPT ![p] = "idle"]
    /\ UNCHANGED <<muMap, refMap, name, mu>>

Step(p) == LockMutex(p) \/ UnlockLookup(p) \/ UnlockMutex(p)

Next == \E p \in Procs : (\E n \in Names : LockLookup(p, n)) \/ Step(p)

Spec == Init /\ [][Next]_vars

\* Goroutines run; a holder leaves its critical section; sync.Mutex hands
\* itself over to a starving waiter.
FairSpec == Spec /\ \A p \in Procs : WF_vars(Step(p)) /\ SF_vars(LockMutex(p))

-----------------------------------------------------------------------------
\* The processes that hold or wait for the mutex of n.
Users(n) == {p \in Procs : pc[p] \in {"locking", "held"} /\ name[p] = n}

\* Types; refMap has no negative entry.
TypeOK ==
    /\ muMap \in [Names -> Mutexes \cup {NoMutex}]
    /\ refMap \in [Names -> Nat]
    /\ locked \subseteq Mutexes
    /\ pc \in [Procs -> {"idle", "locking", "held", "unlocking"}]
    /\ name \in [Procs -> Names]
    /\ mu \in [Procs -> Mutexes \cup {NoMutex}]

\* At most one process is between Lock(n) and Unlock(n), although the mutexes
\* behind a name come and go.
MutualExclusion ==
    \A p, q \in Procs :
        pc[p] = "held" /\ pc[q] = "held" /\ name[p] = name[q] => p = q

\* The maps hold exactly the names in use: an entry is neither dropped under a
\* waiter nor left behind (namedmutex.go:56-59).
EntriesAreUsed ==
    \A n \in Names : /\ refMap[n] = Cardinality(Users(n))
                     /\ muMap[n] = NoMutex <=> Users(n) = {}

\* A locked mutex has an owner that will unlock it.
LockedIsOwned ==
    \A m \in locked : \E p \in Procs : mu[p] = m /\ pc[p] \in {"held", "unlocking"}

\* Whoever asks for a name gets it.
LockIsGranted == \A p \in Procs : pc[p] = "locking" ~> pc[p] = "held"

\* The holder of a name, for the refinement of LockService.
Holder ==
    [n \in Names |-> IF \E p \in Procs : pc[p] = "held" /\ name[p] = n
                     THEN CHOOSE p \in Procs : pc[p] = "held" /\ name[p] = n
                     ELSE NoProc]

Service == INSTANCE LockService WITH holder <- Holder

\* NamedMutex implements one lock per name: Lock takes effect at mu.Lock and
\* Unlock at its critical section on nl.mu.
ImplementsLockService == Service!Spec
=============================================================================
