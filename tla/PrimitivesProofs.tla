-------------------------- MODULE PrimitivesProofs --------------------------
(***************************************************************************)
(* Theorems about what others wait for: a lock, the prefetch of a layer    *)
(* and the initialization of its metadata.                                 *)
(*                                                                         *)
(* NamedMutex: mutual exclusion per name, no leaked entry, and the         *)
(* refinement of LockService, for any number of goroutines and names.      *)
(*                                                                         *)
(* LayerPrefetch: a prefetch that ended well left its whole range in the   *)
(* cache of the reader, for any blob, landmark, configured size and        *)
(* numbers of prefetchers and checkers.  The invariant says that one       *)
(* prefetcher runs at a time (sync.Once), that none fetches in a layer     *)
(* whose landmark forbids it, and that the one that decompresses does so   *)
(* for the range of the landmark.                                          *)
(*                                                                         *)
(* MetadataReader, for any numbers of readers and users and any TOCs: an   *)
(* operation sees a whole TOC unless it was stored again, and no temporary *)
(* copy is left.  Where the initialization of a reader is tells what its   *)
(* decoder, its map and its bucket have, as long as its function ran once; *)
(* and which function it has under way.                                    *)
(***************************************************************************)
EXTENDS NamedMutex, LayerPrefetch, MetadataReader, FiniteSetTheorems, TLAPS

\* Leaves go to SMT, unless they name another prover.
USE SMTT(60)

-----------------------------------------------------------------------------
(* The named mutex. *)

\* A user of a name refers to the mutex that the map has for the name.
UsersShareMutex ==
    \A p \in Procs : pc[p] \in {"locking", "held"} =>
        mu[p] = muMap[name[p]] /\ mu[p] \in Mutexes

\* Two names never share a mutex.
NamesDiffer ==
    \A m, n \in Names : muMap[m] = muMap[n] /\ muMap[m] # NoMutex => m = n

\* The mutex of a process that has locked it and not unlocked it yet is locked,
\* and is nobody else's.
OwnerOfMutex ==
    /\ \A p \in Procs : pc[p] \in {"held", "unlocking"} => mu[p] \in locked
    /\ \A p, q \in Procs : /\ pc[p] \in {"held", "unlocking"}
                           /\ pc[q] \in {"held", "unlocking"}
                           /\ mu[p] = mu[q]
                           => p = q

\* The inductive invariant.
IInv == TypeOK /\ UsersShareMutex /\ NamesDiffer /\ OwnerOfMutex /\ EntriesAreUsed /\ LockedIsOwned

\* A user joins or leaves the users of a name.
LEMMA UsersCount ==
    ASSUME NEW n \in Names, NEW p \in Procs
    PROVE  /\ IsFiniteSet(Users(n)) /\ Cardinality(Users(n)) \in Nat
           /\ Cardinality(Users(n)) = 0 <=> Users(n) = {}
           /\ p \notin Users(n) => Cardinality(Users(n) \cup {p}) = Cardinality(Users(n)) + 1
           /\ p \in Users(n) => /\ Cardinality(Users(n) \ {p}) = Cardinality(Users(n)) - 1
                                /\ Cardinality(Users(n) \ {p}) = 0 <=> Users(n) \ {p} = {}
  <1>1. IsFiniteSet(Users(n)) /\ IsFiniteSet(Users(n) \ {p})
    BY NamesAssumption, FS_Subset DEF Users
  <1> QED BY <1>1, FS_CardinalityType, FS_EmptySet, FS_AddElement, FS_RemoveElement, ZenonT(60)

\* Lock looks up or makes the mutex of a name and counts itself.
LEMMA LockLookupPreserves ==
    ASSUME IInv, NEW p \in Procs, NEW n \in Names, LockLookup(p, n)
    PROVE  IInv'
  <1> USE NamesAssumption DEF IInv, TypeOK
  <1>1. PICK m \in Mutexes :
            /\ IF muMap[n] = NoMutex THEN Fresh(m) ELSE m = muMap[n]
            /\ muMap' = [muMap EXCEPT ![n] = m]
            /\ mu' = [mu EXCEPT ![p] = m]
    BY ZenonT(60) DEF LockLookup
  <1>2. /\ refMap' = [refMap EXCEPT ![n] = @ + 1]
        /\ name' = [name EXCEPT ![p] = n]
        /\ pc' = [pc EXCEPT ![p] = "locking"]
        /\ locked' = locked /\ pc[p] = "idle"
    BY DEF LockLookup
  <1>3. TypeOK'
    BY <1>1, <1>2
  <1>4. UsersShareMutex'
    <2> SUFFICES ASSUME NEW q \in Procs, pc'[q] \in {"locking", "held"}
                 PROVE  mu'[q] = muMap'[name'[q]] /\ mu'[q] \in Mutexes
      BY DEF UsersShareMutex
    <2>1. CASE q = p BY <2>1, <1>1, <1>2
    <2>2. CASE q # p
      <3>1. q \in Users(name[q]) BY <2>2, <1>2 DEF Users
      <3>2. muMap[name[q]] # NoMutex BY <3>1 DEF EntriesAreUsed
      <3> QED BY <2>2, <3>2, <1>1, <1>2 DEF UsersShareMutex
    <2> QED BY <2>1, <2>2
  <1>5. NamesDiffer'
    BY <1>1, <1>2 DEF NamesDiffer, Fresh
  <1>6. OwnerOfMutex'
    BY <1>1, <1>2 DEF OwnerOfMutex
  <1>7. EntriesAreUsed'
    <2>0. \A q \in Procs : q # p => pc'[q] = pc[q] /\ name'[q] = name[q]
      BY <1>2
    <2>1. Users(n)' = Users(n) \cup {p} /\ p \notin Users(n)
      BY <1>2, <2>0 DEF Users
    <2>2. \A k \in Names \ {n} : Users(k)' = Users(k)
      BY <1>2 DEF Users
    <2>3. refMap'[n] = Cardinality(Users(n)') /\ muMap'[n] # NoMutex
      <3>1. Cardinality(Users(n) \cup {p}) = refMap[n] + 1
        BY <2>1, UsersCount DEF EntriesAreUsed
      <3>2. refMap'[n] = refMap[n] + 1 /\ muMap'[n] = m
        BY <1>1, <1>2
      <3> QED BY <2>1, <3>1, <3>2
    <2>4. \A k \in Names \ {n} : refMap'[k] = refMap[k] /\ muMap'[k] = muMap[k]
      BY <1>1, <1>2
    <2> QED BY <2>1, <2>2, <2>3, <2>4, ZenonT(60) DEF EntriesAreUsed
  <1>8. LockedIsOwned'
    BY <1>1, <1>2 DEF LockedIsOwned
  <1> QED BY <1>3, <1>4, <1>5, <1>6, <1>7, <1>8

\* Lock gets the mutex.
LEMMA LockMutexPreserves ==
    ASSUME IInv, NEW p \in Procs, LockMutex(p)
    PROVE  IInv'
  <1> USE NamesAssumption DEF IInv, TypeOK, LockMutex
  <1>1. TypeOK'
    BY DEF UsersShareMutex
  <1>2. UsersShareMutex'
    BY DEF UsersShareMutex
  <1>3. NamesDiffer'
    BY DEF NamesDiffer
  <1>4. OwnerOfMutex'
    BY DEF OwnerOfMutex
  <1>5. \A n \in Names : Users(n)' = Users(n)
    BY DEF Users
  <1>6. EntriesAreUsed'
    BY <1>5 DEF EntriesAreUsed
  <1>7. LockedIsOwned'
    BY DEF LockedIsOwned
  <1> QED BY <1>1, <1>2, <1>3, <1>4, <1>6, <1>7

\* Unlock finds in the map the mutex that Lock found there.
LEMMA UnlockFindsItsMutex ==
    ASSUME IInv, NEW p \in Procs, UnlockLookup(p)
    PROVE  mu' = mu
  BY DEF IInv, TypeOK, UnlockLookup, UsersShareMutex

\* Unlock counts itself out, and deletes the entry of a name nobody else uses.
LEMMA UnlockLookupPreserves ==
    ASSUME IInv, NEW p \in Procs, UnlockLookup(p)
    PROVE  IInv'
  <1> USE NamesAssumption DEF IInv, TypeOK
  <1> DEFINE n == name[p]
  <1>1. /\ pc[p] = "held" /\ pc' = [pc EXCEPT ![p] = "unlocking"]
        /\ refMap' = [refMap EXCEPT ![n] = @ - 1]
        /\ muMap' = [muMap EXCEPT ![n] = IF refMap[n] - 1 <= 0 THEN NoMutex ELSE @]
        /\ locked' = locked /\ name' = name /\ mu' = mu
    BY UnlockFindsItsMutex, ZenonT(60) DEF UnlockLookup
  <1>2. n \in Names /\ Users(n)' = Users(n) \ {p} /\ p \in Users(n)
    BY <1>1 DEF Users
  <1>3. \A k \in Names \ {n} : Users(k)' = Users(k)
    BY <1>1 DEF Users
  <1>4. /\ refMap[n] - 1 = Cardinality(Users(n) \ {p})
        /\ Cardinality(Users(n) \ {p}) = 0 <=> Users(n) \ {p} = {}
        /\ refMap[n] - 1 \in Nat
    <2> HIDE DEF n
    <2>1. IsFiniteSet(Users(n) \ {p}) /\ refMap[n] = Cardinality(Users(n))
      BY <1>2, UsersCount, FS_RemoveElement, ZenonT(60) DEF EntriesAreUsed
    <2>2. Cardinality(Users(n) \ {p}) \in Nat
      BY <2>1, FS_CardinalityType
    <2>3. Cardinality(Users(n) \ {p}) = Cardinality(Users(n)) - 1
      BY <1>2, UsersCount
    <2> QED BY <2>1, <2>2, <2>3, FS_EmptySet, ZenonT(60)
  <1>5. TypeOK'
    BY <1>1, <1>4
  <1>6. UsersShareMutex'
    <2> SUFFICES ASSUME NEW q \in Procs, pc'[q] \in {"locking", "held"}
                 PROVE  muMap'[name[q]] = muMap[name[q]]
      BY <1>1 DEF UsersShareMutex
    <2>1. q # p /\ q \in Users(name[q])
      BY <1>1 DEF Users
    <2>2. CASE name[q] = n
      BY <2>1, <2>2, <1>1, <1>4
    <2>3. CASE name[q] # n
      BY <2>3, <1>1
    <2> QED BY <2>2, <2>3
  <1>7. NamesDiffer'
    BY <1>1 DEF NamesDiffer
  <1>8. OwnerOfMutex'
    BY <1>1 DEF OwnerOfMutex
  <1>9. EntriesAreUsed'
    <2>1. refMap'[n] = Cardinality(Users(n)') /\ (muMap'[n] = NoMutex <=> Users(n)' = {})
      <3>1. muMap[n] # NoMutex
        BY <1>2 DEF EntriesAreUsed
      <3>2. refMap'[n] = refMap[n] - 1
        BY <1>1, <1>2
      <3>3. muMap'[n] = IF refMap[n] - 1 <= 0 THEN NoMutex ELSE muMap[n]
        BY <1>1, <1>2
      <3> QED BY <1>2, <1>4, <3>1, <3>2, <3>3
    <2>2. \A k \in Names \ {n} : refMap'[k] = refMap[k] /\ muMap'[k] = muMap[k]
      BY <1>1
    <2>3. ASSUME NEW k \in Names
          PROVE  refMap'[k] = Cardinality(Users(k)') /\ (muMap'[k] = NoMutex <=> Users(k)' = {})
      <3>1. CASE k = n BY <3>1, <2>1, <1>1 DEF Users
      <3>2. CASE k # n BY <3>2, <1>3, <2>2 DEF EntriesAreUsed
      <3> QED BY <3>1, <3>2
    <2> QED BY <2>3 DEF EntriesAreUsed
  <1>10. LockedIsOwned'
    BY <1>1 DEF LockedIsOwned
  <1> QED BY <1>5, <1>6, <1>7, <1>8, <1>9, <1>10

\* Unlock gives up the mutex it looked up.
LEMMA UnlockMutexPreserves ==
    ASSUME IInv, NEW p \in Procs, UnlockMutex(p)
    PROVE  IInv'
  <1> USE NamesAssumption DEF IInv, TypeOK, UnlockMutex
  <1>1. TypeOK'
    OBVIOUS
  <1>2. UsersShareMutex'
    BY DEF UsersShareMutex
  <1>3. NamesDiffer'
    BY DEF NamesDiffer
  <1>4. OwnerOfMutex'
    BY DEF OwnerOfMutex
  <1>5. \A n \in Names : Users(n)' = Users(n)
    BY DEF Users
  <1>6. EntriesAreUsed'
    BY <1>5 DEF EntriesAreUsed
  <1>7. LockedIsOwned'
    BY DEF LockedIsOwned
  <1> QED BY <1>1, <1>2, <1>3, <1>4, <1>6, <1>7

\* The inductive invariant of util/namedmutex holds in every reachable state.
THEOREM Inductive == Spec => []IInv
  <1>1. Init => IInv
    <2> SUFFICES ASSUME Init PROVE IInv
      OBVIOUS
    <2>1. \A n \in Names : Users(n) = {}
      BY DEF Init, Users
    <2> QED BY <2>1, FS_EmptySet DEF Init, IInv, TypeOK, UsersShareMutex, NamesDiffer,
                 OwnerOfMutex, EntriesAreUsed, LockedIsOwned
  <1>2. IInv /\ [Next]_vars => IInv'
    <2> SUFFICES ASSUME IInv, [Next]_vars PROVE IInv'
      OBVIOUS
    <2>1. CASE UNCHANGED vars
      <3>1. \A n \in Names : Users(n)' = Users(n)
        BY <2>1 DEF vars, Users
      <3> QED BY <2>1, <3>1 DEF vars, IInv, TypeOK, UsersShareMutex, NamesDiffer,
                   OwnerOfMutex, EntriesAreUsed, LockedIsOwned
    <2> QED BY <2>1, LockLookupPreserves, LockMutexPreserves, UnlockLookupPreserves,
              UnlockMutexPreserves DEF Next, Step
  <1> QED BY <1>1, <1>2, PTL DEF Spec

\* From the inductive invariant, two holders of a name are one.
LEMMA InvExcludes == IInv => MutualExclusion
  BY ZenonT(60) DEF IInv, MutualExclusion, UsersShareMutex, OwnerOfMutex

\* Mutual exclusion per name, for any number of goroutines, names and mutexes.
THEOREM Exclusion == Spec => []MutualExclusion
  BY InvExcludes, Inductive, PTL

\* The maps of NamedMutex hold exactly the names in use.
THEOREM NoLeakedEntry == Spec => []EntriesAreUsed
  <1>1. IInv => EntriesAreUsed BY DEF IInv
  <1> QED BY <1>1, Inductive, PTL

-----------------------------------------------------------------------------
\* Holder[n] is the process that holds n.
LEMMA HolderIsUnique ==
    ASSUME MutualExclusion, NEW n \in Names
    PROVE  /\ \A p \in Procs : pc[p] = "held" /\ name[p] = n => Holder[n] = p
           /\ (\A p \in Procs : ~(pc[p] = "held" /\ name[p] = n)) => Holder[n] = NoProc
  BY DEF MutualExclusion, Holder

\* A step that leaves the set of holders alone leaves the abstract lock alone.
LEMMA HolderUnchanged ==
    ASSUME MutualExclusion, MutualExclusion',
           NEW n \in Names,
           \A p \in Procs : (pc'[p] = "held" /\ name'[p] = n) <=> (pc[p] = "held" /\ name[p] = n)
    PROVE  Holder'[n] = Holder[n]
  <1>1. CASE \E p \in Procs : pc[p] = "held" /\ name[p] = n
    <2> PICK p \in Procs : pc[p] = "held" /\ name[p] = n
      BY <1>1
    <2>1. Holder[n] = p BY HolderIsUnique
    <2>2. Holder'[n] = p BY DEF MutualExclusion, Holder
    <2> QED BY <2>1, <2>2
  <1>2. CASE ~ \E p \in Procs : pc[p] = "held" /\ name[p] = n
    BY <1>2 DEF Holder
  <1> QED BY <1>1, <1>2

\* Every step is a step of LockService or leaves its variable unchanged: Lock
\* takes effect when the name's mutex is locked, Unlock in its critical section
\* on nl.mu.
THEOREM Refinement == Spec => ImplementsLockService
  <1>1. Init => Service!Init
    BY DEF Init, Service!Init, Holder
  <1>2. IInv /\ IInv' /\ [Next]_vars => [Service!Next]_Holder
    <2> SUFFICES ASSUME IInv, IInv', [Next]_vars PROVE [Service!Next]_Holder
      OBVIOUS
    <2>i. MutualExclusion /\ MutualExclusion'
      BY InvExcludes DEF IInv, MutualExclusion, UsersShareMutex, OwnerOfMutex
    <2>d. /\ DOMAIN Holder = Names /\ DOMAIN Holder' = Names
          /\ Holder = [n \in Names |-> Holder[n]] /\ Holder' = [n \in Names |-> Holder'[n]]
      BY DEF Holder
    <2>1. ASSUME NEW p \in Procs, NEW n \in Names, LockLookup(p, n) PROVE Holder' = Holder
      <3>1. \A k \in Names, q \in Procs :
              (pc'[q] = "held" /\ name'[q] = k) <=> (pc[q] = "held" /\ name[q] = k)
        BY <2>1 DEF LockLookup, IInv, TypeOK
      <3>2. \A k \in Names : Holder'[k] = Holder[k]
        BY <2>i, <3>1, HolderUnchanged
      <3> QED BY <2>d, <3>2
    <2>2. ASSUME NEW p \in Procs, UnlockMutex(p) PROVE Holder' = Holder
      <3>1. \A k \in Names, q \in Procs :
              (pc'[q] = "held" /\ name'[q] = k) <=> (pc[q] = "held" /\ name[q] = k)
        BY <2>2 DEF UnlockMutex, IInv, TypeOK
      <3>2. \A k \in Names : Holder'[k] = Holder[k]
        BY <2>i, <3>1, HolderUnchanged
      <3> QED BY <2>d, <3>2
    <2>3. ASSUME NEW p \in Procs, LockMutex(p) PROVE Service!Acquire(p, name[p])
      <3> DEFINE n == name[p]
      <3>1. n \in Names /\ pc'[p] = "held" /\ name'[p] = n
        BY <2>3 DEF LockMutex, IInv, TypeOK
      <3>2. \A q \in Procs : ~(pc[q] = "held" /\ name[q] = n)
        BY <2>3 DEF LockMutex, IInv, UsersShareMutex, OwnerOfMutex
      <3>3. Holder[n] = NoProc
        BY <2>i, <3>1, <3>2, HolderIsUnique
      <3>4. Holder'[n] = p
        BY <2>i, <3>1 DEF MutualExclusion, Holder
      <3>5. \A k \in Names \ {n}, q \in Procs :
              (pc'[q] = "held" /\ name'[q] = k) <=> (pc[q] = "held" /\ name[q] = k)
        BY <2>3 DEF LockMutex, IInv, TypeOK
      <3>6. \A k \in Names \ {n} : Holder'[k] = Holder[k]
        BY <2>i, <3>5, HolderUnchanged
      <3> QED BY <2>d, <3>1, <3>3, <3>4, <3>6 DEF Service!Acquire
    <2>4. ASSUME NEW p \in Procs, UnlockLookup(p) PROVE Service!Release(p, name[p])
      <3> DEFINE n == name[p]
      <3>1. n \in Names /\ pc[p] = "held" /\ pc'[p] = "unlocking" /\ name' = name
        BY <2>4 DEF UnlockLookup, IInv, TypeOK
      <3>2. Holder[n] = p
        BY <2>i, <3>1, HolderIsUnique
      <3>3. \A q \in Procs : ~(pc'[q] = "held" /\ name'[q] = n)
        BY <2>i, <2>4, <3>1 DEF UnlockLookup, IInv, TypeOK, MutualExclusion
      <3>4. Holder'[n] = NoProc
        BY <3>1, <3>3 DEF Holder
      <3>5. \A k \in Names \ {n}, q \in Procs :
              (pc'[q] = "held" /\ name'[q] = k) <=> (pc[q] = "held" /\ name[q] = k)
        BY <2>4, <3>1, ZenonT(60) DEF UnlockLookup, IInv, TypeOK
      <3>6. \A k \in Names \ {n} : Holder'[k] = Holder[k]
        BY <2>i, <3>5, HolderUnchanged
      <3> QED BY <2>d, <3>1, <3>2, <3>4, <3>6 DEF Service!Release
    <2>5. CASE UNCHANGED vars
      BY <2>5 DEF vars, Holder
    <2>6. ASSUME NEW p \in Procs PROVE name[p] \in Names
      BY DEF IInv, TypeOK
    <2> QED BY <2>1, <2>2, <2>3, <2>4, <2>5, <2>6 DEF Next, Step, Service!Next
  <1> QED BY <1>1, <1>2, Inductive, PTL DEF Spec, ImplementsLockService, Service!Spec

-----------------------------------------------------------------------------
(* The prefetch of a layer. *)

Active(p) == pf[p] \in {"size", "blob", "decompress"}

\* The types that the proof needs.
NumbersOK ==
    /\ landmark \in Landmarks /\ default \in Defaults
    /\ pf \in [Prefetchers -> {"new", "size", "blob", "decompress", "ended"}]

\* At most one prefetcher is inside of prefetchOnce, and only while it runs.
OnceInv ==
    /\ \A p \in Prefetchers : Active(p) => once = "running"
    /\ \A p, q \in Prefetchers : Active(p) /\ Active(q) => p = q

RangeInv ==
    /\ \A p \in Prefetchers : pf[p] \in {"blob", "decompress"} => landmark # No
    /\ \A p \in Prefetchers : pf[p] = "decompress" => prefetchSize = Target

EndInv ==
    /\ once = "done" /\ ~prefetchErr /\ landmark # No => Below(Target) \subseteq cached
    /\ landmark = No /\ bg = "new" => fetched = {}

\* The inductive invariant.
PrefetchInv == NumbersOK /\ OnceInv /\ RangeInv /\ EndInv

-----------------------------------------------------------------------------
\* The invariant holds of a new layer.
LEMMA PrefetchStart == PrefetchInit => PrefetchInv
  BY DEF PrefetchInit, PrefetchInv, NumbersOK, OnceInv, RangeInv, EndInv, Active

\* The range is that of the landmark, or the configured size as far as the blob goes.
LEMMA RangeOfTarget ==
    ASSUME NumbersOK
    PROVE  /\ landmark >= 0 => Target = landmark
           /\ landmark = None => Below(Target) = Below(default)
  <1>1. landmark \in {None, No} \cup 0 .. NumChunks /\ default \in Nat /\ NumChunks \in Nat
    BY PrefetchAssumption DEF NumbersOK
  <1>2. Min({default, NumChunks}) = IF default <= NumChunks THEN default ELSE NumChunks
    BY <1>1 DEF Min
  <1>3. landmark = None => Target = IF default <= NumChunks THEN default ELSE NumChunks
    BY <1>2 DEF Target, None
  <1>. QED BY <1>1, <1>3 DEF Target, Below, Chunks

\* A step that leaves the prefetch and the landmark alone, while the caches grow.
LEMMA PrefetchOtherStep ==
    ASSUME PrefetchInv, UNCHANGED <<landmark, default, onceVars>>, cached \subseteq cached',
           bg' = "new" => bg = "new" /\ fetched' = fetched
    PROVE  PrefetchInv'
  <1>1. Target' = Target
    BY DEF Target
  <1>2. NumbersOK' /\ OnceInv'
    BY DEF PrefetchInv, NumbersOK, OnceInv, Active, onceVars
  <1>3. RangeInv' /\ EndInv'
    BY <1>1 DEF PrefetchInv, RangeInv, EndInv, Below, onceVars
  <1>. QED BY <1>2, <1>3 DEF PrefetchInv

\* The prefetcher that runs returns; without an error it has cached its range.
LEMMA PrefetchReturnStep ==
    ASSUME PrefetchInv, NEW p \in Prefetchers, Active(p), NEW err, PrefetchReturns(p, err),
           UNCHANGED <<landmark, default, bg>>,
           ~err /\ landmark # No => Below(Target) \subseteq cached',
           landmark = No /\ bg = "new" => fetched' = {}
    PROVE  PrefetchInv'
  <1>1. Target' = Target /\ \A s : Below(s)' = Below(s')
    BY DEF Target, Below
  <1>2. /\ pf' = [pf EXCEPT ![p] = "ended"] /\ once' = "done" /\ prefetchErr' = err
        /\ pf'[p] = "ended" /\ \A q \in Prefetchers : q # p => pf'[q] = pf[q] /\ ~Active(q)
    BY DEF PrefetchReturns, PrefetchInv, NumbersOK, OnceInv
  <1>3. \A q \in Prefetchers : ~Active(q)'
    BY <1>2 DEF Active
  <1>4. NumbersOK'
    BY <1>2 DEF PrefetchInv, NumbersOK
  <1>5. OnceInv' /\ RangeInv'
    BY <1>3 DEF OnceInv, RangeInv, Active
  <1>6. EndInv'
    BY <1>1, <1>2 DEF EndInv, Below
  <1>. QED BY <1>4, <1>5, <1>6 DEF PrefetchInv

\* Each step of prefetch, its waiters and the background fetch keeps it.
LEMMA PrefetchStep == ASSUME PrefetchInv, [PrefetchNext]_prefetchVars PROVE PrefetchInv'
  <1> USE DEF layerVars, onceVars, waiterVars, cacheVars
  <1>1. ASSUME NEW p \in Prefetchers, Prefetch(p) PROVE PrefetchInv'
    <2>1. /\ pf[p] = "new" /\ once # "running"
          /\ UNCHANGED <<landmark, default, prefetchErr, prefetchSize, fetched, cached, bg>>
          /\ \/ once = "new" /\ once' = "running" /\ pf' = [pf EXCEPT ![p] = "size"]
             \/ once = "done" /\ once' = "done" /\ pf' = [pf EXCEPT ![p] = "ended"]
      BY <1>1 DEF Prefetch
    <2>2. Target' = Target
      BY <2>1 DEF Target
    <2>3. NumbersOK'
      BY <2>1 DEF PrefetchInv, NumbersOK
    <2>4. \A q \in Prefetchers : ~Active(q) /\ (q # p => pf'[q] = pf[q])
      BY <2>1 DEF PrefetchInv, OnceInv, NumbersOK
    <2>5. pf'[p] \in {"size", "ended"} /\ (pf'[p] = "size" => once' = "running")
      BY <2>1 DEF PrefetchInv, NumbersOK
    <2>6. OnceInv' /\ RangeInv'
      BY <2>4, <2>5 DEF OnceInv, RangeInv, Active
    <2>7. EndInv'
      BY <2>1, <2>2 DEF PrefetchInv, EndInv, Below
    <2>. QED BY <2>3, <2>6, <2>7 DEF PrefetchInv
  <1>2. ASSUME NEW p \in Prefetchers, PrefetchSize(p) PROVE PrefetchInv'
    <2>1. Active(p) /\ UNCHANGED <<landmark, default, prefetchSize, fetched, cached, bg>>
      BY <1>2 DEF PrefetchSize, Active
    <2>2. CASE closed \/ landmark = No
      <3>1. PrefetchReturns(p, closed)
        BY <1>2, <2>2 DEF PrefetchSize
      <3>. QED BY <2>1, <2>2, <3>1, PrefetchReturnStep DEF PrefetchInv, EndInv
    <2>3. CASE ~(closed \/ landmark = No)
      <3>1. pf[p] = "size" /\ pf' = [pf EXCEPT ![p] = "blob"] /\ UNCHANGED <<once, prefetchErr>>
        BY <1>2, <2>3 DEF PrefetchSize
      <3>2. Target' = Target
        BY <2>1 DEF Target
      <3>3. pf'[p] = "blob" /\ \A q \in Prefetchers : q # p => pf'[q] = pf[q]
        BY <3>1 DEF PrefetchInv, NumbersOK
      <3>4. NumbersOK'
        BY <2>1, <3>1 DEF PrefetchInv, NumbersOK
      <3>5. OnceInv'
        BY <2>1, <3>1, <3>3 DEF PrefetchInv, OnceInv, Active
      <3>6. RangeInv'
        BY <2>1, <2>3, <3>2, <3>3, ZenonT(60) DEF PrefetchInv, RangeInv
      <3>7. EndInv'
        BY <2>1, <3>1, <3>2 DEF PrefetchInv, EndInv, Below
      <3>. QED BY <3>4, <3>5, <3>6, <3>7 DEF PrefetchInv
    <2>. QED BY <2>2, <2>3
  <1>3. ASSUME NEW p \in Prefetchers, PrefetchBlob(p) PROVE PrefetchInv'
    <2>1. Active(p) /\ pf[p] = "blob" /\ landmark # No /\ UNCHANGED <<landmark, default, cached, bg>>
      BY <1>3 DEF PrefetchBlob, Active, PrefetchInv, RangeInv
    <2>2. CASE PrefetchReturns(p, TRUE)
      BY <2>1, <2>2, PrefetchReturnStep, ZenonT(60)
    <2>3. CASE /\ prefetchSize' = Target /\ pf' = [pf EXCEPT ![p] = "decompress"] /\ UNCHANGED <<once, prefetchErr>>
      <3>1. Target' = Target
        BY <2>1 DEF Target
      <3>2. pf'[p] = "decompress" /\ \A q \in Prefetchers : q # p => pf'[q] = pf[q] /\ ~Active(q)
        BY <2>1, <2>3 DEF PrefetchInv, NumbersOK, OnceInv
      <3>3. NumbersOK'
        BY <2>1, <2>3 DEF PrefetchInv, NumbersOK
      <3>4. OnceInv'
        BY <2>1, <2>3, <3>2 DEF PrefetchInv, OnceInv, Active
      <3>5. RangeInv'
        BY <2>1, <2>3, <3>1, <3>2 DEF RangeInv, Active
      <3>6. EndInv'
        BY <2>1, <2>3, <3>1 DEF PrefetchInv, EndInv, OnceInv
      <3>. QED BY <3>3, <3>4, <3>5, <3>6 DEF PrefetchInv
    <2>. QED BY <1>3, <2>2, <2>3, ZenonT(60) DEF PrefetchBlob
  <1>4. ASSUME NEW p \in Prefetchers, PrefetchDecompress(p) PROVE PrefetchInv'
    <2>1. /\ Active(p) /\ landmark # No /\ prefetchSize = Target
          /\ UNCHANGED <<landmark, default, fetched, bg>>
      BY <1>4 DEF PrefetchDecompress, Active, PrefetchInv, RangeInv
    <2>2. CASE cached' = cached \cup Below(prefetchSize) /\ PrefetchReturns(p, FALSE)
      BY <2>1, <2>2, PrefetchReturnStep, ZenonT(60)
    <2>3. CASE PrefetchReturns(p, TRUE)
      BY <2>1, <2>3, PrefetchReturnStep, ZenonT(60)
    <2>. QED BY <1>4, <2>2, <2>3, ZenonT(60) DEF PrefetchDecompress
  <1>5. CASE BackgroundFetch
    <2>1. bg' # "new" /\ UNCHANGED <<landmark, default, onceVars, cached>>
      BY <1>5 DEF BackgroundFetch
    <2>. QED BY <2>1, PrefetchOtherStep
  <1>6. CASE BackgroundRead
    <2>1. bg' # "new" /\ cached \subseteq cached' /\ UNCHANGED <<landmark, default, onceVars>>
      BY <1>6 DEF BackgroundRead
    <2>. QED BY <2>1, PrefetchOtherStep
  <1>7. ASSUME NEW c \in Checkers, Check(c) \/ CheckStep(c) \/ ReadIsDone(c) \/ CondWait(c) PROVE PrefetchInv'
    <2>1. UNCHANGED <<landmark, default, onceVars, fetched, cached, bg>>
      BY <1>7, ZenonT(60) DEF Check, CheckStep, CheckInfo, CheckBlob, Refresh, WaitForPrefetch, WaitReturns, Timeout,
                  CheckReturns, ReadIsDone, CondWait
    <2>. QED BY <2>1, PrefetchOtherStep
  <1>8. CASE Unmount \/ Disconnect \/ UNCHANGED prefetchVars
    <2>1. UNCHANGED <<landmark, default, onceVars, fetched, cached, bg>>
      BY <1>8 DEF Unmount, Disconnect, prefetchVars
    <2>. QED BY <2>1, PrefetchOtherStep
  <1>. QED BY <1>1, <1>2, <1>3, <1>4, <1>5, <1>6, <1>7, <1>8 DEF PrefetchNext

\* A prefetch that ended well has cached all of its range, whichever Prefetch came
\* first, whatever was checked, read or unmounted meanwhile, and nothing is fetched for
\* a layer whose landmark forbids it before the background fetch.
THEOREM LandmarkHonoured == PrefetchSpec => []PrefetchHonoursLandmark
  <1>1. PrefetchInv => PrefetchHonoursLandmark
    <2>1. None # No /\ ~(No >= 0)
      BY DEF None, No
    <2>. QED BY <2>1, RangeOfTarget DEF PrefetchInv, EndInv, PrefetchHonoursLandmark
  <1>. QED BY <1>1, PrefetchStart, PrefetchStep, PTL DEF PrefetchSpec

-----------------------------------------------------------------------------
(* The readers of the metadata database.  Their leaves go to Zenon. *)

USE ZenonT(60)

Functions == {"root", "nodes", "meta", "stream", "close"}
Stages == {"footer", "refused", "root", "copy", "init", "nodes", "store", "meta", "index", "stream", "ready", "failed"}

CallPcs == {"idle", "wait", "tx", "batch", "done"}
Answers == {"none", "ok", "error", "all", "part"}
Calls == [reader : Readers \cup {0}, op : {"none", "view", "close"}, pc : CallPcs, ans : Answers]

ReaderTypeOK ==
    /\ toc \in [Readers -> Seq({"ok", "link", "syntax"})]
    /\ stage \in [Readers -> Stages]
    /\ tmp \subseteq Readers
    /\ pending \subseteq Readers \X Functions /\ solo \subseteq Readers \X Functions
    /\ call \in [Callers -> Calls]

\* A function is under way at one stage of its reader only.
StageOf(fn) == IF fn = "close" THEN "ready" ELSE fn
UnderWay ==
    \A r \in Readers, fn \in Functions : <<r, fn>> \in pending \cup solo => stage[r] = StageOf(fn)

\* A function of the initialization is in one place.
Filling == {"root", "nodes", "meta", "stream"}
Apart == \A r \in Readers, fn \in Filling : <<r, fn>> \in pending => <<r, fn>> \notin solo

\* A nodes function that runs by itself has run before.
RanBefore == \A r \in Readers : <<r, "nodes">> \in solo => r \in again

\* What the decoder, the map and the bucket have of a TOC that is stored once.
Blank(r) == dec[r] = 0 /\ md[r] = {} /\ db[r].nodes = {}
Filled(r) == md[r] = 1 .. Len(toc[r]) /\ db[r].nodes = 1 .. Len(toc[r])
Stored(r) ==
    /\ stage[r] \in {"footer", "root", "copy", "init", "nodes"} => Blank(r)
    /\ stage[r] \in {"store", "meta"} => Filled(r)
    /\ stage[r] \in {"index", "stream", "ready"} /\ db[r].exists => Complete(r)
StoredOnce == \A r \in Readers : r \notin again => Stored(r)

\* Who has got through waitInit has a reader that is ready, and stays so.
Through ==
    \A c \in Callers :
      /\ call[c].pc # "idle" => call[c].reader \in Readers
      /\ call[c].pc \in {"tx", "batch"} => stage[call[c].reader] = "ready"

ReaderInv ==
    /\ ReaderTypeOK /\ UnderWay /\ Apart /\ RanBefore /\ StoredOnce /\ Through
    /\ ViewsAreComplete /\ NoTempLeft

\* What a reader has by the stage it has come to, and what is enough at a stage.
LEMMA StoredBy ==
    ASSUME NEW r \in Readers
    PROVE  /\ Stored(r) /\ stage[r] \in {"root", "nodes"} => Blank(r)
           /\ Stored(r) /\ stage[r] = "meta" => Filled(r)
           /\ Stored(r) /\ stage[r] \in {"stream", "ready"} /\ db[r].exists => Complete(r)
           /\ stage'[r] = "copy" /\ Blank(r)' => Stored(r)'
           /\ stage'[r] = "store" /\ Filled(r)' => Stored(r)'
           /\ stage'[r] \in {"index", "ready"} /\ (db'[r].exists => Complete(r)') => Stored(r)'
           /\ stage'[r] = "failed" => Stored(r)'
  BY DEF Stored

\* What the fields of a bucket are.
LEMMA BucketFields ==
    ASSUME NEW b, NEW e, NEW n, NEW m, b = [exists |-> e, nodes |-> n, meta |-> m]
    PROVE  b.exists = e /\ b.nodes = n /\ b.meta = m
  OBVIOUS

\* A decoder that has consumed nothing has every entry before it.
LEMMA RestIsAll ==
    ASSUME NEW r \in Readers, dec[r] = 0 PROVE Rest(r) = 1 .. Len(toc[r])
  BY SMTT(60) DEF Rest

\* What the end of some calls does to the stages and to the operations.
LEMMA DoneKeeps ==
    ASSUME ReaderInv, NEW fs \in SUBSET (pending \cup solo), NEW ans \in {"ok", "error"}, Done(fs, ans)
    PROVE  /\ stage' \in [Readers -> Stages] /\ tmp' \subseteq Readers
           /\ call' \in [Callers -> Calls]
           /\ \A r \in Readers : stage[r] = "ready" => stage'[r] = "ready"
           /\ \A r \in Readers : <<r, stage[r]>> \notin fs => stage'[r] = stage[r]
           /\ \A r \in Readers : <<r, stage[r]>> \in fs => stage'[r] = StageAfter(stage[r], ans)
           /\ \A c \in Callers : /\ call'[c].reader = call[c].reader
                                 /\ call'[c].pc # "idle" => call[c].pc # "idle"
                                 /\ call'[c].pc \in {"tx", "batch"} => call[c].pc \in {"tx", "batch"}
                                 /\ call'[c].ans = "part" => call[c].ans = "part"
           /\ NoTempLeft'
  <1>1. \A r \in Readers : <<r, stage[r]>> \in fs => stage[r] \in {"root", "nodes", "meta", "stream"}
    <2> SUFFICES ASSUME NEW r \in Readers, <<r, stage[r]>> \in fs
                 PROVE  stage[r] \in {"root", "nodes", "meta", "stream"}
      OBVIOUS
    <2>1. <<r, stage[r]>> \in Readers \X Functions /\ <<r, stage[r]>> \in pending \cup solo
      BY DEF ReaderInv, ReaderTypeOK
    <2>2. stage[r] \in Functions
      BY <2>1
    <2>3. stage[r] = StageOf(stage[r])
      BY <2>1, <2>2 DEF ReaderInv, UnderWay
    <2>. QED BY <2>2, <2>3 DEF StageOf, Functions
  <1>a. /\ stage' = [r \in Readers |-> IF <<r, stage[r]>> \in fs THEN StageAfter(stage[r], ans) ELSE stage[r]]
        /\ tmp' = {r \in tmp : stage'[r] \notin {"ready", "failed"}}
    BY Zenon DEF Done
  <1>2. stage' \in [Readers -> Stages]
    BY <1>1, <1>a DEF StageAfter, ReaderInv, ReaderTypeOK, Stages
  <1>3. tmp' \subseteq Readers
    BY <1>a DEF ReaderInv, ReaderTypeOK
  <1>4. ASSUME NEW c \in Callers
        PROVE  /\ call'[c] \in Calls
               /\ call'[c].reader = call[c].reader
               /\ call'[c].pc # "idle" => call[c].pc # "idle"
               /\ call'[c].pc \in {"tx", "batch"} => call[c].pc \in {"tx", "batch"}
               /\ call'[c].ans = "part" => call[c].ans = "part"
    <2>1. call'[c] = IF call[c].pc = "batch" /\ <<call[c].reader, "close">> \in fs
                     THEN [call[c] EXCEPT !.pc = "done", !.ans = ans] ELSE call[c]
      BY Zenon DEF Done
    <2>2. call[c] \in Calls
      BY DEF ReaderInv, ReaderTypeOK
    <2>3. CASE call'[c] = call[c]
      BY <2>2, <2>3
    <2>4. CASE call[c].pc = "batch" /\ call'[c] = [call[c] EXCEPT !.pc = "done", !.ans = ans]
      <3>1. "done" \in CallPcs /\ ans \in Answers
        BY DEF CallPcs, Answers
      <3>2. call'[c] \in Calls /\ call'[c].reader = call[c].reader /\ call'[c].pc = "done" /\ call'[c].ans = ans
        BY <2>2, <2>4, <3>1, Zenon DEF Calls
      <3>. QED BY <2>4, <3>2
    <2>. QED BY <2>1, <2>3, <2>4, Zenon
  <1>5. DOMAIN call' = Callers /\ call' = [c \in Callers |-> call'[c]]
    BY Zenon DEF Done
  <1>6. \A r \in Readers : stage'[r] = IF <<r, stage[r]>> \in fs THEN StageAfter(stage[r], ans) ELSE stage[r]
    BY <1>a, Zenon
  <1>7. ASSUME NEW r \in tmp'
        PROVE  stage'[r] \in {"init", "nodes", "store", "meta", "index", "stream"}
    <2>1. r \in tmp /\ r \in Readers /\ stage'[r] \notin {"ready", "failed"}
      BY <1>7, <1>a DEF ReaderInv, ReaderTypeOK
    <2>2. stage[r] \in {"init", "nodes", "store", "meta", "index", "stream"}
      BY <2>1 DEF ReaderInv, NoTempLeft
    <2>3. CASE <<r, stage[r]>> \in fs
      <3>1. stage'[r] = StageAfter(stage[r], ans)
        BY <2>1, <2>3, <1>6, Zenon
      <3>. QED BY <3>1, <2>1, <2>2 DEF StageAfter
    <2>4. CASE <<r, stage[r]>> \notin fs
      <3>1. stage'[r] = stage[r]
        BY <2>1, <2>4, <1>6, Zenon
      <3>. QED BY <3>1, <2>2
    <2>. QED BY <2>3, <2>4
  <1>8. \A r \in Readers : stage[r] = "ready" => stage'[r] = "ready"
    <2> SUFFICES ASSUME NEW r \in Readers, stage[r] = "ready"
                 PROVE  stage'[r] = "ready"
      OBVIOUS
    <2>1. <<r, stage[r]>> \notin fs
      BY <1>1
    <2>. QED BY <2>1, <1>6, Zenon
  <1>. QED BY <1>2, <1>3, <1>4, <1>5, <1>6, <1>7, <1>8 DEF NoTempLeft

\* A transaction that commits, or a function by itself that fails, keeps what is stored.
LEMMA TransactionKeeps ==
    ASSUME ReaderInv, NEW fs \in SUBSET (pending \cup solo), NEW ans \in {"ok", "error"}, Done(fs, ans), Run(fs),
           IF ans = "ok" THEN CommitTx(fs) /\ \A f \in fs : Succeeds(f)
                 ELSE UNCHANGED db,
           pending' \subseteq pending, solo' \subseteq solo, 
           \A r \in Readers, fn \in Filling : <<r, fn>> \in pending' \cup solo' => <<r, fn>> \notin fs,
           ans = "error" => \A r \in Readers : <<r, "nodes">> \in fs => r \in again,
           UNCHANGED <<toc, again>>
    PROVE  ReaderInv'
  <1>1. ReaderTypeOK'
    BY DoneKeeps DEF ReaderInv, ReaderTypeOK
  <1>2. UnderWay'
    <2> SUFFICES ASSUME NEW r \in Readers, NEW fn \in Functions, <<r, fn>> \in (pending \cup solo)'
                 PROVE  stage'[r] = StageOf(fn)
      BY DEF UnderWay
    <2>1. stage[r] = StageOf(fn)
      BY DEF ReaderInv, UnderWay
    <2>2. CASE fn = "close"
      BY <2>1, <2>2, DoneKeeps DEF StageOf
    <2>3. CASE fn # "close"
      <3>1. fn \in Filling
        BY <2>3 DEF Filling, Functions
      <3>2. <<r, fn>> \notin fs
        BY <3>1
      <3>. QED BY <2>1, <2>3, <3>2, DoneKeeps DEF StageOf
    <2>. QED BY <2>2, <2>3
  <1>3. RanBefore' /\ Apart'
    BY DEF ReaderInv, RanBefore, Apart
  <1>4. Through'
    <2> SUFFICES ASSUME NEW c \in Callers
                 PROVE  /\ call'[c].pc # "idle" => call'[c].reader \in Readers
                        /\ call'[c].pc \in {"tx", "batch"} => stage'[call'[c].reader] = "ready"
      BY DEF Through
    <2>1. call[c].pc \in {"tx", "batch"} => call[c].reader \in Readers /\ stage[call[c].reader] = "ready"
      BY DEF ReaderInv, Through
    <2>2. call[c].pc # "idle" => call[c].reader \in Readers
      BY DEF ReaderInv, Through
    <2>. QED BY <2>1, <2>2, DoneKeeps
  <1>5. ViewsAreComplete'
    BY DoneKeeps DEF ReaderInv, ViewsAreComplete
  <1>6. ASSUME NEW r \in Readers, r \notin again
        PROVE  Stored(r)'
    <2>a. Stored(r)
      BY <1>6 DEF ReaderInv, StoredOnce
    <2>b. toc'[r] = toc[r]
      OBVIOUS
    <2>c. <<r, stage[r]>> \in fs => stage'[r] = StageAfter(stage[r], ans)
      BY DoneKeeps
    <2>1. \A fn \in Functions : <<r, fn>> \in fs => stage[r] = StageOf(fn)
      BY DEF ReaderInv, UnderWay
    <2>2. CASE \A fn \in Functions : <<r, fn>> \notin fs
      <3>1. /\ <<r, "root">> \notin fs /\ <<r, "nodes">> \notin fs
            /\ <<r, "meta">> \notin fs /\ <<r, "close">> \notin fs
        BY <2>2 DEF Functions
      <3>2. dec'[r] = dec[r] /\ md'[r] = md[r] /\ db'[r] = db[r]
        BY <3>1 DEF Run, CommitTx, Bucket
      <3>3. stage'[r] = stage[r]
        <4>1. <<r, stage[r]>> \notin fs
          BY <2>2 DEF ReaderInv, ReaderTypeOK
        <4>. QED BY <4>1, DoneKeeps
      <3>. QED BY <3>2, <3>3, <2>a, <2>b DEF Stored, Blank, Filled, Complete
    <2>3. CASE <<r, "root">> \in fs
      <3>1. stage[r] = "root" /\ <<r, "nodes">> \notin fs
        BY <2>1, <2>3 DEF StageOf, Functions
      <3>2. dec'[r] = 0 /\ md'[r] = {}
        <4>1. Blank(r)
          BY <2>a, <3>1, StoredBy
        <4>. QED BY <4>1, <3>1 DEF Run, Blank
      <3>3. CASE ans = "ok"
        <4>1. db'[r] = [exists |-> TRUE, nodes |-> {}, meta |-> {}]
          BY <2>3, <3>3 DEF CommitTx, Bucket
        <4>2. Blank(r)'
          <5>1. db'[r].nodes = {}
            BY <4>1, BucketFields
          <5>. QED BY <5>1, <3>2 DEF Blank
        <4>3. stage'[r] = "copy"
          BY <2>3, <2>c, <3>1, <3>3 DEF StageAfter
        <4>. QED BY <4>2, <4>3, StoredBy
      <3>4. CASE ans = "error"
        <4>1. stage'[r] = "failed"
          BY <2>3, <2>c, <3>1, <3>4 DEF StageAfter
        <4>. QED BY <4>1, StoredBy
      <3>. QED BY <3>3, <3>4
    <2>4. CASE <<r, "nodes">> \in fs
      <3>1. ans = "ok" /\ stage[r] = "nodes" /\ <<r, "root">> \notin fs
        BY <2>1, <2>4, <1>6 DEF StageOf, Functions
      <3>2. dec[r] = 0 /\ md[r] = {} /\ db[r].nodes = {}
        BY <3>1, <2>a, StoredBy DEF Blank
      <3>3. Rest(r) = 1 .. Len(toc[r])
        BY <3>2, RestIsAll
      <3>4. db[r].exists /\ Bad(r) = {}
        <4>1. Succeeds(<<r, "nodes">>)
          BY <3>1, <2>4
        <4>. QED BY <4>1 DEF Succeeds
      <3>5. md'[r] = Rest(r)
        <4>1. md'[r] = md[r] \cup StoredNodes(r)
          BY <2>4, <3>4 DEF Run
        <4>. QED BY <4>1, <3>2, <3>4 DEF StoredNodes
      <3>6. db'[r].nodes = Rest(r)
        <4>1. db'[r] = [exists |-> TRUE, nodes |-> db[r].nodes \cup Rest(r), meta |-> db[r].meta]
          BY <3>1, <2>4 DEF CommitTx, Bucket
        <4>2. db'[r].nodes = db[r].nodes \cup Rest(r)
          BY <4>1, SMTT(60)
        <4>. QED BY <4>2, <3>2
      <3>7. stage'[r] = "store"
        BY <2>4, <2>c, <3>1 DEF StageAfter
      <3>8. Filled(r)'
        BY <2>b, <3>3, <3>5, <3>6 DEF Filled
      <3>. QED BY <3>7, <3>8, StoredBy
    <2>5. CASE <<r, "meta">> \in fs
      <3>1. stage[r] = "meta" /\ <<r, "root">> \notin fs /\ <<r, "nodes">> \notin fs
        BY <2>1, <2>5 DEF StageOf, Functions
      <3>2. md[r] = 1 .. Len(toc[r]) /\ db[r].nodes = 1 .. Len(toc[r])
        BY <3>1, <2>a, StoredBy DEF Filled
      <3>3. CASE ans = "ok"
        <4>1. db'[r] = [exists |-> TRUE, nodes |-> db[r].nodes, meta |-> md[r]]
          BY <2>5, <3>1, <3>3 DEF CommitTx, Bucket
        <4>2. stage'[r] = "index"
          BY <2>5, <2>c, <3>1, <3>3 DEF StageAfter
        <4>3. Complete(r)'
          <5>1. db'[r].nodes = db[r].nodes /\ db'[r].meta = md[r]
            BY <4>1, SMTT(60)
          <5>. QED BY <5>1, <2>b, <3>2 DEF Complete
        <4>. QED BY <4>2, <4>3, StoredBy
      <3>4. CASE ans = "error"
        <4>1. stage'[r] = "failed"
          BY <2>5, <2>c, <3>1, <3>4 DEF StageAfter
        <4>. QED BY <4>1, StoredBy
      <3>. QED BY <3>3, <3>4
    <2>6. CASE <<r, "stream">> \in fs
      <3>1. /\ stage[r] = "stream" /\ <<r, "root">> \notin fs /\ <<r, "nodes">> \notin fs
            /\ <<r, "meta">> \notin fs /\ <<r, "close">> \notin fs
        BY <2>1, <2>6 DEF StageOf, Functions
      <3>2. db'[r] = db[r]
        BY <3>1 DEF CommitTx, Bucket
      <3>3. stage'[r] \in {"ready", "failed"}
        BY <2>6, <2>c, <3>1 DEF StageAfter
      <3>4. db'[r].exists => Complete(r)'
        <4>1. db[r].exists => Complete(r)
          BY <2>a, <3>1, StoredBy
        <4>. QED BY <4>1, <2>b, <3>2 DEF Complete
      <3>. QED BY <3>3, <3>4, StoredBy
    <2>7. CASE <<r, "close">> \in fs
      <3>1. /\ stage[r] = "ready" /\ <<r, "root">> \notin fs /\ <<r, "nodes">> \notin fs
            /\ <<r, "meta">> \notin fs
        BY <2>1, <2>7 DEF StageOf, Functions
      <3>2. stage'[r] = "ready"
        BY <3>1, DoneKeeps
      <3>3. CASE ans = "ok"
        <4>1. db'[r] = Empty
          BY <2>7, <3>1, <3>3 DEF CommitTx, Bucket
        <4>2. ~db'[r].exists
          BY <4>1, BucketFields DEF Empty
        <4>. QED BY <4>2, <3>2, StoredBy
      <3>4. CASE ans = "error"
        <4>1. db'[r] = db[r]
          BY <3>4
        <4>2. db[r].exists => Complete(r)
          BY <2>a, <3>1, StoredBy
        <4>3. db'[r].exists => Complete(r)'
          BY <4>1, <4>2, <2>b DEF Complete
        <4>. QED BY <4>3, <3>2, StoredBy
      <3>. QED BY <3>3, <3>4
    <2>. QED BY <2>2, <2>3, <2>4, <2>5, <2>6, <2>7 DEF Functions
  <1>. QED BY <1>1, <1>2, <1>3, <1>4, <1>5, <1>6, DoneKeeps DEF ReaderInv, StoredOnce

\* A transaction that is rolled back leaves what the readers that did not run a nodes
\* function in it have stored.
LEMMA RollbackKeeps ==
    ASSUME ReaderInv, NEW f \in pending, NEW before \in SUBSET pending, BatchFails(f, before)
    PROVE  ReaderInv'
  <1>1. ReaderTypeOK' /\ UnderWay' /\ Through' /\ NoTempLeft'
    BY SMTT(60) DEF BatchFails, ReaderInv, ReaderTypeOK, UnderWay, Through, NoTempLeft
  <1>2. \A r \in Readers : r \in again => r \in again'
    BY DEF BatchFails
  <1>3. RanBefore' /\ Apart'
    BY <1>2 DEF BatchFails, ReaderInv, RanBefore, Apart
  <1>4. ViewsAreComplete'
    BY DEF BatchFails, ReaderInv, ViewsAreComplete
  <1>5. ASSUME NEW r \in Readers, r \notin again'
        PROVE  Stored(r)'
    <2>1. r \notin again /\ <<r, "nodes">> \notin before \cup {f}
      BY <1>5 DEF BatchFails
    <2>2. dec'[r] = dec[r] /\ md'[r] = md[r]
      BY <2>1 DEF BatchFails, Run
    <2>. QED BY <2>1, <2>2 DEF BatchFails, ReaderInv, StoredOnce, Stored, Blank, Filled, Complete
  <1>. QED BY <1>1, <1>3, <1>4, <1>5 DEF ReaderInv, StoredOnce

\* The call of c becomes y, in an operation of a user.
CallBecomes(c, y) ==
    /\ UNCHANGED <<toc, stage, tmp, dec, md, db, solo, again>>
    /\ pending' = pending \/ (call[c].pc = "tx" /\ pending' = pending \cup {<<call[c].reader, "close">>})
    /\ call' = [call EXCEPT ![c] = y]
    /\ y.pc # "idle" => y.reader \in Readers
    /\ y.pc \in {"tx", "batch"} => stage[y.reader] = "ready"
    /\ y.ans = "part" => y.reader \in again

\* An operation of a user keeps what is stored.
LEMMA OperationKeeps ==
    ASSUME ReaderInv, NEW c \in Callers, NEW y \in Calls, CallBecomes(c, y)
    PROVE  ReaderInv'
  <1>. USE DEF CallBecomes
  <1>1. call \in [Callers -> Calls] /\ call' \in [Callers -> Calls]
    BY DEF ReaderInv, ReaderTypeOK
  <1>2. \A b \in Callers : call'[b] = IF b = c THEN y ELSE call[b]
    BY <1>1
  <1>3. call[c].pc = "tx" => call[c].reader \in Readers /\ stage[call[c].reader] = "ready"
    BY DEF ReaderInv, Through
  <1>4. ReaderTypeOK'
    BY <1>1, <1>3, SMTT(60) DEF ReaderInv, ReaderTypeOK, Functions
  <1>5. UnderWay'
    <2> SUFFICES ASSUME NEW r \in Readers, NEW fn \in Functions, <<r, fn>> \in (pending \cup solo)'
                 PROVE  stage[r] = StageOf(fn)
      BY DEF UnderWay, StageOf
    <2>1. CASE <<r, fn>> \in pending \cup solo
      BY <2>1 DEF ReaderInv, UnderWay
    <2>2. CASE <<r, fn>> = <<call[c].reader, "close">> /\ call[c].pc = "tx"
      BY <2>2, <1>3 DEF StageOf
    <2>. QED BY <2>1, <2>2
  <1>6. Through' /\ ViewsAreComplete'
    BY <1>2, SMTT(60) DEF ReaderInv, Through, ViewsAreComplete
  <1>7. RanBefore' /\ NoTempLeft' /\ Apart'
    BY DEF ReaderInv, RanBefore, NoTempLeft, Apart, Filling
  <1>8. StoredOnce'
    BY DEF ReaderInv, StoredOnce, Stored, Blank, Filled, Complete
  <1>. QED BY <1>4, <1>5, <1>6, <1>7, <1>8 DEF ReaderInv

\* A step of NewReader or of the background initialization keeps what is stored.
LEMMA SubmitKeeps ==
    ASSUME ReaderInv, NEW r \in Readers,
           FindTOC(r) \/ CopyTOC(r) \/ InitNodes(r) \/ InitMetadata(r) \/ InitStreams(r)
    PROVE  ReaderInv'
  <1>1. PICK to \in Stages :
          /\ stage' = [stage EXCEPT ![r] = to]
          /\ <<stage[r], to>> \in {<<"footer", "root">>, <<"footer", "refused">>, <<"copy", "init">>,
                                   <<"copy", "refused">>, <<"init", "nodes">>, <<"init", "failed">>,
                                   <<"store", "meta">>, <<"index", "stream">>, <<"index", "ready">>}
          /\ pending' = pending \/ (to \in {"root", "nodes", "meta", "stream"} /\ pending' = pending \cup {<<r, to>>})
          /\ \/ tmp' = tmp /\ to \notin {"ready", "failed"}
             \/ tmp' = tmp \cup {r} /\ to = "init"
             \/ tmp' = tmp \ {r} /\ to \in {"ready", "failed"}
          /\ UNCHANGED <<toc, dec, md, db, solo, closing, again, call>>
    <2>1. CASE FindTOC(r) BY <2>1 DEF FindTOC, Submit, Stages
    <2>2. CASE CopyTOC(r) BY <2>2 DEF CopyTOC, Stages
    <2>3. CASE InitNodes(r) BY <2>3 DEF InitNodes, InitEnds, Submit, Stages
    <2>4. CASE InitMetadata(r) BY <2>4 DEF InitMetadata, Submit, Stages
    <2>5. CASE InitStreams(r) BY <2>5 DEF InitStreams, InitEnds, Submit, Stages
    <2>. QED BY <2>1, <2>2, <2>3, <2>4, <2>5
  <1>2. stage \in [Readers -> Stages] /\ stage' \in [Readers -> Stages]
    BY <1>1 DEF ReaderInv, ReaderTypeOK
  <1>3. \A q \in Readers : stage'[q] = IF q = r THEN to ELSE stage[q]
    BY <1>1, <1>2
  <1>4. \A fn \in Functions : <<r, fn>> \notin pending \cup solo
    <2>1. stage[r] \in {"footer", "copy", "init", "store", "index"}
      BY <1>1
    <2>2. ASSUME NEW fn \in Functions PROVE StageOf(fn) \in {"root", "nodes", "meta", "stream", "ready"}
      BY DEF StageOf, Functions
    <2>. QED BY <2>1, <2>2 DEF ReaderInv, UnderWay
  <1>5. ReaderTypeOK'
    BY <1>1, <1>2, SMTT(60) DEF ReaderInv, ReaderTypeOK, Functions
  <1>6. UnderWay'
    <2> SUFFICES ASSUME NEW q \in Readers, NEW fn \in Functions, <<q, fn>> \in (pending \cup solo)'
                 PROVE  stage'[q] = StageOf(fn)
      BY DEF UnderWay, StageOf
    <2>1. CASE q # r
      <3>1. <<q, fn>> \in pending \cup solo
        BY <1>1, <2>1
      <3>. QED BY <3>1, <2>1, <1>3 DEF ReaderInv, UnderWay
    <2>2. CASE q = r
      <3>1. fn = to /\ to \in {"root", "nodes", "meta", "stream"}
        BY <1>1, <1>4, <2>2
      <3>. QED BY <3>1, <2>2, <1>3 DEF StageOf
    <2>. QED BY <2>1, <2>2
  <1>7. Through'
    BY <1>1, <1>3 DEF ReaderInv, Through
  <1>8. NoTempLeft'
    BY <1>1, <1>3 DEF ReaderInv, ReaderTypeOK, NoTempLeft
  <1>9. RanBefore' /\ ViewsAreComplete' /\ Apart'
    BY <1>1, <1>4 DEF ReaderInv, RanBefore, ViewsAreComplete, Apart, Filling, Functions
  <1>10. StoredOnce'
    <2> SUFFICES ASSUME NEW q \in Readers, q \notin again
                 PROVE  Stored(q)'
      BY <1>1 DEF StoredOnce
    <2>1. /\ Stored(q)
          /\ Blank(q)' = Blank(q) /\ Filled(q)' = Filled(q) /\ Complete(q)' = Complete(q) /\ db'[q] = db[q]
      BY <1>1 DEF ReaderInv, StoredOnce, Blank, Filled, Complete
    <2>2. CASE q # r
      <3>1. stage'[q] = stage[q]
        BY <1>3, <2>2
      <3>. QED BY <2>1, <3>1 DEF Stored
    <2>3. CASE q = r
      <3>1. stage'[q] = to
        BY <1>3, <2>3
      <3>. QED BY <1>1, <2>1, <2>3, <3>1 DEF Stored
    <2>. QED BY <2>2, <2>3
  <1>. QED BY <1>5, <1>6, <1>7, <1>8, <1>9, <1>10 DEF ReaderInv

\* The readers of the metadata database keep the invariant.
THEOREM ReaderInvariant == ReaderSpec => []ReaderInv
  <1>1. ReaderInit => ReaderInv
    <2> SUFFICES ASSUME ReaderInit PROVE ReaderInv
      OBVIOUS
    <2>1. NoCall \in Calls /\ NoCall.pc = "idle" /\ NoCall.ans = "none"
      BY DEF NoCall, Calls, CallPcs, Answers
    <2>2. ReaderTypeOK
      BY <2>1, MetadataReaderAssumption DEF ReaderInit, ReaderTypeOK, Stages
    <2>3. UnderWay /\ Apart /\ RanBefore /\ NoTempLeft
      BY DEF ReaderInit, UnderWay, Apart, RanBefore, NoTempLeft
    <2>4. Through /\ ViewsAreComplete
      BY <2>1 DEF ReaderInit, Through, ViewsAreComplete
    <2>5. StoredOnce
      BY DEF ReaderInit, StoredOnce, Stored, Blank, Empty
    <2>. QED BY <2>2, <2>3, <2>4, <2>5 DEF ReaderInv
  <1>2. ReaderInv /\ [ReaderNext]_dbVars => ReaderInv'
    <2> SUFFICES ASSUME ReaderInv, [ReaderNext]_dbVars PROVE ReaderInv'
      OBVIOUS
    <2>1. ASSUME NEW r \in Readers, FindTOC(r) \/ CopyTOC(r) \/ InitNodes(r) \/ InitMetadata(r) \/ InitStreams(r) PROVE ReaderInv'
      BY <2>1, SubmitKeeps
    <2>2. CASE RunBatch
      <3>1. PICK fs : fs = pending
        OBVIOUS
      <3>2. Run(fs) /\ CommitTx(fs) /\ Done(fs, "ok") /\ \A f \in fs : Succeeds(f)
        BY <2>2, <3>1, Zenon DEF RunBatch, Run, CommitTx, Bucket, Done
      <3>3. fs \in SUBSET (pending \cup solo) /\ pending' \subseteq pending /\ solo' \subseteq solo
        BY <2>2, <3>1 DEF RunBatch
      <3>4. \A r \in Readers, fn \in Filling : <<r, fn>> \in pending' \cup solo' => <<r, fn>> \notin fs
        BY <2>2, <3>1 DEF RunBatch, ReaderInv, Apart
      <3>5. UNCHANGED <<toc, again>>
        BY <2>2 DEF RunBatch
      <3>. QED BY <3>2, <3>3, <3>4, <3>5, TransactionKeeps
    <2>3. ASSUME NEW f \in pending, NEW before \in SUBSET pending, BatchFails(f, before) PROVE ReaderInv'
      BY <2>3, RollbackKeeps
    <2>4. ASSUME NEW f \in solo, RunSolo(f) PROVE ReaderInv'
      <3>1. {f} \in SUBSET (pending \cup solo) /\ pending' \subseteq pending /\ solo' \subseteq solo /\ UNCHANGED <<toc, again>>
        BY <2>4 DEF RunSolo
      <3>2. \A r \in Readers, fn \in Filling : <<r, fn>> \in pending' \cup solo' => <<r, fn>> \notin {f}
        BY <2>4 DEF RunSolo, ReaderInv, Apart
      <3>3. \A r \in Readers : <<r, "nodes">> \in {f} => r \in again
        BY DEF ReaderInv, RanBefore
      <3>4. CASE Succeeds(f)
        <4>1. Run({f}) /\ CommitTx({f}) /\ Done({f}, "ok") /\ \A h \in {f} : Succeeds(h)
          BY <2>4, <3>4, Zenon DEF RunSolo, Done
        <4>. QED BY <3>1, <3>2, <3>3, <4>1, TransactionKeeps
      <3>5. CASE ~Succeeds(f)
        <4>1. Run({f}) /\ UNCHANGED db /\ Done({f}, "error")
          BY <2>4, <3>5, Zenon DEF RunSolo, Done
        <4>. QED BY <3>1, <3>2, <3>3, <4>1, TransactionKeeps
      <3>. QED BY <3>4, <3>5
    <2>5. ASSUME NEW c \in Callers, NEW r \in Readers, NEW op \in {"view", "close"}, Operate(c, r, op) PROVE ReaderInv'
      <3>1. [reader |-> r, op |-> op, pc |-> "wait", ans |-> "none"] \in Calls
        BY DEF Calls, CallPcs, Answers
      <3>2. PICK y \in Calls : y = [reader |-> r, op |-> op, pc |-> "wait", ans |-> "none"]
        BY <3>1
      <3>3. y.pc = "wait" /\ y.reader \in Readers /\ y.ans = "none"
        BY <3>2
      <3>4. CallBecomes(c, y)
        BY <2>5, <3>2, <3>3 DEF Operate, readerVars, CallBecomes
      <3>. QED BY <3>4, OperationKeeps
    <2>6. ASSUME NEW c \in Callers, waitInit(c) \/ View(c) \/ CloseReader(c) \/ Return(c) PROVE ReaderInv'
      <3>. DEFINE x == call[c]
      <3>. x \in Calls /\ call \in [Callers -> Calls]
        BY DEF ReaderInv, ReaderTypeOK
      <3>1. /\ x.pc # "idle" => x.reader \in Readers
            /\ x.pc \in {"tx", "batch"} => stage[x.reader] = "ready"
            /\ x.ans = "part" => x.reader \in again
            /\ x.reader \in Readers /\ x.reader \notin again => Stored(x.reader)
        BY DEF ReaderInv, Through, ViewsAreComplete, StoredOnce
      <3>3. ASSUME NEW p \in CallPcs
            PROVE  LET y == [x EXCEPT !.pc = p] IN
                   y \in Calls /\ y.reader = x.reader /\ y.pc = p /\ y.ans = x.ans
        BY Zenon DEF Calls
      <3>4. "done" \in CallPcs /\ "tx" \in CallPcs /\ "batch" \in CallPcs /\ "error" \in Answers /\ "all" \in Answers /\ "part" \in Answers
        BY DEF CallPcs, Answers
      <3>5. CASE waitInit(c) /\ stage[x.reader] = "failed"
        <4>1. PICK y \in Calls : /\ y = [x EXCEPT !.pc = "done", !.ans = "error"]
                                 /\ y.reader = x.reader /\ y.pc = "done" /\ y.ans = "error"
          <5>. DEFINE z == [x EXCEPT !.pc = "done", !.ans = "error"]
          <5>1. z \in Calls /\ z.reader = x.reader /\ z.pc = "done" /\ z.ans = "error"
            BY <3>4, Zenon DEF Calls
          <5>. QED BY <5>1, Zenon
        <4>2. CallBecomes(c, y)
          BY <3>1, <3>5, <4>1 DEF waitInit, readerVars, CallBecomes
        <4>. QED BY <4>2, OperationKeeps
      <3>6. CASE waitInit(c) /\ stage[x.reader] # "failed"
        <4>1. PICK y \in Calls : /\ y = [x EXCEPT !.pc = "tx"]
                                 /\ y.reader = x.reader /\ y.pc = "tx" /\ y.ans = x.ans
          BY <3>3, <3>4, Zenon
        <4>2. CallBecomes(c, y)
          BY <3>1, <3>6, <4>1 DEF waitInit, readerVars, CallBecomes
        <4>. QED BY <4>2, OperationKeeps
      <3>7. CASE View(c)
        <4>1. PICK a \in Answers : a = IF ~db[x.reader].exists THEN "error" ELSE IF Complete(x.reader) THEN "all" ELSE "part"
          BY <3>4
        <4>2. PICK y \in Calls : /\ y = [x EXCEPT !.pc = "done", !.ans = a]
                                 /\ y.reader = x.reader /\ y.pc = "done" /\ y.ans = a
          <5>. DEFINE z == [x EXCEPT !.pc = "done", !.ans = a]
          <5>1. z \in Calls /\ z.reader = x.reader /\ z.pc = "done" /\ z.ans = a
            BY <3>4, Zenon DEF Calls
          <5>. QED BY <5>1, Zenon
        <4>3. a = "part" => x.reader \in again
          BY <3>1, <3>7, <4>1 DEF View, Stored
        <4>4. CallBecomes(c, y)
          BY <3>1, <3>7, <4>1, <4>2, <4>3 DEF View, readerVars, CallBecomes
        <4>. QED BY <4>4, OperationKeeps
      <3>8. CASE CloseReader(c)
        <4>1. PICK y \in Calls : /\ y = [x EXCEPT !.pc = "batch"]
                                 /\ y.reader = x.reader /\ y.pc = "batch" /\ y.ans = x.ans
          BY <3>3, <3>4, Zenon
        <4>2. CallBecomes(c, y)
          BY <3>1, <3>8, <4>1 DEF CloseReader, readerVars, CallBecomes
        <4>. QED BY <4>2, OperationKeeps
      <3>9. CASE Return(c)
        <4>1. NoCall \in Calls /\ NoCall.pc = "idle" /\ NoCall.ans = "none"
          BY DEF NoCall, Calls, CallPcs, Answers
        <4>2. PICK y \in Calls : y = NoCall /\ y.pc = "idle" /\ y.ans = "none"
          BY <4>1
        <4>3. CallBecomes(c, y)
          BY <3>9, <4>2 DEF Return, readerVars, CallBecomes
        <4>. QED BY <4>3, OperationKeeps
      <3>. QED BY <2>6, <3>5, <3>6, <3>7, <3>8, <3>9
    <2>7. CASE UNCHANGED dbVars
      <3>. UNCHANGED <<toc, stage, tmp, dec, md, db, pending, solo, again, call>>
        BY <2>7 DEF dbVars, readerVars
      <3>1. ReaderTypeOK'
        BY DEF ReaderInv, ReaderTypeOK
      <3>2. UnderWay' /\ Apart' /\ RanBefore'
        BY DEF ReaderInv, UnderWay, Apart, RanBefore
      <3>3. StoredOnce'
        BY DEF ReaderInv, StoredOnce, Stored, Blank, Filled, Complete
      <3>4. Through' /\ ViewsAreComplete' /\ NoTempLeft'
        BY DEF ReaderInv, Through, ViewsAreComplete, NoTempLeft
      <3>. QED BY <3>1, <3>2, <3>3, <3>4 DEF ReaderInv
    <2>. QED BY <2>1, <2>2, <2>3, <2>4, <2>5, <2>6, <2>7, Zenon DEF ReaderNext
  <1>. QED BY <1>1, <1>2, PTL DEF ReaderSpec

\* An operation on the metadata database that gets through waitInit sees every entry of
\* the TOC, unless a failure of a common transaction had the entries of its reader stored
\* again (reader.go:view, initNodes), for any numbers of readers and users and any TOCs.
THEOREM CompleteViews == ReaderSpec => []ViewsAreComplete
  <1>1. ReaderInv => ViewsAreComplete
    BY DEF ReaderInv
  <1>. QED BY <1>1, ReaderInvariant, PTL

\* The temporary copy of a TOC is gone when the initialization has ended (reader.go:init).
THEOREM TempsGo == ReaderSpec => []NoTempLeft
  <1>1. ReaderInv => NoTempLeft
    BY DEF ReaderInv
  <1>. QED BY <1>1, ReaderInvariant, PTL

\* A reader has at most one function under way in Batch, so the functions of a transaction
\* are of different readers.
OneFunction == \A f, h \in pending \cup solo : f[1] = h[1] => f = h

\* It is so in every state (reader.go: init, initNodes and Close call Batch one after the other).
THEOREM OneFunctionEach == ReaderSpec => []OneFunction
  <1>1. ReaderInv => OneFunction
    <2> SUFFICES ASSUME ReaderInv, NEW f \in pending \cup solo, NEW h \in pending \cup solo, f[1] = h[1]
                 PROVE  f = h
      BY DEF OneFunction
    <2>1. f \in Readers \X Functions /\ h \in Readers \X Functions
      BY DEF ReaderInv, ReaderTypeOK
    <2>2. f = <<f[1], f[2]>> /\ h = <<h[1], h[2]>>
      BY <2>1, SMTT(60)
    <2>3. stage[f[1]] = StageOf(f[2]) /\ stage[h[1]] = StageOf(h[2])
      BY <2>1, <2>2 DEF ReaderInv, UnderWay
    <2>4. f[2] = h[2]
      BY <2>1, <2>3, SMTT(60) DEF StageOf, Functions
    <2>. QED BY <2>2, <2>4
  <1>. QED BY <1>1, ReaderInvariant, PTL
=============================================================================
