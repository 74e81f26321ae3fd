---------------------------- MODULE ManagerProofs ----------------------------
(***************************************************************************)
(* Theorems about the two managers that share work among goroutines: the   *)
(* background task manager (TaskManager, task/task.go) and, below, the     *)
(* layer manager of the store (LayerManager over RefPool).                 *)
(*                                                                         *)
(* The task manager: its safety invariants for every number of prioritized *)
(* and background tasks and every concurrency.                             *)
(***************************************************************************)
EXTENDS TaskManager, LayerManager, FiniteSetTheorems, TLAPS

\* Leaves go to SMT, unless they name another prover.
USE SMTT(60)

\* The types without the two facts that need a count of set elements.
LocalTypeOK ==
    /\ prioritizedTasks \in Int
    /\ prio \in [Prio -> PrioPC]
    /\ bg \in [Bg -> BgPC]
    /\ condL \in Bg \cup {NoOne}
    /\ sem \in Nat
    /\ notify \in [Bg -> {"open", "closed"}]
    /\ do \in [Bg -> {"none", "running", "done"}]
    /\ ctx \in [Bg -> {"live", "cancelled", "expired"}]
    /\ orphans \in [Bg -> 0..MaxOrphans]

\* The prioritized tasks that the counter stands for.
Counted == {p \in Prio : prio[p] \in {"running", "silence"}}

\* The inductive invariant.  An execution exists only inside the select, and
\* its channel is open only while the counter is zero.  Whoever tests the
\* counter under L, or is about to wait, holds L; and from then until the
\* broadcast some prioritized task has still to broadcast.
IInv ==
    /\ LocalTypeOK
    /\ prioritizedTasks = Cardinality(Counted)
    /\ sem + Cardinality(SemHolders) = Concurrency
    /\ \A b \in Bg : do[b] # "none" => bg[b] = "select"
    /\ \A b \in Bg : bg[b] = "select" /\ notify[b] = "open" => prioritizedTasks = 0
    /\ \A b \in Bg : bg[b] \in {"check", "wait"} => condL = b
    /\ (\E b \in Bg : bg[b] \in {"wait", "waiting"}) => \E p \in Prio : prio[p] # "idle"

\* An element that leaves or joins a finite set changes its cardinality by one.
LEMMA CardinalityStep ==
    ASSUME NEW S, IsFiniteSet(S), NEW x
    PROVE  /\ Cardinality(S) \in Nat
           /\ x \notin S => Cardinality(S \cup {x}) = Cardinality(S) + 1
           /\ x \in S => Cardinality(S \ {x}) = Cardinality(S) - 1
  BY FS_CardinalityType, FS_AddElement, FS_RemoveElement, ZenonT(60)

\* Finitely many prioritized tasks are counted.
LEMMA FiniteCounted == IsFiniteSet(Counted)
  BY ConstantsAssumption, FS_Subset DEF Counted

\* Finitely many tasks hold a unit of the semaphore.
LEMMA FiniteHolders == IsFiniteSet(SemHolders)
  BY ConstantsAssumption, FS_Subset DEF SemHolders

\* Every step preserves the types, whatever it does to the two counters.
LEMMA LocalTypes == LocalTypeOK /\ [Next]_vars => LocalTypeOK'
  <1> SUFFICES ASSUME LocalTypeOK, [Next]_vars PROVE LocalTypeOK'
    OBVIOUS
  <1> USE ConstantsAssumption DEF LocalTypeOK, PrioPC, BgPC
  <1>1. ASSUME NEW p \in Prio, PrioNext(p) PROVE LocalTypeOK'
    BY <1>1 DEF PrioNext, DoPrioritizedTask, DonePrioritizedTask, SilenceOver, Broadcast
  <1>2. ASSUME NEW b \in Bg, BgStep(b) PROVE LocalTypeOK'
    <2>1. CASE LoopTest(b) BY <2>1 DEF LoopTest
    <2>2. CASE LockCond(b) BY <2>2 DEF LockCond
    <2>3. CASE CheckUnderLock(b) BY <2>3 DEF CheckUnderLock
    <2>4. CASE Wait(b) BY <2>4 DEF Wait
    <2>5. CASE WaitReturns(b) BY <2>5 DEF WaitReturns
    <2>6. CASE ReadNotify(b) BY <2>6 DEF ReadNotify
    <2>7. CASE SelectNotified(b) BY <2>7 DEF SelectNotified
    <2>8. CASE SelectDone(b) BY <2>8 DEF SelectDone
    <2> QED BY <1>2, <2>1, <2>2, <2>3, <2>4, <2>5, <2>6, <2>7, <2>8 DEF BgStep
  <1>3. ASSUME NEW b \in Bg, Acquire(b) \/ ContextExpires(b) \/ DoReturns(b) \/ OrphanReturns(b)
        PROVE LocalTypeOK'
    BY <1>3 DEF Acquire, ContextExpires, DoReturns, OrphanReturns
  <1>4. CASE UNCHANGED vars
    BY <1>4 DEF vars
  <1> QED BY <1>1, <1>2, <1>3, <1>4 DEF Next, BgNext

\* A step of a prioritized task preserves the inductive invariant.
LEMMA PrioStep ==
    ASSUME IInv, NEW p \in Prio, PrioNext(p)
    PROVE  IInv'
  <1> USE ConstantsAssumption
  <1>t. LocalTypeOK'
    BY LocalTypes DEF IInv, Next
  <1>c. /\ IsFiniteSet(Counted)
        /\ Cardinality(Counted) \in Nat
        /\ p \notin Counted => Cardinality(Counted \cup {p}) = Cardinality(Counted) + 1
        /\ p \in Counted => Cardinality(Counted \ {p}) = Cardinality(Counted) - 1
    BY FiniteCounted, CardinalityStep, ZenonT(60)
  <1>1. CASE DoPrioritizedTask(p)
    <2>1. Counted' = Counted \cup {p} /\ p \notin Counted
      BY <1>1 DEF DoPrioritizedTask, Counted, IInv, LocalTypeOK
    <2>2. SemHolders' = SemHolders
      BY <1>1 DEF DoPrioritizedTask, SemHolders
    <2> QED BY <1>1, <1>t, <1>c, <2>1, <2>2 DEF DoPrioritizedTask, IInv, LocalTypeOK
  <1>2. CASE DonePrioritizedTask(p)
    <2>1. Counted' = Counted
      BY <1>2 DEF DonePrioritizedTask, Counted, IInv, LocalTypeOK
    <2>2. SemHolders' = SemHolders
      BY <1>2 DEF DonePrioritizedTask, SemHolders
    <2> QED BY <1>2, <1>t, <2>1, <2>2 DEF DonePrioritizedTask, IInv, LocalTypeOK
  <1>3. CASE SilenceOver(p)
    <2>1. Counted' = Counted \ {p} /\ p \in Counted
      BY <1>3 DEF SilenceOver, Counted, IInv, LocalTypeOK
    <2>2. SemHolders' = SemHolders
      BY <1>3 DEF SilenceOver, SemHolders
    <2>3. prioritizedTasks # 0
      BY <1>c, <2>1, FS_EmptySet DEF IInv
    <2> QED BY <1>3, <1>t, <1>c, <2>1, <2>2, <2>3 DEF SilenceOver, IInv, LocalTypeOK
  <1>4. CASE Broadcast(p)
    <2>1. Counted' = Counted
      BY <1>4 DEF Broadcast, Counted, IInv, LocalTypeOK
    <2>2. SemHolders' = SemHolders
      BY <1>4 DEF Broadcast, SemHolders, IInv, LocalTypeOK
    <2>3. \A b \in Bg : bg'[b] \notin {"wait", "waiting", "check"}
      BY <1>4 DEF Broadcast, IInv, LocalTypeOK
    <2>4. \A b \in Bg : bg'[b] = "select" <=> bg[b] = "select"
      BY <1>4 DEF Broadcast, IInv, LocalTypeOK
    <2> QED BY <1>4, <1>t, <2>1, <2>2, <2>3, <2>4 DEF Broadcast, IInv
  <1> QED BY <1>1, <1>2, <1>3, <1>4 DEF PrioNext

\* So does a step of an invocation or of an execution of its task.
LEMMA BgStepPreserves ==
    ASSUME IInv, NEW b \in Bg, BgNext(b)
    PROVE  IInv'
  <1> USE ConstantsAssumption
  <1>t. LocalTypeOK'
    BY LocalTypes DEF IInv, Next
  <1>c. /\ IsFiniteSet(SemHolders)
        /\ Cardinality(SemHolders) \in Nat
        /\ b \notin SemHolders => Cardinality(SemHolders \cup {b}) = Cardinality(SemHolders) + 1
        /\ b \in SemHolders => Cardinality(SemHolders \ {b}) = Cardinality(SemHolders) - 1
    BY FiniteHolders, CardinalityStep, ZenonT(60)
  <1>k. ASSUME prio' = prio PROVE Counted' = Counted
    BY <1>k DEF Counted
  <1>w. prioritizedTasks > 0 => \E p \in Prio : prio[p] # "idle"
    BY FS_EmptySet DEF IInv, Counted
  <1>1. CASE LoopTest(b)
    <2>1. SemHolders' = SemHolders
      BY <1>1 DEF LoopTest, SemHolders, IInv, LocalTypeOK
    <2> QED BY <1>1, <1>t, <1>k, <2>1 DEF LoopTest, IInv, LocalTypeOK
  <1>2. CASE LockCond(b)
    <2>1. SemHolders' = SemHolders
      BY <1>2 DEF LockCond, SemHolders, IInv, LocalTypeOK
    <2> QED BY <1>2, <1>t, <1>k, <2>1 DEF LockCond, IInv, LocalTypeOK
  <1>3. CASE CheckUnderLock(b)
    <2>1. SemHolders' = SemHolders
      BY <1>3 DEF CheckUnderLock, SemHolders, IInv, LocalTypeOK
    <2> QED BY <1>3, <1>t, <1>k, <1>w, <2>1 DEF CheckUnderLock, IInv, LocalTypeOK
  <1>4. CASE Wait(b)
    <2>1. SemHolders' = SemHolders
      BY <1>4 DEF Wait, SemHolders, IInv, LocalTypeOK
    <2> QED BY <1>4, <1>t, <1>k, <2>1 DEF Wait, IInv, LocalTypeOK
  <1>5. CASE WaitReturns(b)
    <2>1. SemHolders' = SemHolders
      BY <1>5 DEF WaitReturns, SemHolders, IInv, LocalTypeOK
    <2> QED BY <1>5, <1>t, <1>k, <2>1 DEF WaitReturns, IInv, LocalTypeOK
  <1>6. CASE Acquire(b)
    <2>1. SemHolders' = SemHolders \cup {b} /\ b \notin SemHolders
      BY <1>6 DEF Acquire, SemHolders, IInv, LocalTypeOK
    <2> QED BY <1>6, <1>t, <1>c, <1>k, <2>1 DEF Acquire, IInv, LocalTypeOK
  <1>7. CASE ReadNotify(b)
    <2>1. CASE prioritizedTasks > 0
      <3>1. SemHolders' = SemHolders \ {b} /\ b \in SemHolders
        BY <1>7, <2>1 DEF ReadNotify, SemHolders, IInv, LocalTypeOK
      <3> QED BY <1>7, <1>t, <1>c, <1>k, <2>1, <3>1 DEF ReadNotify, IInv, LocalTypeOK
    <2>2. CASE prioritizedTasks <= 0
      <3>1. SemHolders' = SemHolders
        BY <1>7, <2>2 DEF ReadNotify, SemHolders, IInv, LocalTypeOK
      <3>2. prioritizedTasks = 0
        BY <2>2, FiniteCounted, FS_CardinalityType DEF IInv
      <3>3. /\ prioritizedTasks' = 0 /\ prio' = prio /\ condL' = condL /\ sem' = sem
            /\ bg' = [bg EXCEPT ![b] = "select"]
            /\ do' = [do EXCEPT ![b] = "running"]
        BY <1>7, <3>2 DEF ReadNotify
      <3>4. \A c \in Bg : do'[c] # "none" => bg'[c] = "select"
        BY <3>3 DEF IInv, LocalTypeOK
      <3>5. \A c \in Bg : bg'[c] \in {"check", "wait", "waiting"} => bg'[c] = bg[c]
        BY <3>3 DEF IInv, LocalTypeOK
      <3>6. /\ \A c \in Bg : bg'[c] \in {"check", "wait"} => condL' = c
            /\ (\E c \in Bg : bg'[c] \in {"wait", "waiting"}) => \E p \in Prio : prio'[p] # "idle"
        BY <3>3, <3>5 DEF IInv
      <3> QED BY <1>t, <1>k, <3>1, <3>2, <3>3, <3>4, <3>6, ZenonT(60) DEF IInv
    <2> QED BY <2>1, <2>2 DEF IInv, LocalTypeOK
  <1>8. CASE SelectNotified(b)
    <2>1. SemHolders' = SemHolders \ {b} /\ b \in SemHolders
      BY <1>8 DEF SelectNotified, SemHolders, IInv, LocalTypeOK
    <2> QED BY <1>8, <1>t, <1>c, <1>k, <2>1 DEF SelectNotified, IInv, LocalTypeOK
  <1>9. CASE SelectDone(b)
    <2>1. SemHolders' = SemHolders \ {b} /\ b \in SemHolders
      BY <1>9 DEF SelectDone, SemHolders, IInv, LocalTypeOK
    <2> QED BY <1>9, <1>t, <1>c, <1>k, <2>1 DEF SelectDone, IInv, LocalTypeOK
  <1>10. CASE ContextExpires(b) \/ DoReturns(b) \/ OrphanReturns(b)
    <2>1. SemHolders' = SemHolders /\ Counted' = Counted
      BY <1>10, ZenonT(60) DEF ContextExpires, DoReturns, OrphanReturns, SemHolders, Counted
    <2> QED BY <1>10, <1>t, <2>1 DEF ContextExpires, DoReturns, OrphanReturns, IInv, LocalTypeOK
  <1> QED BY <1>1, <1>2, <1>3, <1>4, <1>5, <1>6, <1>7, <1>8, <1>9, <1>10 DEF BgNext, BgStep

\* The inductive invariant of task/task.go holds in every reachable state.
THEOREM Inductive == Spec => []IInv
  <1>1. Init => IInv
    <2> SUFFICES ASSUME Init PROVE IInv
      OBVIOUS
    <2>1. Counted = {} /\ SemHolders = {}
      BY DEF Init, Counted, SemHolders
    <2> QED BY <2>1, FS_EmptySet, ConstantsAssumption
            DEF Init, IInv, LocalTypeOK, PrioPC, BgPC
  <1>2. IInv /\ [Next]_vars => IInv'
    <2> SUFFICES ASSUME IInv, [Next]_vars PROVE IInv'
      OBVIOUS
    <2>1. CASE UNCHANGED vars
      <3>1. Counted' = Counted /\ SemHolders' = SemHolders
        BY <2>1 DEF vars, Counted, SemHolders
      <3> QED BY <2>1, <3>1 DEF vars, IInv, LocalTypeOK
    <2> QED BY <2>1, PrioStep, BgStepPreserves DEF Next
  <1> QED BY <1>1, <1>2, PTL DEF Spec

\* Types of the manager's state; in particular the counter never goes negative
\* and the semaphore never exceeds its size.
THEOREM TypeCorrect == Spec => []TypeOK
  <1>1. IInv => TypeOK
    <2> SUFFICES ASSUME IInv PROVE TypeOK
      OBVIOUS
    <2>1. Cardinality(Counted) \in Nat /\ Cardinality(SemHolders) \in Nat
      BY FiniteCounted, FiniteHolders, FS_CardinalityType
    <2> QED BY <2>1, ConstantsAssumption DEF IInv, LocalTypeOK, TypeOK
  <1> QED BY <1>1, Inductive, PTL

\* A background task running beside a prioritized one is about to be cancelled.
THEOREM Preempted == Spec => []RunningIsPreempted
  <1>1. IInv => RunningIsPreempted
    BY DEF IInv, LocalTypeOK, RunningIsPreempted
  <1> QED BY <1>1, Inductive, PTL

\* The counter of prioritized tasks is exact.
THEOREM CounterExact == Spec => []CounterIsExact
  <1>1. IInv => CounterIsExact
    BY DEF IInv, CounterIsExact, Counted
  <1> QED BY <1>1, Inductive, PTL

\* No unit of the semaphore is leaked or released twice.
THEOREM SemaphoreExact == Spec => []SemaphoreConserved
  <1>1. IInv => SemaphoreConserved
    BY DEF IInv, SemaphoreConserved
  <1> QED BY <1>1, Inductive, PTL

\* No invocation waits on the condition variable with nobody left to wake it.
THEOREM WakeupNotLost == Spec => []NoLostWakeup
  <1>1. IInv => NoLostWakeup
    BY DEF IInv, NoLostWakeup
  <1> QED BY <1>1, Inductive, PTL
-----------------------------------------------------------------------------
(***************************************************************************)
(* The layer manager, for any numbers of clients, images and layers and    *)
(* any sizes of the pool: a layer stays open while a client that looked it *)
(* up uses it, the counters of the uses are exact, and nothing leaks.      *)
(*                                                                         *)
(* The counters of the pool and of the manager are compared with the sets  *)
(* of clients that are between the two halves of use and release.  A cached*)
(* layer has one place and was not given back, so a layer is given back    *)
(* only by whoever holds it; and what a user has looked up, or is being    *)
(* sent, is the cached layer of its pair until its own release.            *)
(***************************************************************************)

\* Most of these steps are first-order: they go to Zenon, unless they name another prover.
USE ZenonT(60)

\* Where layers are cached, and the layers that were resolved.
Pairs == Refs \X Tocs
Layers == 1 .. made

\* The types of the manager's state.
ManagerTypeOK ==
    /\ made \in Nat /\ done \subseteq Layers
    /\ layer \in [Pairs -> Layers \cup {None}] /\ got \in [Clients -> Layers \cup {None}]
    /\ mine \in [Goroutines -> Layers \cup {None}]
    /\ want \in [Clients -> Pairs]
    /\ pc \in [Clients -> {"idle", "use", "release", "load", "add", "addInfo", "wait"}]
    /\ using \subseteq Clients /\ safe \subseteq using
    /\ go \in [Goroutines -> {"off", "lock", "resolve", "cache", "record", "get", "send"}]
    /\ DOMAIN refcounter \subseteq Pairs /\ refcounter \in [DOMAIN refcounter -> Nat]
    /\ releaser \in [Refs -> [count : Nat, counter : {releaser[r].counter : r \in Refs}]]

\* The two halves of use and release alternate, a lookup starts with no goroutine left,
\* and a goroutine sends only to a lookup that waits.
ControlInv ==
    /\ \A c \in Clients : (pc[c] = "use" => c \notin using) /\ (pc[c] = "release" => c \in using)
    /\ \A c \in Clients : pc[c] \in {"load", "add"} => Settled(c)
    /\ \A g \in Goroutines : go[g] = "send" => pc[g[1]] = "wait" /\ mine[g] # None

\* A layer has one owner: its place in the cache, the goroutine about to cache it, or nobody
\* once it was given back.
OwnerInv ==
    /\ \A i, j \in Pairs : layer[i] # None /\ layer[i] = layer[j] => i = j
    /\ \A i \in Pairs : layer[i] \notin done
    /\ \A g \in Goroutines : go[g] = "cache" =>
         mine[g] # None /\ mine[g] \notin done /\ \A i \in Pairs : layer[i] # mine[g]
    /\ \A g, h \in Goroutines : go[g] = "cache" /\ go[h] = "cache" /\ mine[g] = mine[h] => g = h

\* What a user looked up, or is being sent, is the cached layer.
UseInv ==
    /\ \A c \in safe : got[c] # None => got[c] = layer[want[c]]
    /\ \A g \in Goroutines : go[g] = "send" /\ g[1] \in using => mine[g] = layer[want[g[1]]]

\* The inductive invariant of the layer manager.
LMIInv == ManagerTypeOK /\ CountsAreUses /\ ControlInv /\ OwnerInv /\ UseInv /\ NothingLeaks
-----------------------------------------------------------------------------
\* A finite set that an element leaves was not empty.
LEMMA Count ==
    ASSUME NEW S, IsFiniteSet(S), NEW x
    PROVE  /\ Cardinality(S) \in Nat
           /\ x \notin S => Cardinality(S \cup {x}) = Cardinality(S) + 1
           /\ x \in S => Cardinality(S \ {x}) = Cardinality(S) - 1 /\ Cardinality(S) >= 1
  <1>1. x \in S => Cardinality(S) # 0
    BY FS_EmptySet
  <1>2. /\ Cardinality(S) \in Nat
        /\ x \notin S => Cardinality(S \cup {x}) = Cardinality(S) + 1
        /\ x \in S => Cardinality(S \ {x}) = Cardinality(S) - 1
    BY CardinalityStep
  <1> QED BY <1>1, <1>2, SMTT(60)

\* The users of a layer, for the manager and for the pool.
Users(i) == {c \in using : want[c] = i}
PoolUser(c) == (c \in using \/ pc[c] = "use") /\ pc[c] # "release"
PoolUsers(r) == {c \in Clients : Ref(c) = r /\ PoolUser(c)}
Uses(i) == IF i \in DOMAIN refcounter THEN refcounter[i] ELSE 0

\* Both are finite sets.
LEMMA UsersFinite ==
    ASSUME ManagerTypeOK
    PROVE  (\A i : IsFiniteSet(Users(i))) /\ (\A r : IsFiniteSet(PoolUsers(r)))
  <1>1. ASSUME NEW i PROVE IsFiniteSet(Users(i))
    <2>1. Users(i) \in SUBSET Clients
      BY DEF Users, ManagerTypeOK
    <2> QED BY <2>1, FS_Subset, ManagerAssumption
  <1>2. ASSUME NEW r PROVE IsFiniteSet(PoolUsers(r))
    <2>1. PoolUsers(r) \in SUBSET Clients
      BY DEF PoolUsers
    <2> QED BY <2>1, FS_Subset, ManagerAssumption
  <1> QED BY <1>1, <1>2

\* CountsAreUses in terms of these sets.
LEMMA CountsDef ==
    CountsAreUses <=> /\ \A i \in Pairs : Cardinality(Users(i)) = Uses(i)
                      /\ \A r \in Refs : releaser[r].count = Cardinality(PoolUsers(r))
  BY DEF CountsAreUses, Users, Uses, PoolUsers, PoolUser, Pairs

\* A step that no counter sees.
CountFrame ==
    /\ UNCHANGED <<want, using, refcounter>>
    /\ \A r \in Refs : releaser'[r].count = releaser[r].count
    /\ \A c \in Clients : (pc'[c] = "use" <=> pc[c] = "use") /\ (pc'[c] = "release" <=> pc[c] = "release")

\* How it is shown for the next state.
LEMMA CountsIntro ==
    ASSUME \A i \in Pairs : Cardinality(Users(i)') = Uses(i)',
           \A r \in Refs : releaser'[r].count = Cardinality(PoolUsers(r)')
    PROVE  CountsAreUses'
  BY DEF CountsAreUses, Users, Uses, PoolUsers, PoolUser, Pairs

\* Such a step keeps the counts exact.
LEMMA CountFrameStep == ASSUME CountsAreUses, CountFrame PROVE CountsAreUses'
  <1>1. \A i : Users(i)' = Users(i) /\ Uses(i)' = Uses(i)
    BY DEF CountFrame, Users, Uses
  <1>2. \A r : PoolUsers(r)' = PoolUsers(r)
    BY DEF CountFrame, PoolUsers, PoolUser, Ref
  <1>3. /\ \A i \in Pairs : Cardinality(Users(i)') = Uses(i)'
        /\ \A r \in Refs : releaser'[r].count = Cardinality(PoolUsers(r)')
    BY <1>1, <1>2, CountsDef DEF CountFrame
  <1> QED BY <1>3, CountsIntro

\* A step that keeps what is cached and what is about to be cached.
CacheFrame ==
    /\ UNCHANGED <<layer, done, made>>
    /\ \A g \in Goroutines : (go'[g] = "cache" <=> go[g] = "cache") /\ (go[g] = "cache" => mine'[g] = mine[g])

\* No layer is lost.
LayersKept ==
    \A l \in 1 .. made : \/ l \in done \/ l \in Range(layer)
                         \/ \E g \in Goroutines : go[g] = "cache" /\ mine[g] = l

\* Such a step keeps the owners of the layers.
LEMMA CacheFrameStep ==
    ASSUME OwnerInv, LayersKept, CacheFrame
    PROVE  OwnerInv' /\ LayersKept'
  <1>1. OwnerInv'
    BY DEF OwnerInv, CacheFrame
  <1>2. LayersKept'
    BY DEF LayersKept, CacheFrame
  <1> QED BY <1>1, <1>2

\* A step that keeps who uses what.
UseFrame ==
    /\ UNCHANGED <<layer, want, using, safe, got>>
    /\ \A g \in Goroutines : go'[g] = "send" => go[g] = "send" /\ mine'[g] = mine[g]

\* Such a step keeps what the users know.
LEMMA UseFrameStep == ASSUME UseInv, UseFrame PROVE UseInv'
  BY DEF UseInv, UseFrame
-----------------------------------------------------------------------------
\* The pool.  A counter that goes takes the files of its image along.
PoolKeeps == \A r \in files' : r \in files /\ \A k \in live : k[1] = r => k \in live'

\* The counters that stay, and their files, when the dead ones go.
LEMMA SettleKeeps ==
    ASSUME NEW l, NEW A, NEW s, NEW rel, Settle(l, A, s, rel, files), live \subseteq A
    PROVE  /\ PoolKeeps /\ releaser' = rel
           /\ \A r \in files', k \in A : k[1] = r => k \in live'
  <1> DEFINE dead == {k \in A : k \notin Range(l) /\ s[k] = 0 /\ rel[k[1]].counter # k}
  <1>1. releaser' = rel /\ live' = A \ dead /\ files' = files \ {k[1] : k \in dead}
    BY DEF Settle
  <1> HIDE DEF dead
  <1>2. \A r \in files', k \in A : k[1] = r => k \in live'
    BY <1>1
  <1> QED BY <1>1, <1>2 DEF PoolKeeps

\* The counter that the cache gives for an image is one of that image.
LEMMA CounterIsOf == ASSUME NEW r PROVE CounterFor(r)[1] = r
  <1>1. CASE \E k \in Range(lru) : k[1] = r
    BY <1>1 DEF CounterFor
  <1>2. CASE ~\E k \in Range(lru) : k[1] = r
    BY <1>2 DEF CounterFor
  <1> QED BY <1>1, <1>2

\* Metadata keeps its owner while no loadRef ends.
LEMMA MetadataFrame ==
    ASSUME MetadataHasOwner, PoolKeeps, UNCHANGED want,
           \A c \in Clients : pc[c] \in {"add", "addInfo"} => pc'[c] = pc[c]
    PROVE  MetadataHasOwner'
  <1> SUFFICES ASSUME NEW r \in files'
               PROVE  \/ \E k \in live' : k[1] = r
                      \/ \E c \in Clients : want'[c][1] = r /\ pc'[c] \in {"add", "addInfo"}
    BY DEF MetadataHasOwner, Ref
  <1>1. CASE \E k \in live : k[1] = r
    BY <1>1 DEF PoolKeeps
  <1>2. CASE \E c \in Clients : want[c][1] = r /\ pc[c] \in {"add", "addInfo"}
    BY <1>2
  <1> QED BY <1>1, <1>2 DEF MetadataHasOwner, PoolKeeps, Ref

\* The type of the pool's releasers, for whatever counters they hold.
LEMMA ReleaserType ==
    ASSUME NEW C, releaser' \in [Refs -> [count : Nat, counter : C]]
    PROVE  releaser' \in [Refs -> [count : Nat, counter : {releaser'[r].counter : r \in Refs}]]
  <1> DEFINE D == {releaser'[r].counter : r \in Refs}
  <1>1. ASSUME NEW r \in Refs PROVE releaser'[r] \in [count : Nat, counter : D]
    <2>1. releaser'[r] \in [count : Nat, counter : C] /\ releaser'[r].counter \in D
      OBVIOUS
    <2> HIDE DEF D
    <2> QED BY <2>1, SMTT(60)
  <1> HIDE DEF D
  <1>2. releaser' \in [Refs -> [count : Nat, counter : D]]
    BY <1>1
  <1> QED BY <1>2 DEF D

\* use and release of the pool count one image up and down.
LEMMA PoolUseStep ==
    ASSUME ManagerTypeOK, NEW r \in Refs, PoolUse(r)
    PROVE  /\ PoolKeeps
           /\ releaser' \in [Refs -> [count : Nat, counter : {releaser'[q].counter : q \in Refs}]]
           /\ releaser'[r].count = releaser[r].count + 1
           /\ \A q \in Refs \ {r} : releaser'[q] = releaser[q]
  <1> DEFINE C == {releaser[q].counter : q \in Refs}
             k == CounterFor(r)
  <1>0. releaser \in [Refs -> [count : Nat, counter : C]]
    BY DEF ManagerTypeOK
  <1> HIDE DEF C
  <1>1. CASE releaser[r].count = 0
    <2> DEFINE rel == [releaser EXCEPT ![r] = [count |-> 1, counter |-> k]]
    <2>1. Settle(Added(k), live \cup {k}, sleeping, rel, files)
      BY <1>1 DEF PoolUse
    <2>2. rel \in [Refs -> [count : Nat, counter : C \cup {k}]] /\ rel[r].count = 1
          /\ \A q \in Refs \ {r} : rel[q] = releaser[q]
      <3> HIDE DEF k
      <3> QED BY <1>0, SMTT(60)
    <2> HIDE DEF rel, k
    <2>3. PoolKeeps /\ releaser' = rel
      BY <2>1, SettleKeeps
    <2>4. 1 = 0 + 1
      BY SMTT(60)
    <2> QED BY <1>1, <2>2, <2>3, <2>4, ReleaserType
  <1>2. CASE releaser[r].count # 0
    <2> DEFINE rel == [releaser EXCEPT ![r].count = @ + 1]
               v == [releaser[r] EXCEPT !.count = releaser[r].count + 1]
    <2>1. Settle(lru, live, sleeping, rel, files)
      BY <1>2 DEF PoolUse
    <2>a. releaser[r] \in [count : Nat, counter : C] /\ releaser[r].count + 1 \in Nat
      BY <1>0, SMTT(60)
    <2>b. v \in [count : Nat, counter : C] /\ v.count = releaser[r].count + 1
      BY <2>a
    <2>c. rel = [releaser EXCEPT ![r] = v]
      BY <1>0, SMTT(60)
    <2> HIDE DEF rel, v
    <2>2. rel \in [Refs -> [count : Nat, counter : C]] /\ rel[r].count = releaser[r].count + 1
          /\ \A q \in Refs \ {r} : rel[q] = releaser[q]
      BY <1>0, <2>b, <2>c
    <2> HIDE DEF rel
    <2>3. PoolKeeps /\ releaser' = rel
      BY <2>1, SettleKeeps
    <2> QED BY <2>2, <2>3, ReleaserType
  <1> QED BY <1>1, <1>2

\* The pool counts an image down.
LEMMA PoolReleaseStep ==
    ASSUME ManagerTypeOK, NEW r \in Refs, PoolRelease(r), releaser[r].count # 0
    PROVE  /\ PoolKeeps
           /\ releaser' \in [Refs -> [count : Nat, counter : {releaser'[q].counter : q \in Refs}]]
           /\ releaser'[r].count = releaser[r].count - 1
           /\ \A q \in Refs \ {r} : releaser'[q] = releaser[q]
  <1> DEFINE C == {releaser[q].counter : q \in Refs}
  <1>0. releaser \in [Refs -> [count : Nat, counter : C]]
    BY DEF ManagerTypeOK
  <1> HIDE DEF C
  <1>1. CASE releaser[r].count = 1
    <2> DEFINE rel == [releaser EXCEPT ![r] = Unused]
    <2>1. Settle(lru, live, sleeping, rel, files)
      <3>1. 1 # 0
        BY SMTT(60)
      <3> QED BY <1>1, <3>1 DEF PoolRelease
    <2>2. rel \in [Refs -> [count : Nat, counter : C \cup {None}]] /\ rel[r].count = 0
          /\ \A q \in Refs \ {r} : rel[q] = releaser[q]
      BY <1>0, SMTT(60) DEF Unused
    <2> HIDE DEF rel
    <2>3. PoolKeeps /\ releaser' = rel
      BY <2>1, SettleKeeps
    <2>4. 0 = 1 - 1
      BY SMTT(60)
    <2> QED BY <1>1, <2>2, <2>3, <2>4, ReleaserType
  <1>2. CASE releaser[r].count # 1
    <2> DEFINE rel == [releaser EXCEPT ![r].count = @ - 1]
               v == [releaser[r] EXCEPT !.count = releaser[r].count - 1]
    <2>1. Settle(lru, live, sleeping, rel, files)
      BY <1>2 DEF PoolRelease
    <2>a. releaser[r] \in [count : Nat, counter : C] /\ releaser[r].count - 1 \in Nat
      BY <1>0, SMTT(60)
    <2>b. v \in [count : Nat, counter : C] /\ v.count = releaser[r].count - 1
      BY <2>a
    <2>c. rel = [releaser EXCEPT ![r] = v]
      BY <1>0, SMTT(60)
    <2> HIDE DEF rel, v
    <2>2. rel \in [Refs -> [count : Nat, counter : C]] /\ rel[r].count = releaser[r].count - 1
          /\ \A q \in Refs \ {r} : rel[q] = releaser[q]
      BY <1>0, <2>b, <2>c
    <2> HIDE DEF rel
    <2>3. PoolKeeps /\ releaser' = rel
      BY <2>1, SettleKeeps
    <2> QED BY <2>2, <2>3, ReleaserType
  <1> QED BY <1>1, <1>2
-----------------------------------------------------------------------------
\* What the invariant says, and how it is shown for the next state.
LEMMA Parts ==
    ASSUME LMIInv
    PROVE  ManagerTypeOK /\ CountsAreUses /\ ControlInv /\ OwnerInv /\ UseInv
           /\ MetadataHasOwner /\ LayersKept
  BY DEF LMIInv, NothingLeaks, LayersKept

\* All its parts make the invariant of the next state.
LEMMA Whole ==
    ASSUME ManagerTypeOK', CountsAreUses', ControlInv', OwnerInv', UseInv', MetadataHasOwner', LayersKept'
    PROVE  LMIInv'
  BY DEF LMIInv, NothingLeaks, LayersKept

\* A step of the pool alone keeps the metadata's owners.
LEMMA UnchangedPool == ASSUME UNCHANGED poolVars PROVE PoolKeeps
  BY DEF PoolKeeps, poolVars

\* The use of the pool.
LEMMA UseOK == ASSUME LMIInv, NEW c \in Clients, Use(c) PROVE LMIInv'
  <1> DEFINE r == Ref(c)
  <1>0. /\ pc[c] = "idle" /\ c \notin using /\ PoolUse(r) /\ pc' = [pc EXCEPT ![c] = "use"]
        /\ UNCHANGED <<layer, refcounter, made, done, want, using, got, safe, go, mine>>
    BY DEF Use, To, managerVars, goVars
  <1>t. ManagerTypeOK
    BY Parts
  <1>r. r \in Refs
    BY <1>t DEF ManagerTypeOK, Pairs, Ref
  <1>p. /\ PoolKeeps
        /\ releaser' \in [Refs -> [count : Nat, counter : {releaser'[q].counter : q \in Refs}]]
        /\ releaser'[r].count = releaser[r].count + 1
        /\ \A q \in Refs \ {r} : releaser'[q] = releaser[q]
    BY <1>0, <1>t, <1>r, PoolUseStep
  <1>c. /\ pc' \in [Clients -> {"idle", "use", "release", "load", "add", "addInfo", "wait"}]
        /\ pc'[c] = "use" /\ \A b \in Clients \ {c} : pc'[b] = pc[b]
    BY <1>0, <1>t DEF ManagerTypeOK
  <1>1. ManagerTypeOK'
    BY <1>0, <1>t, <1>p, <1>c DEF ManagerTypeOK, Layers
  <1>2. CountsAreUses'
    <2>1. \A i : Users(i)' = Users(i) /\ Uses(i)' = Uses(i)
      BY <1>0 DEF Users, Uses
    <2>2. ASSUME NEW q \in Refs PROVE releaser'[q].count = Cardinality(PoolUsers(q)')
      <3>1. CASE q = r
        <4>1. c \notin PoolUsers(q) /\ PoolUsers(q)' = PoolUsers(q) \cup {c}
          BY <1>0, <1>c, <3>1 DEF PoolUsers, PoolUser, Ref
        <4>2. Cardinality(PoolUsers(q) \cup {c}) = Cardinality(PoolUsers(q)) + 1
          BY <4>1, <1>t, UsersFinite, Count
        <4>3. releaser[q].count = Cardinality(PoolUsers(q))
          BY Parts, CountsDef
        <4> QED BY <3>1, <4>1, <4>2, <4>3, <1>p
      <3>2. CASE q # r
        <4>1. PoolUsers(q)' = PoolUsers(q)
          BY <1>0, <1>c, <3>2 DEF PoolUsers, PoolUser, Ref
        <4> QED BY <3>2, <4>1, <1>p, Parts, CountsDef
      <3> QED BY <3>1, <3>2
    <2> QED BY <2>1, <2>2, Parts, CountsDef, CountsIntro
  <1>3. ControlInv'
    BY <1>0, <1>c, Parts DEF ControlInv, Settled, Goroutines
  <1>4. OwnerInv' /\ LayersKept'
    BY <1>0, Parts, CacheFrameStep DEF CacheFrame
  <1>5. UseInv'
    BY <1>0, Parts, UseFrameStep DEF UseFrame
  <1>6. MetadataHasOwner'
    BY <1>0, <1>p, <1>c, Parts, MetadataFrame
  <1> QED BY <1>1, <1>2, <1>3, <1>4, <1>5, <1>6, Whole

\* The release of the pool.
LEMMA ReleaseOK == ASSUME LMIInv, NEW c \in Clients, Release(c) PROVE LMIInv'
  <1> DEFINE r == Ref(c)
  <1>0. /\ pc[c] = "idle" /\ c \in using /\ PoolRelease(r) /\ pc' = [pc EXCEPT ![c] = "release"]
        /\ UNCHANGED <<layer, refcounter, made, done, want, using, got, safe, go, mine>>
    BY DEF Release, To, managerVars, goVars
  <1>t. ManagerTypeOK
    BY Parts
  <1>r. r \in Refs
    BY <1>t DEF ManagerTypeOK, Pairs, Ref
  <1>u. c \in PoolUsers(r) /\ releaser[r].count = Cardinality(PoolUsers(r))
        /\ Cardinality(PoolUsers(r) \ {c}) = Cardinality(PoolUsers(r)) - 1
        /\ Cardinality(PoolUsers(r)) # 0
    <2>1. c \in PoolUsers(r)
      BY <1>0 DEF PoolUsers, PoolUser
    <2>2. releaser[r].count = Cardinality(PoolUsers(r))
      BY <1>r, Parts, CountsDef
    <2>3. /\ Cardinality(PoolUsers(r) \ {c}) = Cardinality(PoolUsers(r)) - 1
          /\ Cardinality(PoolUsers(r)) \in Nat /\ Cardinality(PoolUsers(r)) >= 1
      BY <2>1, <1>t, UsersFinite, Count
    <2> HIDE DEF r
    <2>4. Cardinality(PoolUsers(r)) # 0
      BY <2>3, SMTT(60)
    <2> QED BY <2>1, <2>2, <2>3, <2>4
  <1>p. /\ PoolKeeps
        /\ releaser' \in [Refs -> [count : Nat, counter : {releaser'[q].counter : q \in Refs}]]
        /\ releaser'[r].count = releaser[r].count - 1
        /\ \A q \in Refs \ {r} : releaser'[q] = releaser[q]
    BY <1>0, <1>t, <1>r, <1>u, PoolReleaseStep
  <1>c. /\ pc' \in [Clients -> {"idle", "use", "release", "load", "add", "addInfo", "wait"}]
        /\ pc'[c] = "release" /\ \A b \in Clients \ {c} : pc'[b] = pc[b]
    BY <1>0, <1>t DEF ManagerTypeOK
  <1>1. ManagerTypeOK'
    BY <1>0, <1>t, <1>p, <1>c DEF ManagerTypeOK, Layers
  <1>2. CountsAreUses'
    <2>1. \A i : Users(i)' = Users(i) /\ Uses(i)' = Uses(i)
      BY <1>0 DEF Users, Uses
    <2>2. ASSUME NEW q \in Refs PROVE releaser'[q].count = Cardinality(PoolUsers(q)')
      <3>1. CASE q = r
        <4>1. PoolUsers(q)' = PoolUsers(q) \ {c}
          BY <1>0, <1>c, <3>1 DEF PoolUsers, PoolUser, Ref
        <4> QED BY <3>1, <4>1, <1>u, <1>p
      <3>2. CASE q # r
        <4>1. PoolUsers(q)' = PoolUsers(q)
          BY <1>0, <1>c, <3>2 DEF PoolUsers, PoolUser, Ref
        <4> QED BY <3>2, <4>1, <1>p, Parts, CountsDef
      <3> QED BY <3>1, <3>2
    <2> QED BY <2>1, <2>2, Parts, CountsDef, CountsIntro
  <1>3. ControlInv'
    BY <1>0, <1>c, Parts DEF ControlInv, Settled, Goroutines
  <1>4. OwnerInv' /\ LayersKept'
    BY <1>0, Parts, CacheFrameStep DEF CacheFrame
  <1>5. UseInv'
    BY <1>0, Parts, UseFrameStep DEF UseFrame
  <1>6. MetadataHasOwner'
    BY <1>0, <1>p, <1>c, Parts, MetadataFrame
  <1> QED BY <1>1, <1>2, <1>3, <1>4, <1>5, <1>6, Whole

\* The use of the manager, after the pool's.
LEMMA UseLayerOK == ASSUME LMIInv, NEW c \in Clients, UseLayer(c) PROVE LMIInv'
  <1> DEFINE w == want[c]
  <1>0. /\ pc[c] = "use" /\ pc' = [pc EXCEPT ![c] = "idle"] /\ using' = using \cup {c}
        /\ refcounter' = IF w \in DOMAIN refcounter THEN [refcounter EXCEPT ![w] = @ + 1]
                         ELSE [i \in DOMAIN refcounter \cup {w} |-> IF i = w THEN 1 ELSE refcounter[i]]
        /\ UNCHANGED <<poolVars, layer, made, done, want, got, safe, go, mine>>
    BY DEF UseLayer, To, goVars
  <1>t. ManagerTypeOK /\ c \notin using
    BY <1>0, Parts DEF ControlInv
  <1>w. w \in Pairs /\ UNCHANGED releaser /\ PoolKeeps
    BY <1>0, <1>t, UnchangedPool DEF ManagerTypeOK, poolVars
  <1>c. /\ pc' \in [Clients -> {"idle", "use", "release", "load", "add", "addInfo", "wait"}]
        /\ pc'[c] = "idle" /\ \A b \in Clients \ {c} : pc'[b] = pc[b]
    BY <1>0, <1>t DEF ManagerTypeOK
  <1>u. /\ DOMAIN refcounter' \subseteq Pairs /\ refcounter' \in [DOMAIN refcounter' -> Nat]
        /\ \A i : Uses(i)' = IF i = w THEN Uses(i) + 1 ELSE Uses(i)
    <2>0. DOMAIN refcounter \subseteq Pairs /\ refcounter \in [DOMAIN refcounter -> Nat]
      BY <1>t DEF ManagerTypeOK
    <2>w. w \in Pairs
      BY <1>w
    <2>r. refcounter' = IF w \in DOMAIN refcounter THEN [refcounter EXCEPT ![w] = @ + 1]
                        ELSE [i \in DOMAIN refcounter \cup {w} |-> IF i = w THEN 1 ELSE refcounter[i]]
      BY <1>0
    <2> HIDE DEF w
    <2>1. CASE w \in DOMAIN refcounter
      <3>1. /\ DOMAIN refcounter' = DOMAIN refcounter /\ refcounter' \in [DOMAIN refcounter' -> Nat]
            /\ refcounter'[w] = refcounter[w] + 1
            /\ \A i \in DOMAIN refcounter : i # w => refcounter'[i] = refcounter[i]
        BY <2>0, <2>r, <2>1, SMTT(60)
      <3> QED BY <2>0, <2>1, <3>1 DEF Uses
    <2>2. CASE w \notin DOMAIN refcounter
      <3>1. /\ DOMAIN refcounter' = DOMAIN refcounter \cup {w} /\ refcounter' \in [DOMAIN refcounter' -> Nat]
            /\ refcounter'[w] = 0 + 1
            /\ \A i \in DOMAIN refcounter : refcounter'[i] = refcounter[i]
        BY <2>0, <2>r, <2>2, SMTT(60)
      <3> QED BY <2>0, <2>w, <2>2, <3>1 DEF Uses
    <2> QED BY <2>1, <2>2
  <1>1. ManagerTypeOK'
    <2>1. using' \subseteq Clients /\ safe' \subseteq using' /\ Layers' = Layers
      BY <1>0, <1>t DEF ManagerTypeOK, Layers
    <2>2. /\ made' \in Nat /\ done' \subseteq Layers' /\ layer' \in [Pairs -> Layers' \cup {None}]
          /\ got' \in [Clients -> Layers' \cup {None}] /\ mine' \in [Goroutines -> Layers' \cup {None}]
      BY <1>0, <1>t, <2>1 DEF ManagerTypeOK
    <2>3. /\ want' \in [Clients -> Pairs]
          /\ go' \in [Goroutines -> {"off", "lock", "resolve", "cache", "record", "get", "send"}]
          /\ releaser' \in [Refs -> [count : Nat, counter : {releaser'[r].counter : r \in Refs}]]
      BY <1>0, <1>t, <1>w DEF ManagerTypeOK
    <2> QED BY <1>u, <1>c, <2>1, <2>2, <2>3 DEF ManagerTypeOK
  <1>2. CountsAreUses'
    <2>1. ASSUME NEW i \in Pairs PROVE Cardinality(Users(i)') = Uses(i)'
      <3>0. Cardinality(Users(i)) = Uses(i)
        BY Parts, CountsDef
      <3>1. CASE i = w
        <4>1. c \notin Users(i) /\ Users(i)' = Users(i) \cup {c}
          BY <1>0, <1>t, <3>1 DEF Users
        <4>2. Cardinality(Users(i) \cup {c}) = Cardinality(Users(i)) + 1
          BY <4>1, <1>t, UsersFinite, Count
        <4> QED BY <3>0, <3>1, <4>1, <4>2, <1>u
      <3>2. CASE i # w
        <4>1. Users(i)' = Users(i)
          BY <1>0, <3>2 DEF Users
        <4> QED BY <3>0, <3>2, <4>1, <1>u
      <3> QED BY <3>1, <3>2
    <2>2. ASSUME NEW r \in Refs PROVE releaser'[r].count = Cardinality(PoolUsers(r)')
      <3>1. PoolUsers(r)' = PoolUsers(r)
        BY <1>0, <1>t, <1>c DEF PoolUsers, PoolUser, Ref
      <3> QED BY <3>1, <1>w, Parts, CountsDef
    <2> QED BY <2>1, <2>2, CountsIntro
  <1>3. ControlInv'
    BY <1>0, <1>t, <1>c, Parts DEF ControlInv, Settled, Goroutines
  <1>4. OwnerInv' /\ LayersKept'
    BY <1>0, Parts, CacheFrameStep DEF CacheFrame
  <1>5. UseInv'
    BY <1>0, Parts DEF UseInv, ControlInv
  <1>6. MetadataHasOwner'
    BY <1>0, <1>w, <1>c, Parts, MetadataFrame
  <1> QED BY <1>1, <1>2, <1>3, <1>4, <1>5, <1>6, Whole

\* What the manager's release does to the counter and to the cached layer of a
\* pair that is tracked.  The deletion from the counters never finds anything:
\* it looks for a TOC digest among the images.
LEMMA DropStep ==
    ASSUME ManagerTypeOK, NEW i \in DOMAIN refcounter, NEW n \in Nat, Drop(i, n, 0)
    PROVE  /\ DOMAIN refcounter' = DOMAIN refcounter /\ refcounter' \in [DOMAIN refcounter -> Nat]
           /\ refcounter'[i] = n /\ \A j \in DOMAIN refcounter : j # i => refcounter'[j] = refcounter[j]
           /\ \/ n = 0 /\ layer[i] # None /\ done' = done \cup {layer[i]}
                 /\ layer' = [layer EXCEPT ![i] = None]
              \/ (n = 0 => layer[i] = None) /\ UNCHANGED <<done, layer>>
  <1> DEFINE counted == [refcounter EXCEPT ![i] = n]
             S == {j \in DOMAIN counted : j[1] # i[2]}
  <1>0. DOMAIN refcounter \subseteq Pairs /\ refcounter \in [DOMAIN refcounter -> Nat]
    BY DEF ManagerTypeOK
  <1>1. n <= 0 <=> n = 0
    BY SMTT(60)
  <1>2. /\ DOMAIN counted = DOMAIN refcounter /\ counted \in [DOMAIN refcounter -> Nat]
        /\ counted[i] = n /\ \A j \in DOMAIN refcounter : j # i => counted[j] = refcounter[j]
    BY <1>0
  <1>3. refcounter' = IF n <= 0 THEN Restrict(counted, S) ELSE counted
    BY DEF Drop
  <1>4. /\ IF n <= 0 /\ layer[i] # None
           THEN done' = done \cup {layer[i]} /\ layer' = [layer EXCEPT ![i] = None]
           ELSE UNCHANGED <<done, layer>>
    BY DEF Drop
  <1>5. S = DOMAIN refcounter
    <2>1. \A j \in DOMAIN refcounter : j[1] \in Refs /\ i[2] \in Tocs
      BY <1>0 DEF Pairs
    <2>2. \A j \in DOMAIN refcounter : j[1] # i[2]
      BY <2>1, ManagerAssumption
    <2> HIDE DEF counted
    <2> QED BY <1>2, <2>2
  <1> HIDE DEF counted, S
  <1>6. refcounter' = counted
    <2>1. Restrict(counted, S) = [j \in DOMAIN refcounter |-> counted[j]]
      BY <1>5 DEF Restrict
    <2>2. counted = [j \in DOMAIN refcounter |-> counted[j]]
      BY <1>2
    <2> QED BY <1>3, <2>1, <2>2
  <1> QED BY <1>1, <1>2, <1>4, <1>6

\* No client but one user that is alone.
LEMMA LastUser ==
    ASSUME ManagerTypeOK, NEW i, NEW c \in Users(i), Cardinality(Users(i)) - 1 = 0
    PROVE  Users(i) = {c}
  <1>1. Cardinality(Users(i) \ {c}) = 0 /\ IsFiniteSet(Users(i) \ {c})
    BY UsersFinite, Count, FS_RemoveElement
  <1>2. Users(i) \ {c} = {}
    BY <1>1, FS_EmptySet
  <1> QED BY <1>2

\* A layer that is given back, while all others stay where they are.
LEMMA GiveBack ==
    ASSUME ManagerTypeOK, OwnerInv, LayersKept, NEW w \in Pairs, layer[w] # None,
           done' = done \cup {layer[w]}, layer' = [layer EXCEPT ![w] = None],
           UNCHANGED <<made, go, mine>>
    PROVE  /\ OwnerInv' /\ LayersKept' /\ done' \subseteq Layers'
           /\ layer' \in [Pairs -> Layers' \cup {None}]
           /\ \A i \in Pairs : i # w => layer'[i] = layer[i]
  <1>0. layer \in [Pairs -> Layers \cup {None}] /\ done \subseteq Layers /\ Layers' = Layers
    BY DEF ManagerTypeOK, Layers
  <1>n. None \notin Layers
    BY ManagerAssumption, SMTT(60) DEF Layers
  <1>1. /\ layer' \in [Pairs -> Layers' \cup {None}] /\ layer'[w] = None
        /\ \A i \in Pairs : i # w => layer'[i] = layer[i]
    BY <1>0
  <1>2. done' \subseteq Layers' /\ None \notin done'
    BY <1>0, <1>n
  <1>3. OwnerInv'
    BY <1>1, <1>2 DEF OwnerInv
  <1>4. LayersKept'
    <2> SUFFICES ASSUME NEW l \in 1 .. made
                 PROVE  \/ l \in done' \/ l \in Range(layer')
                        \/ \E g \in Goroutines : go[g] = "cache" /\ mine[g] = l
      BY DEF LayersKept
    <2>1. CASE l \in Range(layer)
      <3>1. PICK i \in Pairs : l = layer[i]
        BY <2>1, <1>0 DEF Range
      <3>2. CASE i = w
        BY <3>1, <3>2
      <3>3. CASE i # w
        <4>1. l = layer'[i] /\ DOMAIN layer' = Pairs
          BY <3>1, <3>3, <1>1
        <4> QED BY <4>1 DEF Range
      <3> QED BY <3>2, <3>3
    <2> QED BY <2>1 DEF LayersKept
  <1> QED BY <1>1, <1>2, <1>3, <1>4

\* The release of the manager, after the pool's.
LEMMA ReleaseLayerOK == ASSUME LMIInv, NEW c \in Clients, ReleaseLayer(c) PROVE LMIInv'
  <1> DEFINE w == want[c]
             n == refcounter[w] - 1
  <1>0. /\ pc[c] = "release" /\ pc' = [pc EXCEPT ![c] = "idle"] /\ using' = using \ {c}
        /\ safe' = safe \ {c} /\ got' = [got EXCEPT ![c] = None]
        /\ UNCHANGED <<poolVars, made, want, go, mine>>
    BY DEF ReleaseLayer, Forget, To, goVars
  <1>t. ManagerTypeOK /\ c \in using /\ OwnerInv /\ LayersKept
    BY <1>0, Parts DEF ControlInv
  <1>w. w \in Pairs /\ UNCHANGED releaser /\ PoolKeeps
    BY <1>0, <1>t, UnchangedPool DEF ManagerTypeOK, poolVars
  <1>u. c \in Users(w) /\ Cardinality(Users(w)) = Uses(w) /\ Uses(w) \in Nat /\ Uses(w) >= 1
        /\ Cardinality(Users(w) \ {c}) = Cardinality(Users(w)) - 1
    BY <1>t, <1>w, Parts, CountsDef, UsersFinite, Count DEF Users
  <1>d. w \in DOMAIN refcounter /\ n \in Nat /\ Uses(w) = refcounter[w]
    <2>1. w \in DOMAIN refcounter
      <3> HIDE DEF w
      <3> QED BY <1>u, SMTT(60) DEF Uses
    <2>2. Uses(w) = refcounter[w]
      BY <2>1 DEF Uses
    <2>3. Uses(w) - 1 \in Nat
      BY <1>u, SMTT(60)
    <2> QED BY <2>1, <2>2, <2>3
  <1>r. /\ DOMAIN refcounter' = DOMAIN refcounter /\ refcounter' \in [DOMAIN refcounter -> Nat]
        /\ refcounter'[w] = n /\ \A j \in DOMAIN refcounter : j # w => refcounter'[j] = refcounter[j]
        /\ \/ n = 0 /\ layer[w] # None /\ done' = done \cup {layer[w]}
              /\ layer' = [layer EXCEPT ![w] = None]
           \/ (n = 0 => layer[w] = None) /\ UNCHANGED <<done, layer>>
    <2>1. Drop(w, n, 0)
      BY <1>d DEF ReleaseLayer
    <2> HIDE DEF w, n
    <2> QED BY <2>1, <1>d, <1>t, DropStep
  <1>c. /\ pc' \in [Clients -> {"idle", "use", "release", "load", "add", "addInfo", "wait"}]
        /\ pc'[c] = "idle" /\ \A b \in Clients \ {c} : pc'[b] = pc[b]
        /\ got' \in [Clients -> Layers \cup {None}] /\ \A b \in Clients \ {c} : got'[b] = got[b]
    BY <1>0, <1>t DEF ManagerTypeOK
  <1>l. /\ OwnerInv' /\ LayersKept' /\ done' \subseteq Layers'
        /\ layer' \in [Pairs -> Layers' \cup {None}]
        /\ \A i \in Pairs : i # w => layer'[i] = layer[i]
        /\ n # 0 => layer' = layer
    <2> HIDE DEF w, n
    <2>1. CASE layer[w] # None /\ n = 0 /\ done' = done \cup {layer[w]} /\ layer' = [layer EXCEPT ![w] = None]
      BY <2>1, <1>0, <1>t, <1>w, GiveBack
    <2>2. CASE UNCHANGED <<done, layer>>
      <3>1. OwnerInv' /\ LayersKept'
        BY <2>2, <1>0, <1>t, CacheFrameStep DEF CacheFrame
      <3> QED BY <2>2, <3>1, <1>0, <1>t DEF ManagerTypeOK, Layers
    <2> QED BY <2>1, <2>2, <1>r
  <1>k. \A b \in using \ {c} : want[b] \in Pairs /\ layer'[want[b]] = layer[want[b]]
    <2> SUFFICES ASSUME NEW b \in using \ {c} PROVE want[b] \in Pairs /\ layer'[want[b]] = layer[want[b]]
      OBVIOUS
    <2>1. want[b] \in Pairs /\ b \in Users(want[b])
      BY <1>t DEF ManagerTypeOK, Users
    <2>2. CASE n = 0
      <3>1. Users(w) = {c}
        BY <2>2, <1>t, <1>u, <1>d, LastUser
      <3>2. want[b] # w
        BY <2>1, <3>1
      <3> QED BY <2>1, <3>2, <1>l
    <2>3. CASE n # 0
      BY <2>1, <2>3, <1>l
    <2> QED BY <2>2, <2>3
  <1>1. ManagerTypeOK'
    <2>1. using' \subseteq Clients /\ safe' \subseteq using' /\ Layers' = Layers
      BY <1>0, <1>t DEF ManagerTypeOK, Layers
    <2>2. /\ made' \in Nat /\ got' \in [Clients -> Layers' \cup {None}]
          /\ mine' \in [Goroutines -> Layers' \cup {None}]
      BY <1>0, <1>t, <1>c, <2>1 DEF ManagerTypeOK
    <2>3. /\ want' \in [Clients -> Pairs]
          /\ go' \in [Goroutines -> {"off", "lock", "resolve", "cache", "record", "get", "send"}]
          /\ releaser' \in [Refs -> [count : Nat, counter : {releaser'[r].counter : r \in Refs}]]
      BY <1>0, <1>t, <1>w DEF ManagerTypeOK
    <2>4. DOMAIN refcounter' \subseteq Pairs /\ refcounter' \in [DOMAIN refcounter' -> Nat]
      BY <1>t, <1>r DEF ManagerTypeOK
    <2> QED BY <1>c, <1>l, <2>1, <2>2, <2>3, <2>4 DEF ManagerTypeOK
  <1>2. CountsAreUses'
    <2>1. ASSUME NEW i \in Pairs PROVE Cardinality(Users(i)') = Uses(i)'
      <3>1. CASE i = w
        <4>1. Users(i)' = Users(i) \ {c} /\ Uses(i)' = n
          BY <1>0, <1>d, <1>r, <3>1 DEF Users, Uses
        <4> QED BY <3>1, <4>1, <1>u, <1>d
      <3>2. CASE i # w
        <4>1. Users(i)' = Users(i) /\ Uses(i)' = Uses(i)
          BY <1>0, <1>r, <3>2 DEF Users, Uses
        <4> QED BY <4>1, Parts, CountsDef
      <3> QED BY <3>1, <3>2
    <2>2. ASSUME NEW r \in Refs PROVE releaser'[r].count = Cardinality(PoolUsers(r)')
      <3>1. PoolUsers(r)' = PoolUsers(r)
        BY <1>0, <1>t, <1>c DEF PoolUsers, PoolUser, Ref
      <3> QED BY <3>1, <1>w, Parts, CountsDef
    <2> QED BY <2>1, <2>2, CountsIntro
  <1>3. ControlInv'
    BY <1>0, <1>t, <1>c, Parts DEF ControlInv, Settled, Goroutines
  <1>5. UseInv'
    <2>1. ASSUME NEW b \in safe' PROVE got'[b] # None => got'[b] = layer'[want[b]]
      BY <1>0, <1>t, <1>c, <1>k, Parts DEF UseInv, ManagerTypeOK
    <2>2. ASSUME NEW g \in Goroutines, go[g] = "send", g[1] \in using' PROVE mine[g] = layer'[want[g[1]]]
      BY <2>2, <1>0, <1>k, Parts DEF UseInv
    <2> QED BY <2>1, <2>2, <1>0 DEF UseInv
  <1>6. MetadataHasOwner'
    BY <1>0, <1>w, <1>c, Parts, MetadataFrame
  <1> QED BY <1>1, <1>2, <1>3, <1>l, <1>5, <1>6, Whole
-----------------------------------------------------------------------------
\* A step of a client's lookup: nobody's use changes, and nothing cached.
LookupFrame(c) ==
    /\ UNCHANGED <<layer, refcounter, made, done, want, using, releaser>>
    /\ pc[c] \notin {"use", "release"} /\ pc'[c] \in {"idle", "load", "add", "addInfo", "wait"}
    /\ pc' = [pc EXCEPT ![c] = pc'[c]]

\* Such a step keeps the invariant when it keeps control, uses and metadata.
LEMMA LookupStep ==
    ASSUME LMIInv, NEW c \in Clients, LookupFrame(c),
           got' \in [Clients -> Layers \cup {None}], safe' \subseteq using,
           mine' \in [Goroutines -> Layers \cup {None}],
           go' \in [Goroutines -> {"off", "lock", "resolve", "cache", "record", "get", "send"}],
           \A g \in Goroutines : (go'[g] = "cache" <=> go[g] = "cache") /\ (go[g] = "cache" => mine'[g] = mine[g]),
           ControlInv', UseInv', MetadataHasOwner'
    PROVE  LMIInv'
  <1>t. ManagerTypeOK
    BY Parts
  <1>c. /\ pc' \in [Clients -> {"idle", "use", "release", "load", "add", "addInfo", "wait"}]
        /\ \A b \in Clients \ {c} : pc'[b] = pc[b]
    <2>1. /\ pc \in [Clients -> {"idle", "use", "release", "load", "add", "addInfo", "wait"}]
          /\ pc'[c] \in {"idle", "load", "add", "addInfo", "wait"} /\ pc' = [pc EXCEPT ![c] = pc'[c]]
      BY <1>t DEF ManagerTypeOK, LookupFrame
    <2>2. pc'[c] \in {"idle", "use", "release", "load", "add", "addInfo", "wait"}
      BY <2>1
    <2> QED BY <2>1, <2>2
  <1>1. ManagerTypeOK'
    BY <1>t, <1>c DEF ManagerTypeOK, LookupFrame, Layers
  <1>2. CountsAreUses'
    BY <1>c, Parts, CountFrameStep DEF CountFrame, LookupFrame
  <1>3. OwnerInv' /\ LayersKept'
    BY Parts, CacheFrameStep DEF CacheFrame, LookupFrame
  <1> QED BY <1>1, <1>2, <1>3, Whole

\* The other clients of such a step.
LEMMA LookupOthers ==
    ASSUME LMIInv, NEW c \in Clients, LookupFrame(c)
    PROVE  /\ \A b \in Clients \ {c} : pc'[b] = pc[b]
           /\ got \in [Clients -> Layers \cup {None}] /\ mine \in [Goroutines -> Layers \cup {None}]
           /\ go \in [Goroutines -> {"off", "lock", "resolve", "cache", "record", "get", "send"}]
           /\ safe \subseteq using /\ using \subseteq Clients /\ want[c] \in Pairs
           /\ \A g \in Goroutines : g[1] \in Clients /\ g[2] \in Digests /\ g = <<g[1], g[2]>>
  <1>1. ManagerTypeOK
    BY Parts
  <1>2. \A b \in Clients \ {c} : pc'[b] = pc[b]
    BY <1>1 DEF ManagerTypeOK, LookupFrame
  <1>3. \A g \in Goroutines : g[1] \in Clients /\ g[2] \in Digests /\ g = <<g[1], g[2]>>
    BY SMTT(60) DEF Goroutines
  <1> QED BY <1>1, <1>2, <1>3 DEF ManagerTypeOK

\* Control in such a step, of the client's own goroutines and of the others.
LEMMA LookupControl ==
    ASSUME LMIInv, NEW c \in Clients, LookupFrame(c),
           pc'[c] \in {"load", "add"} => \A d \in Digests : go'[<<c, d>>] = "off",
           \A g \in Goroutines : g[1] # c => go'[g] = go[g] /\ mine'[g] = mine[g],
           \A g \in Goroutines : g[1] = c /\ go'[g] = "send" => pc'[c] = "wait" /\ mine'[g] # None
    PROVE  ControlInv'
  <1>1. /\ \A b \in Clients \ {c} : pc'[b] = pc[b]
        /\ \A g \in Goroutines : g[1] \in Clients
    BY LookupOthers
  <1>2. \A b \in Clients : (pc'[b] = "use" => b \notin using') /\ (pc'[b] = "release" => b \in using')
    BY <1>1, Parts DEF ControlInv, LookupFrame
  <1>3. ASSUME NEW b \in Clients, pc'[b] \in {"load", "add"}
        PROVE  \A d \in Digests : go'[<<b, d>>] = "off"
    <2>1. CASE b = c
      BY <2>1, <1>3
    <2>2. CASE b # c
      <3>1. \A d \in Digests : go[<<b, d>>] = "off"
        BY <2>2, <1>1, <1>3, Parts DEF ControlInv, Settled
      <3>2. \A d \in Digests : <<b, d>> \in Goroutines /\ <<b, d>>[1] # c
        BY <2>2 DEF Goroutines
      <3> QED BY <3>1, <3>2
    <2> QED BY <2>1, <2>2
  <1>4. ASSUME NEW g \in Goroutines, go'[g] = "send" PROVE pc'[g[1]] = "wait" /\ mine'[g] # None
    <2>1. CASE g[1] = c
      BY <2>1, <1>4
    <2>2. CASE g[1] # c
      BY <2>2, <1>1, <1>4, Parts DEF ControlInv
    <2> QED BY <2>1, <2>2
  <1> QED BY <1>2, <1>3, <1>4 DEF ControlInv, Settled

\* The same when no goroutine moves.
LEMMA LookupControlOf ==
    ASSUME LMIInv, NEW c \in Clients, LookupFrame(c), UNCHANGED <<go, mine>>,
           pc[c] # "wait" \/ Settled(c), pc'[c] \in {"load", "add"} => Settled(c)
    PROVE  ControlInv'
  <1>1. \A g \in Goroutines : g[1] = c => go[g] # "send"
    <2>1. CASE pc[c] # "wait"
      BY <2>1, Parts DEF ControlInv
    <2>2. CASE Settled(c)
      BY <2>2, LookupOthers DEF Settled
    <2> QED BY <2>1, <2>2
  <1>2. pc'[c] \in {"load", "add"} => \A d \in Digests : go'[<<c, d>>] = "off"
    BY DEF Settled
  <1> QED BY <1>1, <1>2, LookupControl

\* getLayer up to the load of the image.
LEMMA GetLayerOK == ASSUME LMIInv, NEW c \in Clients, GetLayer(c) PROVE LMIInv'
  <1>0. /\ pc[c] = "idle" /\ Settled(c) /\ got' = [got EXCEPT ![c] = layer[want[c]]]
        /\ safe' = IF c \in using THEN safe \cup {c} ELSE safe
        /\ pc' = [pc EXCEPT ![c] = IF layer[want[c]] = None THEN "load" ELSE "idle"]
        /\ UNCHANGED <<poolVars, layer, refcounter, made, done, want, using, go, mine>>
    BY DEF GetLayer, To, managerVars, goVars
  <1>t. ManagerTypeOK
    BY Parts
  <1>c. pc'[c] \in {"idle", "load"} /\ pc' = [pc EXCEPT ![c] = pc'[c]]
    BY <1>0, <1>t DEF ManagerTypeOK
  <1>f. LookupFrame(c)
    BY <1>0, <1>c DEF LookupFrame, poolVars
  <1>o. /\ \A b \in Clients \ {c} : pc'[b] = pc[b]
        /\ got \in [Clients -> Layers \cup {None}] /\ mine \in [Goroutines -> Layers \cup {None}]
        /\ go \in [Goroutines -> {"off", "lock", "resolve", "cache", "record", "get", "send"}]
        /\ safe \subseteq using /\ using \subseteq Clients /\ want[c] \in Pairs
    BY <1>f, LookupOthers
  <1>g. /\ got' \in [Clients -> Layers \cup {None}] /\ got'[c] = layer[want[c]]
        /\ \A b \in Clients \ {c} : got'[b] = got[b]
    BY <1>0, <1>o, <1>t DEF ManagerTypeOK
  <1>s. safe' \subseteq using /\ \A b \in safe' \ {c} : b \in safe
    BY <1>0, <1>o
  <1>1. ControlInv'
    BY <1>0, <1>c, <1>f, LookupControlOf
  <1>2. UseInv'
    BY <1>0, <1>o, <1>g, <1>s, Parts DEF UseInv
  <1>3. MetadataHasOwner'
    BY <1>0, <1>o, Parts, UnchangedPool, MetadataFrame
  <1> QED BY <1>0, <1>o, <1>f, <1>g, <1>s, <1>1, <1>2, <1>3, LookupStep

\* The goroutines that getLayer starts: none of an earlier lookup is left.
LEMMA SpawnStep ==
    ASSUME LMIInv, NEW c \in Clients, pc[c] \in {"load", "add"}, Spawn(c),
           UNCHANGED <<layer, refcounter, made, done, want, using, got, safe, releaser>>, MetadataHasOwner'
    PROVE  LMIInv'
  <1>0. /\ pc' = [pc EXCEPT ![c] = "wait"] /\ UNCHANGED mine
        /\ go' = [g \in Goroutines |-> IF g[1] # c THEN go[g]
                                       ELSE IF g[2] \in Manifest[Ref(c)] THEN "lock" ELSE "off"]
    BY DEF Spawn, To
  <1>t. ManagerTypeOK
    BY Parts
  <1>c. pc'[c] = "wait" /\ pc' = [pc EXCEPT ![c] = pc'[c]]
    BY <1>0, <1>t DEF ManagerTypeOK
  <1>f. LookupFrame(c)
    BY <1>0, <1>c DEF LookupFrame
  <1>o. /\ \A b \in Clients \ {c} : pc'[b] = pc[b]
        /\ got \in [Clients -> Layers \cup {None}] /\ mine \in [Goroutines -> Layers \cup {None}]
        /\ go \in [Goroutines -> {"off", "lock", "resolve", "cache", "record", "get", "send"}]
        /\ safe \subseteq using /\ using \subseteq Clients /\ want[c] \in Pairs
        /\ \A g \in Goroutines : g[1] \in Clients /\ g[2] \in Digests /\ g = <<g[1], g[2]>>
    BY <1>f, LookupOthers
  <1>g. /\ \A g \in Goroutines : g[1] # c => go'[g] = go[g]
        /\ \A g \in Goroutines : g[1] = c => go[g] = "off" /\ go'[g] \in {"lock", "off"}
    <2>1. \A d \in Digests : go[<<c, d>>] = "off"
      BY Parts DEF ControlInv, Settled
    <2>2. ASSUME NEW g \in Goroutines, g[1] = c PROVE go[g] = "off" /\ go'[g] \in {"lock", "off"}
      <3>1. g = <<c, g[2]>> /\ g[2] \in Digests
        BY <2>2, <1>o
      <3>2. go[g] = "off"
        BY <2>1, <3>1
      <3> QED BY <3>2, <2>2, <1>0
    <2> QED BY <2>2, <1>0
  <1>h. go' \in [Goroutines -> {"off", "lock", "resolve", "cache", "record", "get", "send"}]
    BY <1>0, <1>o
  <1>1. ControlInv'
    BY <1>0, <1>c, <1>f, <1>g, LookupControl
  <1>2. UseInv'
    BY <1>0, <1>g, Parts, UseFrameStep DEF UseFrame
  <1>3. \A g \in Goroutines : (go'[g] = "cache" <=> go[g] = "cache") /\ (go[g] = "cache" => mine'[g] = mine[g])
    BY <1>0, <1>g
  <1> QED BY <1>0, <1>o, <1>f, <1>h, <1>1, <1>2, <1>3, LookupStep

\* loadRef finds the files.
LEMMA ReadRefOK == ASSUME LMIInv, NEW c \in Clients, ReadRef(c) PROVE LMIInv'
  <1>0. /\ pc[c] = "load" /\ Spawn(c) /\ pc' = [pc EXCEPT ![c] = "wait"]
        /\ UNCHANGED <<poolVars, layer, refcounter, made, done, want, using, got, safe, releaser>>
    BY DEF ReadRef, Spawn, To, managerVars, poolVars
  <1>1. \A b \in Clients : pc[b] \in {"add", "addInfo"} => pc'[b] = pc[b]
    BY <1>0, Parts DEF ManagerTypeOK
  <1>2. MetadataHasOwner'
    BY <1>0, <1>1, Parts, UnchangedPool, MetadataFrame
  <1> QED BY <1>0, <1>2, SpawnStep

\* loadRef adds the image to the pool's cache: the counter it gets owns the
\* files from now on.
LEMMA AddedOwner ==
    ASSUME LMIInv, NEW c \in Clients, AddRef(Ref(c)), UNCHANGED want,
           \A b \in Clients \ {c} : pc'[b] = pc[b]
    PROVE  MetadataHasOwner' /\ UNCHANGED releaser
  <1> DEFINE k == CounterFor(Ref(c))
             A == live \cup {k}
             s == [sleeping EXCEPT ![k] = @ + 1]
  <1>1. Settle(Added(k), A, s, releaser, files) /\ live \subseteq A /\ k \in A
    BY DEF AddRef
  <1>2. k[1] = Ref(c)
    BY CounterIsOf
  <1> HIDE DEF k, A, s
  <1>3. /\ PoolKeeps /\ UNCHANGED releaser
        /\ \A r \in files', j \in A : j[1] = r => j \in live'
    BY <1>1, SettleKeeps
  <1> SUFFICES ASSUME NEW r \in files'
               PROVE  \/ \E j \in live' : j[1] = r
                      \/ \E b \in Clients : want[b][1] = r /\ pc'[b] \in {"add", "addInfo"}
    BY <1>3 DEF MetadataHasOwner, Ref
  <1>4. \/ \E j \in live : j[1] = r
        \/ \E b \in Clients : want[b][1] = r /\ pc[b] \in {"add", "addInfo"}
    BY <1>3, Parts DEF PoolKeeps, MetadataHasOwner, Ref
  <1>5. CASE \E j \in live : j[1] = r
    BY <1>5, <1>3 DEF PoolKeeps
  <1>6. ASSUME NEW b \in Clients, want[b][1] = r, pc[b] \in {"add", "addInfo"}
        PROVE  \/ \E j \in live' : j[1] = r
               \/ \E a \in Clients : want[a][1] = r /\ pc'[a] \in {"add", "addInfo"}
    <2>1. CASE b = c
      BY <2>1, <1>1, <1>2, <1>3, <1>6 DEF Ref
    <2>2. CASE b # c
      BY <2>2, <1>6
    <2> QED BY <2>1, <2>2
  <1> QED BY <1>4, <1>5, <1>6

\* The end of loadRef, for getLayer or for getLayerInfo.
LEMMA LoadRefOK == ASSUME LMIInv, NEW c \in Clients, LoadRef(c) PROVE LMIInv'
  <1>0. /\ pc[c] \in {"add", "addInfo"} /\ AddRef(Ref(c))
        /\ UNCHANGED <<layer, refcounter, made, done, want, using, got, safe>>
    BY DEF LoadRef, managerVars
  <1>t. ManagerTypeOK
    BY Parts
  <1>1. CASE pc[c] = "add"
    <2>1. Spawn(c) /\ pc' = [pc EXCEPT ![c] = "wait"]
      BY <1>1 DEF LoadRef, Spawn, To
    <2>2. \A b \in Clients \ {c} : pc'[b] = pc[b]
      BY <2>1, <1>t DEF ManagerTypeOK
    <2>3. MetadataHasOwner' /\ UNCHANGED releaser
      BY <1>0, <2>2, AddedOwner
    <2> QED BY <1>0, <1>1, <2>1, <2>3, SpawnStep
  <1>2. CASE pc[c] # "add"
    <2>1. pc' = [pc EXCEPT ![c] = "idle"] /\ UNCHANGED <<go, mine>>
      BY <1>2 DEF LoadRef, To, goVars
    <2>2. pc'[c] = "idle" /\ pc' = [pc EXCEPT ![c] = pc'[c]] /\ \A b \in Clients \ {c} : pc'[b] = pc[b]
      BY <2>1, <1>t DEF ManagerTypeOK
    <2>3. MetadataHasOwner' /\ UNCHANGED releaser
      BY <1>0, <2>2, AddedOwner
    <2>4. LookupFrame(c)
      BY <1>0, <2>2, <2>3 DEF LookupFrame
    <2>5. ControlInv'
      BY <1>0, <2>1, <2>2, <2>4, LookupControlOf
    <2>6. UseInv'
      BY <1>0, <2>1, Parts, UseFrameStep DEF UseFrame
    <2> QED BY <1>0, <2>1, <2>3, <2>4, <2>5, <2>6, LookupOthers, LookupStep
  <1> QED BY <1>1, <1>2

\* The fetch of loadRef, for getLayer or for getLayerInfo.
LEMMA FetchRefOK == ASSUME LMIInv, NEW c \in Clients, FetchRef(c) PROVE LMIInv'
  <1>0. /\ pc[c] \in {"load", "idle"}
        /\ UNCHANGED <<layer, refcounter, made, done, want, using, got, safe, go, mine, live, releaser>>
        /\ \/ files' = files \cup {Ref(c)} /\ pc' = [pc EXCEPT ![c] = IF pc[c] = "load" THEN "add" ELSE "addInfo"]
           \/ files' = files /\ pc' = [pc EXCEPT ![c] = "idle"]
    BY DEF FetchRef, WriteRef, To, managerVars, goVars, poolVars
  <1>t. ManagerTypeOK
    BY Parts
  <1>1. /\ pc'[c] \in {"idle", "add", "addInfo"} /\ pc' = [pc EXCEPT ![c] = pc'[c]]
        /\ pc'[c] = "add" => pc[c] = "load"
        /\ pc'[c] = "idle" => files' = files
        /\ files' \subseteq files \cup {Ref(c)}
    BY <1>0, <1>t DEF ManagerTypeOK
  <1>2. LookupFrame(c)
    BY <1>0, <1>1 DEF LookupFrame
  <1>3. \A b \in Clients \ {c} : pc'[b] = pc[b]
    BY <1>2, LookupOthers
  <1>4. ControlInv'
    <2>1. pc'[c] = "add" => Settled(c)
      BY <1>1, Parts DEF ControlInv
    <2> QED BY <1>0, <1>1, <1>2, <2>1, LookupControlOf
  <1>5. UseInv'
    BY <1>0, Parts, UseFrameStep DEF UseFrame
  <1>6. MetadataHasOwner'
    BY <1>0, <1>1, <1>3, Parts DEF MetadataHasOwner, Ref
  <1> QED BY <1>0, <1>2, <1>4, <1>5, <1>6, LookupOthers, LookupStep

\* getLayer returns, with what a goroutine sent or without a layer.
LEMMA ReturnStep ==
    ASSUME LMIInv, NEW c \in Clients, pc[c] = "wait", Return(c),
           got' \in [Clients -> Layers \cup {None}], \A b \in Clients \ {c} : got'[b] = got[b],
           got'[c] = got[c] \/ (c \in using => got'[c] = layer[want[c]])
    PROVE  LMIInv'
  <1>0. /\ pc' = [pc EXCEPT ![c] = "idle"]
        /\ go' = [g \in Goroutines |-> IF g[1] = c /\ go[g] = "send" THEN "off" ELSE go[g]]
        /\ mine' = [g \in Goroutines |-> IF g[1] = c /\ go[g] = "send" THEN None ELSE mine[g]]
        /\ UNCHANGED <<poolVars, layer, refcounter, made, done, want, using, safe>>
    BY DEF Return, To, managerVars
  <1>t. ManagerTypeOK
    BY Parts
  <1>1. pc'[c] = "idle" /\ pc' = [pc EXCEPT ![c] = pc'[c]]
    BY <1>0, <1>t DEF ManagerTypeOK
  <1>2. LookupFrame(c)
    BY <1>0, <1>1 DEF LookupFrame, poolVars
  <1>3. /\ \A b \in Clients \ {c} : pc'[b] = pc[b]
        /\ mine \in [Goroutines -> Layers \cup {None}] /\ safe \subseteq using /\ using \subseteq Clients
        /\ go \in [Goroutines -> {"off", "lock", "resolve", "cache", "record", "get", "send"}]
        /\ \A g \in Goroutines : g[1] \in Clients
    BY <1>2, LookupOthers
  <1>4. ASSUME NEW g \in Goroutines
        PROVE  \/ g[1] = c /\ go[g] = "send" /\ go'[g] = "off"
               \/ (g[1] # c \/ go[g] # "send") /\ go'[g] = go[g] /\ mine'[g] = mine[g]
    <2>1. CASE g[1] = c /\ go[g] = "send"
      BY <2>1, <1>0
    <2>2. CASE ~(g[1] = c /\ go[g] = "send")
      BY <2>2, <1>0
    <2> QED BY <2>1, <2>2
  <1>5. /\ go' \in [Goroutines -> {"off", "lock", "resolve", "cache", "record", "get", "send"}]
        /\ mine' \in [Goroutines -> Layers \cup {None}]
    BY <1>0, <1>3
  <1>6. ControlInv'
    BY <1>1, <1>2, <1>4, LookupControl
  <1>7. UseInv'
    BY <1>0, <1>3, <1>4, Parts DEF UseInv
  <1>8. MetadataHasOwner'
    BY <1>0, <1>3, Parts, UnchangedPool, MetadataFrame
  <1>9. \A g \in Goroutines : (go'[g] = "cache" <=> go[g] = "cache") /\ (go[g] = "cache" => mine'[g] = mine[g])
    BY <1>4
  <1> QED BY <1>0, <1>2, <1>3, <1>5, <1>6, <1>7, <1>8, <1>9, LookupStep

\* The lookup gives up.
LEMMA TimeoutOK == ASSUME LMIInv, NEW c \in Clients, Timeout(c) PROVE LMIInv'
  BY Parts, ReturnStep DEF Timeout, ManagerTypeOK

\* The lookup gets the layer that a goroutine found.
LEMMA ReceiveOK == ASSUME LMIInv, NEW g \in Goroutines, Receive(g) PROVE LMIInv'
  <1> DEFINE c == g[1]
  <1>0. go[g] = "send" /\ pc[c] = "wait" /\ got' = [got EXCEPT ![c] = mine[g]] /\ Return(c)
    BY DEF Receive
  <1>1. c \in Clients
    BY DEF Goroutines
  <1>2. got \in [Clients -> Layers \cup {None}] /\ mine[g] \in Layers \cup {None}
    BY Parts DEF ManagerTypeOK
  <1>3. c \in using => mine[g] = layer[want[c]]
    BY <1>0, Parts DEF UseInv
  <1> HIDE DEF c
  <1>4. /\ got' \in [Clients -> Layers \cup {None}] /\ \A b \in Clients \ {c} : got'[b] = got[b]
        /\ got'[c] = mine[g]
    BY <1>0, <1>1, <1>2
  <1> QED BY <1>0, <1>1, <1>3, <1>4, ReturnStep

\* No goroutine found the layer.
LEMMA AllDoneOK == ASSUME LMIInv, NEW c \in Clients, AllDone(c) PROVE LMIInv'
  <1>0. /\ pc[c] = "wait" /\ Settled(c) /\ pc' = [pc EXCEPT ![c] = "idle"]
        /\ UNCHANGED <<poolVars, layer, refcounter, made, done, want, using, got, safe, go, mine>>
    BY DEF AllDone, Settled, To, managerVars, goVars
  <1>1. pc'[c] = "idle" /\ pc' = [pc EXCEPT ![c] = pc'[c]]
    BY <1>0, Parts DEF ManagerTypeOK
  <1>2. LookupFrame(c)
    BY <1>0, <1>1 DEF LookupFrame, poolVars
  <1>3. \A b \in Clients \ {c} : pc'[b] = pc[b]
    BY <1>2, LookupOthers
  <1>4. ControlInv'
    BY <1>0, <1>1, <1>2, LookupControlOf
  <1>5. UseInv'
    BY <1>0, Parts, UseFrameStep DEF UseFrame
  <1>6. MetadataHasOwner'
    BY <1>0, <1>3, Parts, UnchangedPool, MetadataFrame
  <1> QED BY <1>0, <1>2, <1>4, <1>5, <1>6, LookupOthers, LookupStep
-----------------------------------------------------------------------------
\* A step of a goroutine: no client moves, and no counter.
States == {"off", "lock", "resolve", "cache", "record", "get", "send"}
GoFrame(g) ==
    /\ UNCHANGED <<poolVars, refcounter, clientVars>>
    /\ go[g] # "off" /\ go'[g] \in States /\ go' = [go EXCEPT ![g] = go'[g]]
    /\ mine' = [mine EXCEPT ![g] = mine'[g]]
    /\ made' \in Nat /\ made <= made'

\* Such a step keeps the invariant when the layers keep their owners and users.
LEMMA GoStep ==
    ASSUME LMIInv, NEW g \in Goroutines, GoFrame(g),
           done' \subseteq Layers', layer' \in [Pairs -> Layers' \cup {None}], mine'[g] \in Layers' \cup {None},
           go'[g] = "send" => pc[g[1]] = "wait" /\ mine'[g] # None,
           OwnerInv', UseInv', LayersKept'
    PROVE  LMIInv'
  <1>t. ManagerTypeOK
    BY Parts
  <1>u. UNCHANGED <<want, pc, using, got, safe, refcounter, releaser>> /\ PoolKeeps
    BY UnchangedPool DEF GoFrame, clientVars, poolVars
  <1>l. Layers \subseteq Layers'
    BY <1>t, SMTT(60) DEF GoFrame, ManagerTypeOK, Layers
  <1>g. /\ go' \in [Goroutines -> States] /\ mine' \in [Goroutines -> Layers' \cup {None}]
        /\ \A h \in Goroutines : h # g => go'[h] = go[h] /\ mine'[h] = mine[h]
    <2>1. go \in [Goroutines -> States] /\ mine \in [Goroutines -> Layers' \cup {None}]
      BY <1>t, <1>l DEF ManagerTypeOK, States
    <2>2. go' = [go EXCEPT ![g] = go'[g]] /\ mine' = [mine EXCEPT ![g] = mine'[g]] /\ go'[g] \in States
      BY DEF GoFrame
    <2> HIDE DEF States
    <2>3. go' \in [Goroutines -> States] /\ mine' \in [Goroutines -> Layers' \cup {None}]
      BY <2>1, <2>2, SMTT(60)
    <2>4. \A h \in Goroutines : h # g => go'[h] = go[h] /\ mine'[h] = mine[h]
      BY <2>1, <2>2
    <2> QED BY <2>3, <2>4
  <1>1. ManagerTypeOK'
    <2>1. got' \in [Clients -> Layers' \cup {None}]
      BY <1>t, <1>u, <1>l DEF ManagerTypeOK
    <2>2. made' \in Nat
      BY DEF GoFrame
    <2>3. /\ want' \in [Clients -> Pairs]
          /\ pc' \in [Clients -> {"idle", "use", "release", "load", "add", "addInfo", "wait"}]
          /\ using' \subseteq Clients /\ safe' \subseteq using'
      BY <1>t, <1>u DEF ManagerTypeOK
    <2>4. /\ DOMAIN refcounter' \subseteq Pairs /\ refcounter' \in [DOMAIN refcounter' -> Nat]
          /\ releaser' \in [Refs -> [count : Nat, counter : {releaser'[r].counter : r \in Refs}]]
      BY <1>t, <1>u DEF ManagerTypeOK
    <2> QED BY <1>g, <2>1, <2>2, <2>3, <2>4 DEF ManagerTypeOK, States
  <1>2. CountsAreUses'
    BY <1>u, Parts, CountFrameStep DEF CountFrame
  <1>3. ControlInv'
    <2>1. ASSUME NEW b \in Clients, pc[b] \in {"load", "add"} PROVE \A d \in Digests : go'[<<b, d>>] = "off"
      <3>1. \A d \in Digests : <<b, d>> \in Goroutines /\ go[<<b, d>>] = "off"
        BY <2>1, Parts DEF ControlInv, Settled, Goroutines
      <3> QED BY <3>1, <1>g DEF GoFrame
    <2>2. ASSUME NEW h \in Goroutines, go'[h] = "send" PROVE pc[h[1]] = "wait" /\ mine'[h] # None
      BY <2>2, <1>g, Parts DEF ControlInv
    <2> QED BY <2>1, <2>2, <1>u, Parts DEF ControlInv, Settled
  <1>4. MetadataHasOwner'
    BY <1>u, Parts, MetadataFrame
  <1> QED BY <1>1, <1>2, <1>3, <1>4, Whole

\* A step of a goroutine that leaves the cached layers alone.
LEMMA GoQuiet ==
    ASSUME LMIInv, NEW g \in Goroutines, GoFrame(g), UNCHANGED <<layer, made, done>>,
           go[g] # "cache", go'[g] # "cache", mine'[g] \in Layers \cup {None},
           go'[g] = "send" => pc[g[1]] = "wait" /\ mine'[g] # None /\ mine'[g] = layer[want[g[1]]]
    PROVE  LMIInv'
  <1>t. ManagerTypeOK
    BY Parts
  <1>g. \A h \in Goroutines : h # g => go'[h] = go[h] /\ mine'[h] = mine[h]
    BY <1>t DEF ManagerTypeOK, GoFrame
  <1>1. OwnerInv' /\ LayersKept'
    BY <1>g, Parts, CacheFrameStep DEF CacheFrame
  <1>2. UseInv'
    BY <1>g, Parts DEF UseInv, GoFrame, clientVars
  <1>3. Layers' = Layers
    BY DEF Layers
  <1> QED BY <1>t, <1>1, <1>2, <1>3, GoStep DEF ManagerTypeOK

\* A goroutine that moves and keeps its layer.
LEMMA GoMoves ==
    ASSUME LMIInv, NEW g \in Goroutines, NEW s \in {"resolve", "get", "off"}, GoTo(g, s),
           go[g] \in {"lock", "resolve", "record"},
           UNCHANGED <<poolVars, refcounter, clientVars, layer, made, done, mine>>
    PROVE  LMIInv'
  <1>t. ManagerTypeOK
    BY Parts
  <1>1. go'[g] = s /\ go' = [go EXCEPT ![g] = go'[g]]
    BY <1>t DEF ManagerTypeOK, GoTo
  <1>2. mine' = [mine EXCEPT ![g] = mine'[g]] /\ mine'[g] \in Layers \cup {None}
    BY <1>t DEF ManagerTypeOK
  <1>3. made' \in Nat /\ made <= made'
    BY <1>t, SMTT(60) DEF ManagerTypeOK
  <1>4. GoFrame(g)
    BY <1>1, <1>2, <1>3 DEF GoFrame, States
  <1> QED BY <1>1, <1>2, <1>4, GoQuiet

\* resolveLayer up to the outcome that is known, or the lock.
LEMMA ResolveLayerOK == ASSUME LMIInv, NEW g \in Goroutines, ResolveLayer(g) PROVE LMIInv'
  <1>1. /\ go[g] = "lock" /\ UNCHANGED <<poolVars, refcounter, clientVars, layer, made, done, mine>>
        /\ \E s \in {"resolve", "get", "off"} : GoTo(g, s)
    BY DEF ResolveLayer
  <1> QED BY <1>1, GoMoves

\* The end of resolveLayer.
LEMMA RecordOK ==
    ASSUME LMIInv, NEW g \in Goroutines, ResolveFails(g) \/ ResolveRecords(g)
    PROVE  LMIInv'
  <1>1. /\ go[g] \in {"resolve", "record"}
        /\ UNCHANGED <<poolVars, refcounter, clientVars, layer, made, done, mine>>
        /\ GoTo(g, "off") \/ GoTo(g, "get")
    BY DEF ResolveFails, ResolveRecords, Record
  <1> QED BY <1>1, GoMoves

\* A goroutine looks for the wanted layer.
LEMMA GetCachedLayerOK == ASSUME LMIInv, NEW g \in Goroutines, GetCachedLayer(g) PROVE LMIInv'
  <1> DEFINE l == IF pc[g[1]] = "wait" THEN layer[want[g[1]]] ELSE None
  <1>0. /\ go[g] = "get" /\ mine' = [mine EXCEPT ![g] = l]
        /\ go' = [go EXCEPT ![g] = IF l = None THEN "off" ELSE "send"]
        /\ UNCHANGED <<poolVars, managerVars, clientVars>>
    BY DEF GetCachedLayer, GoTo
  <1>t. ManagerTypeOK
    BY Parts
  <1>1. l \in Layers \cup {None} /\ (l # None => pc[g[1]] = "wait" /\ l = layer[want[g[1]]])
    BY <1>t DEF ManagerTypeOK, Goroutines
  <1> HIDE DEF l
  <1>2. /\ mine'[g] = l /\ mine' = [mine EXCEPT ![g] = mine'[g]]
        /\ go'[g] = (IF l = None THEN "off" ELSE "send") /\ go' = [go EXCEPT ![g] = go'[g]]
    BY <1>0, <1>t DEF ManagerTypeOK
  <1>3. UNCHANGED <<layer, made, done, refcounter>>
    BY <1>0 DEF managerVars
  <1>4. made' \in Nat /\ made <= made'
    BY <1>t, <1>3, SMTT(60) DEF ManagerTypeOK
  <1>5. GoFrame(g)
    BY <1>0, <1>2, <1>3, <1>4 DEF GoFrame, States
  <1>6. go'[g] # "cache" /\ (go'[g] = "send" => l # None)
    BY <1>2
  <1> QED BY <1>0, <1>1, <1>2, <1>3, <1>5, <1>6, GoQuiet

\* Resolve returns a layer: one that nobody knows yet.
LEMMA ResolveReturnsOK == ASSUME LMIInv, NEW g \in Goroutines, ResolveReturns(g) PROVE LMIInv'
  <1>0. /\ go[g] = "resolve" /\ made' = made + 1 /\ mine' = [mine EXCEPT ![g] = made + 1]
        /\ go' = [go EXCEPT ![g] = "cache"]
        /\ UNCHANGED <<poolVars, refcounter, clientVars, layer, done>>
    BY DEF ResolveReturns, GoTo
  <1>t. ManagerTypeOK
    BY Parts
  <1>m. /\ made' \in Nat /\ made <= made' /\ Layers \subseteq Layers' /\ Layers' = Layers \cup {made + 1}
        /\ made + 1 \notin Layers /\ made + 1 # None
    <2>1. made' = made + 1 /\ made \in Nat
      BY <1>0, <1>t DEF ManagerTypeOK
    <2>2. made' \in Nat /\ made <= made' /\ 1 .. made' = (1 .. made) \cup {made + 1} /\ made + 1 \notin 1 .. made
      BY <2>1, SMTT(60)
    <2>3. made + 1 # None
      BY <2>1, <2>2, ManagerAssumption
    <2> QED BY <2>2, <2>3 DEF Layers
  <1>1. /\ mine'[g] = made + 1 /\ mine' = [mine EXCEPT ![g] = mine'[g]]
        /\ go'[g] = "cache" /\ go' = [go EXCEPT ![g] = go'[g]]
        /\ \A h \in Goroutines : h # g => go'[h] = go[h] /\ mine'[h] = mine[h]
    BY <1>0, <1>t DEF ManagerTypeOK
  <1>2. GoFrame(g)
    BY <1>0, <1>1, <1>m DEF GoFrame, States
  <1>3. /\ done' \subseteq Layers' /\ layer' \in [Pairs -> Layers' \cup {None}]
        /\ made + 1 \notin done /\ (\A i \in Pairs : layer[i] # made + 1)
        /\ \A h \in Goroutines : mine[h] # made + 1
    <2>1. /\ done \subseteq Layers /\ layer \in [Pairs -> Layers \cup {None}]
          /\ mine \in [Goroutines -> Layers \cup {None}]
      BY <1>t DEF ManagerTypeOK
    <2>2. done' \subseteq Layers' /\ layer' \in [Pairs -> Layers' \cup {None}]
      BY <2>1, <1>0, <1>m
    <2>3. made + 1 \notin done /\ made + 1 \notin Layers \cup {None}
      BY <2>1, <1>m
    <2> QED BY <2>1, <2>2, <2>3
  <1>4. OwnerInv'
    <2>1. \A i, j \in Pairs : layer'[i] # None /\ layer'[i] = layer'[j] => i = j
      BY <1>0, Parts DEF OwnerInv
    <2>2. \A i \in Pairs : layer'[i] \notin done'
      BY <1>0, Parts DEF OwnerInv
    <2>3. ASSUME NEW h \in Goroutines, go'[h] = "cache"
          PROVE  mine'[h] # None /\ mine'[h] \notin done' /\ \A i \in Pairs : layer'[i] # mine'[h]
      <3>0. layer' = layer /\ done' = done
        BY <1>0
      <3>1. CASE h = g
        <4>1. mine'[h] = made + 1
          BY <3>1, <1>1
        <4> QED BY <4>1, <3>0, <1>3, <1>m
      <3>2. CASE h # g
        <4>1. go[h] = "cache" /\ mine'[h] = mine[h]
          BY <3>2, <2>3, <1>1
        <4> QED BY <4>1, <3>0, Parts DEF OwnerInv
      <3> QED BY <3>1, <3>2
    <2>4. \A h, k \in Goroutines : go'[h] = "cache" /\ go'[k] = "cache" /\ mine'[h] = mine'[k] => h = k
      BY <1>1, <1>3, Parts DEF OwnerInv
    <2> QED BY <2>1, <2>2, <2>3, <2>4 DEF OwnerInv
  <1>5. UseInv'
    <2>1. UNCHANGED <<layer, want, using, safe, got>>
      BY <1>0 DEF clientVars
    <2> QED BY <2>1, <1>1, Parts, UseFrameStep DEF UseFrame
  <1>6. LayersKept'
    <2> SUFFICES ASSUME NEW l \in Layers'
                 PROVE  \/ l \in done \/ l \in Range(layer)
                        \/ \E h \in Goroutines : go'[h] = "cache" /\ mine'[h] = l
      BY <1>0 DEF LayersKept, Layers
    <2>1. CASE l = made + 1
      BY <2>1, <1>1
    <2>2. CASE l \in Layers
      <3>1. \/ l \in done \/ l \in Range(layer)
            \/ \E h \in Goroutines : go[h] = "cache" /\ mine[h] = l
        BY <2>2, Parts DEF LayersKept, Layers
      <3>2. ASSUME NEW h \in Goroutines, go[h] = "cache", mine[h] = l
            PROVE  go'[h] = "cache" /\ mine'[h] = l
        BY <3>2, <1>0, <1>1
      <3> QED BY <3>1, <3>2
    <2> QED BY <2>1, <2>2, <1>m
  <1> QED BY <1>1, <1>2, <1>3, <1>4, <1>5, <1>6, <1>m, GoStep

\* cacheLayer: the layer goes to the cache when its place is free, and is given
\* back when another goroutine was faster.
LEMMA CacheLayerOK == ASSUME LMIInv, NEW g \in Goroutines, CacheLayer(g) PROVE LMIInv'
  <1> DEFINE i == <<Ref(g[1]), Toc[g[2]]>>
             m == mine[g]
  <1>0. /\ go[g] = "cache" /\ mine' = [mine EXCEPT ![g] = None]
        /\ go' = [go EXCEPT ![g] = "record"]
        /\ UNCHANGED <<poolVars, refcounter, clientVars, made>>
        /\ IF layer[i] = None THEN layer' = [layer EXCEPT ![i] = m] /\ UNCHANGED done
           ELSE done' = done \cup {m} /\ UNCHANGED layer
    BY DEF CacheLayer, GoTo
  <1>t. ManagerTypeOK
    BY Parts
  <1>i. i \in Pairs
    BY <1>t, ManagerAssumption DEF ManagerTypeOK, Goroutines, Pairs, Ref
  <1>m. /\ m \in Layers /\ m # None /\ m \notin done /\ (\A j \in Pairs : layer[j] # m)
        /\ \A h \in Goroutines \ {g} : go[h] = "cache" => mine[h] # m
    BY <1>0, <1>t, Parts DEF OwnerInv, ManagerTypeOK
  <1>n. None \notin Layers
    BY ManagerAssumption, SMTT(60) DEF Layers
  <1>1. /\ mine'[g] = None /\ mine' = [mine EXCEPT ![g] = mine'[g]]
        /\ go'[g] = "record" /\ go' = [go EXCEPT ![g] = go'[g]]
        /\ \A h \in Goroutines : h # g => go'[h] = go[h] /\ mine'[h] = mine[h]
    BY <1>0, <1>t DEF ManagerTypeOK
  <1>2. made' \in Nat /\ made <= made'
    BY <1>0, <1>t, SMTT(60) DEF ManagerTypeOK
  <1>3. GoFrame(g)
    BY <1>0, <1>1, <1>2 DEF GoFrame, States
  <1>u. want' = want /\ using' = using /\ safe' = safe /\ got' = got /\ Layers' = Layers
    BY <1>0 DEF clientVars, Layers
  <1>s. /\ layer \in [Pairs -> Layers \cup {None}] /\ done \subseteq Layers /\ safe \subseteq Clients
        /\ want \in [Clients -> Pairs] /\ \A h \in Goroutines : g[1] \in Clients
    BY <1>t DEF ManagerTypeOK, Goroutines
  <1>h. ASSUME NEW h \in Goroutines, go'[h] = "cache"
        PROVE  /\ h # g /\ go[h] = "cache" /\ mine'[h] = mine[h] /\ mine[h] # m
               /\ mine[h] # None /\ mine[h] \notin done /\ \A j \in Pairs : layer[j] # mine[h]
    <2>1. h # g /\ go[h] = "cache" /\ mine'[h] = mine[h]
      BY <1>h, <1>1
    <2>2. mine[h] # None /\ mine[h] \notin done /\ \A j \in Pairs : layer[j] # mine[h]
      BY <2>1, Parts DEF OwnerInv
    <2> QED BY <2>1, <2>2, <1>m
  <1>k. \A h, k \in Goroutines : go'[h] = "cache" /\ go'[k] = "cache" /\ mine'[h] = mine'[k] => h = k
    BY <1>h, Parts DEF OwnerInv
  <1> HIDE DEF i, m
  <1>4. CASE layer[i] = None
    <2>0. layer' = [layer EXCEPT ![i] = m] /\ UNCHANGED done
      BY <1>0, <1>4
    <2>1. /\ layer' \in [Pairs -> Layers \cup {None}] /\ layer'[i] = m
          /\ \A j \in Pairs : j # i => layer'[j] = layer[j]
      BY <2>0, <1>s, <1>i, <1>m
    <2>2. OwnerInv'
      <3>1. \A j, k \in Pairs : layer'[j] # None /\ layer'[j] = layer'[k] => j = k
        BY <2>1, <1>m, Parts DEF OwnerInv
      <3>2. \A j \in Pairs : layer'[j] \notin done'
        BY <2>0, <2>1, <1>m, Parts DEF OwnerInv
      <3>3. ASSUME NEW h \in Goroutines, go'[h] = "cache"
            PROVE  mine'[h] # None /\ mine'[h] \notin done' /\ \A j \in Pairs : layer'[j] # mine'[h]
        BY <3>3, <2>0, <2>1, <1>h
      <3> QED BY <3>1, <3>2, <3>3, <1>k DEF OwnerInv
    <2>3. UseInv'
      <3>1. ASSUME NEW b \in safe, got[b] # None PROVE got[b] = layer'[want[b]]
        <4>1. got[b] = layer[want[b]] /\ want[b] \in Pairs
          BY <3>1, <1>s, Parts DEF UseInv
        <4> QED BY <3>1, <4>1, <2>1, <1>4
      <3>2. ASSUME NEW h \in Goroutines, go'[h] = "send", h[1] \in using PROVE mine'[h] = layer'[want[h[1]]]
        <4>1. h # g /\ mine'[h] = mine[h] /\ mine[h] # None /\ mine[h] = layer[want[h[1]]]
          BY <3>2, <1>1, Parts DEF UseInv, ControlInv
        <4>2. want[h[1]] \in Pairs
          BY <1>s DEF Goroutines
        <4> QED BY <4>1, <4>2, <2>1, <1>4
      <3> QED BY <3>1, <3>2, <1>u DEF UseInv
    <2>4. LayersKept'
      <3> SUFFICES ASSUME NEW l \in Layers
                   PROVE  \/ l \in done \/ l \in Range(layer')
                          \/ \E h \in Goroutines : go'[h] = "cache" /\ mine'[h] = l
        BY <2>0, <1>u DEF LayersKept, Layers
      <3>d. DOMAIN layer' = Pairs /\ DOMAIN layer = Pairs
        BY <2>1, <1>s
      <3>1. CASE l \in Range(layer)
        <4>1. PICK j \in Pairs : l = layer[j]
          BY <3>1, <3>d DEF Range
        <4>2. l = layer'[j]
          BY <4>1, <2>1, <1>4, <1>n
        <4> QED BY <4>2, <3>d DEF Range
      <3>2. CASE \E h \in Goroutines : go[h] = "cache" /\ mine[h] = l
        <4>1. PICK h \in Goroutines : go[h] = "cache" /\ mine[h] = l
          BY <3>2
        <4>2. CASE h = g
          BY <4>1, <4>2, <2>1, <3>d, <1>i DEF Range, m
        <4>3. CASE h # g
          BY <4>1, <4>3, <1>1
        <4> QED BY <4>2, <4>3
      <3> QED BY <3>1, <3>2, Parts DEF LayersKept, Layers
    <2> QED BY <1>1, <1>3, <1>u, <1>s, <2>0, <2>1, <2>2, <2>3, <2>4, GoStep
  <1>5. CASE layer[i] # None
    <2>0. done' = done \cup {m} /\ UNCHANGED layer
      BY <1>0, <1>5
    <2>1. done' \subseteq Layers
      BY <2>0, <1>m, <1>s
    <2>2. OwnerInv'
      <3>1. /\ \A j, k \in Pairs : layer'[j] # None /\ layer'[j] = layer'[k] => j = k
            /\ \A j \in Pairs : layer'[j] \notin done'
        BY <2>0, <1>m, Parts DEF OwnerInv
      <3>2. ASSUME NEW h \in Goroutines, go'[h] = "cache"
            PROVE  mine'[h] # None /\ mine'[h] \notin done' /\ \A j \in Pairs : layer'[j] # mine'[h]
        BY <3>2, <2>0, <1>h
      <3> QED BY <3>1, <3>2, <1>k DEF OwnerInv
    <2>3. UseInv'
      BY <2>0, <1>1, <1>u, Parts DEF UseInv
    <2>4. LayersKept'
      BY <2>0, <1>1, <1>u, Parts DEF LayersKept, m, Layers
    <2> QED BY <1>1, <1>3, <1>u, <1>s, <2>0, <2>1, <2>2, <2>3, <2>4, GoStep
  <1> QED BY <1>4, <1>5

\* A done function of loadRef wakes up.
LEMMA SleepOverOK == ASSUME LMIInv, NEW k \in Counters, SleepOver(k) PROVE LMIInv'
  <1>0. UNCHANGED <<layer, refcounter, made, done, want, pc, using, got, safe, go, mine>>
    BY DEF SleepOver, managerVars, clientVars, goVars
  <1>1. PoolKeeps /\ UNCHANGED releaser
    <2> DEFINE s == [sleeping EXCEPT ![k] = @ - 1]
    <2>1. Settle(lru, live, s, releaser, files)
      BY DEF SleepOver, Wake
    <2> HIDE DEF s
    <2> QED BY <2>1, SettleKeeps
  <1>2. ManagerTypeOK'
    BY <1>0, <1>1, Parts DEF ManagerTypeOK, Layers
  <1>3. CountsAreUses'
    BY <1>0, <1>1, Parts, CountFrameStep DEF CountFrame
  <1>4. ControlInv'
    BY <1>0, Parts DEF ControlInv, Settled
  <1>5. OwnerInv' /\ LayersKept'
    BY <1>0, Parts, CacheFrameStep DEF CacheFrame
  <1>6. UseInv'
    BY <1>0, Parts, UseFrameStep DEF UseFrame
  <1>7. MetadataHasOwner'
    BY <1>0, <1>1, Parts, MetadataFrame
  <1> QED BY <1>2, <1>3, <1>4, <1>5, <1>6, <1>7, Whole

\* A step that changes nothing.
LEMMA ManagerStutter == ASSUME LMIInv, UNCHANGED layerManagerVars PROVE LMIInv'
  <1>0. UNCHANGED <<layer, refcounter, made, done, want, pc, using, got, safe, go, mine, releaser, live, files>>
    BY DEF layerManagerVars, poolVars, managerVars, clientVars, goVars
  <1>2. ManagerTypeOK'
    BY <1>0, Parts DEF ManagerTypeOK, Layers
  <1>3. CountsAreUses'
    BY <1>0, Parts, CountFrameStep DEF CountFrame
  <1>4. ControlInv'
    BY <1>0, Parts DEF ControlInv, Settled
  <1>5. OwnerInv' /\ LayersKept'
    BY <1>0, Parts, CacheFrameStep DEF CacheFrame
  <1>6. UseInv'
    BY <1>0, Parts, UseFrameStep DEF UseFrame
  <1>7. MetadataHasOwner'
    BY <1>0, Parts, MetadataFrame DEF PoolKeeps
  <1> QED BY <1>2, <1>3, <1>4, <1>5, <1>6, <1>7, Whole

\* Nobody uses anything at first.
LEMMA ManagerStarts == ManagerInit => LMIInv
  <1> SUFFICES ASSUME ManagerInit PROVE LMIInv
    OBVIOUS
  <1>1. ManagerTypeOK
    <2>1. releaser \in [Refs -> [count : Nat, counter : {releaser[r].counter : r \in Refs}]]
      <3>1. \A r \in Refs : releaser[r] = Unused /\ Unused \in [count : Nat, counter : {None}] /\ Unused.counter = None
        BY SMTT(60) DEF ManagerInit, PoolInit, Unused
      <3>2. \A r \in Refs : releaser[r] \in [count : Nat, counter : {releaser[q].counter : q \in Refs}]
        BY <3>1
      <3> QED BY <3>2 DEF ManagerInit, PoolInit
    <2>2. made \in Nat /\ DOMAIN refcounter = {} /\ refcounter \in [{} -> Nat]
      BY SMTT(60) DEF ManagerInit
    <2> QED BY <2>1, <2>2 DEF ManagerInit, ManagerTypeOK, Pairs, Layers
  <1>2. CountsAreUses
    <2>1. \A i : Users(i) = {} /\ Uses(i) = 0
      BY DEF ManagerInit, Users, Uses
    <2>2. \A r \in Refs : PoolUsers(r) = {} /\ releaser[r].count = 0
      BY DEF ManagerInit, PoolInit, PoolUsers, PoolUser, Unused
    <2> QED BY <2>1, <2>2, FS_EmptySet, CountsDef
  <1>3. ControlInv
    BY DEF ManagerInit, ControlInv
  <1>4. OwnerInv
    BY DEF ManagerInit, OwnerInv, Pairs
  <1>5. UseInv
    BY DEF ManagerInit, UseInv
  <1>6. MetadataHasOwner
    BY DEF ManagerInit, PoolInit, MetadataHasOwner
  <1>7. LayersKept
    <2>1. 1 .. 0 = {}
      BY SMTT(60)
    <2> QED BY <2>1 DEF ManagerInit, LayersKept
  <1> QED BY <1>1, <1>2, <1>3, <1>4, <1>5, <1>6, <1>7 DEF LMIInv, NothingLeaks, LayersKept

\* Every step of the manager and of its clients keeps the invariant.
THEOREM ManagerInvariant == ManagerSpec => []LMIInv
  <1>1. ASSUME LMIInv, [ManagerNext]_layerManagerVars PROVE LMIInv'
    <2>1. ASSUME NEW c \in Clients,
                 \/ Use(c) \/ UseLayer(c) \/ Release(c) \/ ReleaseLayer(c)
                 \/ GetLayer(c) \/ ReadRef(c) \/ FetchRef(c) \/ LoadRef(c) \/ Timeout(c) \/ AllDone(c)
          PROVE  LMIInv'
      BY <1>1, <2>1, UseOK, UseLayerOK, ReleaseOK, ReleaseLayerOK, GetLayerOK, ReadRefOK, FetchRefOK,
         LoadRefOK, TimeoutOK, AllDoneOK
    <2>2. ASSUME NEW g \in Goroutines,
                 \/ ResolveLayer(g) \/ ResolveReturns(g) \/ ResolveFails(g) \/ CacheLayer(g)
                 \/ ResolveRecords(g) \/ GetCachedLayer(g) \/ Receive(g)
          PROVE  LMIInv'
      BY <1>1, <2>2, ResolveLayerOK, ResolveReturnsOK, RecordOK, CacheLayerOK, GetCachedLayerOK, ReceiveOK
    <2>3. ASSUME NEW k \in Counters, SleepOver(k) PROVE LMIInv'
      BY <1>1, <2>3, SleepOverOK
    <2>4. CASE UNCHANGED layerManagerVars
      BY <1>1, <2>4, ManagerStutter
    <2> QED BY <1>1, <2>1, <2>2, <2>3, <2>4 DEF ManagerNext
  <1> QED BY <1>1, ManagerStarts, PTL DEF ManagerSpec

\* A layer that a client looked up while it was using it is not given back before that
\* client's own release, and the pool and the manager count the uses exactly, however the
\* halves of use and release of the clients interleave (UsedLayerIsOpen).
THEOREM LayerStaysOpen == ManagerSpec => []UsedLayerIsOpen
  <1>1. LMIInv => UsedLayerIsOpen
    BY DEF LMIInv, ManagerTypeOK, OwnerInv, UseInv, UsedLayerIsOpen
  <1> QED BY <1>1, ManagerInvariant, PTL

\* Every layer that was resolved is given back, cached or about to be cached, and the files
\* of an image have a counter that will remove them (NothingLeaks).
THEOREM ManagerLeaksNothing == ManagerSpec => []NothingLeaks
  <1>1. LMIInv => NothingLeaks
    BY DEF LMIInv
  <1> QED BY <1>1, ManagerInvariant, PTL
=============================================================================
