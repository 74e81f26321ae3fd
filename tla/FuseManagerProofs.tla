------------------------- MODULE FuseManagerProofs -------------------------
(***************************************************************************)
(* Theorems about FuseManager, for any numbers of mountpoints, calls and   *)
(* stacked mounts: the remote snapshots of a manager that was brought up   *)
(* to date are served, a mountpoint is mounted at most once, and fsMap     *)
(* leads to the instance that serves it.                                   *)
(*                                                                         *)
(* What makes the invariants inductive is who can be at a mountpoint: one  *)
(* mount call at most, since a snapshot is prepared once and restored by   *)
(* a daemon that has no other call, and no unmount that has found the      *)
(* mountpoint mapped while that mount call has not entered the map.        *)
(***************************************************************************)
EXTENDS FuseManager, Integers, TLAPS

Daemons == {"down", "init", "initing", "restore", "remount", "serving", "closing"}
Labels == {"idle", "sent", "mount", "map", "record", "unmount", "unmap", "unrecord"}

Stacks == Seq(Fs \cup {0})

\* The types that the proof needs.
TypeOK ==
    /\ daemon \in Daemons /\ newlyStarted \in BOOLEAN /\ work \subseteq Mountpoints
    /\ snap \in [Mountpoints -> {"none", "prep", "remote", "removed"}]
    /\ proc \in {"up", "down"} /\ socket \in BOOLEAN
    /\ status \in {"NotReady", "WaitInit", "Ready"} /\ init \in {"none", "config", "restore"}
    /\ todo \subseteq Mountpoints /\ ms \subseteq Mountpoints
    /\ curFs \in Fs \cup {0} /\ fsMap \in [Mountpoints -> Fs \cup {0}]
    /\ layer \in [Fs -> SUBSET Mountpoints]
    /\ mnt \in [Mountpoints -> Stacks]
    /\ pc \in [Calls -> Labels] /\ op \in [Calls -> {"none", "mount", "unmount"}]
    /\ at \in [Calls -> Mountpoints \cup {0}] /\ fs \in [Calls -> Fs \cup {0}]
    /\ recovered \in {"no", "pending", "yes"}

\* Nothing but the topmost mount of s is served.
OnlyTop(s) == \A i \in 1 .. Len(s) : s[i] # 0 => i = Len(s)

MountCall(c) == pc[c] # "idle" /\ op[c] = "mount"

\* What a call in flight is about; Init waits for the calls inside.
CallInv ==
    /\ \A c \in Calls : pc[c] # "idle" =>
         /\ at[c] \in Mountpoints /\ op[c] # "none" /\ snap[at[c]] # "none" /\ curFs # 0 /\ proc = "up"
         /\ pc[c] \in {"mount", "map", "record"} => op[c] = "mount"
         /\ pc[c] \in {"unmount", "unmap", "unrecord"} => op[c] = "unmount"
         /\ init # "none" => pc[c] = "sent"
    /\ \A c, d \in Calls : MountCall(c) /\ MountCall(d) /\ at[c] = at[d] => c = d

\* The processes: a manager without a socket does not run, an Init belongs to one that
\* runs, and the daemon that started the manager has it for itself until it serves.
ProcInv ==
    /\ ~socket => proc = "down"
    /\ proc = "down" => curFs = 0 /\ init = "none" /\ \A m \in Mountpoints : fsMap[m] = 0
    /\ init = "restore" => curFs # 0 /\ todo \subseteq ms /\ \A m \in ms \ todo : fsMap[m] # 0
    /\ daemon = "initing" => init # "none"
    /\ daemon \in {"restore", "remount", "serving", "closing"} =>
         init = "none" /\ (proc = "up" => curFs # 0)
    /\ daemon \in {"restore", "remount"} => newlyStarted /\ proc = "up"
    /\ newlyStarted /\ daemon \in {"init", "initing", "restore"} => \A c \in Calls : pc[c] = "idle"

\* What the restore has yet to do: nothing is mounted there, and what Init has restored
\* from the store is mapped.
RestoreInv ==
    /\ daemon = "restore" => \A m \in ms : fsMap[m] # 0
    /\ daemon = "remount" =>
         /\ \A c \in Calls : pc[c] # "idle" => op[c] = "mount" /\ at[c] \in work
         /\ \A m \in work \cap ms : fsMap[m] # 0
         /\ \A m \in work : On(m) = {} => mnt[m] = <<>>

\* A snapshot that was not prepared yet has left no trace.
NewInv == \A m \in Mountpoints : snap[m] = "none" => m \notin ms /\ m \notin work /\ fsMap[m] = 0

\* A mount call before it enters the map, and the unmount calls beside it.
Waiting(c) ==
    pc[c] = "sent" /\ op[c] = "mount" =>
        /\ fsMap[at[c]] = 0 \/ mnt[at[c]] = <<>>
        /\ at[c] \in ms => fsMap[at[c]] # 0
        /\ \A d \in On(at[c]) : pc[d] # "unmap"
        /\ \A d \in On(at[c]) : pc[d] = "unmount" => fsMap[at[c]] # 0

Mounting(c) ==
    /\ pc[c] \in {"mount", "map"} =>
         fsMap[at[c]] = 0 /\ \A d \in On(at[c]) : pc[d] \notin {"unmount", "unmap"}
    /\ pc[c] = "mount" => ~Live(at[c])
    /\ pc[c] = "map" => Top(at[c]) = curFs /\ at[c] \in layer[curFs]

MountCallInv == \A c \in Calls : Waiting(c) /\ Mounting(c)

\* Only the topmost mount of a mountpoint is served, by the instance in fsMap.
MntInv ==
    /\ \A m \in Mountpoints : OnlyTop(mnt[m])
    /\ \A m \in Mountpoints : Live(m) => \/ Top(m) = fsMap[m]
                                         \/ \E c \in Calls : pc[c] = "map" /\ at[c] = m
    /\ \A c \in Calls : pc[c] = "unmap" => ~Live(at[c])

Served(m) == Live(m) /\ Check(m)

\* A manager that is or will be up to date: what is mapped is served, unless its
\* snapshot is removed, and only such mountpoints are unmounted.
ServeInv ==
    recovered # "no" /\ proc = "up" =>
        /\ \A c \in Calls : pc[c] # "idle" /\ op[c] = "unmount" => snap[at[c]] = "removed"
        /\ \A c \in Calls : pc[c] = "record" => fsMap[at[c]] # 0 \/ snap[at[c]] = "removed"
        /\ \A m \in Mountpoints : fsMap[m] # 0 /\ snap[m] # "removed" => Served(m)
        /\ recovered = "yes" => \A m \in Mountpoints : snap[m] = "remote" => fsMap[m] # 0

RecoverInv ==
    /\ daemon = "closing" => recovered = "no"
    /\ newlyStarted /\ daemon \in {"init", "initing", "restore", "remount"} => recovered # "yes"
    /\ recovered = "pending" =>
         /\ newlyStarted /\ daemon \in {"init", "initing", "restore", "remount"}
         /\ daemon # "remount" => ms = {} /\ \A m \in Mountpoints : fsMap[m] = 0
         /\ daemon = "remount" =>
              \A m \in Mountpoints : snap[m] = "remote" => m \in work \/ fsMap[m] # 0

\* The inductive invariant.
IInv ==
    /\ TypeOK /\ CallInv /\ ProcInv /\ RestoreInv /\ NewInv /\ MountCallInv /\ MntInv
    /\ ServeInv /\ RecoverInv

-----------------------------------------------------------------------------
\* Most steps are first-order; those that need arithmetic, sequences or longer chains of
\* equalities ask for SMT.
USE ZenonT(60)

(* The mounts that are stacked on a mountpoint. *)

\* A mountpoint with nothing on it.
LEMMA EmptyStack == <<>> \in Stacks /\ OnlyTop(<<>>) /\ TopOf(<<>>) = 0
  BY SMTT(60) DEF Stacks, OnlyTop, TopOf

\* A mount on top of dead ones is the only one served.
LEMMA Push ==
    ASSUME NEW s \in Stacks, NEW f \in Fs
    PROVE  /\ Append(s, f) \in Stacks /\ TopOf(Append(s, f)) = f /\ f # 0
           /\ OnlyTop(s) /\ TopOf(s) = 0 => OnlyTop(Append(s, f))
  <1>1. /\ Append(s, f) \in Stacks /\ Len(Append(s, f)) = Len(s) + 1 /\ Len(s) \in Nat
        /\ Append(s, f)[Len(s) + 1] = f /\ \A i \in 1 .. Len(s) : Append(s, f)[i] = s[i]
    BY SMTT(60) DEF Stacks
  <1>2. f # 0
    BY SMTT(60) DEF Fs
  <1>3. TopOf(Append(s, f)) = f
    BY <1>1, SMTT(60) DEF TopOf
  <1>4. ASSUME OnlyTop(s), TopOf(s) = 0 PROVE OnlyTop(Append(s, f))
    <2>1. \A i \in 1 .. Len(s) : s[i] = 0
      BY <1>4, SMTT(60) DEF OnlyTop, TopOf
    <2> QED BY <1>1, <2>1, SMTT(60) DEF OnlyTop
  <1> QED BY <1>1, <1>2, <1>3, <1>4

\* Under a served mount there is none.
LEMMA Pop ==
    ASSUME NEW s \in Stacks, s # <<>>
    PROVE  /\ SubSeq(s, 1, Len(s) - 1) \in Stacks
           /\ OnlyTop(s) => OnlyTop(SubSeq(s, 1, Len(s) - 1)) /\ TopOf(SubSeq(s, 1, Len(s) - 1)) = 0
  <1> DEFINE t == SubSeq(s, 1, Len(s) - 1)
  <1>1. /\ t \in Stacks /\ Len(s) \in Nat \ {0} /\ Len(t) = Len(s) - 1
        /\ \A i \in 1 .. Len(t) : t[i] = s[i]
    <2> DEFINE n == Len(s) - 1
    <2>1. Len(s) \in Nat \ {0} /\ \A i \in 1 .. Len(s) : s[i] \in Fs \cup {0}
      BY SMTT(60) DEF Stacks
    <2>2. n \in Int /\ 1 \in Int /\ \A i \in 1 .. n : s[i] \in Fs \cup {0}
      BY <2>1, SMTT(60)
    <2> HIDE DEF n
    <2>3. /\ SubSeq(s, 1, n) \in Seq(Fs \cup {0})
          /\ Len(SubSeq(s, 1, n)) = IF 1 <= n THEN n - 1 + 1 ELSE 0
          /\ \A i \in 1 .. n - 1 + 1 : SubSeq(s, 1, n)[i] = s[1 + i - 1]
      BY <2>2, SMTT(60)
    <2>4. n = Len(s) - 1 /\ n - 1 + 1 = n /\ n >= 0 /\ \A i \in 1 .. n : 1 + i - 1 = i
      BY <2>1, SMTT(60) DEF n
    <2>5. t = SubSeq(s, 1, n)
      BY DEF n
    <2>6. Len(t) = n /\ \A i \in 1 .. n : t[i] = s[i]
      BY <2>2, <2>3, <2>4, <2>5, SMTT(60)
    <2> QED BY <2>1, <2>3, <2>4, <2>5, <2>6 DEF Stacks
  <1> HIDE DEF t
  <1>2. ASSUME OnlyTop(s) PROVE OnlyTop(t) /\ TopOf(t) = 0
    <2>1. \A i \in 1 .. Len(t) : t[i] = 0
      BY <1>1, <1>2, SMTT(60) DEF OnlyTop
    <2>2. t # <<>> => Len(t) \in 1 .. Len(t)
      BY <1>1, SMTT(60) DEF Stacks
    <2> QED BY <1>1, <2>1, <2>2 DEF OnlyTop, TopOf
  <1> QED BY <1>1, <1>2 DEF t

\* The mounts of a manager that is gone.
LEMMA Unserved ==
    ASSUME NEW s \in Stacks
    PROVE  LET t == [i \in DOMAIN s |-> 0] IN t \in Stacks /\ OnlyTop(t) /\ TopOf(t) = 0
  <1> DEFINE t == [i \in DOMAIN s |-> 0]
  <1>1. DOMAIN s = 1 .. Len(s) /\ Len(s) \in Nat
    BY SMTT(60) DEF Stacks
  <1>2. t \in Stacks
    BY <1>1, SMTT(60) DEF Stacks
  <1>3. Len(t) = Len(s) /\ \A i \in 1 .. Len(t) : t[i] = 0
    BY <1>1, <1>2, SMTT(60) DEF Stacks
  <1>4. t # <<>> => Len(t) \in 1 .. Len(t)
    BY <1>2, SMTT(60) DEF Stacks
  <1> HIDE DEF t
  <1> QED BY <1>2, <1>3, <1>4 DEF OnlyTop, TopOf, t

-----------------------------------------------------------------------------
\* The invariant holds on a fresh node.
LEMMA Start == Init => IInv
  <1> SUFFICES ASSUME Init PROVE IInv
    OBVIOUS
  <1>1. TypeOK
    BY EmptyStack DEF Init, TypeOK, Daemons, Labels
  <1>2. \A m \in Mountpoints : mnt[m] = <<>> /\ fsMap[m] = 0 /\ ~Live(m)
    BY DEF Init, Live, Top, TopOf
  <1>3. CallInv /\ ProcInv /\ RestoreInv /\ NewInv
    BY DEF Init, CallInv, MountCall, ProcInv, RestoreInv, NewInv
  <1>4. MountCallInv /\ MntInv
    BY <1>2, SMTT(60) DEF Init, MountCallInv, Waiting, Mounting, MntInv, OnlyTop
  <1>5. ServeInv /\ RecoverInv
    BY DEF Init, ServeInv, RecoverInv
  <1> QED BY <1>1, <1>3, <1>4, <1>5 DEF IInv

-----------------------------------------------------------------------------
(* Types. *)

\* The answer to a call keeps the types.
LEMMA ReturnTypes ==
    ASSUME TypeOK, CallInv, NEW c \in Calls, pc[c] # "idle", NEW ok \in BOOLEAN, Return(c, ok)
    PROVE  /\ daemon' \in Daemons /\ newlyStarted' \in BOOLEAN /\ work' \subseteq Mountpoints
           /\ snap' \in [Mountpoints -> {"none", "prep", "remote", "removed"}]
           /\ pc' \in [Calls -> Labels] /\ op' \in [Calls -> {"none", "mount", "unmount"}]
           /\ at' \in [Calls -> Mountpoints \cup {0}] /\ fs' \in [Calls -> Fs \cup {0}]
           /\ recovered' \in {"no", "pending", "yes"}
  BY DEF TypeOK, CallInv, Return, Exit, Daemons, Labels

\* The answer to Init keeps them.
LEMMA InitReturnsTypes ==
    ASSUME TypeOK, NEW ok \in BOOLEAN, InitReturns(ok)
    PROVE  /\ daemon' \in Daemons /\ newlyStarted' \in BOOLEAN /\ work' \subseteq Mountpoints
           /\ init' = "none" /\ status' = "Ready" /\ todo' = {} /\ recovered' \in {"no", "pending", "yes"}
  BY DEF TypeOK, InitReturns, AfterInit, Exit, Daemons

\* Every step keeps them.
LEMMA Types == ASSUME TypeOK, CallInv, ProcInv, [Next]_vars PROVE TypeOK'
  <1> USE DEF TypeOK, Daemons, Labels, daemonVars, serverVars, diskVars, callVars
  <1>1. CASE StartFuseManager
    BY <1>1 DEF StartFuseManager, StartNew, RunFuseManager
  <1>2. CASE InitUnavailable \/ RestoreDone \/ DaemonDies \/ Close
    <2>1. CASE InitUnavailable
      BY <2>1 DEF InitUnavailable, Exit
    <2>2. CASE RestoreDone
      BY <2>2 DEF RestoreDone
    <2>3. CASE DaemonDies
      BY <2>3 DEF DaemonDies, Exit, Orphan
    <2>4. CASE Close
      BY <2>4 DEF Close, Exit, Orphan
    <2> QED BY <1>2, <2>1, <2>2, <2>3, <2>4
  <1>20. CASE RestoreUnmount
    BY <1>20, EmptyStack DEF RestoreUnmount, Exit
  <1>3. CASE InitBegin
    BY <1>3 DEF InitBegin
  <1>4. CASE InitConfigFails
    BY <1>4, InitReturnsTypes DEF InitConfigFails
  <1>5. CASE InitConfigured
    <2>1. curFs' \in Fs
      BY <1>5 DEF InitConfigured, Free
    <2>2. layer' \in [Fs -> SUBSET Mountpoints]
      BY <1>5 DEF InitConfigured, Collect
    <2> QED BY <1>5, <2>1, <2>2 DEF InitConfigured
  <1>6. CASE InitRestore
    <2>1. curFs \in Fs
      BY <1>6 DEF InitRestore, ProcInv
    <2>2. PICK m \in todo : RestoreSkips(m) \/ RestoreMounts(m) \/ RestoreFails(m)
      BY <1>6 DEF InitRestore
    <2>3. UNCHANGED <<curFs, cri, diskVars, callVars, proc, socket>>
      BY <1>6 DEF InitRestore
    <2>4. [layer EXCEPT ![curFs] = @ \cup {m}] \in [Fs -> SUBSET Mountpoints]
      BY <2>1
    <2>5. [mnt EXCEPT ![m] = Append(@, curFs)] \in [Mountpoints -> Stacks]
      BY <2>1, Push
    <2>6. CASE RestoreSkips(m)
      BY <2>3, <2>6, SMTT(60) DEF RestoreSkips
    <2>7. CASE RestoreMounts(m)
      BY <2>1, <2>3, <2>4, <2>5, <2>7, SMTT(60) DEF RestoreMounts
    <2>8. CASE RestoreFails(m)
      BY <2>3, <2>4, <2>8, InitReturnsTypes DEF RestoreFails
    <2> QED BY <2>2, <2>6, <2>7, <2>8
  <1>7. CASE InitEnd
    BY <1>7, InitReturnsTypes DEF InitEnd
  <1>8. ASSUME NEW m \in Mountpoints, Remove(m) PROVE TypeOK'
    BY <1>8 DEF Remove
  <1>9. ASSUME NEW c \in Calls, NEW m \in Mountpoints, NEW o \in {"mount", "unmount"}, Send(c, o, m),
               UNCHANGED daemon, snap' \in [Mountpoints -> {"none", "prep", "remote", "removed"}]
        PROVE  TypeOK'
    BY <1>9, SMTT(60) DEF Send
  <1>10. ASSUME NEW c \in Calls, RestoreMount(c) \/ CloseUnmount(c) PROVE TypeOK'
    BY <1>9, <1>10 DEF RestoreMount, CloseUnmount
  <1>11. ASSUME NEW c \in Calls, NEW m \in Mountpoints, Prepare(c, m) \/ Cleanup(c, m) PROVE TypeOK'
    BY <1>9, <1>11, SMTT(60) DEF Prepare, Cleanup
  <1>12. ASSUME NEW c \in Calls, EnterMount(c) PROVE TypeOK'
    <2>1. pc[c] # "idle" /\ UNCHANGED <<ms, serverVars, proc, socket, layer, mnt>>
      BY <1>12 DEF EnterMount
    <2>2. CASE Return(c, FALSE)
      BY <2>1, <2>2, ReturnTypes
    <2>3. CASE /\ pc' = [pc EXCEPT ![c] = IF fsMap[at[c]] # 0 THEN "record" ELSE "mount"]
               /\ UNCHANGED <<op, at, fs, snap, daemonVars, recovered>>
      BY <2>1, <2>3, SMTT(60)
    <2> QED BY <1>12, <2>2, <2>3 DEF EnterMount
  <1>13. ASSUME NEW c \in Calls, EnterUnmount(c) PROVE TypeOK'
    <2>1. at[c] \in Mountpoints
      BY <1>13 DEF EnterUnmount, CallInv
    <2>2. pc[c] # "idle" /\ UNCHANGED <<ms, serverVars, proc, socket, layer, mnt>>
      BY <1>13 DEF EnterUnmount
    <2>3. ASSUME NEW ok \in BOOLEAN, Return(c, ok) PROVE TypeOK'
      BY <2>2, <2>3, ReturnTypes
    <2>4. CASE /\ pc' = [pc EXCEPT ![c] = "unmount"] /\ fs' = [fs EXCEPT ![c] = fsMap[at[c]]]
               /\ UNCHANGED <<op, at, snap, daemonVars, recovered>>
      BY <2>1, <2>2, <2>4, SMTT(60)
    <2> QED BY <1>13, <2>3, <2>4 DEF EnterUnmount
  <1>14. ASSUME NEW c \in Calls, FsMount(c) PROVE TypeOK'
    <2>1. at[c] \in Mountpoints /\ curFs \in Fs /\ pc[c] = "mount"
      BY <1>14 DEF FsMount, CallInv
    <2>a. [layer EXCEPT ![curFs] = @ \cup {at[c]}] \in [Fs -> SUBSET Mountpoints]
      BY <2>1
    <2>b. [mnt EXCEPT ![at[c]] = Append(@, curFs)] \in [Mountpoints -> Stacks]
      BY <2>1, Push
    <2>2. layer' \in [Fs -> SUBSET Mountpoints]
      BY <1>14, <2>a DEF FsMount
    <2>3. mnt' \in [Mountpoints -> Stacks]
      BY <1>14, <2>b DEF FsMount
    <2>4. UNCHANGED <<ms, serverVars, proc, socket>>
      BY <1>14 DEF FsMount
    <2>5. CASE Return(c, FALSE)
      BY <2>1, <2>2, <2>3, <2>4, <2>5, ReturnTypes
    <2>6. CASE pc' = [pc EXCEPT ![c] = "map"] /\ UNCHANGED <<op, at, fs, snap, daemonVars, recovered>>
      BY <2>1, <2>2, <2>3, <2>4, <2>6, SMTT(60)
    <2> QED BY <1>14, <2>5, <2>6 DEF FsMount
  <1>15. ASSUME NEW c \in Calls, MapStore(c) \/ MapDelete(c) PROVE TypeOK'
    BY <1>15, SMTT(60) DEF MapStore, MapDelete
  <1>16. ASSUME NEW c \in Calls, StoreFuseInfo(c) \/ RemoveFuseInfo(c) PROVE TypeOK'
    <2>1. at[c] \in Mountpoints /\ pc[c] # "idle" /\ Return(c, TRUE)
      BY <1>16 DEF StoreFuseInfo, RemoveFuseInfo, CallInv
    <2> QED BY <1>16, <2>1, ReturnTypes DEF StoreFuseInfo, RemoveFuseInfo
  <1>17. ASSUME NEW c \in Calls, FsUnmount(c) PROVE TypeOK'
    <2>1. at[c] \in Mountpoints /\ pc[c] = "unmount"
      BY <1>17 DEF FsUnmount, CallInv
    <2>2. layer' \in [Fs -> SUBSET Mountpoints]
      BY <1>17, <2>1 DEF FsUnmount
    <2>3. mnt' \in [Mountpoints -> Stacks]
      <3>1. mnt[at[c]] # <<>> => SubSeq(mnt[at[c]], 1, Len(mnt[at[c]]) - 1) \in Stacks
        BY <2>1, Pop
      <3> QED BY <1>17, <2>1, <3>1 DEF FsUnmount
    <2>4. UNCHANGED <<ms, serverVars, proc, socket>>
      BY <1>17 DEF FsUnmount
    <2>5. CASE Return(c, FALSE)
      BY <2>1, <2>2, <2>3, <2>4, <2>5, ReturnTypes
    <2>6. CASE pc' = [pc EXCEPT ![c] = "unmap"] /\ UNCHANGED <<op, at, fs, snap, daemonVars, recovered>>
      BY <2>1, <2>2, <2>3, <2>4, <2>6, SMTT(60)
    <2> QED BY <1>17, <2>5, <2>6 DEF FsUnmount
  <1>18. CASE ManagerCrashes \/ ManagerStops \/ Reboot
    <2>1. /\ ManagerGone /\ ms' \in {ms, {}} /\ socket' \in {socket, FALSE}
          /\ UNCHANGED <<daemonVars, recovered>> \/ Exit
          /\ \/ mnt' = [m \in Mountpoints |-> [i \in DOMAIN mnt[m] |-> 0]]
             \/ mnt' = [m \in Mountpoints |-> <<>>]
      BY <1>18 DEF ManagerCrashes, ManagerStops, Reboot, CloseStore
    <2>2. \A m \in Mountpoints : [i \in DOMAIN mnt[m] |-> 0] \in Stacks
      BY Unserved
    <2>3. mnt' \in [Mountpoints -> Stacks]
      BY <2>1, <2>2, EmptyStack
    <2> QED BY <2>1, <2>3 DEF ManagerGone, NoCall, Orphan, Exit
  <1>19. CASE UNCHANGED vars
    BY <1>19, SMTT(60) DEF vars
  <1> QED BY <1>1, <1>2, <1>3, <1>4, <1>5, <1>6, <1>7, <1>8, <1>10, <1>11, <1>12, <1>13, <1>14, <1>15,
             <1>16, <1>17, <1>18, <1>19, <1>20 DEF Next

-----------------------------------------------------------------------------
(* The calls. *)

\* A call returns: only a mount call that has entered the map succeeds, and only an
\* unmount makes an instance forget its layer.
LEMMA ReturnStep ==
    ASSUME IInv, TypeOK', NEW c \in Calls, NEW ok \in BOOLEAN, Return(c, ok),
           pc[c] \in {"sent", "mount", "record", "unmount", "unrecord"},
           ok /\ op[c] = "mount" => pc[c] = "record",
           UNCHANGED <<serverVars, proc, socket, mnt>>,
           \/ ms' = ms
           \/ pc[c] = "record" /\ ok /\ ms' = ms \cup {at[c]}
           \/ pc[c] = "unrecord" /\ ms' = ms \ {at[c]},
           \A f \in Fs, m \in Mountpoints :
               m \in layer[f] => m \in layer'[f] \/ (m = at[c] /\ pc[c] = "unmount")
    PROVE  IInv'
  <1> DEFINE m == at[c]
  <1>1. /\ m \in Mountpoints /\ snap[m] # "none" /\ op[c] \in {"mount", "unmount"}
        /\ proc = "up" /\ curFs # 0
        /\ init # "none" => pc[c] = "sent"
        /\ pc[c] \in {"mount", "map", "record"} => op[c] = "mount"
        /\ pc[c] \in {"unmount", "unmap", "unrecord"} => op[c] = "unmount"
    BY DEF IInv, TypeOK, CallInv
  <1>2. \A d \in Calls : IF d = c THEN pc'[d] = "idle"
                         ELSE pc'[d] = pc[d] /\ op'[d] = op[d] /\ at'[d] = at[d] /\ fs'[d] = fs[d]
    BY DEF IInv, TypeOK, Return
  <1>3. \A n \in Mountpoints : \/ snap'[n] = snap[n]
                               \/ /\ n = m /\ snap[n] = "prep" /\ op[c] = "mount"
                                  /\ snap'[n] = IF ok THEN "remote" ELSE "removed"
    BY <1>1, SMTT(60) DEF IInv, TypeOK, Return
  <1>4. \/ /\ daemon' = "down" /\ ~newlyStarted' /\ work' = {}
           /\ recovered' = IF recovered = "pending" THEN "no" ELSE recovered
        \/ /\ UNCHANGED <<daemon, newlyStarted>>
           /\ recovered' \in {recovered, "no"}
           /\ work' \in {work, work \ {m}}
           /\ daemon = "remount" /\ m \in work /\ op[c] = "mount" =>
                work' = work \ {m} /\ (~ok => recovered' = "no")
    BY DEF Return, Exit
  <1>5. /\ UNCHANGED <<status, init, todo, curFs, fsMap, cri, proc, socket, mnt>>
        /\ \A n \in Mountpoints : /\ Top(n)' = Top(n) /\ (Live(n)' <=> Live(n))
                                  /\ On(n)' = On(n) \ {c} /\ (n # m => c \notin On(n))
    <2>1. UNCHANGED <<status, init, todo, curFs, fsMap, cri, proc, socket, mnt>>
      BY DEF serverVars
    <2>2. \A n \in Mountpoints : Top(n)' = Top(n) /\ (Live(n)' <=> Live(n))
      BY <2>1 DEF Top, Live
    <2>3. \A n \in Mountpoints : On(n)' = On(n) \ {c} /\ (n # m => c \notin On(n))
      BY <1>2 DEF On
    <2> QED BY <2>1, <2>2, <2>3
  <1>6. /\ pc[c] = "unrecord" \/ ms \subseteq ms'
        /\ \A n \in ms' : n \in ms \/ (n = m /\ pc[c] = "record" /\ ok)
        /\ \A n \in ms : n \in ms' \/ (n = m /\ pc[c] = "unrecord")
    OBVIOUS
  <1>7. \A n \in Mountpoints : n # m => snap'[n] = snap[n]
    BY <1>3
  <1> HIDE DEF m
  <1>10. CallInv'
    BY <1>1, <1>2, <1>3, <1>5, SMTT(60) DEF IInv, TypeOK, CallInv, MountCall
  <1>11. ProcInv'
    BY <1>1, <1>2, <1>4, <1>5, <1>6, SMTT(60) DEF IInv, TypeOK, ProcInv
  <1>12. RestoreInv'
    <2>1. CASE daemon' = "restore"
      BY <1>1, <1>4, <2>1 DEF IInv, ProcInv
    <2>2. CASE daemon' = "remount"
      <3>1. daemon = "remount" /\ op[c] = "mount" /\ m \in work /\ work' = work \ {m}
        BY <1>1, <1>4, <2>2 DEF IInv, RestoreInv, m
      <3>2. \A d \in Calls : pc[d] # "idle" /\ d # c => op[d] = "mount" /\ at[d] # m
        BY <1>1, <3>1 DEF IInv, RestoreInv, CallInv, MountCall, m
      <3> QED BY <1>2, <1>5, <1>6, <2>2, <3>1, <3>2, SMTT(60) DEF IInv, RestoreInv, TypeOK
    <2> QED BY <2>1, <2>2 DEF RestoreInv
  <1>13. NewInv'
    BY <1>1, <1>3, <1>4, <1>5, <1>6 DEF IInv, TypeOK, NewInv
  <1>14. MountCallInv'
    <2> SUFFICES ASSUME NEW d \in Calls, pc'[d] # "idle" PROVE Waiting(d)' /\ Mounting(d)'
      BY DEF MountCallInv, Waiting, Mounting
    <2>1. /\ d # c /\ pc'[d] = pc[d] /\ op'[d] = op[d] /\ at'[d] = at[d] /\ at[d] \in Mountpoints
          /\ Waiting(d) /\ Mounting(d)
      BY <1>2 DEF IInv, CallInv, MountCallInv
    <2>2. Waiting(d)'
      BY <1>1, <1>2, <1>5, <1>6, <2>1, SMTT(60) DEF Waiting, On, IInv, CallInv, MountCall, m
    <2>3. Mounting(d)'
      BY <1>1, <1>2, <1>5, <2>1, SMTT(60) DEF Mounting, Live, Top, On, IInv, TypeOK, m
    <2> QED BY <2>2, <2>3
  <1>15. MntInv'
    <2>1. \A n \in Mountpoints : OnlyTop(mnt'[n])
      BY <1>5 DEF IInv, MntInv
    <2>2. \A d \in Calls : pc[d] = "map" => pc'[d] = "map" /\ at'[d] = at[d]
      BY <1>2
    <2>3. \A d \in Calls : pc'[d] = "unmap" => pc[d] = "unmap" /\ at'[d] = at[d] /\ at[d] \in Mountpoints
      BY <1>2 DEF IInv, CallInv
    <2>4. ASSUME NEW n \in Mountpoints, Live(n)'
          PROVE  Top(n)' = fsMap'[n] \/ \E d \in Calls : pc'[d] = "map" /\ at'[d] = n
      <3>1. Top(n) = fsMap[n] \/ \E d \in Calls : pc[d] = "map" /\ at[d] = n
        BY <1>5, <2>4 DEF IInv, MntInv
      <3> QED BY <1>5, <2>2, <2>4, <3>1
    <2>5. \A d \in Calls : pc'[d] = "unmap" => TopOf(mnt'[at'[d]]) = 0
      BY <1>5, <2>3 DEF IInv, MntInv, Live, Top
    <2> QED BY <2>1, <2>4, <2>5 DEF MntInv, Live, Top
  <1>16. ServeInv'
    <2> SUFFICES ASSUME recovered' # "no" PROVE ServeInv'
      BY DEF ServeInv
    <2>1. recovered # "no" /\ (recovered' = "yes" => recovered = "yes")
      BY <1>4
    <2>2. \A n \in Mountpoints : snap[n] = "removed" => snap'[n] = "removed"
      BY <1>3
    <2>3. \A d \in Calls : pc'[d] # "idle" =>
              pc[d] = pc'[d] /\ op'[d] = op[d] /\ at'[d] = at[d] /\ at[d] \in Mountpoints
      BY <1>2 DEF IInv, CallInv
    <2>4. ASSUME NEW n \in Mountpoints, fsMap[n] # 0, snap'[n] # "removed" PROVE Served(n)'
      <3>1. Served(n) /\ fsMap[n] \in Fs
        BY <1>1, <2>1, <2>2, <2>4 DEF IInv, ServeInv, TypeOK
      <3>2. n \in layer'[fsMap[n]]
        BY <1>1, <2>1, <2>2, <2>4, <3>1, SMTT(60) DEF Served, Check, IInv, ServeInv, m
      <3> QED BY <1>5, <3>1, <3>2, <2>4 DEF Served, Check
    <2>5. ASSUME recovered' = "yes", NEW n \in Mountpoints, snap'[n] = "remote" PROVE fsMap[n] # 0
      BY <1>1, <1>3, <2>1, <2>5 DEF IInv, ServeInv, m
    <2> QED BY <1>1, <1>5, <2>1, <2>2, <2>3, <2>4, <2>5, SMTT(60) DEF IInv, ServeInv
  <1>17. RecoverInv'
    BY <1>1, <1>2, <1>3, <1>4, <1>5, <1>6, SMTT(60) DEF IInv, TypeOK, RecoverInv, ProcInv, RestoreInv, ServeInv, m
  <1> QED BY <1>10, <1>11, <1>12, <1>13, <1>14, <1>15, <1>16, <1>17 DEF IInv

\* A call is sent: a mount for a new snapshot or by a daemon that has no other call, an
\* unmount for a removed snapshot or by a daemon that closes.
LEMMA SendStep ==
    ASSUME IInv, TypeOK', NEW c \in Calls, NEW m \in Mountpoints, NEW o \in {"mount", "unmount"},
           Send(c, o, m), UNCHANGED daemon, proc = "up",
           \/ /\ o = "mount" /\ daemon = "serving" /\ snap[m] = "none"
              /\ snap' = [snap EXCEPT ![m] = "prep"]
           \/ /\ o = "mount" /\ daemon = "remount" /\ m \in work /\ snap' = snap
              /\ \A d \in Calls : pc[d] = "idle"
           \/ /\ o = "unmount" /\ snap' = snap
              /\ \/ daemon = "serving" /\ snap[m] = "removed"
                 \/ daemon = "closing" /\ m \in work
    PROVE  IInv'
  <1>1. /\ daemon \in {"serving", "remount", "closing"} /\ curFs # 0 /\ init = "none"
        /\ daemon = "closing" => recovered = "no"
        /\ daemon = "serving" => recovered # "pending"
    BY DEF IInv, ProcInv, RecoverInv
  <1>2. /\ pc[c] = "idle" /\ pc'[c] = "sent" /\ op'[c] = o /\ at'[c] = m
        /\ \A d \in Calls : d # c => pc'[d] = pc[d] /\ op'[d] = op[d] /\ at'[d] = at[d]
    BY DEF Send, IInv, TypeOK
  <1>3. /\ \A n \in Mountpoints : snap'[n] = IF n = m /\ snap[m] = "none" THEN "prep" ELSE snap[n]
        /\ \A n \in work : snap[n] # "none"
    BY DEF IInv, TypeOK, NewInv
  <1>4. /\ UNCHANGED <<newlyStarted, work, ms, status, init, todo, curFs, fsMap, cri, proc, socket>>
        /\ UNCHANGED <<layer, mnt, recovered, daemon>>
        /\ \A n \in Mountpoints : Top(n)' = Top(n) /\ (Live(n)' <=> Live(n))
    BY DEF Send, serverVars, Top, Live
  <1>5. o = "mount" => /\ \A d \in Calls : pc[d] # "idle" => at[d] # m
                       /\ fsMap[m] = 0 \/ mnt[m] = <<>>
                       /\ m \in ms => fsMap[m] # 0
    <2>1. CASE daemon = "serving"
      BY <2>1 DEF IInv, CallInv, NewInv
    <2>2. CASE daemon = "remount"
      BY <2>2 DEF IInv, RestoreInv, On
    <2> QED BY <2>1, <2>2
  <1>10. CallInv'
    <2>1. ASSUME NEW d \in Calls, pc'[d] # "idle"
          PROVE  /\ at'[d] \in Mountpoints /\ op'[d] # "none" /\ snap'[at'[d]] # "none"
                 /\ pc'[d] \in {"mount", "map", "record"} => op'[d] = "mount"
                 /\ pc'[d] \in {"unmount", "unmap", "unrecord"} => op'[d] = "unmount"
      BY <1>2, <1>3, <2>1, SMTT(60) DEF IInv, CallInv, TypeOK
    <2>2. \A d, e \in Calls : MountCall(d)' /\ MountCall(e)' /\ at'[d] = at'[e] => d = e
      BY <1>2, <1>5, SMTT(60) DEF IInv, CallInv, MountCall
    <2> QED BY <1>1, <1>4, <2>1, <2>2 DEF CallInv
  <1>11. ProcInv'
    BY <1>1, <1>4 DEF IInv, ProcInv
  <1>12. RestoreInv'
    BY <1>2, <1>4 DEF IInv, RestoreInv, On
  <1>13. NewInv'
    BY <1>3, <1>4 DEF IInv, NewInv
  <1>14. MountCallInv'
    <2> SUFFICES ASSUME NEW d \in Calls, pc'[d] # "idle" PROVE Waiting(d)' /\ Mounting(d)'
      BY DEF MountCallInv, Waiting, Mounting
    <2>1. CASE d = c
      BY <1>2, <1>4, <1>5, <2>1 DEF Waiting, Mounting, On
    <2>2. CASE d # c
      <3>1. Waiting(d) /\ Mounting(d) /\ at[d] \in Mountpoints
        BY <1>2, <2>2 DEF IInv, CallInv, MountCallInv
      <3>2. Waiting(d)'
        BY <1>2, <1>4, <2>2, <3>1 DEF Waiting, On
      <3>3. Mounting(d)'
        BY <1>2, <1>4, <2>2, <3>1 DEF Mounting, On, Live, Top
      <3> QED BY <3>2, <3>3
    <2> QED BY <2>1, <2>2
  <1>15. MntInv'
    <2>1. \A d \in Calls : pc[d] = "map" => pc'[d] = "map" /\ at'[d] = at[d]
      BY <1>2
    <2>2. \A d \in Calls : pc'[d] = "unmap" => pc[d] = "unmap" /\ at'[d] = at[d]
      BY <1>2
    <2>3. \A n \in Mountpoints : OnlyTop(mnt'[n])
      BY <1>4 DEF IInv, MntInv
    <2>4. ASSUME NEW n \in Mountpoints, Live(n)'
          PROVE  Top(n)' = fsMap'[n] \/ \E d \in Calls : pc'[d] = "map" /\ at'[d] = n
      <3>1. Top(n) = fsMap[n] \/ \E d \in Calls : pc[d] = "map" /\ at[d] = n
        BY <1>4, <2>4 DEF IInv, MntInv
      <3> QED BY <1>4, <2>1, <3>1
    <2>5. ASSUME NEW d \in Calls, pc'[d] = "unmap" PROVE TopOf(mnt'[at'[d]]) = 0
      BY <1>4, <2>2, <2>5 DEF IInv, MntInv, Live, Top
    <2> QED BY <2>3, <2>4, <2>5 DEF MntInv, Live, Top
  <1>16. ServeInv'
    <2> SUFFICES ASSUME recovered # "no", proc = "up" PROVE ServeInv'
      BY <1>4 DEF ServeInv
    <2>1. \A n \in Mountpoints : Served(n)' <=> Served(n)
      BY <1>4 DEF Served, Check
    <2>2. \A d \in Calls : pc'[d] # "idle" /\ op'[d] = "unmount" => snap'[at'[d]] = "removed"
      BY <1>1, <1>2, <1>3, SMTT(60) DEF IInv, ServeInv, CallInv
    <2>3. ASSUME NEW d \in Calls, pc'[d] = "record" PROVE fsMap'[at'[d]] # 0 \/ snap'[at'[d]] = "removed"
      <3>1. pc[d] = "record" /\ at'[d] = at[d] /\ at[d] \in Mountpoints
        BY <1>2, <2>3 DEF IInv, CallInv
      <3> QED BY <1>3, <1>4, <3>1 DEF IInv, ServeInv
    <2>4. ASSUME NEW n \in Mountpoints, fsMap'[n] # 0, snap'[n] # "removed" PROVE Served(n)'
      BY <1>3, <1>4, <2>1, <2>4, SMTT(60) DEF IInv, ServeInv
    <2>5. ASSUME NEW n \in Mountpoints, recovered' = "yes", snap'[n] = "remote" PROVE fsMap'[n] # 0
      BY <1>3, <1>4, <2>5, SMTT(60) DEF IInv, ServeInv
    <2> QED BY <2>2, <2>3, <2>4, <2>5 DEF ServeInv
  <1>17. RecoverInv'
    BY <1>1, <1>3, <1>4 DEF IInv, RecoverInv
  <1> QED BY <1>10, <1>11, <1>12, <1>13, <1>14, <1>15, <1>16, <1>17 DEF IInv

\* What a step of call c inside the server may change: its control, and at its mountpoint
\* m the map, the layer and the mounts.
Moves(c, m) ==
    /\ \A d \in Calls \ {c} : pc'[d] = pc[d]
    /\ m = at[c] /\ pc[c] # "idle" /\ init = "none"
    /\ \/ pc'[c] \in {"mount", "map", "record"} /\ op[c] = "mount"
       \/ pc'[c] \in {"unmount", "unmap", "unrecord"} /\ op[c] = "unmount"
    /\ UNCHANGED <<op, at, daemonVars, diskVars, status, init, todo, curFs, cri, proc, socket, recovered>>
    /\ \A n \in Mountpoints \ {m} : /\ mnt'[n] = mnt[n] /\ fsMap'[n] = fsMap[n]
                                    /\ \A f \in Fs : n \in layer'[f] <=> n \in layer[f]

\* It keeps the invariant if it keeps what the invariant says about m.
LEMMA MoveStep ==
    ASSUME IInv, TypeOK', NEW c \in Calls, NEW m \in Mountpoints, Moves(c, m),
           \A d \in On(m) : Waiting(d)' /\ Mounting(d)',
           OnlyTop(mnt'[m]),
           Live(m)' => Top(m)' = fsMap'[m] \/ \E d \in Calls : pc'[d] = "map" /\ at[d] = m,
           \A d \in On(m) : pc'[d] = "unmap" => ~Live(m)',
           op[c] = "mount" /\ fsMap[m] # 0 => fsMap'[m] # 0,
           recovered # "no" =>
             /\ \A d \in On(m) : pc'[d] = "record" => fsMap'[m] # 0 \/ snap[m] = "removed"
             /\ fsMap'[m] # 0 /\ snap[m] # "removed" => Served(m)'
             /\ recovered = "yes" /\ snap[m] = "remote" => fsMap'[m] # 0
    PROVE  IInv'
  <1>1. /\ m = at[c] /\ pc[c] # "idle" /\ init = "none" /\ snap[m] # "none"
        /\ proc = "up" /\ curFs \in Fs /\ curFs # 0 /\ pc'[c] \notin {"idle", "sent"}
        /\ daemon = "remount" => m \in work /\ op[c] = "mount"
        /\ newlyStarted => daemon \notin {"init", "initing", "restore"}
        /\ daemon # "restore"
    BY DEF Moves, IInv, CallInv, RestoreInv, ProcInv, TypeOK
  <1>2. /\ UNCHANGED <<op, at, daemon, newlyStarted, work, snap, ms, status, init, todo, curFs, cri>>
        /\ UNCHANGED <<proc, socket, recovered>>
    BY DEF Moves, daemonVars, diskVars
  <1>3. /\ \A d \in Calls : d # c => pc'[d] = pc[d]
        /\ \A d \in Calls : pc'[d] # "idle" <=> pc[d] # "idle"
        /\ \A n \in Mountpoints : On(n)' = On(n)
    BY <1>1, <1>2 DEF Moves, On
  <1>4. \A n \in Mountpoints : n # m =>
            /\ mnt'[n] = mnt[n] /\ fsMap'[n] = fsMap[n] /\ Top(n)' = Top(n) /\ (Live(n)' <=> Live(n))
            /\ \A f \in Fs : n \in layer'[f] <=> n \in layer[f]
    BY DEF Moves, Top, Live
  <1>10. CallInv'
    <2>1. \A d, e \in Calls : MountCall(d)' /\ MountCall(e)' /\ at'[d] = at'[e] => d = e
      BY <1>2, <1>3 DEF IInv, CallInv, MountCall
    <2>2. ASSUME NEW d \in Calls, pc'[d] # "idle"
          PROVE  /\ at'[d] \in Mountpoints /\ op'[d] # "none" /\ snap'[at'[d]] # "none"
                 /\ curFs' # 0 /\ proc' = "up" /\ init' = "none"
      BY <1>1, <1>2, <1>3, <2>2 DEF IInv, CallInv
    <2>3. ASSUME NEW d \in Calls, pc'[d] # "idle"
          PROVE  /\ pc'[d] \in {"mount", "map", "record"} => op'[d] = "mount"
                 /\ pc'[d] \in {"unmount", "unmap", "unrecord"} => op'[d] = "unmount"
      BY <1>2, <1>3, <2>3, SMTT(60) DEF IInv, CallInv, Moves
    <2> QED BY <2>1, <2>2, <2>3 DEF CallInv
  <1>11. ProcInv'
    BY <1>1, <1>2, <1>3 DEF IInv, ProcInv
  <1>12. RestoreInv'
    <2> SUFFICES ASSUME daemon = "remount" PROVE RestoreInv'
      BY <1>1, <1>2 DEF RestoreInv
    <2>1. c \in On(m)
      BY <1>1 DEF On
    <2> QED BY <1>1, <1>2, <1>3, <1>4, <2>1, SMTT(60) DEF IInv, RestoreInv, TypeOK
  <1>13. NewInv'
    BY <1>1, <1>2, <1>4 DEF IInv, NewInv
  <1>14. MountCallInv'
    <2> SUFFICES ASSUME NEW d \in Calls, pc'[d] # "idle", d \notin On(m) PROVE Waiting(d)' /\ Mounting(d)'
      BY DEF MountCallInv, Waiting, Mounting
    <2>1. Waiting(d) /\ Mounting(d) /\ at[d] \in Mountpoints /\ at[d] # m /\ d # c
      BY <1>1, <1>3 DEF IInv, CallInv, MountCallInv, On
    <2>2. \A e \in On(at[d]) : pc'[e] = pc[e]
      BY <1>1, <1>3, <2>1 DEF On
    <2>3. On(at[d])' = On(at[d])
      BY <1>2, <1>3, <2>1 DEF On
    <2>4. Waiting(d)'
      BY <1>2, <1>3, <1>4, <2>1, <2>2, <2>3 DEF Waiting
    <2>5. Mounting(d)'
      <3>1. /\ TopOf(mnt'[at[d]]) = TopOf(mnt[at[d]]) /\ fsMap'[at[d]] = fsMap[at[d]]
            /\ at[d] \in layer'[curFs] <=> at[d] \in layer[curFs]
        BY <1>1, <1>4, <2>1
      <3> QED BY <1>2, <1>3, <2>1, <2>2, <2>3, <3>1 DEF Mounting, Live, Top
    <2> QED BY <2>4, <2>5
  <1>15. MntInv'
    <2>1. \A n \in Mountpoints : OnlyTop(mnt'[n])
      BY <1>4 DEF IInv, MntInv
    <2>2. ASSUME NEW n \in Mountpoints, Live(n)', n # m
          PROVE  Top(n)' = fsMap'[n] \/ \E d \in Calls : pc'[d] = "map" /\ at'[d] = n
      <3>1. Top(n) = fsMap[n] \/ \E d \in Calls : pc[d] = "map" /\ at[d] = n
        BY <1>4, <2>2 DEF IInv, MntInv
      <3> QED BY <1>1, <1>2, <1>3, <1>4, <2>2, <3>1
    <2>3. ASSUME NEW d \in Calls, pc'[d] = "unmap", d \notin On(m) PROVE TopOf(mnt'[at[d]]) = 0
      <3>1. d # c /\ at[d] # m /\ at[d] \in Mountpoints /\ pc[d] = "unmap"
        BY <1>1, <1>3, <2>3 DEF IInv, CallInv, On
      <3> QED BY <1>4, <3>1 DEF IInv, MntInv, Live, Top
    <2>4. ASSUME NEW d \in Calls, pc'[d] = "unmap", d \in On(m) PROVE TopOf(mnt'[at[d]]) = 0
      BY <2>4 DEF On, Live, Top
    <2>5. \A d \in Calls : pc'[d] = "unmap" => ~Live(at[d])'
      BY <1>2, <2>3, <2>4 DEF Live, Top
    <2> QED BY <1>2, <2>1, <2>2, <2>5 DEF MntInv, Live, Top
  <1>16. ServeInv'
    <2> SUFFICES ASSUME recovered # "no" PROVE ServeInv'
      BY <1>2 DEF ServeInv
    <2>1. \A n \in Mountpoints : n # m => (fsMap[n] # 0 => (Served(n)' <=> Served(n)))
      BY <1>4 DEF Served, Check, IInv, TypeOK
    <2>2. \A d \in Calls : pc'[d] = "record" /\ d \notin On(m) =>
              pc[d] = "record" /\ at[d] # m /\ at[d] \in Mountpoints
      BY <1>1, <1>3 DEF IInv, CallInv, On
    <2>3. \A d \in On(m) : at[d] = m
      BY DEF On
    <2>4. /\ \A d \in Calls : pc[d] # "idle" /\ op[d] = "unmount" => snap[at[d]] = "removed"
          /\ \A d \in Calls : pc[d] = "record" => fsMap[at[d]] # 0 \/ snap[at[d]] = "removed"
          /\ \A n \in Mountpoints : fsMap[n] # 0 /\ snap[n] # "removed" => Served(n)
          /\ recovered = "yes" => \A n \in Mountpoints : snap[n] = "remote" => fsMap[n] # 0
      BY <1>1 DEF IInv, ServeInv
    <2>5. \A d \in Calls : pc'[d] # "idle" /\ op'[d] = "unmount" => snap'[at'[d]] = "removed"
      BY <1>2, <1>3, <2>4
    <2>6. ASSUME NEW d \in Calls, pc'[d] = "record" PROVE fsMap'[at'[d]] # 0 \/ snap'[at'[d]] = "removed"
      BY <1>2, <1>4, <2>2, <2>3, <2>4, <2>6
    <2>7. ASSUME NEW n \in Mountpoints, fsMap'[n] # 0, snap'[n] # "removed" PROVE Served(n)'
      BY <1>2, <1>4, <2>1, <2>4, <2>7
    <2>8. recovered' = "yes" => \A n \in Mountpoints : snap'[n] = "remote" => fsMap'[n] # 0
      BY <1>2, <1>4, <2>4
    <2> QED BY <2>5, <2>6, <2>7, <2>8 DEF ServeInv
  <1>17. RecoverInv'
    BY <1>1, <1>2, <1>4 DEF IInv, RecoverInv
  <1> QED BY <1>10, <1>11, <1>12, <1>13, <1>14, <1>15, <1>16, <1>17 DEF IInv

\* Mount finds a server that is ready, and its mountpoint known or not.
LEMMA EnterMountStep == ASSUME IInv, TypeOK', NEW c \in Calls, EnterMount(c) PROVE IInv'
  <1>1. pc[c] = "sent" /\ op[c] = "mount" /\ init = "none" /\ UNCHANGED <<ms, serverVars, proc, socket, layer, mnt>>
    BY DEF EnterMount
  <1>2. CASE status # "Ready"
    BY <1>1, <1>2, ReturnStep DEF EnterMount
  <1>3. CASE status = "Ready"
    <2>0. PICK m \in Mountpoints : m = at[c]
      BY <1>1 DEF IInv, CallInv
    <2>1. Waiting(c) /\ \A d \in Calls : MountCall(d) /\ at[d] = m => d = c
      BY <1>1, <2>0 DEF IInv, CallInv, MountCall, MountCallInv
    <2>2. /\ pc'[c] = IF fsMap[m] # 0 THEN "record" ELSE "mount"
          /\ \A d \in Calls \ {c} : pc'[d] = pc[d]
          /\ UNCHANGED <<op, at, fs, snap, daemonVars, recovered, mnt, fsMap, layer, ms, curFs>>
      BY <1>1, <1>3, <2>0 DEF EnterMount, IInv, TypeOK, serverVars
    <2>3. Moves(c, m)
      BY <1>1, <2>0, <2>2 DEF Moves, serverVars, diskVars
    <2>4. \A d \in On(m) : d = c \/ (pc[d] \in {"sent", "unmount", "unmap", "unrecord"} /\ op[d] = "unmount")
      BY <2>1 DEF On, MountCall, IInv, CallInv, TypeOK, Labels
    <2>5. ~Live(m) \/ fsMap[m] # 0
      <3>1. \A d \in Calls : pc[d] = "map" /\ at[d] = m => d = c
        BY <2>1 DEF IInv, CallInv, MountCall
      <3> QED BY <1>1, <2>0, <2>1, <3>1 DEF IInv, MntInv, Live
    <2>6. \A d \in On(m) : Waiting(d)' /\ Mounting(d)'
      <3>1. Waiting(c)' /\ Mounting(c)'
        BY <1>1, <2>0, <2>1, <2>2, <2>4, <2>5 DEF Waiting, Mounting, On, Live, Top
      <3>2. ASSUME NEW d \in On(m), d # c PROVE Waiting(d)' /\ Mounting(d)'
        BY <2>0, <2>2, <2>4, <3>2 DEF Waiting, Mounting, On
      <3> QED BY <3>1, <3>2
    <2>7. /\ OnlyTop(mnt'[m])
          /\ Live(m)' => Top(m)' = fsMap'[m] \/ \E d \in Calls : pc'[d] = "map" /\ at[d] = m
          /\ \A d \in On(m) : pc'[d] = "unmap" => ~Live(m)'
      <3>1. \A d \in On(m) : pc'[d] = "unmap" => pc[d] = "unmap" /\ at[d] = m
        BY <2>2 DEF On
      <3>2. Live(m) => Top(m) = fsMap[m] \/ \E d \in Calls : pc'[d] = "map" /\ at[d] = m
        BY <1>1, <2>1, <2>2 DEF IInv, MntInv
      <3>3. OnlyTop(mnt'[m])
        BY <2>2 DEF IInv, MntInv
      <3>4. ASSUME NEW d \in On(m), pc'[d] = "unmap" PROVE ~Live(m)'
        <4>1. d \in Calls /\ pc[d] = "unmap" /\ at[d] = m
          BY <3>1, <3>4 DEF On
        <4>2. ~Live(m)
          BY <4>1 DEF IInv, MntInv
        <4> QED BY <2>2, <4>2 DEF Live, Top
      <3> QED BY <2>2, <3>2, <3>3, <3>4 DEF Live, Top
    <2>8. recovered # "no" =>
            /\ \A d \in On(m) : pc'[d] = "record" => fsMap'[m] # 0 \/ snap[m] = "removed"
            /\ fsMap'[m] # 0 /\ snap[m] # "removed" => Served(m)'
            /\ recovered = "yes" /\ snap[m] = "remote" => fsMap'[m] # 0
      <3>1. Served(m)' <=> Served(m)
        BY <2>2 DEF Served, Check, Live, Top
      <3>2. \A d \in On(m) : pc'[d] = "record" => fsMap[m] # 0
        BY <2>2, <2>4 DEF On
      <3>3. proc = "up"
        BY <1>1 DEF IInv, CallInv
      <3> QED BY <2>2, <3>1, <3>2, <3>3 DEF IInv, ServeInv
    <2> QED BY <2>1, <2>2, <2>3, <2>6, <2>7, <2>8, MoveStep
  <1> QED BY <1>2, <1>3

\* Unmount looks its filesystem up.
LEMMA EnterUnmountStep == ASSUME IInv, TypeOK', NEW c \in Calls, EnterUnmount(c) PROVE IInv'
  <1>1. /\ pc[c] = "sent" /\ op[c] = "unmount" /\ init = "none"
        /\ UNCHANGED <<ms, serverVars, proc, socket, layer, mnt>>
    BY DEF EnterUnmount
  <1>2. CASE Return(c, FALSE) \/ Return(c, mnt[at[c]] = <<>>)
    BY <1>1, <1>2, ReturnStep
  <1>3. CASE /\ fsMap[at[c]] # 0 /\ pc' = [pc EXCEPT ![c] = "unmount"]
             /\ UNCHANGED <<op, at, snap, daemonVars, recovered>>
    <2>1. PICK m \in Mountpoints : m = at[c]
      BY <1>1 DEF IInv, CallInv
    <2>2. /\ pc'[c] = "unmount" /\ \A d \in Calls \ {c} : pc'[d] = pc[d]
          /\ UNCHANGED <<op, at, snap, daemonVars, recovered, mnt, fsMap, layer, ms, curFs>>
      BY <1>1, <1>3 DEF IInv, TypeOK, serverVars
    <2>3. Moves(c, m)
      BY <1>1, <2>1, <2>2 DEF Moves, serverVars, diskVars
    <2>4. \A d \in On(m) : Waiting(d)' /\ Mounting(d)'
      <3>1. Waiting(c)' /\ Mounting(c)'
        BY <2>2 DEF Waiting, Mounting
      <3>2. ASSUME NEW d \in On(m), d # c PROVE Waiting(d)' /\ Mounting(d)'
        <4>1. Waiting(d) /\ Mounting(d) /\ at[d] = m /\ pc[d] \notin {"mount", "map"}
          BY <1>3, <2>1 DEF On, IInv, MountCallInv, Mounting
        <4> QED BY <1>3, <2>1, <2>2, <3>2, <4>1 DEF Waiting, Mounting, On
      <3> QED BY <3>1, <3>2
    <2>5. /\ OnlyTop(mnt'[m])
          /\ Live(m)' => Top(m)' = fsMap'[m] \/ \E d \in Calls : pc'[d] = "map" /\ at[d] = m
          /\ \A d \in On(m) : pc'[d] = "unmap" => ~Live(m)'
      <3>1. \A d \in On(m) : pc'[d] = "unmap" => pc[d] = "unmap" /\ at[d] = m
        BY <2>2 DEF On
      <3>2. Live(m) => Top(m) = fsMap[m] \/ \E d \in Calls : pc'[d] = "map" /\ at[d] = m
        <4>1. Live(m) => Top(m) = fsMap[m] \/ \E d \in Calls : pc[d] = "map" /\ at[d] = m
          BY DEF IInv, MntInv
        <4>2. \A d \in Calls : pc[d] = "map" => pc'[d] = "map"
          BY <1>1, <2>2
        <4> QED BY <4>1, <4>2
      <3> QED BY <2>1, <2>2, <3>1, <3>2 DEF IInv, MntInv, Live, Top, On
    <2>6. recovered # "no" =>
            /\ \A d \in On(m) : pc'[d] = "record" => fsMap'[m] # 0 \/ snap[m] = "removed"
            /\ fsMap'[m] # 0 /\ snap[m] # "removed" => Served(m)'
            /\ recovered = "yes" /\ snap[m] = "remote" => fsMap'[m] # 0
      BY <1>1, <1>3, <2>1, <2>2 DEF IInv, CallInv, ServeInv
    <2> QED BY <2>1, <2>2, <2>3, <2>4, <2>5, <2>6, MoveStep
  <1> QED BY <1>2, <1>3 DEF EnterUnmount

\* The filesystem mounts the layer.
LEMMA FsMountStep == ASSUME IInv, TypeOK', NEW c \in Calls, FsMount(c) PROVE IInv'
  <1>1. pc[c] = "mount" /\ op[c] = "mount" /\ init = "none" /\ UNCHANGED <<ms, serverVars, proc, socket>>
    BY DEF FsMount, IInv, CallInv, TypeOK
  <1>2. PICK m \in Mountpoints : m = at[c]
    BY <1>1 DEF IInv, CallInv
  <1>3. curFs \in Fs
    BY DEF FsMount, IInv, TypeOK
  <1>4. ASSUME layer' \in {layer, [layer EXCEPT ![curFs] = @ \cup {m}]}, Return(c, FALSE), UNCHANGED mnt
        PROVE  IInv'
    <2>1. \A f \in Fs, n \in Mountpoints : n \in layer[f] => n \in layer'[f]
      BY <1>3, <1>4 DEF IInv, TypeOK
    <2> QED BY <1>1, <1>4, <2>1, ReturnStep
  <1>5. ASSUME mnt' = [mnt EXCEPT ![m] = Append(@, curFs)], layer' = [layer EXCEPT ![curFs] = @ \cup {m}],
               pc' = [pc EXCEPT ![c] = "map"], UNCHANGED <<op, at, fs, snap, daemonVars, recovered>>
        PROVE  IInv'
    <2>1. /\ Mounting(c) /\ fsMap[m] = 0 /\ ~Live(m)
          /\ \A d \in On(m) : pc[d] \notin {"unmount", "unmap"}
          /\ \A d \in Calls : MountCall(d) /\ at[d] = m => d = c
      BY <1>1, <1>2 DEF IInv, CallInv, MountCall, MountCallInv, Mounting
    <2>2. /\ pc'[c] = "map" /\ \A d \in Calls \ {c} : pc'[d] = pc[d]
          /\ UNCHANGED <<op, at, fs, snap, daemonVars, recovered, fsMap, ms, curFs>>
      BY <1>1, <1>5 DEF IInv, TypeOK, serverVars
    <2>3. /\ \A n \in Mountpoints \ {m} : mnt'[n] = mnt[n]
          /\ \A n \in Mountpoints, f \in Fs : n \in layer'[f] <=> n \in layer[f] \/ (f = curFs /\ n = m)
      BY <1>3, <1>5 DEF IInv, TypeOK
    <2>4. mnt'[m] = Append(mnt[m], curFs) /\ mnt[m] \in Stacks /\ OnlyTop(mnt[m]) /\ TopOf(mnt[m]) = 0
      BY <1>5, <2>1, SMTT(60) DEF IInv, TypeOK, MntInv, Live, Top
    <2>5. OnlyTop(mnt'[m]) /\ TopOf(mnt'[m]) = curFs /\ Top(m)' = curFs
      BY <1>3, <2>4, Push DEF Top
    <2>6. Moves(c, m)
      BY <1>1, <1>2, <2>2, <2>3 DEF Moves, serverVars, diskVars
    <2>7. \A d \in On(m) : pc'[d] # "unmap" /\ (d = c \/ (op[d] = "unmount" /\ pc[d] \notin {"mount", "map", "record"}))
      BY <2>1, <2>2, SMTT(60) DEF On, MountCall, IInv, CallInv, TypeOK
    <2>8. \A d \in On(m) : Waiting(d)' /\ Mounting(d)'
      <3>1. Waiting(c)' /\ Mounting(c)'
        BY <1>1, <1>2, <1>3, <2>1, <2>2, <2>3, <2>5 DEF Waiting, Mounting, On, Live, Top
      <3>2. ASSUME NEW d \in On(m), d # c PROVE Waiting(d)' /\ Mounting(d)'
        BY <2>2, <2>7, <3>2 DEF Waiting, Mounting, On
      <3> QED BY <3>1, <3>2
    <2>9. Live(m)' => Top(m)' = fsMap'[m] \/ \E d \in Calls : pc'[d] = "map" /\ at[d] = m
      BY <1>2, <2>2
    <2>10. recovered # "no" =>
             /\ \A d \in On(m) : pc'[d] = "record" => fsMap'[m] # 0 \/ snap[m] = "removed"
             /\ fsMap'[m] # 0 /\ snap[m] # "removed" => Served(m)'
             /\ recovered = "yes" /\ snap[m] = "remote" => fsMap'[m] # 0
      <3>1. proc = "up" /\ \A d \in On(m) : pc'[d] # "record"
        BY <1>1, <2>2, <2>7 DEF IInv, CallInv, On
      <3> QED BY <2>1, <2>2, <3>1 DEF IInv, ServeInv
    <2> QED BY <2>1, <2>2, <2>5, <2>6, <2>7, <2>8, <2>9, <2>10, MoveStep
  <1> QED BY <1>2, <1>4, <1>5 DEF FsMount

\* The mount is recorded in fsMap.
LEMMA MapStoreStep == ASSUME IInv, TypeOK', NEW c \in Calls, MapStore(c) PROVE IInv'
  <1>1. pc[c] = "map" /\ op[c] = "mount" /\ init = "none" /\ proc = "up"
    BY DEF MapStore, IInv, CallInv, TypeOK
  <1>2. PICK m \in Mountpoints : m = at[c]
    BY <1>1 DEF IInv, CallInv
  <1>3. /\ Mounting(c) /\ Top(m) = curFs /\ m \in layer[curFs] /\ curFs # 0
        /\ \A d \in On(m) : pc[d] \notin {"unmount", "unmap"}
        /\ \A d \in Calls : MountCall(d) /\ at[d] = m => d = c
    BY <1>1, <1>2 DEF IInv, CallInv, MountCall, MountCallInv, Mounting
  <1>4. /\ pc'[c] = "record" /\ \A d \in Calls \ {c} : pc'[d] = pc[d]
        /\ fsMap'[m] = curFs /\ \A n \in Mountpoints \ {m} : fsMap'[n] = fsMap[n]
        /\ UNCHANGED <<op, at, fs, snap, daemonVars, recovered, ms, curFs, mnt, layer>>
    BY <1>2 DEF MapStore, IInv, TypeOK, diskVars
  <1>5. Moves(c, m)
    BY <1>1, <1>2, <1>4 DEF Moves, MapStore
  <1>6. \A d \in On(m) : pc'[d] # "unmap" /\ (d = c \/ (op[d] = "unmount" /\ pc[d] \notin {"mount", "map", "record"}))
    BY <1>3, <1>4, SMTT(60) DEF On, MountCall, IInv, CallInv, TypeOK
  <1>7. \A d \in On(m) : Waiting(d)' /\ Mounting(d)'
    BY <1>4, <1>6 DEF Waiting, Mounting, On
  <1>8. OnlyTop(mnt'[m]) /\ Top(m)' = fsMap'[m] /\ Served(m)'
    BY <1>3, <1>4 DEF IInv, MntInv, Served, Check, Live, Top
  <1> QED BY <1>3, <1>4, <1>5, <1>6, <1>7, <1>8, MoveStep

\* The mount is recorded on the disk.
LEMMA StoreFuseInfoStep == ASSUME IInv, TypeOK', NEW c \in Calls, StoreFuseInfo(c) PROVE IInv'
  <1>1. /\ pc[c] = "record" /\ Return(c, TRUE) /\ UNCHANGED <<serverVars, proc, socket, layer, mnt>>
        /\ ms' = ms \/ ms' = ms \cup {at[c]}
    BY DEF StoreFuseInfo
  <1> QED BY <1>1, ReturnStep

\* Unmount takes its record from the disk.
LEMMA RemoveFuseInfoStep == ASSUME IInv, TypeOK', NEW c \in Calls, RemoveFuseInfo(c) PROVE IInv'
  <1>1. /\ pc[c] = "unrecord" /\ Return(c, TRUE) /\ UNCHANGED <<serverVars, proc, socket, layer, mnt>>
        /\ ms' = ms \/ ms' = ms \ {at[c]}
    BY DEF RemoveFuseInfo
  <1>2. op[c] = "unmount"
    BY <1>1 DEF IInv, CallInv
  <1> QED BY <1>1, <1>2, ReturnStep

\* The filesystem unmounts the layer.
LEMMA FsUnmountStep == ASSUME IInv, TypeOK', NEW c \in Calls, FsUnmount(c) PROVE IInv'
  <1>1. pc[c] = "unmount" /\ op[c] = "unmount" /\ init = "none" /\ UNCHANGED <<ms, serverVars, proc, socket>>
    BY DEF FsUnmount, IInv, CallInv, TypeOK
  <1>2. PICK m \in Mountpoints : m = at[c]
    BY <1>1 DEF IInv, CallInv
  <1>3. \A n \in Mountpoints, f \in Fs : n \in layer'[f] <=> n \in layer[f] /\ ~(f = fs[c] /\ n = m)
    BY <1>2 DEF FsUnmount, IInv, TypeOK
  <1>4. ASSUME Return(c, FALSE), UNCHANGED mnt PROVE IInv'
    BY <1>1, <1>2, <1>3, <1>4, ReturnStep
  <1>5. ASSUME mnt[m] # <<>>, mnt' = [mnt EXCEPT ![m] = SubSeq(@, 1, Len(@) - 1)],
               pc' = [pc EXCEPT ![c] = "unmap"], UNCHANGED <<op, at, fs, snap, daemonVars, recovered>>
        PROVE  IInv'
    <2>1. \A d \in On(m) : /\ at[d] = m /\ pc[d] \notin {"mount", "map"}
                           /\ pc[d] = "sent" => op[d] # "mount"
      <3>1. c \in On(m)
        BY <1>1, <1>2 DEF On
      <3> QED BY <1>1, <1>5, <3>1 DEF IInv, MountCallInv, Waiting, Mounting, On
    <2>2. /\ pc'[c] = "unmap" /\ \A d \in Calls \ {c} : pc'[d] = pc[d]
          /\ UNCHANGED <<op, at, fs, snap, daemonVars, recovered, fsMap, ms, curFs>>
      BY <1>1, <1>5 DEF IInv, TypeOK, serverVars
    <2>3. \A n \in Mountpoints \ {m} : mnt'[n] = mnt[n]
      BY <1>5 DEF IInv, TypeOK
    <2>4. mnt'[m] = SubSeq(mnt[m], 1, Len(mnt[m]) - 1) /\ mnt[m] \in Stacks /\ OnlyTop(mnt[m])
      BY <1>5 DEF IInv, TypeOK, MntInv
    <2>5. OnlyTop(mnt'[m]) /\ ~Live(m)'
      BY <1>5, <2>4, Pop DEF Live, Top
    <2>6. Moves(c, m)
      BY <1>1, <1>2, <1>3, <2>2, <2>3 DEF Moves, serverVars, diskVars
    <2>7. \A d \in On(m) : Waiting(d)' /\ Mounting(d)'
      BY <2>1, <2>2 DEF Waiting, Mounting, On
    <2>8. recovered # "no" =>
            /\ \A d \in On(m) : pc'[d] = "record" => fsMap'[m] # 0 \/ snap[m] = "removed"
            /\ fsMap'[m] # 0 /\ snap[m] # "removed" => Served(m)'
            /\ recovered = "yes" /\ snap[m] = "remote" => fsMap'[m] # 0
      BY <1>1, <1>2 DEF IInv, CallInv, ServeInv
    <2> QED BY <1>1, <2>2, <2>5, <2>6, <2>7, <2>8, MoveStep
  <1> QED BY <1>2, <1>4, <1>5 DEF FsUnmount

\* The mount is taken from fsMap.
LEMMA MapDeleteStep == ASSUME IInv, TypeOK', NEW c \in Calls, MapDelete(c) PROVE IInv'
  <1>1. pc[c] = "unmap" /\ op[c] = "unmount" /\ init = "none" /\ proc = "up"
    BY DEF MapDelete, IInv, CallInv, TypeOK
  <1>2. PICK m \in Mountpoints : m = at[c]
    BY <1>1 DEF IInv, CallInv
  <1>3. \A d \in On(m) : /\ at[d] = m /\ pc[d] \notin {"mount", "map"}
                         /\ pc[d] = "sent" => op[d] # "mount"
    <2>1. c \in On(m)
      BY <1>1, <1>2 DEF On
    <2> QED BY <1>1, <2>1 DEF IInv, MountCallInv, Waiting, Mounting, On
  <1>4. /\ pc'[c] = "unrecord" /\ \A d \in Calls \ {c} : pc'[d] = pc[d]
        /\ fsMap'[m] = 0 /\ \A n \in Mountpoints \ {m} : fsMap'[n] = fsMap[n]
        /\ UNCHANGED <<op, at, fs, snap, daemonVars, recovered, ms, curFs, mnt, layer>>
    BY <1>2 DEF MapDelete, IInv, TypeOK, diskVars
  <1>5. Moves(c, m)
    BY <1>1, <1>2, <1>4 DEF Moves, MapDelete
  <1>6. \A d \in On(m) : Waiting(d)' /\ Mounting(d)'
    BY <1>3, <1>4 DEF Waiting, Mounting, On
  <1>7. OnlyTop(mnt'[m]) /\ ~Live(m)'
    BY <1>1, <1>2, <1>4 DEF IInv, MntInv, Live, Top
  <1>8. recovered # "no" => snap[m] = "removed"
    BY <1>1, <1>2 DEF IInv, ServeInv
  <1> QED BY <1>1, <1>4, <1>5, <1>6, <1>7, <1>8, MoveStep

-----------------------------------------------------------------------------
(* The daemon and Init. *)

\* A step that leaves the calls, the map and the mounts alone: snapshots may be removed,
\* and the layers of the instances that are in use stay.
Quiet ==
    /\ UNCHANGED <<pc, op, at, fsMap, mnt, ms, proc, socket>>
    /\ curFs' = curFs \/ (curFs' # 0 /\ init # "none")
    /\ \A m \in Mountpoints : fsMap[m] # 0 /\ m \in layer[fsMap[m]] => m \in layer'[fsMap[m]]
    /\ \A m \in Mountpoints : curFs' = curFs /\ curFs # 0 /\ m \in layer[curFs] => m \in layer'[curFs]
    /\ \A m \in Mountpoints : snap'[m] = snap[m] \/ (snap[m] # "none" /\ snap'[m] = "removed")
    /\ \A m \in work' : snap[m] # "none"
    /\ init' # "none" => \A c \in Calls : pc[c] \in {"idle", "sent"}
    /\ recovered' # "no" => recovered # "no"
    /\ recovered' = "yes" => \A m \in Mountpoints : recovered = "yes" \/ snap[m] # "remote" \/ fsMap[m] # 0

\* Steps that leave the mounts and the calls alone.
LEMMA QuietStep ==
    ASSUME IInv, TypeOK', Quiet
    PROVE  CallInv' /\ NewInv' /\ MountCallInv' /\ MntInv' /\ ServeInv'
  <1>1. /\ UNCHANGED <<pc, op, at, fsMap, mnt, ms, proc>>
        /\ \A m \in Mountpoints : /\ TopOf(mnt'[m]) = TopOf(mnt[m])
                                  /\ On(m)' = On(m)
                                  /\ snap'[m] = "none" <=> snap[m] = "none"
    BY DEF Quiet, On
  <1>2. \A c \in Calls : pc[c] # "idle" => at[c] \in Mountpoints /\ proc = "up"
    BY DEF IInv, CallInv
  <1>3. \A c \in Calls : pc[c] \notin {"idle", "sent"} => curFs' = curFs /\ curFs # 0
    BY DEF Quiet, IInv, CallInv
  <1>4. CallInv'
    BY <1>1, <1>2, SMTT(60) DEF IInv, CallInv, MountCall, Quiet
  <1>5. NewInv'
    BY <1>1 DEF IInv, NewInv, Quiet
  <1>6. MountCallInv'
    <2> SUFFICES ASSUME NEW c \in Calls, pc[c] # "idle" PROVE Waiting(c)' /\ Mounting(c)'
      BY <1>1 DEF MountCallInv, Waiting, Mounting
    <2>1. Waiting(c) /\ Mounting(c) /\ at[c] \in Mountpoints
      BY <1>2 DEF IInv, MountCallInv
    <2>2. Waiting(c)'
      BY <1>1, <2>1 DEF Waiting, On
    <2>3. pc[c] = "map" => at[c] \in layer'[curFs']
      BY <1>3, <2>1 DEF Mounting, Quiet
    <2>4. Mounting(c)'
      BY <1>1, <1>3, <2>1, <2>3 DEF Mounting, On, Live, Top
    <2> QED BY <2>2, <2>4
  <1>7. MntInv'
    BY <1>1 DEF IInv, MntInv, Live, Top
  <1>8. ServeInv'
    <2> SUFFICES ASSUME recovered' # "no", proc' = "up" PROVE ServeInv'
      BY DEF ServeInv
    <2>1. recovered # "no" /\ proc = "up"
      BY <1>1 DEF Quiet
    <2>2. \A m \in Mountpoints : snap[m] = "removed" => snap'[m] = "removed"
      BY DEF Quiet
    <2>3. \A m \in Mountpoints : fsMap[m] # 0 /\ snap'[m] # "removed" => Served(m)'
      <3>1. \A m \in Mountpoints : fsMap[m] # 0 /\ snap'[m] # "removed" => Served(m)
        BY <2>1, <2>2 DEF IInv, ServeInv
      <3> QED BY <1>1, <3>1 DEF Quiet, Served, Check, Live, Top
    <2>4. recovered' = "yes" => \A m \in Mountpoints : snap'[m] = "remote" => fsMap[m] # 0
      BY <2>1 DEF Quiet, IInv, ServeInv
    <2> QED BY <1>1, <1>2, <2>1, <2>2, <2>3, <2>4 DEF IInv, ServeInv
  <1> QED BY <1>4, <1>5, <1>6, <1>7, <1>8

\* A quiet step after which the daemon is down.
LEMMA ExitStep ==
    ASSUME IInv, TypeOK', Quiet, Exit, init' = "none" \/ UNCHANGED <<init, todo, curFs>>
    PROVE  IInv'
  <1>1. ProcInv'
    BY DEF IInv, ProcInv, Quiet, Exit
  <1>2. RestoreInv' /\ RecoverInv'
    BY DEF IInv, RestoreInv, RecoverInv, Exit
  <1> QED BY <1>1, <1>2, QuietStep DEF IInv

\* Steps of the snapshotter and its clients.
LEMMA DaemonStep ==
    ASSUME IInv, TypeOK',
           \/ InitUnavailable \/ RestoreDone \/ Close \/ DaemonDies
           \/ \E m \in Mountpoints : Remove(m)
    PROVE  IInv'
  <1>1. UNCHANGED <<pc, op, at, status, init, todo, curFs, fsMap, cri, ms, proc, socket, layer, mnt>>
    BY DEF InitUnavailable, RestoreDone, Close, DaemonDies, Remove, diskVars, serverVars, callVars
  <1>2. \A c \in Calls : init # "none" => pc[c] \in {"idle", "sent"}
    BY DEF IInv, CallInv
  <1>3. \A m \in work : snap[m] # "none"
    BY DEF IInv, NewInv, TypeOK
  <1>4. CASE InitUnavailable
    <2>1. Quiet
      BY <1>1, <1>2, <1>4 DEF Quiet, InitUnavailable, Exit, diskVars
    <2> QED BY <1>1, <1>4, <2>1, ExitStep DEF InitUnavailable
  <1>5. CASE DaemonDies
    <2>1. Quiet
      BY <1>1, <1>2, <1>5 DEF Quiet, DaemonDies, Exit, Orphan
    <2> QED BY <1>1, <1>5, <2>1, ExitStep DEF DaemonDies
  <1>6. CASE RestoreDone
    <2>1. Quiet
      BY <1>1, <1>2, <1>6 DEF Quiet, RestoreDone, diskVars, IInv, RecoverInv
    <2>2. ProcInv'
      BY <1>1, <1>6, SMTT(60) DEF IInv, ProcInv, RestoreDone
    <2>3. RestoreInv' /\ RecoverInv'
      BY <1>1, <1>6, <2>1 DEF RestoreInv, RecoverInv, RestoreDone, IInv
    <2> QED BY <2>1, <2>2, <2>3, QuietStep DEF IInv
  <1>7. CASE Close
    <2>1. Quiet
      BY <1>1, <1>2, <1>7 DEF Quiet, Close, Orphan
    <2>2. ProcInv'
      BY <1>1, <1>7, SMTT(60) DEF IInv, ProcInv, Close
    <2>3. RestoreInv' /\ RecoverInv'
      BY <1>7 DEF RestoreInv, RecoverInv, Close
    <2> QED BY <2>1, <2>2, <2>3, QuietStep DEF IInv
  <1>8. ASSUME NEW m \in Mountpoints, Remove(m) PROVE IInv'
    <2>1. daemon = "serving" /\ UNCHANGED <<daemon, newlyStarted, work, recovered>>
      BY <1>8 DEF Remove, daemonVars
    <2>2. Quiet
      BY <1>1, <1>2, <1>3, <1>8, <2>1 DEF Quiet, Remove, IInv, TypeOK
    <2>3. ProcInv'
      BY <1>1, <2>1 DEF IInv, ProcInv
    <2>4. RestoreInv' /\ RecoverInv'
      BY <1>1, <2>1 DEF IInv, RestoreInv, RecoverInv
    <2> QED BY <2>2, <2>3, <2>4, QuietStep DEF IInv
  <1> QED BY <1>4, <1>5, <1>6, <1>7, <1>8

\* The daemon finds a manager or starts one.
LEMMA StartStep == ASSUME IInv, TypeOK', StartFuseManager PROVE IInv'
  <1>1. /\ daemon = "down" /\ recovered # "pending"
        /\ UNCHANGED <<work, snap, ms, pc, op, at, fs, init, todo, curFs, fsMap, cri, layer, mnt>>
    BY DEF StartFuseManager, diskVars, callVars, IInv, RecoverInv
  <1>2. /\ \A c \in Calls : init # "none" => pc[c] \in {"idle", "sent"}
        /\ \A m \in work : snap[m] # "none"
    BY DEF IInv, CallInv, NewInv, TypeOK
  <1>3. CASE socket
    <2>1. daemon' = "init" /\ ~newlyStarted' /\ UNCHANGED <<proc, socket, recovered>>
      BY <1>3 DEF StartFuseManager
    <2>2. Quiet
      BY <1>1, <1>2, <2>1 DEF Quiet
    <2>3. ProcInv'
      BY <1>1, <2>1 DEF IInv, ProcInv
    <2>4. RestoreInv' /\ RecoverInv'
      BY <1>1, <2>1 DEF RestoreInv, RecoverInv
    <2> QED BY <2>2, <2>3, <2>4, QuietStep DEF IInv
  <1>4. CASE ~socket
    <2>1. /\ proc = "down" /\ init = "none" /\ \A m \in Mountpoints : fsMap[m] = 0
          /\ \A c \in Calls : pc[c] = "idle"
      BY <1>4 DEF IInv, ProcInv, CallInv, TypeOK
    <2>2. /\ proc' = "up" /\ socket'
          /\ \/ daemon' = "init" /\ newlyStarted' /\ recovered' = IF ms = {} THEN "pending" ELSE "no"
             \/ daemon' = "down" /\ recovered' = "no"
      BY <1>1, <1>4 DEF StartFuseManager, StartNew, RunFuseManager
    <2>3. CallInv' /\ ProcInv'
      BY <1>1, <2>1, <2>2 DEF CallInv, ProcInv, MountCall
    <2>4. RestoreInv' /\ NewInv'
      BY <1>1, <2>2 DEF IInv, RestoreInv, NewInv
    <2>5. MountCallInv' /\ MntInv'
      BY <1>1, <2>1 DEF IInv, MountCallInv, Waiting, Mounting, MntInv, Live, Top
    <2>6. ServeInv' /\ RecoverInv'
      BY <1>1, <2>1, <2>2 DEF ServeInv, RecoverInv
    <2> QED BY <2>3, <2>4, <2>5, <2>6 DEF IInv
  <1> QED BY <1>3, <1>4

\* The daemon unmounts everything below its root before it restores.
LEMMA RestoreUnmountStep == ASSUME IInv, TypeOK', RestoreUnmount PROVE IInv'
  <1>1. /\ daemon = "restore" /\ newlyStarted /\ proc = "up" /\ init = "none" /\ curFs # 0
        /\ \A c \in Calls : pc[c] = "idle"
        /\ \A m \in ms : fsMap[m] # 0
        /\ recovered # "yes"
    BY DEF RestoreUnmount, IInv, ProcInv, RestoreInv, RecoverInv
  <1>2. UNCHANGED <<pc, op, at, status, init, todo, curFs, fsMap, cri, snap, ms, proc, socket, layer>>
    BY DEF RestoreUnmount, diskVars, serverVars, callVars
  <1>3. CASE Exit /\ UNCHANGED mnt
    <2>1. Quiet
      BY <1>1, <1>2, <1>3 DEF Quiet, Exit
    <2> QED BY <1>2, <1>3, <2>1, ExitStep
  <1>4. CASE /\ daemon' = "remount" /\ mnt' = [m \in Mountpoints |-> <<>>]
             /\ work' = {m \in Mountpoints : snap[m] = "remote"}
             /\ UNCHANGED <<newlyStarted, recovered>>
    <2>1. \A m \in Mountpoints : mnt'[m] = <<>> /\ OnlyTop(mnt'[m]) /\ TopOf(mnt'[m]) = 0
      BY <1>4, EmptyStack
    <2>2. CallInv' /\ ProcInv'
      BY <1>1, <1>2, <1>4 DEF IInv, CallInv, ProcInv, MountCall
    <2>3. RestoreInv' /\ NewInv'
      BY <1>1, <1>2, <1>4, <2>1 DEF IInv, RestoreInv, NewInv
    <2>4. MountCallInv' /\ MntInv'
      BY <1>1, <1>2, <2>1 DEF MountCallInv, Waiting, Mounting, MntInv, Live, Top
    <2>5. ServeInv' /\ RecoverInv'
      BY <1>1, <1>2, <1>4 DEF IInv, ServeInv, RecoverInv, TypeOK
    <2> QED BY <2>2, <2>3, <2>4, <2>5 DEF IInv
  <1> QED BY <1>3, <1>4 DEF RestoreUnmount

\* Init returns: the daemon that waits goes on only if nothing failed, and then every
\* record of the store is mapped.
LEMMA InitReturnsStep ==
    ASSUME IInv, TypeOK', NEW ok \in BOOLEAN, InitReturns(ok), init # "none",
           UNCHANGED <<pc, op, at, curFs, fsMap, snap, ms, mnt, proc, socket>>,
           \A f \in Fs : layer[f] \subseteq layer'[f],
           ok => init = "restore" /\ todo = {}
    PROVE  IInv'
  <1>1. /\ daemon \in {"down", "init", "initing"} /\ init' = "none" /\ proc = "up"
        /\ ok => curFs # 0 /\ \A m \in ms : fsMap[m] # 0
    BY DEF IInv, TypeOK, Daemons, ProcInv, InitReturns
  <1>2. /\ \A m \in Mountpoints : fsMap[m] \in Fs \cup {0}
        /\ curFs \in Fs \cup {0} /\ layer \in [Fs -> SUBSET Mountpoints]
        /\ \A m \in work : snap[m] # "none"
    BY DEF IInv, TypeOK, NewInv
  <1>3. CASE ok \/ daemon # "initing"
    <2>0. UNCHANGED <<newlyStarted, work, recovered>>
      BY <1>3 DEF InitReturns
    <2>1. Quiet
      BY <1>1, <1>2, <2>0 DEF Quiet
    <2>2. daemon' = IF daemon # "initing" THEN daemon ELSE AfterInit
      BY <1>3 DEF InitReturns
    <2>3. CASE daemon # "initing"
      <3>1. ProcInv'
        BY <1>1, <2>0, <2>2, <2>3 DEF IInv, ProcInv
      <3>2. RestoreInv' /\ RecoverInv'
        BY <1>1, <2>0, <2>2, <2>3 DEF IInv, RestoreInv, RecoverInv
      <3> QED BY <2>1, <3>1, <3>2, QuietStep DEF IInv
    <2>4. CASE daemon = "initing" /\ ok
      <3>1. ProcInv'
        BY <1>1, <2>0, <2>2, <2>4 DEF IInv, ProcInv, AfterInit
      <3>2. RestoreInv' /\ RecoverInv'
        BY <1>1, <2>0, <2>2, <2>4 DEF IInv, RestoreInv, RecoverInv, AfterInit
      <3> QED BY <2>1, <3>1, <3>2, QuietStep DEF IInv
    <2> QED BY <1>3, <2>3, <2>4
  <1>4. CASE ~ok /\ daemon = "initing"
    <2>1. Exit
      BY <1>4 DEF InitReturns
    <2>2. Quiet
      BY <1>1, <1>2, <2>1 DEF Quiet, Exit
    <2> QED BY <1>1, <2>1, <2>2, ExitStep
  <1> QED BY <1>3, <1>4

\* Init of the manager, apart from its restoration.
LEMMA InitStep ==
    ASSUME IInv, TypeOK', InitBegin \/ InitConfigFails \/ InitConfigured \/ InitEnd
    PROVE  IInv'
  <1>1. /\ UNCHANGED <<pc, op, at, fsMap, snap, ms, mnt, proc, socket>>
        /\ \A m \in work : snap[m] # "none"
        /\ \A c \in Calls : init # "none" => pc[c] \in {"idle", "sent"}
    BY DEF InitBegin, InitConfigFails, InitConfigured, InitEnd, diskVars, callVars, IInv, NewInv, TypeOK, CallInv
  <1>2. CASE InitBegin
    <2>1. /\ daemon = "init" /\ daemon' = "initing" /\ proc = "up" /\ init' = "config"
          /\ UNCHANGED <<newlyStarted, work, todo, curFs, layer, recovered>>
          /\ \A c \in Calls : pc[c] \in {"idle", "sent"}
      BY <1>2 DEF InitBegin, Inside
    <2>2. Quiet
      BY <1>1, <2>1 DEF Quiet
    <2>3. ProcInv'
      BY <1>1, <2>1 DEF IInv, ProcInv
    <2>4. RestoreInv' /\ RecoverInv'
      BY <1>1, <2>1 DEF IInv, RestoreInv, RecoverInv
    <2> QED BY <2>2, <2>3, <2>4, QuietStep DEF IInv
  <1>3. CASE InitConfigFails
    BY <1>1, <1>3, InitReturnsStep DEF InitConfigFails
  <1>4. CASE InitEnd
    BY <1>1, <1>4, InitReturnsStep DEF InitEnd
  <1>5. CASE InitConfigured
    <2>1. /\ init = "config" /\ init' = "restore" /\ todo' = ms
          /\ UNCHANGED <<daemon, newlyStarted, work, recovered>>
      BY <1>5 DEF InitConfigured, daemonVars
    <2>2. curFs' \in Free /\ curFs' \in Fs /\ curFs' # 0
      BY <1>5, SMTT(60) DEF InitConfigured, Free, Fs
    <2>3. ASSUME NEW m \in Mountpoints, fsMap[m] # 0 PROVE layer'[fsMap[m]] = layer[fsMap[m]]
      <3>1. fsMap[m] \in Fs /\ fsMap[m] \in Range(fsMap)
        BY <2>3 DEF IInv, TypeOK, Range
      <3> QED BY <1>5, <3>1 DEF InitConfigured, Collect
    <2>4. curFs' # curFs
      BY <2>2 DEF Free
    <2>5. Quiet
      BY <1>1, <2>1, <2>2, <2>3, <2>4 DEF Quiet
    <2>6. ProcInv'
      BY <1>1, <2>1, <2>2 DEF IInv, ProcInv
    <2>7. RestoreInv' /\ RecoverInv'
      BY <1>1, <2>1 DEF IInv, ProcInv, RestoreInv, RecoverInv
    <2> QED BY <2>5, <2>6, <2>7, QuietStep DEF IInv
  <1> QED BY <1>2, <1>3, <1>4, <1>5

\* Init mounts a recorded layer again.
LEMMA InitRestoreStep == ASSUME IInv, TypeOK', InitRestore PROVE IInv'
  <1>1. /\ init = "restore" /\ proc = "up" /\ curFs \in Fs /\ curFs # 0 /\ todo \subseteq ms
        /\ \A c \in Calls : pc[c] \in {"idle", "sent"}
        /\ \A m \in ms \ todo : fsMap[m] # 0
        /\ daemon \in {"down", "init", "initing"}
    BY DEF InitRestore, IInv, ProcInv, CallInv, TypeOK, Daemons
  <1>2. UNCHANGED <<curFs, cri, snap, ms, pc, op, at, fs, proc, socket>>
    BY DEF InitRestore, diskVars, callVars
  <1>3. PICK m \in todo : RestoreSkips(m) \/ RestoreMounts(m) \/ RestoreFails(m)
    BY DEF InitRestore
  <1>4. m \in Mountpoints /\ m \in ms /\ snap[m] # "none" /\ \A n \in work : snap[n] # "none"
    BY <1>1, <1>3 DEF IInv, TypeOK, NewInv
  <1>5. CASE RestoreSkips(m)
    <2>1. /\ fsMap[m] # 0 /\ todo' = todo \ {m}
          /\ UNCHANGED <<daemon, newlyStarted, work, init, fsMap, layer, mnt, recovered>>
      BY <1>5 DEF RestoreSkips, daemonVars
    <2>2. Quiet
      BY <1>1, <1>2, <1>4, <2>1 DEF Quiet
    <2>3. ProcInv'
      BY <1>1, <1>2, <2>1 DEF IInv, ProcInv
    <2>4. RestoreInv' /\ RecoverInv'
      BY <1>1, <1>2, <2>1 DEF IInv, RestoreInv, RecoverInv
    <2> QED BY <2>2, <2>3, <2>4, QuietStep DEF IInv
  <1>6. CASE RestoreFails(m)
    <2>1. /\ InitReturns(FALSE) /\ UNCHANGED <<fsMap, mnt>>
          /\ layer' = layer \/ layer' = [layer EXCEPT ![curFs] = @ \cup {m}]
      BY <1>6 DEF RestoreFails
    <2>2. \A f \in Fs : layer[f] \subseteq layer'[f]
      BY <1>1, <2>1 DEF IInv, TypeOK
    <2> QED BY <1>1, <1>2, <2>1, <2>2, InitReturnsStep
  <1>7. CASE RestoreMounts(m)
    <2>1. /\ fsMap[m] = 0 /\ todo' = todo \ {m}
          /\ UNCHANGED <<daemon, newlyStarted, work, init, recovered>>
      BY <1>7 DEF RestoreMounts, daemonVars
    <2>2. /\ fsMap'[m] = curFs /\ mnt'[m] = Append(mnt[m], curFs)
          /\ \A n \in Mountpoints : n # m => fsMap'[n] = fsMap[n] /\ mnt'[n] = mnt[n]
          /\ \A n \in Mountpoints, f \in Fs : n \in layer'[f] <=> n \in layer[f] \/ (f = curFs /\ n = m)
      BY <1>1, <1>4, <1>7, SMTT(60) DEF RestoreMounts, IInv, TypeOK
    <2>3. mnt[m] \in Stacks /\ OnlyTop(mnt[m]) /\ TopOf(mnt[m]) = 0
      BY <1>1, <1>4, <2>1 DEF IInv, TypeOK, MntInv, Live, Top
    <2>4. OnlyTop(mnt'[m]) /\ TopOf(mnt'[m]) = curFs
      BY <1>1, <2>2, <2>3, Push
    <2>5. \A c \in Calls : MountCall(c) => at[c] # m /\ at[c] \in Mountpoints
      BY <1>1, <1>4, <2>1 DEF IInv, MountCallInv, Waiting, MountCall, CallInv
    <2>6. CallInv'
      BY <1>2, <2>1 DEF IInv, CallInv, MountCall
    <2>7. ProcInv'
      BY <1>1, <1>2, <1>4, <2>1, <2>2, SMTT(60) DEF IInv, ProcInv, TypeOK
    <2>8. RestoreInv' /\ NewInv'
      BY <1>1, <1>2, <1>4, <2>1, <2>2 DEF IInv, RestoreInv, NewInv
    <2>9. MountCallInv'
      BY <1>1, <1>2, <2>2, <2>5 DEF IInv, MountCallInv, Waiting, Mounting, MountCall, On
    <2>10. MntInv'
      BY <1>1, <1>2, <2>2, <2>4 DEF IInv, MntInv, Live, Top
    <2>11. ServeInv'
      <3> SUFFICES ASSUME recovered # "no" PROVE ServeInv'
        BY <2>1 DEF ServeInv
      <3>1. Served(m)'
        BY <1>1, <1>4, <2>2, <2>4 DEF Served, Check, Live, Top
      <3>2. \A n \in Mountpoints : n # m /\ fsMap[n] # 0 /\ snap[n] # "removed" => Served(n)'
        BY <1>1, <2>2, SMTT(60) DEF IInv, ServeInv, TypeOK, Served, Check, Live, Top
      <3> QED BY <1>1, <1>2, <2>1, <2>2, <3>1, <3>2 DEF IInv, ServeInv
    <2>12. RecoverInv'
      BY <1>1, <1>2, <1>4, <2>1 DEF IInv, RecoverInv
    <2> QED BY <2>6, <2>7, <2>8, <2>9, <2>10, <2>11, <2>12 DEF IInv
  <1> QED BY <1>3, <1>5, <1>6, <1>7

-----------------------------------------------------------------------------
(* The ends of the manager. *)

\* The manager dies or is stopped, or the node reboots.
LEMMA GoneStep == ASSUME IInv, TypeOK', ManagerCrashes \/ ManagerStops \/ Reboot PROVE IInv'
  <1>1. /\ ManagerGone /\ ms' \subseteq ms
        /\ \/ mnt' = [m \in Mountpoints |-> [i \in DOMAIN mnt[m] |-> 0]]
           \/ mnt' = [m \in Mountpoints |-> <<>>]
        /\ \/ daemon \in {"down", "init", "serving"} /\ UNCHANGED <<daemon, newlyStarted, work, recovered>>
           \/ Exit
    BY DEF ManagerCrashes, ManagerStops, Reboot, CloseStore, daemonVars
  <1>2. /\ proc' = "down" /\ init' = "none" /\ todo' = {} /\ curFs' = 0
        /\ \A m \in Mountpoints : fsMap'[m] = 0
        /\ \A c \in Calls : pc'[c] = "idle"
        /\ \A m \in Mountpoints : snap'[m] = "none" <=> snap[m] = "none"
    BY <1>1 DEF ManagerGone, NoCall, Orphan
  <1>3. \A m \in Mountpoints : OnlyTop(mnt'[m]) /\ TopOf(mnt'[m]) = 0
    <2>1. \A m \in Mountpoints : LET t == [i \in DOMAIN mnt[m] |-> 0] IN OnlyTop(t) /\ TopOf(t) = 0
      BY Unserved DEF IInv, TypeOK
    <2> QED BY <1>1, <2>1, EmptyStack, SMTT(60)
  <1>4. CallInv' /\ ProcInv'
    BY <1>1, <1>2 DEF IInv, CallInv, ProcInv, MountCall, Exit
  <1>5. RestoreInv' /\ NewInv'
    BY <1>1, <1>2 DEF IInv, RestoreInv, NewInv, Exit
  <1>6. MountCallInv' /\ MntInv'
    BY <1>2, <1>3 DEF MountCallInv, Waiting, Mounting, MntInv, Live, Top
  <1>7. ServeInv' /\ RecoverInv'
    BY <1>1, <1>2, SMTT(60) DEF IInv, ServeInv, RecoverInv, Exit
  <1> QED BY <1>4, <1>5, <1>6, <1>7 DEF IInv

-----------------------------------------------------------------------------
\* Each step keeps the invariant.
LEMMA Step == ASSUME IInv, [Next]_vars PROVE IInv'
  <1>0. TypeOK'
    BY Types DEF IInv
  <1>1. CASE StartFuseManager
    BY <1>0, <1>1, StartStep
  <1>2. CASE InitUnavailable \/ RestoreDone \/ Close \/ DaemonDies
    BY <1>0, <1>2, DaemonStep
  <1>3. CASE RestoreUnmount
    BY <1>0, <1>3, RestoreUnmountStep
  <1>4. CASE ManagerCrashes \/ ManagerStops \/ Reboot
    BY <1>0, <1>4, GoneStep
  <1>5. CASE InitBegin \/ InitConfigFails \/ InitConfigured \/ InitEnd
    BY <1>0, <1>5, InitStep
  <1>6. CASE InitRestore
    BY <1>0, <1>6, InitRestoreStep
  <1>7. ASSUME NEW m \in Mountpoints, Remove(m) PROVE IInv'
    BY <1>0, <1>7, DaemonStep
  <1>8. ASSUME NEW c \in Calls, RestoreMount(c) PROVE IInv'
    <2>1. PICK m \in work : Send(c, "mount", m)
      BY <1>8 DEF RestoreMount
    <2>2. m \in Mountpoints
      BY <2>1 DEF IInv, TypeOK
    <2> QED BY <1>0, <1>8, <2>1, <2>2, SendStep DEF RestoreMount
  <1>9. ASSUME NEW c \in Calls, CloseUnmount(c) PROVE IInv'
    <2>1. PICK m \in work : Send(c, "unmount", m)
      BY <1>9 DEF CloseUnmount
    <2>2. m \in Mountpoints
      BY <2>1 DEF IInv, TypeOK
    <2> QED BY <1>0, <1>9, <2>1, <2>2, SendStep DEF CloseUnmount
  <1>10. ASSUME NEW c \in Calls, NEW m \in Mountpoints, Prepare(c, m) PROVE IInv'
    BY <1>0, <1>10, SendStep DEF Prepare
  <1>11. ASSUME NEW c \in Calls, NEW m \in Mountpoints, Cleanup(c, m) PROVE IInv'
    BY <1>0, <1>11, SendStep DEF Cleanup
  <1>12. ASSUME NEW c \in Calls, EnterMount(c) \/ EnterUnmount(c) PROVE IInv'
    BY <1>0, <1>12, EnterMountStep, EnterUnmountStep
  <1>13. ASSUME NEW c \in Calls, FsMount(c) \/ MapStore(c) \/ StoreFuseInfo(c) PROVE IInv'
    BY <1>0, <1>13, FsMountStep, MapStoreStep, StoreFuseInfoStep
  <1>14. ASSUME NEW c \in Calls, FsUnmount(c) \/ MapDelete(c) \/ RemoveFuseInfo(c) PROVE IInv'
    BY <1>0, <1>14, FsUnmountStep, MapDeleteStep, RemoveFuseInfoStep
  <1>15. CASE UNCHANGED vars
    <2>1. /\ UNCHANGED <<daemon, newlyStarted, work, snap, ms, status, init, todo, curFs, fsMap, cri>>
          /\ UNCHANGED <<pc, op, at, fs, proc, socket, layer, mnt, recovered>>
      BY <1>15 DEF vars, daemonVars, serverVars, diskVars, callVars
    <2>2. CallInv' /\ ProcInv'
      BY <2>1 DEF IInv, CallInv, MountCall, ProcInv
    <2>a. RestoreInv'
      <3>1. \A m \in Mountpoints : On(m)' = On(m)
        BY <2>1 DEF On
      <3>2. TypeOK /\ RestoreInv
        BY DEF IInv
      <3> QED BY <2>1, <3>1, <3>2, SMTT(60) DEF RestoreInv, TypeOK
    <2>c. NewInv'
      BY <2>1 DEF IInv, NewInv
    <2>3. MountCallInv'
      BY <2>1 DEF IInv, MountCallInv, Waiting, Mounting, On, Live, Top
    <2>b. MntInv'
      BY <2>1 DEF IInv, MntInv, Live, Top
    <2>4. ServeInv' /\ RecoverInv'
      BY <2>1 DEF IInv, ServeInv, RecoverInv, Served, Check, Live, Top
    <2> QED BY <1>0, <2>2, <2>3, <2>4, <2>a, <2>b, <2>c DEF IInv
  <1> QED BY <1>1, <1>2, <1>3, <1>4, <1>5, <1>6, <1>7, <1>8, <1>9, <1>10, <1>11, <1>12, <1>13, <1>14,
             <1>15 DEF Next

\* The invariant holds in every reachable state.
LEMMA Invariance == Spec => []IInv
  BY Start, Step, PTL DEF Spec

-----------------------------------------------------------------------------
(* Theorems. *)

\* Once a manager has been brought up to date, every remote snapshot that a serving daemon
\* answers for is mounted and known to the instance in fsMap, whatever the processes and
\* the calls in flight did since: an Init that fails, a daemon that restarts, an unmount
\* beside a mount.
THEOREM StaysServed == Spec => []RemoteIsServed
  <1>1. IInv => RemoteIsServed
    BY DEF IInv, ServeInv, RemoteIsServed, Served
  <1> QED BY <1>1, Invariance, PTL

\* No call reaches a nil filesystem, fsMap leads to the instance whose mount is on top, and
\* no mountpoint carries two mounts that are served.
THEOREM StaysProper == Spec => []MountsAreProper
  <1>1. ASSUME IInv PROVE NeverNilFs
    BY <1>1 DEF IInv, CallInv, NeverNilFs
  <1>2. ASSUME IInv PROVE ProperFilesystem
    <2> SUFFICES ASSUME NEW m \in Mountpoints, Live(m), On(m) = {} PROVE Top(m) = fsMap[m]
      BY DEF ProperFilesystem
    <2>1. ~ \E c \in Calls : pc[c] = "map" /\ at[c] = m
      BY DEF On
    <2> QED BY <1>2, <2>1 DEF IInv, MntInv
  <1>3. ASSUME IInv PROVE MountedOnce
    <2> SUFFICES ASSUME NEW m \in Mountpoints, NEW i \in DOMAIN mnt[m], NEW j \in DOMAIN mnt[m],
                        mnt[m][i] # 0, mnt[m][j] # 0
                 PROVE  i = j
      BY DEF MountedOnce
    <2>1. mnt[m] \in Stacks /\ OnlyTop(mnt[m])
      BY <1>3 DEF IInv, TypeOK, MntInv
    <2>2. DOMAIN mnt[m] = 1 .. Len(mnt[m])
      BY <2>1, SMTT(60) DEF Stacks
    <2> QED BY <2>1, <2>2 DEF OnlyTop
  <1> QED BY <1>1, <1>2, <1>3, Invariance, PTL DEF MountsAreProper
=============================================================================
