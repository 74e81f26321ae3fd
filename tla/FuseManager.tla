---------------------------- MODULE FuseManager ----------------------------
(***************************************************************************)
(* The FUSE manager (fusemanager/) and the containerd-stargz-grpc process  *)
(* that starts it (cmd/containerd-stargz-grpc/main.go): the manager owns   *)
(* the mounts and outlives the daemon, a store on disk remembers what is   *)
(* mounted, and a daemon that finds the manager's socket does not restore  *)
(* anything.  Either process may die at any step, and so may the node.     *)
(*                                                                         *)
(* Calls are the gRPC requests in flight.  A filesystem instance is a      *)
(* number of Fs, 0 is nil; an instance nobody refers to is forgotten and   *)
(* its number used again.  A mountpoint belongs to one snapshot for ever;  *)
(* MaxMounts bounds the mounts stacked on it.                              *)
(***************************************************************************)
EXTENDS Naturals, Sequences, FiniteSets, Functions

CONSTANTS Mountpoints, Calls, AllowInvalidMounts, MaxMounts

ASSUME FuseManagerAssumption ==
    /\ Mountpoints \subseteq Nat /\ IsFiniteSet(Mountpoints) /\ IsFiniteSet(Calls)
    /\ MaxMounts \in Nat

Fs == 1 .. (1 + MaxMounts) * Cardinality(Mountpoints) + Cardinality(Calls) + 2

VARIABLES
    daemon,               \* control of containerd-stargz-grpc
    newlyStarted,         \* whether this daemon started the manager
    work,                 \* the mountpoints its restore or its Close has yet to do
    snap,                 \* the snapshot of a mountpoint, as its metadata on disk has it
    proc, socket,         \* the manager's process and its socket file
    status, init, todo,   \* control of Init, which holds the lock for itself
    curFs, fsMap, cri,
    layer,                \* layer[f]: fs.layer of the instance f
    ms,                   \* the fuse store: mountpoints with a record
    mnt,                  \* the instances whose mounts lie on a mountpoint, the last on
                          \* top; 0 for a mount that nobody serves any more
    pc, op, at, fs,       \* a call: control, operation, mountpoint, loaded instance
    recovered             \* history: has this manager been brought up to date

daemonVars == <<daemon, newlyStarted, work>>
serverVars == <<status, init, todo, curFs, fsMap, cri>>
diskVars == <<snap, ms>>
callVars == <<pc, op, at, fs>>
vars == <<daemonVars, serverVars, diskVars, callVars, proc, socket, layer, mnt, recovered>>

NoCall == /\ pc' = [c \in Calls |-> "idle"] /\ op' = [c \in Calls |-> "none"]
          /\ at' = [c \in Calls |-> 0] /\ fs' = [c \in Calls |-> 0]

Init ==
    /\ daemon = "down" /\ newlyStarted = FALSE /\ work = {}
    /\ snap = [m \in Mountpoints |-> "none"]
    /\ proc = "down" /\ socket = FALSE
    /\ status = "NotReady" /\ init = "none" /\ todo = {}
    /\ curFs = 0 /\ fsMap = [m \in Mountpoints |-> 0] /\ cri = FALSE
    /\ layer = [f \in Fs |-> {}]
    /\ ms = {}
    /\ mnt = [m \in Mountpoints |-> <<>>]
    /\ pc = [c \in Calls |-> "idle"] /\ op = [c \in Calls |-> "none"]
    /\ at = [c \in Calls |-> 0] /\ fs = [c \in Calls |-> 0]
    /\ recovered = "no"

TopOf(s) == IF s = <<>> THEN 0 ELSE s[Len(s)]
Top(m) == TopOf(mnt[m])
Live(m) == Top(m) # 0
Inside(c) == pc[c] \notin {"idle", "sent"}
On(m) == {c \in Calls : pc[c] # "idle" /\ at[c] = m}

\* An instance nobody refers to is garbage; its number is free.
Free == {f \in Fs : f \notin {curFs} \cup Range(fsMap) \cup Range(fs)
                              \cup UNION {Range(mnt[m]) : m \in Mountpoints}}
Collect(cur) ==
    [f \in Fs |-> IF f \in {cur} \cup Range(fsMap) \cup Range(fs) THEN layer[f] ELSE {}]

\* The daemon exits (also by Fatal): what it waited for is not completed.
Exit ==
    /\ daemon' = "down" /\ newlyStarted' = FALSE /\ work' = {}
    /\ recovered' = IF recovered = "pending" THEN "no" ELSE recovered

Orphan == snap' = [m \in Mountpoints |-> IF snap[m] = "prep" THEN "removed" ELSE snap[m]]

-----------------------------------------------------------------------------
(* The daemon. *)

\* runFuseManager: the new process replaces a leftover socket, opens the store
\* and waits for Init.
RunFuseManager == proc' = "up" /\ socket' = TRUE /\ status' = "WaitInit"

\* startNew returns once Status answers; otherwise the daemon gives up, but the
\* process it started runs.
StartNew ==
    /\ RunFuseManager
    /\ \/ /\ daemon' = "init" /\ newlyStarted' = TRUE
          /\ recovered' = IF ms = {} THEN "pending" ELSE "no"
       \/ /\ recovered' = "no"
          /\ UNCHANGED <<daemon, newlyStarted>>

\* Mutant: every daemon restores, also next to a manager that it found.
StartFuseManagerRestores ==
    /\ daemon = "down"
    /\ IF socket THEN /\ daemon' = "init" /\ newlyStarted' = TRUE
                      /\ UNCHANGED <<proc, socket, status, recovered>>
       ELSE StartNew
    /\ UNCHANGED <<work, diskVars, callVars, init, todo, curFs, fsMap, cri, layer, mnt>>

\* StartFuseManager: the socket file tells whether there is a manager.
StartFuseManager ==
    /\ daemon = "down"
    /\ IF socket THEN /\ daemon' = "init" /\ newlyStarted' = FALSE
                      /\ UNCHANGED <<proc, socket, status, recovered>>
       ELSE StartNew
    /\ UNCHANGED <<work, diskVars, callVars, init, todo, curFs, fsMap, cri, layer, mnt>>

\* main creates the snapshotter with NoRestore next to a manager it found.
AfterInit == IF newlyStarted THEN "restore" ELSE "serving"

\* NewManagerClient against a socket nobody listens on.
InitUnavailable ==
    /\ daemon = "init" /\ proc = "down"
    /\ Exit
    /\ UNCHANGED <<diskVars, serverVars, callVars, proc, socket, layer, mnt>>

\* Server.Check: the instance that mounted m knows its layer.
Check(m) == fsMap[m] # 0 /\ m \in layer[fsMap[m]]

\* restoreRemoteSnapshot, first half: whatever is mounted below the snapshots
\* directory is unmounted by force, whoever serves it.
RestoreUnmount ==
    /\ daemon = "restore"
    /\ \/ /\ daemon' = "remount"
          /\ mnt' = [m \in Mountpoints |-> <<>>]
          /\ work' = {m \in Mountpoints : snap[m] = "remote"}
          /\ UNCHANGED <<newlyStarted, recovered>>
       \/ Exit /\ UNCHANGED mnt
    /\ UNCHANGED <<diskVars, serverVars, callVars, proc, socket, layer>>

Send(c, o, m) ==
    /\ pc[c] = "idle"
    /\ pc' = [pc EXCEPT ![c] = "sent"]
    /\ op' = [op EXCEPT ![c] = o]
    /\ at' = [at EXCEPT ![c] = m]
    /\ UNCHANGED <<fs, newlyStarted, work, ms, serverVars, proc, socket, layer, mnt, recovered>>

\* Second half: the remote snapshots are mounted one after the other.
RestoreMount(c) ==
    /\ daemon = "remount" /\ proc = "up"
    /\ \A d \in Calls : pc[d] = "idle"
    /\ \E m \in work : Send(c, "mount", m)
    /\ UNCHANGED <<daemon, snap>>

RestoreDone ==
    /\ daemon = "remount" /\ work = {}
    /\ daemon' = "serving"
    /\ recovered' = IF recovered = "pending" THEN "yes" ELSE recovered
    /\ UNCHANGED <<newlyStarted, work, diskVars, serverVars, callVars, proc, socket, layer, mnt>>

\* Prepare of a remote snapshot asks for its mount under a new directory.
Prepare(c, m) ==
    /\ daemon = "serving" /\ proc = "up" /\ snap[m] = "none"
    /\ snap' = [snap EXCEPT ![m] = "prep"]
    /\ Send(c, "mount", m)
    /\ UNCHANGED daemon

\* Remove only drops the metadata (AsynchronousRemove) ...
Remove(m) ==
    /\ daemon = "serving" /\ snap[m] = "remote"
    /\ snap' = [snap EXCEPT ![m] = "removed"]
    /\ UNCHANGED <<daemonVars, ms, serverVars, callVars, proc, socket, layer, mnt, recovered>>

\* ... and Cleanup unmounts the directories without metadata.
Cleanup(c, m) ==
    /\ daemon = "serving" /\ proc = "up" /\ snap[m] = "removed"
    /\ Send(c, "unmount", m)
    /\ UNCHANGED <<daemon, snap>>

\* On SIGINT the snapshotter is closed: it unmounts every snapshot.
Close ==
    /\ daemon = "serving"
    /\ daemon' = "closing"
    /\ work' = {m \in Mountpoints : snap[m] # "none"}
    /\ recovered' = "no"
    /\ Orphan
    /\ UNCHANGED <<newlyStarted, ms, serverVars, callVars, proc, socket, layer, mnt>>

CloseUnmount(c) ==
    /\ daemon = "closing" /\ proc = "up"
    /\ \A d \in Calls : pc[d] = "idle"
    /\ \E m \in work : Send(c, "unmount", m)
    /\ UNCHANGED <<daemon, snap>>

\* Any other end: SIGTERM, a crash, or a Close that is through.
DaemonDies ==
    /\ daemon # "down"
    /\ Exit /\ Orphan
    /\ UNCHANGED <<ms, serverVars, callVars, proc, socket, layer, mnt>>

-----------------------------------------------------------------------------
(* Server.Init, alone under the lock. *)

\* Mutant: Init does not take the lock.
InitBeginUnlocked ==
    /\ daemon = "init" /\ proc = "up" /\ init = "none"
    /\ daemon' = "initing"
    /\ init' = "config" /\ status' = "WaitInit"
    /\ cri' = FALSE
    /\ UNCHANGED <<newlyStarted, work, todo, curFs, fsMap, diskVars, callVars, proc, socket,
                   layer, mnt, recovered>>

InitBegin ==
    /\ daemon = "init" /\ proc = "up" /\ init = "none"
    /\ \A c \in Calls : ~Inside(c)
    /\ daemon' = "initing"
    /\ init' = "config" /\ status' = "WaitInit"
    /\ cri' = FALSE
    /\ UNCHANGED <<newlyStarted, work, todo, curFs, fsMap, diskVars, callVars, proc, socket,
                   layer, mnt, recovered>>

\* The deferred function: Ready, with or without an error, which is fatal to
\* the daemon that waits for the answer.
InitReturns(ok) ==
    /\ init' = "none" /\ status' = "Ready" /\ todo' = {}
    /\ IF ok \/ daemon # "initing"
       THEN /\ daemon' = IF daemon # "initing" THEN daemon ELSE AfterInit
            /\ UNCHANGED <<newlyStarted, work, recovered>>
       ELSE Exit

\* A configFunc or NewFileSystem fails; the CRI server may have been replaced.
InitConfigFails ==
    /\ init = "config"
    /\ InitReturns(FALSE)
    /\ cri' \in BOOLEAN
    /\ UNCHANGED <<curFs, fsMap, diskVars, callVars, proc, socket, layer, mnt>>

InitConfigured ==
    /\ init = "config" /\ Free # {}
    /\ init' = "restore" /\ todo' = ms /\ cri' = TRUE
    /\ curFs' = CHOOSE f \in Free : TRUE
    /\ layer' = Collect(curFs')
    /\ UNCHANGED <<daemonVars, status, fsMap, diskVars, callVars, proc, socket, mnt, recovered>>

\* restoreFuseInfo skips a mountpoint that fsMap has and mounts another one; it stops
\* at the first that it cannot mount, whose layer may stay registered.
RestoreSkips(m) ==
    /\ fsMap[m] # 0
    /\ todo' = todo \ {m}
    /\ UNCHANGED <<daemonVars, init, status, fsMap, layer, mnt, recovered>>

RestoreMounts(m) ==
    /\ fsMap[m] = 0 /\ Len(mnt[m]) < MaxMounts
    /\ todo' = todo \ {m}
    /\ fsMap' = [fsMap EXCEPT ![m] = curFs]
    /\ layer' = [layer EXCEPT ![curFs] = @ \cup {m}]
    /\ mnt' = [mnt EXCEPT ![m] = Append(@, curFs)]
    /\ UNCHANGED <<daemonVars, init, status, recovered>>

RestoreFails(m) ==
    /\ fsMap[m] = 0
    /\ InitReturns(FALSE)
    /\ layer' \in {layer, [layer EXCEPT ![curFs] = @ \cup {m}]}
    /\ UNCHANGED <<fsMap, mnt>>

\* It goes through the records in the order of their keys.
InitRestore ==
    /\ init = "restore"
    /\ \E m \in todo :
         /\ \A n \in todo : m <= n
         /\ RestoreSkips(m) \/ RestoreMounts(m) \/ RestoreFails(m)
    /\ UNCHANGED <<curFs, cri, diskVars, callVars, proc, socket>>

InitEnd ==
    /\ init = "restore" /\ todo = {}
    /\ InitReturns(TRUE)
    /\ UNCHANGED <<curFs, cri, fsMap, diskVars, callVars, proc, socket, layer, mnt>>

-----------------------------------------------------------------------------
(* Server.Mount and Server.Unmount, under the shared lock. *)

\* The call returns; the answer may find the daemon that asked gone.
Return(c, ok) ==
    LET m == at[c]
        restoring == daemon = "remount" /\ m \in work /\ op[c] = "mount"
        closing == daemon = "closing" /\ m \in work /\ op[c] = "unmount"
    IN /\ pc' = [pc EXCEPT ![c] = "idle"]
       /\ op' = [op EXCEPT ![c] = "none"]
       /\ at' = [at EXCEPT ![c] = 0]
       /\ fs' = [fs EXCEPT ![c] = 0]
       /\ snap' = IF op[c] = "mount" /\ snap[m] = "prep"
                  THEN [snap EXCEPT ![m] = IF ok THEN "remote" ELSE "removed"] ELSE snap
       /\ IF restoring /\ ~ok /\ ~AllowInvalidMounts THEN Exit
          ELSE /\ work' = IF restoring \/ closing THEN work \ {m} ELSE work
               /\ recovered' = IF restoring /\ ~ok THEN "no" ELSE recovered
               /\ UNCHANGED <<daemon, newlyStarted>>

\* RLock and the status; a mountpoint in fsMap is not mounted again.
EnterMount(c) ==
    /\ pc[c] = "sent" /\ op[c] = "mount" /\ init = "none" /\ proc = "up"
    /\ IF status # "Ready" THEN Return(c, FALSE)
       ELSE /\ pc' = [pc EXCEPT ![c] = IF fsMap[at[c]] # 0 THEN "record" ELSE "mount"]
            /\ UNCHANGED <<op, at, fs, snap, daemonVars, recovered>>
    /\ UNCHANGED <<ms, serverVars, proc, socket, layer, mnt>>

\* An unknown mountpoint is unmounted if the kernel does not know it either.
EnterUnmount(c) ==
    LET m == at[c] IN
    /\ pc[c] = "sent" /\ op[c] = "unmount" /\ init = "none" /\ proc = "up"
    /\ IF status # "Ready" THEN Return(c, FALSE)
       ELSE IF fsMap[m] = 0 THEN Return(c, mnt[m] = <<>>)
       ELSE /\ pc' = [pc EXCEPT ![c] = "unmount"]
            /\ fs' = [fs EXCEPT ![c] = fsMap[m]]
            /\ UNCHANGED <<op, at, snap, daemonVars, recovered>>
    /\ UNCHANGED <<ms, serverVars, proc, socket, layer, mnt>>

\* curFs.Mount; a mount that fails late leaves the layer registered.
FsMount(c) ==
    LET m == at[c] IN
    /\ pc[c] = "mount" /\ curFs # 0
    /\ \/ /\ Len(mnt[m]) < MaxMounts
          /\ mnt' = [mnt EXCEPT ![m] = Append(@, curFs)]
          /\ layer' = [layer EXCEPT ![curFs] = @ \cup {m}]
          /\ pc' = [pc EXCEPT ![c] = "map"]
          /\ UNCHANGED <<op, at, fs, snap, daemonVars, recovered>>
       \/ /\ layer' \in {layer, [layer EXCEPT ![curFs] = @ \cup {m}]}
          /\ Return(c, FALSE)
          /\ UNCHANGED mnt
    /\ UNCHANGED <<ms, serverVars, proc, socket>>

MapStore(c) ==
    /\ pc[c] = "map"
    /\ fsMap' = [fsMap EXCEPT ![at[c]] = curFs]
    /\ pc' = [pc EXCEPT ![c] = "record"]
    /\ UNCHANGED <<op, at, fs, daemonVars, diskVars, status, init, todo, curFs, cri, proc,
                   socket, layer, mnt, recovered>>

\* storeFuseInfo, whose error is dropped.
StoreFuseInfo(c) ==
    /\ pc[c] = "record"
    /\ ms' \in {ms, ms \cup {at[c]}}
    /\ Return(c, TRUE)
    /\ UNCHANGED <<serverVars, proc, socket, layer, mnt>>

\* Unmount of the loaded instance: it forgets the layer, then the kernel's
\* topmost mount goes, unless that fails.
FsUnmount(c) ==
    LET m == at[c] IN
    /\ pc[c] = "unmount"
    /\ layer' = [layer EXCEPT ![fs[c]] = @ \ {m}]
    /\ \/ /\ m \in layer[fs[c]]
          /\ mnt[m] # <<>>
          /\ mnt' = [mnt EXCEPT ![m] = SubSeq(@, 1, Len(@) - 1)]
          /\ pc' = [pc EXCEPT ![c] = "unmap"]
          /\ UNCHANGED <<op, at, fs, snap, daemonVars, recovered>>
       \/ Return(c, FALSE) /\ UNCHANGED mnt
    /\ UNCHANGED <<ms, serverVars, proc, socket>>

MapDelete(c) ==
    /\ pc[c] = "unmap"
    /\ fsMap' = [fsMap EXCEPT ![at[c]] = 0]
    /\ pc' = [pc EXCEPT ![c] = "unrecord"]
    /\ UNCHANGED <<op, at, fs, daemonVars, diskVars, status, init, todo, curFs, cri, proc,
                   socket, layer, mnt, recovered>>

\* removeFuseInfo, whose error is dropped.
RemoveFuseInfo(c) ==
    /\ pc[c] = "unrecord"
    /\ ms' \in {ms, ms \ {at[c]}}
    /\ Return(c, TRUE)
    /\ UNCHANGED <<serverVars, proc, socket, layer, mnt>>

-----------------------------------------------------------------------------
(* The ends of the manager and of the node. *)

\* The process is gone and with it what it served; a daemon that waits for an
\* answer gets an error, which is fatal to it unless it serves.
ManagerGone ==
    /\ proc' = "down"
    /\ status' = "NotReady" /\ init' = "none" /\ todo' = {}
    /\ curFs' = 0 /\ fsMap' = [m \in Mountpoints |-> 0] /\ cri' = FALSE
    /\ layer' = [f \in Fs |-> {}]
    /\ NoCall /\ Orphan

\* SIGKILL or a crash: the socket file and the store stay behind.
ManagerCrashes ==
    /\ proc = "up"
    /\ ManagerGone
    /\ mnt' = [m \in Mountpoints |-> [i \in DOMAIN mnt[m] |-> 0]]
    /\ IF daemon \in {"down", "init", "serving"} THEN UNCHANGED <<daemonVars, recovered>> ELSE Exit
    /\ UNCHANGED <<socket, ms>>

\* Server.Close deletes the store, if nothing fails.
CloseStore == ms' \in {ms, {}}

\* SIGINT or SIGTERM: the calls end, Close deletes the store, the listener its
\* socket; the mounts stay behind unserved.
ManagerStops ==
    /\ proc = "up" /\ init = "none" /\ \A c \in Calls : ~Inside(c)
    /\ ManagerGone
    /\ mnt' = [m \in Mountpoints |-> [i \in DOMAIN mnt[m] |-> 0]]
    /\ socket' = FALSE
    /\ CloseStore
    /\ IF daemon \in {"down", "init", "serving"} THEN UNCHANGED <<daemonVars, recovered>> ELSE Exit

\* The node restarts: no process, no mount, no file below /run; the disk stays.
Reboot ==
    /\ proc = "up" \/ socket
    /\ ManagerGone
    /\ mnt' = [m \in Mountpoints |-> <<>>]
    /\ socket' = FALSE
    /\ Exit
    /\ UNCHANGED ms

Next ==
    \/ StartFuseManager \/ InitUnavailable \/ RestoreUnmount \/ RestoreDone \/ Close
    \/ DaemonDies \/ ManagerCrashes \/ ManagerStops \/ Reboot
    \/ InitBegin \/ InitConfigFails \/ InitConfigured \/ InitRestore \/ InitEnd
    \/ \E m \in Mountpoints : Remove(m)
    \/ \E c \in Calls :
         \/ RestoreMount(c) \/ CloseUnmount(c)
         \/ \E m \in Mountpoints : Prepare(c, m) \/ Cleanup(c, m)
         \/ EnterMount(c) \/ EnterUnmount(c) \/ FsMount(c) \/ MapStore(c) \/ StoreFuseInfo(c)
         \/ FsUnmount(c) \/ MapDelete(c) \/ RemoveFuseInfo(c)

Spec == Init /\ [][Next]_vars

-----------------------------------------------------------------------------
(* Properties. *)

\* No call reaches the nil filesystem of a manager whose Init never succeeded,
\* although Init ends in Ready when it fails (service.go:172): a daemon whose
\* Init fails exits before it could send one.
NeverNilFs == \A c \in Calls : pc[c] \in {"mount", "map"} => curFs # 0

\* fsMap leads Check and Unmount to the instance that serves the mountpoint,
\* also when Init replaces curFs while a mount is in flight (service.go:118).
ProperFilesystem ==
    \A m \in Mountpoints : fsMap[m] # 0 /\ Live(m) /\ On(m) = {} => Top(m) = fsMap[m]

\* Once a manager has been brought up to date, every remote snapshot the daemon
\* answers for is served, whatever restarts and failed Inits the daemon goes
\* through.
RemoteIsServed ==
    recovered = "yes" /\ proc = "up" /\ daemon = "serving" =>
        \A m \in Mountpoints : snap[m] = "remote" => Live(m) /\ Check(m)

\* A mountpoint is mounted at most once by a manager: no Mount, restore or
\* Init stacks a second mount on a live one.
MountedOnce ==
    \A m \in Mountpoints : \A i, j \in DOMAIN mnt[m] : mnt[m][i] # 0 /\ mnt[m][j] # 0 => i = j

\* A call meets the filesystem that belongs to its mountpoint: no nil one, the one that
\* serves the mountpoint, and on a mountpoint that is mounted once.
MountsAreProper == NeverNilFs /\ ProperFilesystem /\ MountedOnce

\* What the comment at main.go:202 promises: a daemon that serves has all its
\* snapshots mounted, either by its own restore or by the manager it found.
ServingIsComplete ==
    proc = "up" /\ daemon = "serving" =>
        \A m \in Mountpoints : snap[m] = "remote" => Live(m)
=============================================================================
