---------------------------- MODULE Snapshotter ----------------------------
(***************************************************************************)
(* snapshot/snapshot.go: the snapshotter.  Its state is in three places    *)
(* that no transaction spans: the metadata store (bolt: one write          *)
(* transaction at a time, ids from a sequence that an aborted transaction  *)
(* gives back), the directories under snapshots/, and the FUSE mounts of   *)
(* the remote snapshots.  Requests run concurrently; the process may crash *)
(* at any step, with or without the fuse manager that serves the mounts.   *)
(*                                                                         *)
(* The FileSystem is modelled by what fs.go does with a mountpoint: Mount  *)
(* registers the layer and then mounts it, Check looks only at the         *)
(* registered layer, Unmount handles only what is registered.  A directory *)
(* is named by its id, or has a temporary name.                            *)
(***************************************************************************)
EXTENDS Naturals, FiniteSets

CONSTANTS Procs,      \* concurrent requests
          Names,      \* keys and names of snapshots
          Temps,      \* names that MkdirTemp can give: numbers that are no ids
          MaxId,      \* bound on ids
          MaxFaults,  \* bound on crashes, failed commits and shutdowns
          None

VARIABLES
    asyncRemove, \* configuration: Remove leaves the directories to Cleanup
    manager,     \* configuration: a fuse manager serves the mounts
    meta,        \* meta[n]: the stored snapshot, or None
    seq,         \* the committed sequence of ids
    writer,      \* the request in the write transaction, or None
    dirs,        \* the directories under snapshots/
    layers,      \* the registered mountpoints (fs.layer), by id
    mounted,     \* the mountpoints with a live FUSE mount, by id
    pc, req,     \* where a request is, and its arguments and locals
    list,        \* directories a request still has to clean up, or layers to check
    up,          \* whether the snapshotter runs
    restore,     \* whether the next start restores the mounts
    invalid,     \* the ids whose mount failed at the last start
    excused,     \* a directory may be missing: see Crash, CommitFails, Close
    faults

vars == <<asyncRemove, manager, meta, seq, writer, dirs, layers, mounted, pc, req, list, up,
          restore, invalid, excused, faults>>
config == <<asyncRemove, manager>>
store == <<meta, seq>>
fs == <<layers, mounted>>
system == <<up, restore, invalid, excused, faults>>

Ids == 1..MaxId

ASSUME SnapshotterAssumption == MaxId \in Nat /\ Temps \cap Ids = {} /\ None \notin Procs

NoRequest == [key |-> None, parent |-> None, target |-> None, kind |-> "view", id |-> None]
Init ==
    /\ asyncRemove \in BOOLEAN /\ manager \in BOOLEAN
    /\ meta = [n \in Names |-> None] /\ seq = 0 /\ writer = None
    /\ dirs = {} /\ layers = {} /\ mounted = {}
    /\ pc = [p \in Procs |-> "idle"] /\ req = [p \in Procs |-> NoRequest]
    /\ list = [p \in Procs |-> {}]
    /\ up = TRUE /\ restore = FALSE /\ invalid = {} /\ excused = FALSE /\ faults = 0

-----------------------------------------------------------------------------
Live == {n \in Names : meta[n] # None}
LiveIds == {meta[n].id : n \in Live}
Remote == {n \in Live : meta[n].remote}
RemoteIds == {meta[n].id : n \in Remote}

\* n and its ancestors.
Chain(n) ==
    LET above[i \in 0..Cardinality(Names)] ==
            IF i = 0 THEN {n}
            ELSE above[i-1] \cup ({meta[a].parent : a \in above[i-1] \cap Live} \ {None})
    IN above[Cardinality(Names)]

To(p, label) == pc' = [pc EXCEPT ![p] = label]
Return(p) ==
    /\ To(p, "idle")
    /\ req' = [req EXCEPT ![p] = NoRequest]
    /\ list' = [list EXCEPT ![p] = {}]

-----------------------------------------------------------------------------
(* Prepare and View: createSnapshot *)

\* What containerd asks for.
Requests ==
    {r \in [key : Names, parent : Names \cup {None}, target : Names \cup {None},
            kind : {"active", "view"}, id : {None}] :
       /\ r.parent # r.key
       /\ r.target # None => r.kind = "active" /\ r.target \notin {r.key, r.parent}}

\* The temporary names that nothing refers to; MkdirTemp gives any of them, and it makes
\* no difference which.
Unused == {t \in Temps \ dirs : \A q \in Procs : t \notin list[q] /\ req[q].id # t}

\* The write transaction is taken before the temporary directory is made.
\* containerd makes the keys it passes to a snapshotter unique, so no two
\* requests in flight create the same key.
CreateBegin(p) ==
    /\ up /\ pc[p] = "idle" /\ writer = None /\ seq < MaxId
    /\ Unused # {}
    /\ \E r \in Requests :
         LET t == CHOOSE u \in Unused : TRUE IN
         /\ \A q \in Procs : req[q].key # r.key
         /\ dirs' = dirs \cup {t}
         /\ req' = [req EXCEPT ![p] = [r EXCEPT !.id = t]]
    /\ writer' = p
    /\ To(p, "create")
    /\ UNCHANGED <<config, store, fs, list, system>>

\* storage.CreateSnapshot and the rename to the new id.  When it fails the
\* transaction is rolled back first and the directories are removed after it.
CreateRename(p) ==
    LET r == req[p]
        id == seq + 1
        ok == /\ meta[r.key] = None
              /\ r.parent # None => /\ meta[r.parent] # None
                                    /\ meta[r.parent].kind = "committed"
                                    /\ meta[r.parent].id \in dirs
    IN /\ pc[p] = "create"
       /\ \/ /\ ok /\ id \notin dirs
             /\ dirs' = (dirs \ {r.id}) \cup {id}
             /\ req' = [req EXCEPT ![p].id = id]
             /\ To(p, "commitCreate")
             /\ UNCHANGED <<writer, list>>
          \/ /\ ~ok \/ id \in dirs
             /\ list' = [list EXCEPT ![p] = IF ok THEN {r.id, id} ELSE {r.id}]
             /\ writer' = None
             /\ To(p, "clean")
             /\ UNCHANGED <<dirs, req>>
       /\ UNCHANGED <<config, store, fs, system>>

CreateCommit(p) ==
    LET r == req[p] IN
    /\ pc[p] = "commitCreate"
    /\ meta' = [meta EXCEPT ![r.key] =
                   [id |-> r.id, kind |-> r.kind, parent |-> r.parent, remote |-> FALSE]]
    /\ seq' = r.id
    /\ writer' = None
    /\ To(p, IF r.target # None THEN "readId" ELSE "readChain")
    /\ UNCHANGED <<config, dirs, fs, req, list, system>>

\* t.Commit fails: the directory of the id is removed outside the transaction.
CommitFails(p) ==
    /\ pc[p] = "commitCreate" /\ faults < MaxFaults
    /\ list' = [list EXCEPT ![p] = {req[p].id}]
    /\ writer' = None
    /\ To(p, "clean")
    /\ faults' = faults + 1
    /\ excused' = TRUE
    /\ UNCHANGED <<config, store, dirs, fs, req, up, restore, invalid>>

-----------------------------------------------------------------------------
(* Prepare of a remote snapshot: three transactions *)

\* prepareRemoteSnapshot looks the id up again; without it Prepare falls back.
ReadId(p) ==
    LET s == meta[req[p].key] IN
    /\ pc[p] = "readId"
    /\ IF s = None THEN To(p, "readChain") /\ UNCHANGED req
       ELSE To(p, "mount") /\ req' = [req EXCEPT ![p].id = s.id]
    /\ UNCHANGED <<config, store, writer, dirs, fs, list, system>>

\* Mutant: a failed mount is committed as a remote snapshot.
RemoteMountIgnored(p) ==
    LET id == req[p].id IN
    /\ pc[p] = "mount"
    /\ mounted' \in {mounted, mounted \cup ({id} \cap dirs)}
    /\ layers' = layers \cup {id}
    /\ To(p, "commitRemote")
    /\ UNCHANGED <<config, store, writer, dirs, req, list, system>>

\* fs.Mount succeeds, or fails and leaves nothing behind, as the interface of
\* FileSystem demands.
RemoteMount(p) ==
    LET id == req[p].id IN
    /\ pc[p] = "mount"
    /\ \/ /\ id \in dirs
          /\ layers' = layers \cup {id} /\ mounted' = mounted \cup {id}
          /\ To(p, "commitRemote")
       \/ To(p, "readChain") /\ UNCHANGED fs
    /\ UNCHANGED <<config, store, writer, dirs, req, list, system>>

\* commit(isRemote): the active snapshot becomes the committed target.  A
\* target that exists already counts as success and leaves the key behind.
CommitRemote(p) ==
    LET r == req[p]
        ok == /\ meta[r.key] # None /\ meta[r.target] = None
              /\ meta[r.key].kind = "active"
    IN
    /\ pc[p] = "commitRemote" /\ writer = None
    /\ meta' = IF ok THEN [meta EXCEPT ![r.target] = [meta[r.key] EXCEPT !.kind = "committed",
                                                                        !.remote = TRUE],
                                       ![r.key] = None]
               ELSE meta
    /\ Return(p)
    /\ UNCHANGED <<config, seq, writer, dirs, fs, system>>

\* Mounts of an active snapshot or a view.
Mounts(p, n) ==
    /\ up /\ pc[p] = "idle"
    /\ meta[n] # None /\ meta[n].kind # "committed"
    /\ req' = [req EXCEPT ![p] = [NoRequest EXCEPT !.key = n, !.parent = n]]
    /\ To(p, "readChain")
    /\ UNCHANGED <<config, store, writer, dirs, fs, list, system>>

\* mounts and checkAvailability: collect the remote layers below, in one read
\* transaction.
ReadChain(p) ==
    LET n == req[p].parent
        chain == Chain(n)
    IN /\ pc[p] = "readChain"
       /\ \/ /\ n = None \/ chain \subseteq Live
             /\ list' = [list EXCEPT ![p] =
                            IF n = None THEN {} ELSE {meta[a].id : a \in chain \cap Remote}]
             /\ To(p, "check") /\ UNCHANGED req
          \/ /\ n # None /\ ~(chain \subseteq Live)
             /\ Return(p)
       /\ UNCHANGED <<config, store, writer, dirs, fs, system>>

\* Mutant: layers that are not registered pass.
CheckLayersUnknown(p) ==
    /\ pc[p] = "check"
    /\ To(p, "served")
    /\ UNCHANGED <<config, store, writer, dirs, fs, req, list, system>>

\* fs.Check of every layer: the registered layer answers, or fails to reach
\* its registry.
CheckLayers(p) ==
    /\ pc[p] = "check"
    /\ \/ list[p] \subseteq layers /\ To(p, "served") /\ UNCHANGED <<req, list>>
       \/ list[p] # {} /\ Return(p)
    /\ UNCHANGED <<config, store, writer, dirs, fs, system>>

Served(p) ==
    /\ pc[p] = "served"
    /\ Return(p)
    /\ UNCHANGED <<config, store, writer, dirs, fs, system>>

\* Commit of a local snapshot; fs.DiskUsage needs its directory.
Commit(p, name, n) ==
    /\ up /\ pc[p] = "idle" /\ writer = None
    /\ meta[n] # None /\ meta[n].kind = "active" /\ meta[name] = None
    /\ meta[n].id \in dirs
    /\ meta' = [meta EXCEPT ![name] = [meta[n] EXCEPT !.kind = "committed"], ![n] = None]
    /\ UNCHANGED <<config, seq, writer, dirs, fs, pc, req, list, system>>

-----------------------------------------------------------------------------
(* Remove, Cleanup and Close *)

\* Mutant: Cleanup lists the directories of the snapshots too.
CleanupScanAll(p) ==
    /\ up /\ pc[p] = "idle" /\ writer = None
    /\ list' = [list EXCEPT ![p] = dirs]
    /\ To(p, "clean")
    /\ UNCHANGED <<config, store, writer, dirs, fs, req, system>>

\* cleanupDirectories: the directories without a snapshot, listed in a write
\* transaction and removed after it.
CleanupScan(p) ==
    /\ up /\ pc[p] = "idle" /\ writer = None
    /\ list' = [list EXCEPT ![p] = dirs \ LiveIds]
    /\ To(p, "clean")
    /\ UNCHANGED <<config, store, writer, dirs, fs, req, system>>

\* Remove of a snapshot without children.
Remove(p, n) ==
    /\ up /\ pc[p] = "idle" /\ writer = None
    /\ meta[n] # None /\ \A c \in Live : meta[c].parent # n
    /\ meta' = [meta EXCEPT ![n] = None]
    /\ list' = [list EXCEPT ![p] = IF asyncRemove THEN {} ELSE dirs \ LiveIds']
    /\ To(p, "clean")
    /\ UNCHANGED <<config, seq, writer, dirs, fs, req, system>>

\* Close cleans up every directory, those of the snapshots included.
Close(p) ==
    /\ up /\ pc[p] = "idle" /\ writer = None /\ faults < MaxFaults
    /\ list' = [list EXCEPT ![p] = dirs]
    /\ To(p, "close")
    /\ excused' = TRUE
    /\ faults' = faults + 1
    /\ UNCHANGED <<config, store, writer, dirs, fs, req, up, restore, invalid>>

\* cleanupSnapshotDirectory: fs.Unmount, which knows registered layers only ...
CleanUnmount(p) ==
    /\ pc[p] \in {"clean", "close"}
    /\ \E d \in list[p] :
         /\ layers' = layers \ {d}
         /\ mounted' = IF d \in layers THEN mounted \ {d} ELSE mounted
         /\ req' = [req EXCEPT ![p].id = d]
         /\ list' = [list EXCEPT ![p] = @ \ {d}]
    /\ To(p, IF pc[p] = "clean" THEN "cleanRm" ELSE "closeRm")
    /\ UNCHANGED <<config, store, writer, dirs, system>>

\* ... and os.RemoveAll, which fails on a mountpoint.
CleanRemove(p) ==
    /\ pc[p] \in {"cleanRm", "closeRm"}
    /\ dirs' = IF req[p].id \in mounted THEN dirs ELSE dirs \ {req[p].id}
    /\ To(p, IF pc[p] = "cleanRm" THEN "clean" ELSE "close")
    /\ UNCHANGED <<config, store, writer, fs, req, list, system>>

CleanDone(p) ==
    /\ pc[p] = "clean" /\ list[p] = {}
    /\ Return(p)
    /\ UNCHANGED <<config, store, writer, dirs, fs, system>>

-----------------------------------------------------------------------------
(* The process ends and starts again *)

\* Requests and transactions are gone; so are the temporary directories, which
\* no request will meet again.  kept: a fuse manager still serves the mounts.
Stop(kept) ==
    /\ up' = FALSE
    /\ pc' = [p \in Procs |-> "idle"] /\ req' = [p \in Procs |-> NoRequest]
    /\ list' = [p \in Procs |-> {}]
    /\ writer' = None
    /\ dirs' = dirs \cap Ids
    /\ restore' = ~kept
    /\ layers' = IF kept THEN layers ELSE {}
    /\ mounted' = IF kept THEN mounted ELSE {}
    /\ UNCHANGED <<config, store, invalid>>

\* The end of Close and of the process; the fuse manager is stopped after it
\* (docs/overview.md, "Killing and restarting").
Closed(p) ==
    /\ pc[p] = "close" /\ list[p] = {}
    /\ Stop(FALSE)
    /\ UNCHANGED <<excused, faults>>

\* A crash; one between the rename and the commit of createSnapshot leaves a
\* directory whose id the sequence will give out again.
Crash ==
    /\ up /\ faults < MaxFaults
    /\ \E kept \in {FALSE, manager} : Stop(kept)
    /\ faults' = faults + 1
    /\ excused' = (excused \/ \E p \in Procs : pc[p] = "commitCreate")

\* NewSnapshotter: restoreRemoteSnapshot unmounts what is left, makes the
\* directories of the remote snapshots and mounts them.  A mount that fails is
\* tolerated (allowInvalidMountsOnRestart).
Restart ==
    /\ ~up /\ up' = TRUE
    /\ \E bad \in IF restore THEN SUBSET RemoteIds ELSE {{}} :
         LET good == IF restore THEN RemoteIds \ bad ELSE {} IN
         /\ dirs' = IF restore THEN dirs \cup RemoteIds ELSE dirs
         /\ mounted' = mounted \cup good
         /\ layers' = layers \cup good
         /\ invalid' = IF restore THEN bad ELSE invalid
    /\ UNCHANGED <<config, store, writer, pc, req, list, restore, excused, faults>>

-----------------------------------------------------------------------------
Next ==
    \/ \E p \in Procs :
         \/ CreateBegin(p) \/ CreateRename(p) \/ CreateCommit(p) \/ CommitFails(p)
         \/ ReadId(p) \/ RemoteMount(p) \/ CommitRemote(p)
         \/ \E n \in Names : Mounts(p, n) \/ Remove(p, n)
         \/ ReadChain(p) \/ CheckLayers(p) \/ Served(p)
         \/ \E name, n \in Names : Commit(p, name, n)
         \/ CleanupScan(p) \/ Close(p)
         \/ CleanUnmount(p) \/ CleanRemove(p) \/ CleanDone(p)
         \/ Closed(p)
    \/ Crash \/ Restart

Spec == Init /\ [][Next]_vars

-----------------------------------------------------------------------------
\* A snapshot in the metadata store has its directory, whatever Remove and
\* Cleanup list and other requests create meanwhile.  Excused are a shutdown,
\* a failed commit and a crash between rename and commit.
SnapshotHasDirectory == up /\ ~excused => LiveIds \subseteq dirs

\* The same without the excuses: after a graceful stop "4. Restart the
\* containerd-stargz-grpc process. ... 5. Restart the containers."
\* (docs/overview.md:144-145).
SnapshotSurvivesRestart == up /\ faults = 1 => \A n \in Live : meta[n].id \in dirs \/
    \E p \in Procs : pc[p] \in {"close", "closeRm"}

\* A committed remote snapshot is mounted, unless its mount failed at the last
\* start: no cleanup takes the mount of a live snapshot away.
RemoteIsMounted ==
    up /\ ~excused => RemoteIds \subseteq mounted \cup invalid

\* What Mounts returns can be used: all remote layers below are mounted, since
\* Check fails for the others (snapshot.go:777).
MountsAreServed ==
    [][\A p \in Procs : pc[p] = "check" /\ pc'[p] = "served" /\ ~excused =>
           list[p] \subseteq mounted]_vars
=============================================================================
