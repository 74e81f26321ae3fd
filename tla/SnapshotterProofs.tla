------------------------- MODULE SnapshotterProofs -------------------------
(***************************************************************************)
(* Theorems about Snapshotter, for any numbers of requests, names, ids and *)
(* faults: outside the excused faults a snapshot keeps its directory and a *)
(* committed remote snapshot its mount, and what Mounts hands out is       *)
(* mounted.                                                                *)
(*                                                                         *)
(* The argument is about what a cleanup may still remove.  It lists        *)
(* directories inside a write transaction and removes them after it, so    *)
(* the invariant says that nothing it has listed can become a snapshot     *)
(* again: a listed id was given out before and the sequence never returns  *)
(* to it, since a directory above the sequence belongs to the request that *)
(* is in the write transaction.                                            *)
(***************************************************************************)
EXTENDS Snapshotter, TLAPS

Kinds == {"active", "view", "committed"}
Snapshots == [id : Ids, kind : Kinds, parent : Names \cup {None}, remote : BOOLEAN]
Labels == {"idle", "create", "commitCreate", "readId", "mount", "commitRemote", "readChain",
           "check", "served", "clean", "cleanRm", "close", "closeRm"}
Arguments == [key : Names \cup {None}, parent : Names \cup {None}, target : Names \cup {None},
              kind : {"active", "view"}, id : Ids \cup Temps \cup {None}]

\* The types that the proof needs.
TypeOK ==
    /\ meta \in [Names -> Snapshots \cup {None}]
    /\ seq \in 0 .. MaxId
    /\ dirs \subseteq Ids \cup Temps
    /\ pc \in [Procs -> Labels]
    /\ req \in [Procs -> Arguments]
    /\ list \in [Procs -> SUBSET (Ids \cup Temps)]

Creating(p) == pc[p] \in {"create", "commitCreate"}
MakingRemote(p) == pc[p] \in {"readId", "mount", "commitRemote"}

\* createSnapshot is alone in the write transaction, and the id it makes is the next one.
WriterInv ==
    \A p \in Procs :
        /\ Creating(p) => writer = p /\ req[p].key \in Names /\ seq < MaxId
        /\ pc[p] = "create" => req[p].id \in Temps
        /\ pc[p] = "commitCreate" => req[p].id = seq + 1
        /\ MakingRemote(p) => req[p].key \in Names /\ req[p].target \in Names

\* Ids come from the sequence, one for each snapshot.
IdInv ==
    /\ \A n \in Live : meta[n].id <= seq
    /\ \A n, o \in Live : meta[n].id = meta[o].id => n = o

\* Only the directory that createSnapshot is about to commit is above the sequence.
DirInv ==
    ~excused =>
        /\ LiveIds \subseteq dirs
        /\ \A p \in Procs : pc[p] = "commitCreate" => req[p].id \in dirs
        /\ \A d \in dirs \cap Ids :
               d <= seq \/ (d = seq + 1 /\ \E p \in Procs : pc[p] = "commitCreate")

\* d neither is the directory of a snapshot nor can become one.
Garbage(d) == d \notin LiveIds /\ (d \in Ids => d <= seq)

CleanInv ==
    ~excused =>
        \A p \in Procs :
            /\ pc[p] \notin {"close", "closeRm"}
            /\ pc[p] \in {"clean", "cleanRm"} => \A d \in list[p] : Garbage(d)
            /\ pc[p] = "cleanRm" => Garbage(req[p].id)

\* The key of p names an active snapshot, which commit will take.
Prepared(p) == meta[req[p].key] # None /\ meta[req[p].key].kind = "active"

\* The snapshot that a request makes remote is the one it has mounted: its key is not
\* given out again meanwhile.
KeyInv ==
    /\ \A p, q \in Procs : MakingRemote(p) /\ Creating(q) => req[p].key # req[q].key
    /\ \A p \in Procs : pc[p] \in {"mount", "commitRemote"} /\ Prepared(p) =>
           meta[req[p].key].id = req[p].id

MountInv ==
    /\ layers = mounted
    /\ ~excused =>
         /\ up \/ ~restore => RemoteIds \subseteq mounted \cup invalid
         /\ \A p \in Procs : pc[p] = "commitRemote" /\ Prepared(p) => req[p].id \in mounted

\* The inductive invariant.
IInv == TypeOK /\ WriterInv /\ IdInv /\ DirInv /\ CleanInv /\ KeyInv /\ MountInv

-----------------------------------------------------------------------------
\* Most steps are first-order; those that need arithmetic or longer chains of equalities
\* ask for SMT.
USE ZenonT(60)

\* The invariant holds before anything was prepared.
LEMMA Start == Init => IInv
  <1> SUFFICES ASSUME Init PROVE IInv
    OBVIOUS
  <1>1. TypeOK
    BY SnapshotterAssumption, SMTT(60) DEF Init, TypeOK, Labels, Arguments, NoRequest
  <1>2. Live = {} /\ LiveIds = {} /\ RemoteIds = {}
    BY DEF Init, Live, LiveIds, Remote, RemoteIds
  <1>3. WriterInv /\ IdInv /\ DirInv /\ CleanInv
    BY <1>2 DEF Init, WriterInv, Creating, MakingRemote, IdInv, DirInv, CleanInv
  <1>4. KeyInv /\ MountInv
    BY <1>2 DEF Init, KeyInv, Creating, MakingRemote, MountInv
  <1> QED BY <1>1, <1>3, <1>4 DEF IInv

-----------------------------------------------------------------------------
(* Types. *)

\* Every step keeps the types; a snapshot that is being created has an id to commit.
LEMMA Types == ASSUME TypeOK, WriterInv, [Next]_vars PROVE TypeOK'
  <1> USE SnapshotterAssumption DEF TypeOK, Labels, Arguments, To, store, fs, system, config
  <1>0. NoRequest \in Arguments
    BY DEF NoRequest
  <1>a. ASSUME NEW p \in Procs, Return(p), UNCHANGED <<seq, dirs>>,
               meta' \in [Names -> Snapshots \cup {None}]
        PROVE  TypeOK'
    BY <1>0, <1>a DEF Return
  <1>b. ASSUME NEW p \in Procs, NEW l \in Labels, To(p, l), UNCHANGED <<store, req>>,
               dirs' \subseteq Ids \cup Temps, list' \in [Procs -> SUBSET (Ids \cup Temps)]
        PROVE  TypeOK'
    BY <1>b
  <1>1. ASSUME NEW p \in Procs, CreateBegin(p) PROVE TypeOK'
    <2>1. PICK r \in Requests :
              LET t == CHOOSE u \in Unused : TRUE IN
              dirs' = dirs \cup {t} /\ req' = [req EXCEPT ![p] = [r EXCEPT !.id = t]]
      BY <1>1 DEF CreateBegin
    <2>2. (CHOOSE u \in Unused : TRUE) \in Temps
      BY <1>1 DEF CreateBegin, Unused
    <2>3. \A t \in Temps : [r EXCEPT !.id = t] \in Arguments
      BY DEF Requests
    <2> QED BY <1>1, <2>1, <2>2, <2>3 DEF CreateBegin
  <1>2. ASSUME NEW p \in Procs, CreateRename(p) PROVE TypeOK'
    <2>1. pc[p] = "create" /\ req[p].id \in Temps /\ seq + 1 \in Ids
      BY <1>2, SMTT(60) DEF CreateRename, WriterInv, Creating, Ids
    <2>2. [req[p] EXCEPT !.id = seq + 1] \in Arguments
      BY <2>1, SMTT(60)
    <2>3. req' \in [Procs -> Arguments] /\ dirs' \subseteq Ids \cup Temps
      BY <1>2, <2>1, <2>2, SMTT(60) DEF CreateRename
    <2> QED BY <1>2, <2>1, <2>3, SMTT(60) DEF CreateRename
  <1>3. ASSUME NEW p \in Procs, CreateCommit(p) PROVE TypeOK'
    <2>1. req[p].id \in Ids /\ req[p].id = seq + 1
      BY <1>3, SMTT(60) DEF CreateCommit, WriterInv, Creating, Ids
    <2>2. [id |-> req[p].id, kind |-> req[p].kind, parent |-> req[p].parent, remote |-> FALSE] \in Snapshots
      BY <2>1 DEF Snapshots, Kinds
    <2>3. seq' \in 0 .. MaxId
      BY <1>3, <2>1, SMTT(60) DEF CreateCommit, Ids
    <2>4. meta' \in [Names -> Snapshots \cup {None}]
      BY <1>3, <2>2 DEF CreateCommit
    <2> QED BY <1>3, <2>3, <2>4 DEF CreateCommit
  <1>4. ASSUME NEW p \in Procs, CommitFails(p) PROVE TypeOK'
    <2>1. req[p].id \in Ids
      BY <1>4, SMTT(60) DEF CommitFails, WriterInv, Creating, Ids
    <2> QED BY <1>4, <2>1 DEF CommitFails
  <1>5. ASSUME NEW p \in Procs, ReadId(p) PROVE TypeOK'
    <2>1. meta[req[p].key] # None => meta[req[p].key].id \in Ids
      BY <1>5 DEF ReadId, WriterInv, MakingRemote, Snapshots
    <2>2. \A i \in Ids : [req[p] EXCEPT !.id = i] \in Arguments
      BY SMTT(60)
    <2> QED BY <1>5, <2>1, <2>2, SMTT(60) DEF ReadId
  <1>6. ASSUME NEW p \in Procs, RemoteMount(p) \/ Served(p) \/ CheckLayers(p) PROVE TypeOK'
    BY <1>a, <1>b, <1>6 DEF RemoteMount, Served, CheckLayers
  <1>7. ASSUME NEW p \in Procs, CommitRemote(p) PROVE TypeOK'
    <2>1. req[p].key \in Names /\ req[p].target \in Names
      BY <1>7 DEF CommitRemote, WriterInv, MakingRemote
    <2>2. \A s \in Snapshots : [s EXCEPT !.kind = "committed", !.remote = TRUE] \in Snapshots
      BY DEF Snapshots, Kinds
    <2>3. meta' \in [Names -> Snapshots \cup {None}]
      BY <1>7, <2>1, <2>2 DEF CommitRemote
    <2> QED BY <1>0, <1>7, <2>3 DEF CommitRemote, Return
  <1>8. ASSUME NEW p \in Procs, NEW n \in Names, Mounts(p, n) PROVE TypeOK'
    <2>1. [NoRequest EXCEPT !.key = n, !.parent = n] \in Arguments
      BY DEF NoRequest
    <2> QED BY <1>8, <2>1 DEF Mounts
  <1>9. ASSUME NEW p \in Procs, ReadChain(p) PROVE TypeOK'
    <2>1. \A C : {meta[a].id : a \in C \cap Remote} \subseteq Ids
      BY SMTT(60) DEF Remote, Live, Snapshots
    <2> QED BY <1>a, <1>b, <1>9, <2>1, SMTT(60) DEF ReadChain
  <1>10. ASSUME NEW p \in Procs, NEW name \in Names, NEW n \in Names, Commit(p, name, n) PROVE TypeOK'
    <2>1. \A s \in Snapshots : [s EXCEPT !.kind = "committed"] \in Snapshots
      BY DEF Snapshots, Kinds
    <2> QED BY <1>10, <2>1 DEF Commit
  <1>11. ASSUME NEW p \in Procs, NEW n \in Names, Remove(p, n) PROVE TypeOK'
    BY <1>11 DEF Remove
  <1>12. ASSUME NEW p \in Procs, CleanupScan(p) \/ Close(p) \/ CleanRemove(p) \/ CleanDone(p) PROVE TypeOK'
    BY <1>a, <1>b, <1>12, SMTT(60) DEF CleanupScan, Close, CleanRemove, CleanDone
  <1>13. ASSUME NEW p \in Procs, CleanUnmount(p) PROVE TypeOK'
    <2>1. PICK d \in list[p] : req' = [req EXCEPT ![p].id = d] /\ list' = [list EXCEPT ![p] = @ \ {d}]
      BY <1>13 DEF CleanUnmount
    <2>2. [req[p] EXCEPT !.id = d] \in Arguments
      BY SMTT(60)
    <2> QED BY <1>13, <2>1, <2>2 DEF CleanUnmount
  <1>14. CASE (\E p \in Procs : Closed(p)) \/ Crash
    BY <1>0, <1>14, SMTT(60) DEF Closed, Crash, Stop
  <1>15. CASE Restart
    <2>1. RemoteIds \subseteq Ids
      BY SMTT(60) DEF RemoteIds, Remote, Live, Snapshots
    <2> QED BY <1>15, <2>1 DEF Restart
  <1>16. CASE UNCHANGED vars
    BY <1>16 DEF vars
  <1> QED BY <1>1, <1>2, <1>3, <1>4, <1>5, <1>6, <1>7, <1>8, <1>9, <1>10, <1>11, <1>12, <1>13, <1>14,
             <1>15, <1>16 DEF Next
-----------------------------------------------------------------------------
(* Steps that create no snapshot. *)

\* The step is one of p: it leaves the other requests alone.
Others(p) ==
    \A q \in Procs \ {p} : pc'[q] = pc[q] /\ req'[q] = req[q] /\ list'[q] = list[q]

\* Where a request may be after such a step, and what it has found out by then.
Arrives(p) ==
    /\ ~Creating(p)'
    /\ ~excused => /\ pc'[p] \notin {"close", "closeRm"}
                   /\ pc'[p] \in {"clean", "cleanRm"} => \A d \in list'[p] : Garbage(d)'
                   /\ pc'[p] = "cleanRm" => Garbage(req[p].id)'
    /\ MakingRemote(p)' =>
         /\ req'[p].key \in Names /\ req'[p].target \in Names
         /\ \A q \in Procs : Creating(q) => req'[p].key # req[q].key
    /\ pc'[p] \in {"mount", "commitRemote"} /\ Prepared(p)' => meta'[req'[p].key].id = req'[p].id
    /\ pc'[p] = "commitRemote" => req'[p].id \in mounted'

\* A step that gives out no id, after which every active snapshot was there before and
\* directories and mounts are gone only where nobody misses them.
Keeps ==
    /\ seq' = seq /\ IdInv' /\ LiveIds' \subseteq LiveIds
    /\ \A n \in Names : meta'[n] # None /\ meta'[n].kind = "active" => meta'[n] = meta[n]
    /\ dirs' \subseteq dirs /\ layers' = mounted'
    /\ ~excused => \A d \in (dirs \ dirs') \cup (mounted \ mounted') : Garbage(d)
    /\ ~excused => RemoteIds' \subseteq RemoteIds \cup mounted'
    /\ UNCHANGED <<up, restore, invalid, excused>>

\* A step of one request leaves open what the others are creating.
LEMMA OtherProcs ==
    ASSUME NEW p \in Procs, TypeOK, Others(p)
    PROVE  \A q \in Procs \ {p} : (Creating(q)' <=> Creating(q)) /\ (MakingRemote(q)' <=> MakingRemote(q))
  BY DEF Others, Creating, MakingRemote

\* The ids of live snapshots are ids, and those of remote ones among them.
LEMMA IdsOfLive ==
    ASSUME TypeOK
    PROVE  /\ \A n \in Names : meta[n] # None => meta[n] \in Snapshots /\ meta[n].id \in LiveIds
           /\ LiveIds \subseteq Ids /\ RemoteIds \subseteq LiveIds
  BY DEF TypeOK, Snapshots, LiveIds, Live, RemoteIds, Remote

\* A step of one request that keeps the store and touches garbage only keeps the invariant.
LEMMA RequestStep ==
    ASSUME IInv, TypeOK', NEW p \in Procs, pc[p] # "commitCreate", Others(p), Keeps, Arrives(p),
           \A q \in Procs \ {p} : Creating(q) => writer' = q
    PROVE  IInv'
  <1> USE DEF IInv
  <1>1. \A q \in Procs : pc[q] = "commitCreate" <=> pc'[q] = "commitCreate"
    BY DEF Others, Arrives, Creating
  <1>2. WriterInv'
    BY OtherProcs DEF WriterInv, Arrives, Others, Keeps, Creating, MakingRemote
  <1>3. \A d : Garbage(d) => Garbage(d)'
    BY DEF Garbage, Keeps
  <1>4. DirInv'
    <2> SUFFICES ASSUME ~excused PROVE DirInv'
      BY DEF DirInv, Keeps
    <2>1. LiveIds' \subseteq dirs'
      BY DEF DirInv, Keeps, Garbage
    <2>2. ASSUME NEW q \in Procs, pc'[q] = "commitCreate" PROVE req'[q].id \in dirs'
      <3>1. q # p /\ pc[q] = "commitCreate" /\ req'[q] = req[q]
        BY <1>1, <2>2 DEF Others, Arrives, Creating
      <3>2. req[q].id \in dirs /\ req[q].id = seq + 1 /\ seq + 1 \in Ids /\ ~(seq + 1 <= seq)
        BY <3>1, SnapshotterAssumption, SMTT(60) DEF DirInv, WriterInv, Creating, TypeOK, Ids
      <3> QED BY <3>1, <3>2 DEF Keeps, Garbage
    <2>3. \A d \in dirs' \cap Ids :
              d <= seq' \/ (d = seq' + 1 /\ \E q \in Procs : pc'[q] = "commitCreate")
      <3>1. (\E q \in Procs : pc'[q] = "commitCreate") <=> \E q \in Procs : pc[q] = "commitCreate"
        BY <1>1
      <3> QED BY <3>1 DEF DirInv, Keeps
    <2> QED BY <2>1, <2>2, <2>3 DEF DirInv
  <1>5. CleanInv'
    BY <1>3 DEF CleanInv, Keeps, Arrives, Others
  <1>6. \A q \in Procs \ {p} : MakingRemote(q) /\ Prepared(q)' =>
            Prepared(q) /\ meta'[req'[q].key] = meta[req[q].key] /\ req'[q] = req[q]
    BY SMTT(60) DEF Prepared, Others, Keeps, WriterInv
  <1>7. KeyInv'
    BY <1>6, OtherProcs, SMTT(60) DEF KeyInv, Arrives, Others, MakingRemote
  <1>8. MountInv'
    <2>1. layers' = mounted'
      BY DEF Keeps
    <2>2. ASSUME ~excused, up \/ ~restore PROVE RemoteIds' \subseteq mounted' \cup invalid
      BY <2>2, IdsOfLive DEF Keeps, Garbage, MountInv
    <2>3. ASSUME ~excused, NEW q \in Procs, pc'[q] = "commitRemote", Prepared(q)'
          PROVE  req'[q].id \in mounted'
      <3>1. CASE q = p
        BY <2>3, <3>1 DEF Arrives
      <3>2. CASE q # p
        <4>1. pc[q] = "commitRemote" /\ req'[q] = req[q] /\ Prepared(q)
          BY <2>3, <3>2, <1>6 DEF Others, MakingRemote
        <4>2. req[q].id \in mounted /\ req[q].id = meta[req[q].key].id /\ req[q].key \in Names
          BY <2>3, <4>1 DEF MountInv, KeyInv, WriterInv, MakingRemote
        <4>3. req[q].id \in LiveIds
          BY <4>1, <4>2, IdsOfLive DEF Prepared
        <4> QED BY <2>3, <4>1, <4>2, <4>3 DEF Keeps, Garbage
      <3> QED BY <3>1, <3>2
    <2> QED BY <2>1, <2>2, <2>3 DEF MountInv, Keeps
  <1> QED BY <1>2, <1>4, <1>5, <1>7, <1>8 DEF Keeps
\* The same for a step that leaves the store, the directories and the mounts alone.
LEMMA LocalStep ==
    ASSUME IInv, TypeOK', NEW p \in Procs, pc[p] # "commitCreate", Others(p), Arrives(p),
           UNCHANGED <<store, dirs, fs, up, restore, invalid, excused>>,
           \A q \in Procs \ {p} : Creating(q) => writer' = q
    PROVE  IInv'
  <1>1. meta' = meta /\ seq' = seq
    BY DEF store
  <1>2. Live' = Live /\ LiveIds' = LiveIds /\ RemoteIds' = RemoteIds
    BY <1>1 DEF Live, LiveIds, Remote, RemoteIds
  <1>3. IdInv'
    BY <1>1, <1>2 DEF IInv, IdInv
  <1>4. Keeps
    BY <1>1, <1>2, <1>3 DEF Keeps, fs, IInv, MountInv
  <1> QED BY <1>4, RequestStep

\* The steps that only read the store, or answer.
LEMMA LocalSteps ==
    ASSUME IInv, TypeOK', NEW p \in Procs,
           \/ ReadId(p) \/ ReadChain(p) \/ CheckLayers(p) \/ Served(p) \/ CleanupScan(p)
           \/ CleanDone(p) \/ \E n \in Names : Mounts(p, n)
    PROVE  IInv'
  <1> USE DEF To, Return, system
  <1>1. /\ UNCHANGED <<store, dirs, fs, up, restore, invalid, excused, writer>>
        /\ Others(p) /\ pc[p] # "commitCreate"
    BY DEF ReadId, ReadChain, CheckLayers, Served, CleanupScan, CleanDone, Mounts, Others, IInv, TypeOK
  <1>2. \A q \in Procs \ {p} : Creating(q) => writer' = q
    BY <1>1 DEF IInv, WriterInv
  <1>3. CASE pc'[p] \notin {"mount", "clean"}
    <2>1. pc'[p] \in {"idle", "readChain", "check", "served"}
      BY <1>3 DEF ReadId, ReadChain, CheckLayers, Served, CleanupScan, CleanDone, Mounts, IInv, TypeOK
    <2>2. Arrives(p)
      BY <2>1 DEF Arrives, Creating, MakingRemote
    <2> QED BY <1>1, <1>2, <2>2, LocalStep
  <1>4. CASE pc'[p] = "mount"
    <2>1. ReadId(p)
      BY <1>4 DEF ReadChain, CheckLayers, Served, CleanupScan, CleanDone, Mounts, IInv, TypeOK
    <2>2. /\ pc[p] = "readId" /\ meta[req[p].key] # None
          /\ req' = [req EXCEPT ![p].id = meta[req[p].key].id]
      BY <1>4, <2>1 DEF ReadId, IInv, TypeOK
    <2>3. /\ req'[p].key = req[p].key /\ req'[p].target = req[p].target
          /\ req'[p].id = meta[req[p].key].id
      BY <2>2, SMTT(60) DEF IInv, TypeOK, Arguments
    <2>4. Arrives(p)
      BY <1>1, <1>4, <2>2, <2>3 DEF Arrives, Creating, MakingRemote, IInv, WriterInv, KeyInv, store
    <2> QED BY <1>1, <1>2, <2>4, LocalStep
  <1>5. CASE pc'[p] = "clean"
    <2>1. CleanupScan(p)
      BY <1>5 DEF ReadId, ReadChain, CheckLayers, Served, CleanDone, Mounts, IInv, TypeOK
    <2>2. writer = None /\ list'[p] = dirs \ LiveIds
      BY <2>1 DEF CleanupScan, IInv, TypeOK
    <2>3. LiveIds' = LiveIds
      BY <1>1 DEF LiveIds, Live, store
    <2>4. ASSUME ~excused, NEW d \in list'[p] PROVE Garbage(d)'
      BY <1>1, <2>2, <2>3, <2>4, SnapshotterAssumption
      DEF IInv, DirInv, WriterInv, Creating, Garbage, store
    <2>5. Arrives(p)
      BY <1>5, <2>4 DEF Arrives, Creating, MakingRemote
    <2> QED BY <1>1, <1>2, <2>5, LocalStep
  <1> QED BY <1>3, <1>4, <1>5
\* prepareRemoteSnapshot mounts a layer.
LEMMA RemoteMountStep ==
    ASSUME IInv, TypeOK', NEW p \in Procs, RemoteMount(p)
    PROVE  IInv'
  <1> USE DEF To, system, store, fs
  <1>1. /\ pc[p] = "mount" /\ Others(p) /\ req' = req /\ meta' = meta
        /\ UNCHANGED <<store, dirs, up, restore, invalid, excused, writer>>
    BY DEF RemoteMount, Others, IInv, TypeOK
  <1>2. \A q \in Procs \ {p} : Creating(q) => writer' = q
    BY <1>1 DEF IInv, WriterInv
  <1>3. CASE pc'[p] = "commitRemote"
    <2>1. layers' = layers \cup {req[p].id} /\ mounted' = mounted \cup {req[p].id}
      BY <1>3 DEF RemoteMount, IInv, TypeOK
    <2>2. Arrives(p)
      BY <1>1, <1>3, <2>1 DEF Arrives, Creating, MakingRemote, IInv, WriterInv, KeyInv, Prepared
    <2>3. Live' = Live /\ LiveIds' = LiveIds /\ RemoteIds' = RemoteIds
      BY <1>1 DEF Live, LiveIds, Remote, RemoteIds
    <2>4. Keeps
      BY <1>1, <2>1, <2>3, SMTT(60) DEF Keeps, IInv, IdInv, MountInv
    <2> QED BY <1>1, <1>2, <2>2, <2>4, RequestStep
  <1>4. CASE pc'[p] # "commitRemote"
    <2>1. pc'[p] = "readChain" /\ UNCHANGED fs
      BY <1>4 DEF RemoteMount, IInv, TypeOK
    <2>2. Arrives(p)
      BY <2>1 DEF Arrives, Creating, MakingRemote
    <2> QED BY <1>1, <1>2, <2>1, <2>2, LocalStep
  <1> QED BY <1>3, <1>4

\* An active snapshot becomes a committed one of another name: only its name, its kind
\* and whether it is remote change.
LEMMA MoveMeta ==
    ASSUME TypeOK, IdInv, NEW k \in Names, NEW t \in Names, meta[k] # None, meta[t] = None,
           NEW s \in Snapshots, s.id = meta[k].id, s.kind = "committed",
           meta' = [meta EXCEPT ![t] = s, ![k] = None], seq' = seq
    PROVE  /\ IdInv' /\ LiveIds' \subseteq LiveIds
           /\ \A n \in Names : meta'[n] # None /\ meta'[n].kind = "active" => meta'[n] = meta[n]
           /\ RemoteIds' \subseteq RemoteIds \cup (IF s.remote THEN {s.id} ELSE {})
  <1>1. /\ meta'[k] = None /\ meta'[t] = s
        /\ \A n \in Names \ {k, t} : meta'[n] = meta[n]
    BY DEF TypeOK
  <1>2. Live' \subseteq (Live \ {k}) \cup {t} /\ k \in Live /\ t \notin Live
    BY <1>1 DEF Live
  <1>3. \A n \in Live' : IF n = t THEN meta'[n].id = meta[k].id ELSE n \in Live /\ meta'[n] = meta[n]
    BY <1>1, <1>2 DEF Live
  <1>4. IdInv'
    <2>1. \A n \in Live' : meta'[n].id <= seq'
      BY <1>2, <1>3 DEF IdInv
    <2>2. \A n, o \in Live' : meta'[n].id = meta'[o].id => n = o
      BY <1>2, <1>3, SMTT(60) DEF IdInv
    <2> QED BY <2>1, <2>2 DEF IdInv
  <1>5. LiveIds' \subseteq LiveIds
    BY <1>2, <1>3 DEF LiveIds
  <1>6. RemoteIds' \subseteq RemoteIds \cup (IF s.remote THEN {s.id} ELSE {})
    <2>1. ASSUME NEW n \in Remote' PROVE meta'[n].id \in RemoteIds \cup (IF s.remote THEN {s.id} ELSE {})
      <3>1. n \in Live' /\ meta'[n].remote
        BY <2>1 DEF Remote
      <3>2. CASE n = t
        BY <1>1, <3>1, <3>2, SMTT(60)
      <3>3. CASE n # t
        BY <1>3, <3>1, <3>3 DEF RemoteIds, Remote
      <3> QED BY <3>2, <3>3
    <2> QED BY <2>1 DEF RemoteIds
  <1> QED BY <1>1, <1>4, <1>5, <1>6

\* A mounted layer is committed as a remote snapshot.
LEMMA CommitRemoteStep ==
    ASSUME IInv, TypeOK', NEW p \in Procs, CommitRemote(p)
    PROVE  IInv'
  <1> USE DEF To, system, store, fs
  <1>1. /\ pc[p] = "commitRemote" /\ Others(p) /\ pc'[p] = "idle"
        /\ UNCHANGED <<seq, dirs, fs, up, restore, invalid, excused, writer>>
    BY DEF CommitRemote, Return, Others, IInv, TypeOK
  <1>2. \A q \in Procs \ {p} : Creating(q) => writer' = q
    BY <1>1 DEF IInv, WriterInv
  <1>3. Arrives(p)
    BY <1>1 DEF Arrives, Creating, MakingRemote
  <1>4. CASE meta' = meta
    BY <1>1, <1>2, <1>3, <1>4, LocalStep
  <1>5. CASE meta' # meta
    <2> DEFINE s == [meta[req[p].key] EXCEPT !.kind = "committed", !.remote = TRUE]
    <2>1. /\ meta[req[p].key] # None /\ meta[req[p].target] = None /\ Prepared(p)
          /\ req[p].key \in Names /\ req[p].target \in Names
          /\ meta' = [meta EXCEPT ![req[p].target] = s, ![req[p].key] = None]
      BY <1>1, <1>5 DEF CommitRemote, Prepared, IInv, WriterInv, MakingRemote
    <2>2. s \in Snapshots /\ s.id = meta[req[p].key].id /\ s.kind = "committed"
      <3>1. PICK r \in Snapshots : r = meta[req[p].key]
        BY <2>1 DEF IInv, TypeOK
      <3> DEFINE t == [r EXCEPT !.kind = "committed", !.remote = TRUE]
      <3>2. t \in Snapshots /\ t.id = r.id /\ t.kind = "committed"
        BY DEF Snapshots, Kinds
      <3> HIDE DEF t
      <3>. QED BY <3>1, <3>2 DEF t
    <2> HIDE DEF s
    <2>3. /\ IdInv' /\ LiveIds' \subseteq LiveIds
          /\ \A n \in Names : meta'[n] # None /\ meta'[n].kind = "active" => meta'[n] = meta[n]
          /\ RemoteIds' \subseteq RemoteIds \cup {s.id}
      BY <1>1, <2>1, <2>2, MoveMeta DEF IInv
    <2>4. ~excused => s.id \in mounted
      BY <1>1, <2>1, <2>2 DEF IInv, MountInv, KeyInv
    <2>5. Keeps
      BY <1>1, <2>3, <2>4 DEF Keeps, IInv, MountInv
    <2> QED BY <1>1, <1>2, <1>3, <2>5, RequestStep
  <1> QED BY <1>4, <1>5
\* Commit of an active snapshot.
LEMMA CommitStep ==
    ASSUME IInv, TypeOK', NEW p \in Procs, NEW name \in Names, NEW n \in Names, Commit(p, name, n)
    PROVE  IInv'
  <1> USE DEF system, fs
  <1>1. /\ pc[p] = "idle" /\ pc'[p] = "idle" /\ Others(p)
        /\ UNCHANGED <<seq, dirs, fs, up, restore, invalid, excused, writer>>
    BY DEF Commit, Others
  <1>2. \A q \in Procs \ {p} : Creating(q) => writer' = q
    BY <1>1 DEF IInv, WriterInv
  <1>3. Arrives(p)
    BY <1>1 DEF Arrives, Creating, MakingRemote
  <1> DEFINE s == [meta[n] EXCEPT !.kind = "committed"]
  <1>4. meta[n] # None /\ meta[name] = None /\ meta' = [meta EXCEPT ![name] = s, ![n] = None]
    BY DEF Commit
  <1>5. s \in Snapshots /\ s.id = meta[n].id /\ s.kind = "committed" /\ s.remote = meta[n].remote
    BY <1>4, SMTT(60) DEF IInv, TypeOK, Snapshots, Kinds
  <1> HIDE DEF s
  <1>6. /\ IdInv' /\ LiveIds' \subseteq LiveIds
        /\ \A o \in Names : meta'[o] # None /\ meta'[o].kind = "active" => meta'[o] = meta[o]
        /\ RemoteIds' \subseteq RemoteIds \cup (IF s.remote THEN {s.id} ELSE {})
    BY <1>1, <1>4, <1>5, MoveMeta DEF IInv
  <1>7. s.remote => s.id \in RemoteIds
    BY <1>4, <1>5 DEF RemoteIds, Remote, Live
  <1>8. Keeps
    BY <1>1, <1>6, <1>7 DEF Keeps, IInv, MountInv
  <1> QED BY <1>1, <1>2, <1>3, <1>8, RequestStep

\* Remove of a snapshot, whose directory becomes garbage.
LEMMA RemoveStep ==
    ASSUME IInv, TypeOK', NEW p \in Procs, NEW n \in Names, Remove(p, n)
    PROVE  IInv'
  <1> USE DEF To, system, fs
  <1>1. /\ pc[p] = "idle" /\ pc'[p] = "clean" /\ Others(p) /\ writer = None
        /\ UNCHANGED <<seq, dirs, fs, up, restore, invalid, excused, writer>>
    BY DEF Remove, Others, IInv, TypeOK
  <1>2. \A q \in Procs \ {p} : Creating(q) => writer' = q
    BY <1>1 DEF IInv, WriterInv
  <1>3. meta'[n] = None /\ \A o \in Names \ {n} : meta'[o] = meta[o]
    BY DEF Remove, IInv, TypeOK
  <1>4. Live' = Live \ {n} /\ \A o \in Live' : o \in Live /\ meta'[o] = meta[o]
    BY <1>3 DEF Live
  <1>5. IdInv' /\ LiveIds' \subseteq LiveIds /\ RemoteIds' \subseteq RemoteIds
    <2>1. IdInv'
      BY <1>1, <1>4, SMTT(60) DEF IInv, IdInv
    <2>2. LiveIds' \subseteq LiveIds
      BY <1>4 DEF LiveIds
    <2>3. RemoteIds' \subseteq RemoteIds
      BY <1>4 DEF RemoteIds, Remote
    <2> QED BY <2>1, <2>2, <2>3
  <1>6. Keeps
    BY <1>1, <1>3, <1>5 DEF Keeps, IInv, MountInv
  <1>7. list'[p] \subseteq dirs \ LiveIds'
    BY DEF Remove, IInv, TypeOK
  <1>8. ASSUME ~excused, NEW d \in list'[p] PROVE Garbage(d)'
    BY <1>1, <1>7, <1>8, SnapshotterAssumption DEF IInv, DirInv, WriterInv, Creating, Garbage
  <1>9. Arrives(p)
    BY <1>1, <1>8 DEF Arrives, Creating, MakingRemote
  <1> QED BY <1>1, <1>2, <1>6, <1>9, RequestStep

\* cleanupSnapshotDirectory unmounts a directory of its list.
LEMMA CleanUnmountStep ==
    ASSUME IInv, TypeOK', NEW p \in Procs, CleanUnmount(p)
    PROVE  IInv'
  <1> USE DEF To, system, store
  <1>1. PICK d \in list[p] :
            /\ layers' = layers \ {d}
            /\ mounted' = IF d \in layers THEN mounted \ {d} ELSE mounted
            /\ req' = [req EXCEPT ![p].id = d]
            /\ list' = [list EXCEPT ![p] = @ \ {d}]
    BY DEF CleanUnmount
  <1>2. /\ pc[p] \in {"clean", "close"} /\ Others(p)
        /\ pc'[p] = IF pc[p] = "clean" THEN "cleanRm" ELSE "closeRm"
        /\ UNCHANGED <<meta, seq, dirs, up, restore, invalid, excused, writer>>
    BY <1>1 DEF CleanUnmount, Others, IInv, TypeOK
  <1>3. req'[p].id = d /\ list'[p] = list[p] \ {d}
    BY <1>1 DEF IInv, TypeOK, Arguments
  <1>4. Live' = Live /\ LiveIds' = LiveIds /\ RemoteIds' = RemoteIds
    BY <1>2 DEF Live, LiveIds, Remote, RemoteIds
  <1>5. ~excused => pc[p] = "clean" /\ \A e \in list[p] : Garbage(e) /\ Garbage(e)'
    BY <1>2, <1>4 DEF IInv, CleanInv, Garbage
  <1>6. Arrives(p)
    BY <1>2, <1>3, <1>5 DEF Arrives, Creating, MakingRemote
  <1>7. Keeps
    BY <1>1, <1>2, <1>4, <1>5 DEF Keeps, IInv, IdInv, MountInv
  <1>8. \A q \in Procs \ {p} : Creating(q) => writer' = q
    BY <1>2 DEF IInv, WriterInv
  <1> QED BY <1>2, <1>6, <1>7, <1>8, RequestStep

\* Then it removes the directory.
LEMMA CleanRemoveStep ==
    ASSUME IInv, TypeOK', NEW p \in Procs, CleanRemove(p)
    PROVE  IInv'
  <1> USE DEF To, system, store, fs
  <1>1. /\ pc[p] \in {"cleanRm", "closeRm"} /\ Others(p)
        /\ pc'[p] = IF pc[p] = "cleanRm" THEN "clean" ELSE "close"
        /\ dirs' \subseteq dirs /\ dirs \ dirs' \subseteq {req[p].id}
        /\ UNCHANGED <<meta, seq, fs, req, list, up, restore, invalid, excused, writer>>
    BY DEF CleanRemove, Others, IInv, TypeOK
  <1>2. Live' = Live /\ LiveIds' = LiveIds /\ RemoteIds' = RemoteIds
    BY <1>1 DEF Live, LiveIds, Remote, RemoteIds
  <1>3. ~excused => /\ pc[p] = "cleanRm" /\ Garbage(req[p].id)
                    /\ \A e \in list[p] : Garbage(e)'
    BY <1>1, <1>2 DEF IInv, CleanInv, Garbage
  <1>4. Arrives(p)
    BY <1>1, <1>3 DEF Arrives, Creating, MakingRemote
  <1>5. Keeps
    BY <1>1, <1>2, <1>3 DEF Keeps, IInv, IdInv, MountInv
  <1>6. \A q \in Procs \ {p} : Creating(q) => writer' = q
    BY <1>1 DEF IInv, WriterInv
  <1> QED BY <1>1, <1>4, <1>5, <1>6, RequestStep

-----------------------------------------------------------------------------
(* createSnapshot. *)

\* A step of createSnapshot before its commit: the metadata and the mounts stay, and the
\* directories change by those of the request.
LEMMA CreatingStep ==
    ASSUME IInv, TypeOK', NEW p \in Procs, Others(p), Creating(p)', pc[p] # "commitCreate",
           UNCHANGED <<store, fs, up, restore, invalid, excused>>,
           writer' = p, \A q \in Procs \ {p} : ~Creating(q),
           req'[p].key \in Names, seq < MaxId,
           pc'[p] = "create" => req'[p].id \in Temps,
           pc'[p] = "commitCreate" => req'[p].id = seq + 1 /\ seq + 1 \in dirs',
           \A q \in Procs \ {p} : MakingRemote(q) => req[q].key # req'[p].key,
           dirs \cap Ids \subseteq dirs',
           dirs' \cap Ids \subseteq dirs \cup {x \in {seq + 1} : pc'[p] = "commitCreate"}
    PROVE  IInv'
  <1> USE DEF IInv, store, fs
  <1>1. Live' = Live /\ LiveIds' = LiveIds /\ RemoteIds' = RemoteIds /\ meta' = meta /\ seq' = seq
    BY DEF Live, LiveIds, Remote, RemoteIds
  <1>2. \A q \in Procs : pc[q] # "commitCreate"
    BY DEF Creating
  <1>3. WriterInv'
    BY <1>1, OtherProcs DEF WriterInv, Others, Creating, MakingRemote
  <1>4. IdInv'
    BY <1>1, SMTT(60) DEF IdInv
  <1>5. DirInv'
    BY <1>1, <1>2, IdsOfLive DEF DirInv, Others, Creating
  <1>6. CleanInv'
    BY <1>1 DEF CleanInv, Garbage, Others, Creating
  <1>7. \A q \in Procs \ {p} : Prepared(q)' <=> Prepared(q)
    BY <1>1 DEF Prepared, Others
  <1>8. KeyInv'
    <2>1. /\ ~MakingRemote(p)' /\ pc'[p] \notin {"mount", "commitRemote"}
          /\ \A q \in Procs \ {p} : ~Creating(q)'
          /\ \A q \in Procs \ {p} : MakingRemote(q)' => MakingRemote(q)
      BY OtherProcs DEF Creating, MakingRemote
    <2>2. \A q, r \in Procs : MakingRemote(q)' /\ Creating(r)' => req'[q].key # req'[r].key
      <3>1. ASSUME NEW q \in Procs, NEW r \in Procs, MakingRemote(q)', Creating(r)'
            PROVE  req'[q].key # req'[r].key
        <4>1. q # p /\ r = p /\ MakingRemote(q)
          BY <2>1, <3>1
        <4> QED BY <4>1 DEF Others
      <3> QED BY <3>1
    <2>3. \A q \in Procs : pc'[q] \in {"mount", "commitRemote"} /\ Prepared(q)' =>
              meta'[req'[q].key].id = req'[q].id
      BY <1>1, <1>7, <2>1 DEF KeyInv, Others
    <2> QED BY <2>2, <2>3 DEF KeyInv
  <1>9. MountInv'
    BY <1>1, <1>7 DEF MountInv, Others, Creating
  <1> QED BY <1>3, <1>4, <1>5, <1>6, <1>8, <1>9

\* createSnapshot takes the writer lock and makes a temporary directory.
LEMMA CreateBeginStep ==
    ASSUME IInv, TypeOK', NEW p \in Procs, CreateBegin(p)
    PROVE  IInv'
  <1> USE DEF To, system, store
  <1> DEFINE t == CHOOSE u \in Unused : TRUE
  <1>1. PICK r \in Requests :
            /\ \A q \in Procs : req[q].key # r.key
            /\ dirs' = dirs \cup {t}
            /\ req' = [req EXCEPT ![p] = [r EXCEPT !.id = t]]
    BY DEF CreateBegin
  <1>2. t \in Temps
    BY DEF CreateBegin, Unused
  <1> HIDE DEF t
  <1>3. req'[p].key = r.key /\ req'[p].id = t /\ r.key \in Names
    BY <1>1 DEF Requests, IInv, TypeOK
  <1>4. /\ pc[p] = "idle" /\ pc'[p] = "create" /\ writer = None /\ writer' = p /\ seq < MaxId
        /\ Others(p) /\ UNCHANGED <<store, fs, up, restore, invalid, excused>>
    BY <1>1 DEF CreateBegin, Others, IInv, TypeOK
  <1>5. \A q \in Procs : ~Creating(q)
    BY <1>4, SnapshotterAssumption DEF IInv, WriterInv
  <1>6. dirs \cap Ids \subseteq dirs' /\ dirs' \cap Ids \subseteq dirs
    BY <1>1, <1>2, SnapshotterAssumption
  <1> QED BY <1>1, <1>2, <1>3, <1>4, <1>5, <1>6, CreatingStep DEF Creating

\* It takes a fresh id and renames the directory to it.
LEMMA CreateRenameStep ==
    ASSUME IInv, TypeOK', NEW p \in Procs, CreateRename(p)
    PROVE  IInv'
  <1> USE DEF To, system
  <1>1. /\ pc[p] = "create" /\ writer = p /\ seq < MaxId /\ req[p].id \in Temps
        /\ req[p].key \in Names /\ Others(p)
        /\ UNCHANGED <<store, fs, up, restore, invalid, excused>>
    BY DEF CreateRename, Others, IInv, TypeOK, WriterInv, Creating
  <1>2. \A q \in Procs \ {p} : ~Creating(q)
    BY <1>1 DEF IInv, WriterInv
  <1>3. seq + 1 \in Ids /\ ~(seq + 1 <= seq)
    BY <1>1, SnapshotterAssumption, SMTT(60) DEF IInv, TypeOK, Ids
  <1>4. CASE pc'[p] = "commitCreate"
    <2>1. dirs' = (dirs \ {req[p].id}) \cup {seq + 1} /\ req' = [req EXCEPT ![p].id = seq + 1] /\ writer' = p
      BY <1>1, <1>4 DEF CreateRename, IInv, TypeOK
    <2>2. req'[p].key = req[p].key /\ req'[p].id = seq + 1
      BY <2>1, SMTT(60) DEF IInv, TypeOK, Arguments
    <2>3. dirs \cap Ids \subseteq dirs' /\ dirs' \cap Ids \subseteq dirs \cup {seq + 1}
      BY <1>1, <2>1, SnapshotterAssumption
    <2>4. \A q \in Procs \ {p} : MakingRemote(q) => req[q].key # req[p].key
      BY <1>1 DEF IInv, KeyInv, Creating
    <2> QED BY <1>1, <1>2, <1>4, <2>1, <2>2, <2>3, <2>4, CreatingStep DEF Creating
  <1>5. CASE pc'[p] # "commitCreate"
    <2>1. /\ pc'[p] = "clean" /\ dirs' = dirs
          /\ \/ list'[p] = {req[p].id}
             \/ list'[p] = {req[p].id, seq + 1} /\ seq + 1 \in dirs
      BY <1>5 DEF CreateRename, IInv, TypeOK
    <2>2. LiveIds' = LiveIds /\ seq' = seq
      BY <1>1 DEF Live, LiveIds, store
    <2>3. ~excused => seq + 1 \notin dirs
      BY <1>1, <1>2, <1>3 DEF IInv, DirInv, Creating
    <2>4. req[p].id \notin LiveIds /\ req[p].id \notin Ids
      BY <1>1, IdsOfLive, SnapshotterAssumption DEF IInv
    <2>5. ~excused => \A d \in list'[p] : Garbage(d)'
      BY <2>1, <2>2, <2>3, <2>4 DEF Garbage
    <2>6. Arrives(p)
      BY <2>1, <2>5 DEF Arrives, Creating, MakingRemote
    <2> QED BY <1>1, <1>2, <2>1, <2>6, LocalStep
  <1> QED BY <1>4, <1>5
\* The new snapshot has an id that nobody has listed, and a key that nobody mounts.
LEMMA CreateCommitStep ==
    ASSUME IInv, TypeOK', NEW p \in Procs, CreateCommit(p)
    PROVE  IInv'
  <1> USE DEF IInv
  <1> DEFINE s == [id |-> req[p].id, kind |-> req[p].kind, parent |-> req[p].parent, remote |-> FALSE]
  <1>1. /\ pc[p] = "commitCreate" /\ Creating(p) /\ writer = p /\ req[p].key \in Names
        /\ req[p].id = seq + 1 /\ seq < MaxId
    BY DEF CreateCommit, WriterInv, Creating
  <1>2. /\ meta' = [meta EXCEPT ![req[p].key] = s] /\ seq' = seq + 1 /\ Others(p)
        /\ pc'[p] = (IF req[p].target # None THEN "readId" ELSE "readChain")
        /\ UNCHANGED <<dirs, fs, req, list, up, restore, invalid, excused>>
    BY <1>1 DEF CreateCommit, To, Others, TypeOK, system
  <1>3. s.id = seq + 1 /\ s.remote = FALSE
    BY <1>1
  <1> HIDE DEF s
  <1>4. meta'[req[p].key] = s /\ \A n \in Names \ {req[p].key} : meta'[n] = meta[n]
    BY <1>1, <1>2 DEF TypeOK
  <1>5. \A n \in Live' : n = req[p].key \/ (n \in Live /\ n # req[p].key /\ meta'[n] = meta[n])
    BY <1>4 DEF Live
  <1>6. LiveIds' \subseteq LiveIds \cup {seq + 1} /\ RemoteIds' \subseteq RemoteIds
    BY <1>3, <1>4, <1>5, SMTT(60) DEF LiveIds, RemoteIds, Remote
  <1>7. seq \in Nat /\ seq + 1 \in Ids /\ Ids \subseteq Nat /\ seq <= seq + 1 /\ ~(seq + 1 <= seq)
    BY <1>1, SnapshotterAssumption, SMTT(60) DEF TypeOK, Ids
  <1>8. \A q \in Procs \ {p} : ~Creating(q)
    BY <1>1 DEF WriterInv
  <1>9. \A q \in Procs : ~Creating(q)'
    BY <1>2, <1>8, OtherProcs DEF Creating
  <1>10. WriterInv'
    <2>1. pc'[p] = "readId" => req[p].target \in Names
      BY <1>2 DEF TypeOK, Arguments
    <2> QED BY <1>1, <1>2, <1>9, <2>1, OtherProcs DEF WriterInv, Creating, MakingRemote, Others
  <1>11. IdInv'
    <2>1. \A n \in Live : meta[n].id \in Nat /\ meta[n].id <= seq
      BY <1>7, IdsOfLive DEF IdInv, Live
    <2>2. \A n \in Live' : IF n = req[p].key THEN meta'[n].id = seq + 1
                           ELSE meta'[n] = meta[n] /\ n \in Live
      BY <1>3, <1>4, <1>5
    <2> QED BY <1>2, <1>7, <2>1, <2>2, SMTT(60) DEF IdInv
  <1>12. DirInv'
    <2>1. ~excused => LiveIds' \subseteq dirs'
      BY <1>1, <1>2, <1>6 DEF DirInv
    <2>2. ASSUME ~excused, NEW d \in dirs \cap Ids PROVE d <= seq + 1
      <3>1. d \in Nat /\ (d <= seq \/ d = seq + 1)
        BY <1>7, <2>2 DEF DirInv
      <3> QED BY <1>7, <3>1, SMTT(60)
    <2> QED BY <1>2, <1>9, <2>1, <2>2 DEF DirInv, Creating
  <1>13. CleanInv'
    <2>1. ASSUME NEW d, Garbage(d) PROVE Garbage(d)'
      <3>1. d \in Ids => d \in Nat /\ d <= seq
        BY <1>7, <2>1 DEF Garbage
      <3>2. d # seq + 1 /\ (d \in Ids => d <= seq + 1)
        BY <1>7, <3>1, SMTT(60)
      <3> QED BY <1>2, <1>6, <2>1, <3>2 DEF Garbage
    <2> QED BY <1>2, <2>1 DEF CleanInv, Others
  <1>14. \A q \in Procs : MakingRemote(q) =>
             Prepared(q)' = Prepared(q) /\ meta'[req'[q].key] = meta[req[q].key] /\ req'[q] = req[q]
    BY <1>1, <1>2, <1>4 DEF Prepared, KeyInv, WriterInv
  <1>15. \A q \in Procs : pc'[q] \in {"mount", "commitRemote"} => q # p /\ pc'[q] = pc[q] /\ MakingRemote(q)
    BY <1>2 DEF Others, MakingRemote
  <1>16. KeyInv'
    BY <1>9, <1>14, <1>15 DEF KeyInv
  <1>17. MountInv'
    BY <1>2, <1>6, <1>14, <1>15 DEF MountInv, fs
  <1> QED BY <1>10, <1>11, <1>12, <1>13, <1>16, <1>17
-----------------------------------------------------------------------------
(* The faults. *)

\* A failed commit and a shutdown: what follows is excused.
LEMMA ExcusedStep ==
    ASSUME IInv, TypeOK', NEW p \in Procs, CommitFails(p) \/ Close(p)
    PROVE  IInv'
  <1> USE DEF IInv, To, fs
  <1>1. /\ excused' = TRUE /\ Others(p) /\ pc'[p] \in {"clean", "close"}
        /\ UNCHANGED <<meta, seq, dirs, fs, req>>
    BY DEF CommitFails, Close, Others, TypeOK, store
  <1>2. \A q \in Procs \ {p} : Creating(q) => writer' = q
    BY DEF CommitFails, Close, WriterInv, Creating
  <1>3. WriterInv' /\ IdInv'
    BY <1>1, <1>2, OtherProcs DEF WriterInv, IdInv, Live, Others, Creating, MakingRemote
  <1>4. KeyInv'
    BY <1>1, OtherProcs DEF KeyInv, Others, Prepared, Creating, MakingRemote
  <1>5. DirInv' /\ CleanInv' /\ MountInv'
    BY <1>1 DEF DirInv, CleanInv, MountInv
  <1> QED BY <1>3, <1>4, <1>5

\* The process ends: no request is left, and of the directories only temporary ones go.
LEMMA StopStep ==
    ASSUME IInv, TypeOK', NEW kept, Stop(kept),
           ~excused' => ~excused /\ up /\ \A p \in Procs : pc[p] # "commitCreate"
    PROVE  IInv'
  <1> USE DEF IInv
  <1>1. /\ UNCHANGED <<meta, seq, invalid>> /\ up' = FALSE /\ dirs' = dirs \cap Ids
        /\ \A p \in Procs : pc'[p] = "idle"
        /\ layers' = mounted' /\ (~restore' => mounted' = mounted)
    BY DEF Stop, store, MountInv
  <1>2. Live' = Live /\ LiveIds' = LiveIds /\ RemoteIds' = RemoteIds
    BY <1>1 DEF Live, LiveIds, Remote, RemoteIds
  <1>3. WriterInv' /\ IdInv' /\ CleanInv' /\ KeyInv'
    BY <1>1, <1>2 DEF WriterInv, IdInv, CleanInv, KeyInv, Creating, MakingRemote
  <1>4. DirInv'
    BY <1>1, <1>2, IdsOfLive DEF DirInv
  <1>5. MountInv'
    BY <1>1, <1>2 DEF MountInv
  <1> QED BY <1>3, <1>4, <1>5

\* The process starts again and restores the remote snapshots.
LEMMA RestartStep ==
    ASSUME IInv, TypeOK', Restart
    PROVE  IInv'
  <1> USE DEF IInv, store
  <1>1. /\ UNCHANGED <<meta, seq, writer, pc, req, list, restore, excused>> /\ up' = TRUE
        /\ dirs \subseteq dirs' /\ dirs' \subseteq dirs \cup RemoteIds
        /\ layers' = mounted' /\ mounted \subseteq mounted'
        /\ IF restore THEN RemoteIds \subseteq mounted' \cup invalid' ELSE invalid' = invalid
    BY DEF Restart, MountInv
  <1>2. Live' = Live /\ LiveIds' = LiveIds /\ RemoteIds' = RemoteIds
    BY <1>1 DEF Live, LiveIds, Remote, RemoteIds
  <1>3. WriterInv' /\ IdInv' /\ CleanInv' /\ KeyInv'
    BY <1>1, <1>2 DEF WriterInv, IdInv, CleanInv, Garbage, KeyInv, Prepared, Creating, MakingRemote
  <1>4. \A d \in RemoteIds : d <= seq
    BY DEF RemoteIds, Remote, IdInv
  <1>5. DirInv'
    BY <1>1, <1>2, <1>4 DEF DirInv
  <1>6. MountInv'
    BY <1>1, <1>2 DEF MountInv, Prepared
  <1> QED BY <1>3, <1>5, <1>6

-----------------------------------------------------------------------------
\* Each step keeps the invariant.
LEMMA Step == ASSUME IInv, [Next]_vars PROVE IInv'
  <1>1. TypeOK'
    BY Types DEF IInv
  <1>2. ASSUME NEW p \in Procs, CreateBegin(p) \/ CreateRename(p) \/ CreateCommit(p) PROVE IInv'
    BY <1>1, <1>2, CreateBeginStep, CreateRenameStep, CreateCommitStep
  <1>3. ASSUME NEW p \in Procs, CommitFails(p) \/ Close(p) PROVE IInv'
    BY <1>1, <1>3, ExcusedStep
  <1>4. ASSUME NEW p \in Procs, RemoteMount(p) \/ CommitRemote(p) \/ CleanUnmount(p) \/ CleanRemove(p)
        PROVE  IInv'
    BY <1>1, <1>4, RemoteMountStep, CommitRemoteStep, CleanUnmountStep, CleanRemoveStep
  <1>5. ASSUME NEW p \in Procs,
               \/ ReadId(p) \/ ReadChain(p) \/ CheckLayers(p) \/ Served(p) \/ CleanupScan(p)
               \/ CleanDone(p) \/ \E n \in Names : Mounts(p, n)
        PROVE  IInv'
    BY <1>1, <1>5, LocalSteps
  <1>6. ASSUME NEW p \in Procs, NEW n \in Names, Remove(p, n) PROVE IInv'
    BY <1>1, <1>6, RemoveStep
  <1>7. ASSUME NEW p \in Procs, NEW name \in Names, NEW n \in Names, Commit(p, name, n) PROVE IInv'
    BY <1>1, <1>7, CommitStep
  <1>8. ASSUME NEW p \in Procs, Closed(p) PROVE IInv'
    <2>1. Stop(FALSE) /\ excused' = excused /\ excused
      BY <1>8 DEF Closed, IInv, CleanInv
    <2> QED BY <1>1, <2>1, StopStep
  <1>9. CASE Crash
    <2>1. PICK kept \in {FALSE, manager} : Stop(kept)
      BY <1>9 DEF Crash
    <2>2. ~excused' => ~excused /\ up /\ \A p \in Procs : pc[p] # "commitCreate"
      BY <1>9 DEF Crash
    <2> QED BY <1>1, <2>1, <2>2, StopStep
  <1>10. CASE Restart
    BY <1>1, <1>10, RestartStep
  <1>11. CASE UNCHANGED vars
    <2>1. Live' = Live /\ LiveIds' = LiveIds /\ RemoteIds' = RemoteIds
      BY <1>11 DEF vars, Live, LiveIds, Remote, RemoteIds
    <2> QED BY <1>1, <1>11, <2>1 DEF vars, IInv, WriterInv, IdInv, DirInv, CleanInv, Garbage, KeyInv,
                                MountInv, Prepared, Creating, MakingRemote
  <1> QED BY <1>2, <1>3, <1>4, <1>5, <1>6, <1>7, <1>8, <1>9, <1>10, <1>11 DEF Next

\* The invariant holds in every reachable state.
LEMMA Invariant == Spec => []IInv
  BY Start, Step, PTL DEF Spec

\* A snapshot keeps its directory, whatever Remove and Cleanup list and other requests
\* create meanwhile.
THEOREM DirectoryStays == Spec => []SnapshotHasDirectory
  <1>1. IInv => SnapshotHasDirectory
    BY DEF IInv, DirInv, SnapshotHasDirectory
  <1> QED BY <1>1, Invariant, PTL

\* A committed remote snapshot is mounted, unless its mount failed at the last start.
THEOREM MountStays == Spec => []RemoteIsMounted
  <1>1. IInv => RemoteIsMounted
    BY DEF IInv, MountInv, RemoteIsMounted
  <1> QED BY <1>1, Invariant, PTL

\* Two snapshots never share an id, and with it a directory: ids are given back by
\* aborted transactions only.
IdsUnique == \A n, o \in Live : meta[n].id = meta[o].id => n = o

\* No two snapshots share a directory.
THEOREM NoSharedDirectory == Spec => []IdsUnique
  <1>1. IInv => IdsUnique
    BY DEF IInv, IdInv, IdsUnique
  <1> QED BY <1>1, Invariant, PTL

\* What Mounts hands out is mounted: Check lets only registered layers pass, and a
\* registered layer is a mounted one.
THEOREM HandsOutMounted == Spec => MountsAreServed
  <1>1. ASSUME IInv, [Next]_vars, NEW p \in Procs, pc[p] = "check", pc'[p] = "served"
        PROVE  list[p] \subseteq mounted
    <2> USE DEF IInv, TypeOK, To, Return
    <2>1. ASSUME NEW q \in Procs, CheckLayers(q) PROVE list[p] \subseteq layers
      BY <1>1, <2>1 DEF CheckLayers
    <2>2. ASSUME NEW q \in Procs, CreateBegin(q) \/ CreateRename(q) \/ CreateCommit(q) \/ CommitFails(q)
                                  \/ ReadId(q) \/ RemoteMount(q) \/ CommitRemote(q)
          PROVE  FALSE
      BY <1>1, <2>2 DEF CreateBegin, CreateRename, CreateCommit, CommitFails, ReadId, RemoteMount, CommitRemote
    <2>3. ASSUME NEW q \in Procs, \/ ReadChain(q) \/ Served(q) \/ CleanupScan(q) \/ Close(q)
                                  \/ CleanUnmount(q) \/ CleanRemove(q) \/ CleanDone(q)
          PROVE  FALSE
      BY <1>1, <2>3 DEF ReadChain, Served, CleanupScan, Close, CleanUnmount, CleanRemove, CleanDone
    <2>4. ASSUME NEW q \in Procs, NEW n \in Names, Mounts(q, n) \/ Remove(q, n) PROVE FALSE
      BY <1>1, <2>4 DEF Mounts, Remove
    <2>5. ASSUME NEW q \in Procs, NEW name \in Names, NEW n \in Names, Commit(q, name, n) PROVE FALSE
      BY <1>1, <2>5 DEF Commit
    <2>6. ASSUME NEW q \in Procs, Closed(q) PROVE FALSE
      BY <1>1, <2>6 DEF Closed, Stop
    <2>7. ASSUME Crash \/ Restart \/ UNCHANGED vars PROVE FALSE
      BY <1>1, <2>7 DEF Crash, Stop, Restart, vars
    <2> HIDE DEF IInv, TypeOK, To, Return
    <2>8. list[p] \subseteq layers
      BY <1>1, <2>1, <2>2, <2>3, <2>4, <2>5, <2>6, <2>7 DEF Next
    <2> QED BY <1>1, <2>8 DEF IInv, MountInv
  <1>2. ASSUME IInv, [Next]_vars
        PROVE  [\A p \in Procs : pc[p] = "check" /\ pc'[p] = "served" /\ ~excused =>
                    list[p] \subseteq mounted]_vars
    BY <1>1, <1>2
  <1> QED BY <1>2, Invariant, PTL DEF Spec, MountsAreServed
=============================================================================
