------------------------------ MODULE TreeProofs ------------------------------
(***************************************************************************)
(* Proofs about the two trees that the kernel walks.                       *)
(*                                                                         *)
(* StoreTree, for any numbers of requests, nodes and layers: no two nodes  *)
(* of one id map share an inode number, and what a path leads to serves an *)
(* open layer.                                                             *)
(* idMap.get gives an id that is not taken.  The invariant adds what lies  *)
(* between the taking of an id for a diff directory and its node: the ids  *)
(* that requests hold are taken, differ from each other, and belong to no  *)
(* node yet.                                                               *)
(*                                                                         *)
(* LayerNode, for any directory and any number of requests: lookups and    *)
(* listings answer what the metadata say, and inode numbers are distinct.  *)
(* The invariant says of everything that is kept (an inode in memory, a    *)
(* kept listing, what a request found so far) that it agrees with the      *)
(* directory.                                                              *)
(***************************************************************************)
EXTENDS StoreTree, LayerNode, FiniteSetTheorems, WellFoundedInduction, TLAPS

\* Most steps are first-order; those that need arithmetic or longer chains of equalities
\* ask for SMT.
USE ZenonT(60)

\* A set of positive numbers that is not empty has a least element: the shortest of the
\* intervals that they end.
LEMMA Least == ASSUME NEW S, S \subseteq Nat \ {0}, S # {} PROVE \E i \in S : \A j \in S : i <= j
  <1> DEFINE T == {1 .. i : i \in S}
             R == StrictSubsetOrdering(Nat)
  <1>1. T \subseteq FiniteSubsetsOf(Nat)
    BY FS_Interval, SMTT(60) DEF FiniteSubsetsOf
  <1>2. PICK t \in T : \A u \in T : ~(<<u, t>> \in R)
    <2>1. T # {}
      OBVIOUS
    <2>2. IsWellFoundedOn(R, FiniteSubsetsOf(Nat))
      BY FS_StrictSubsetOrderingWellFounded
    <2>. QED BY <1>1, <2>1, <2>2, WFMin
  <1>3. PICK i \in S : t = 1 .. i
    BY <1>2
  <1>4. ASSUME NEW j \in S, j < i PROVE FALSE
    <2>1. 1 .. j \subseteq 1 .. i /\ i \in 1 .. i /\ i \notin 1 .. j
      BY <1>4, SMTT(60)
    <2>2. 1 .. j \in T
      OBVIOUS
    <2>3. 1 .. j \subseteq Nat /\ 1 .. i \subseteq Nat /\ 1 .. j # 1 .. i
      BY <2>1, SMTT(60)
    <2>4. <<1 .. j, 1 .. i>> \in R
      BY <2>1, <2>3 DEF StrictSubsetOrdering
    <2>. QED BY <1>2, <1>3, <2>2, <2>4
  <1>. QED BY <1>4, SMTT(60)

\* idMap.get finds an id above 0 that is not taken.
LEMMA GetIsFresh ==
    ASSUME NEW m, m \subseteq Nat, IsFiniteSet(m)
    PROVE  get(m) \in Nat \ {0} /\ get(m) \notin m
  <1> DEFINE c == Cardinality(m)
             S == {i \in 1 .. (c + 1) : i \notin m}
  <1>1. c \in Nat
    BY FS_CardinalityType
  <1>2. S # {}
    <2>1. IsFiniteSet(1 .. (c + 1)) /\ Cardinality(1 .. (c + 1)) = c + 1
      <3>1. 1 <= c + 1
        BY <1>1, SMTT(60)
      <3>. QED BY <1>1, <3>1, FS_Interval, SMTT(60)
    <2>2. SUFFICES ASSUME 1 .. (c + 1) \subseteq m PROVE FALSE
      BY <2>2
    <2>3. c + 1 <= c
      BY <2>1, <2>2, FS_Subset
    <2>. QED BY <1>1, <2>3, SMTT(60)
  <1>3. PICK i \in S : \A j \in S : i <= j
    <2>1. S \subseteq Nat \ {0}
      BY <1>1, SMTT(60)
    <2>. QED BY <1>2, <2>1, Least
  <1>4. i \in 1 .. (c + 1) /\ i \notin m /\ \A j \in 1 .. (i - 1) : j \in m
    BY <1>1, <1>3, SMTT(60)
  <1>5. get(m) \in 1 .. (c + 1) /\ get(m) \notin m
    BY <1>4, ZenonT(60) DEF get
  <1>. QED BY <1>1, <1>5, SMTT(60)

-----------------------------------------------------------------------------
Kinds == {"ref", "layer", "info", "blob", "diff"}

TypeOK ==
    /\ node \in [Pool -> [kind : Kinds \cup {"none"}, ino : Nat, parent : Int, gen : Int]]
    /\ req \in [Requests -> [pc : {"idle", "info", "resolve", "make"}, at : Int, kind : Kinds \cup {"none"},
                             gen : Int, id : Nat]]
    /\ nodeMap \subseteq Nat \ {0} /\ IsFiniteSet(nodeMap)
    /\ layerMap \subseteq Nat \ {0} /\ IsFiniteSet(layerMap)
    /\ gen \in Int /\ open \subseteq Int

\* A node has a kind as long as it lives, a request as long as it runs.
KindInv ==
    /\ \A n \in Pool : node[n] = Free \/ node[n].kind \in Kinds
    /\ \A q \in Requests : req[q].pc # "idle" => req[q].kind \in Kinds

\* The ids that lookups of diff directories hold.
HeldInv ==
    /\ \A q \in Requests : req[q].id # 0 => req[q].kind = "diff" /\ req[q].pc = "make" /\ req[q].id \in layerMap
    /\ \A q, r \in Requests : q # r /\ req[q].id # 0 => req[q].id # req[r].id
    /\ \A q \in Requests, n \in Pool : req[q].id # 0 /\ node[n].kind = "diff" => node[n].ino # req[q].id

\* The inductive invariant.
IInv == TypeOK /\ KindInv /\ HeldInv /\ NodeIdsDistinct

-----------------------------------------------------------------------------
\* The invariant of the id maps holds of the empty tree.
LEMMA Start == Init => IInv
  BY FS_EmptySet, SMTT(60) DEF Init, IInv, TypeOK, KindInv, HeldInv, NodeIdsDistinct, Free, Idle, Kinds, NoNode, Pool

\* The node of a request takes its place; the one it replaces stays as it is but for its
\* parent.  ino is fresh among the nodes of its id map.
LEMMA AttachKeeps ==
    ASSUME IInv, NEW q \in Requests, req[q].pc = "make", NEW ino \in Nat \ {0}, Attach(q, ino),
           NEW M, ino \in M, (IF req[q].kind = "diff" THEN layerMap ELSE nodeMap) \subseteq M,
           \A n \in Pool : node[n] # Free /\ (node[n].kind = "diff") = (req[q].kind = "diff") => node[n].ino # ino,
           IF req[q].kind = "diff" THEN nodeMap' = nodeMap /\ layerMap' = M ELSE nodeMap' = M /\ layerMap' = layerMap
    PROVE  /\ node' \in [Pool -> [kind : Kinds \cup {"none"}, ino : Nat, parent : Int, gen : Int]]
           /\ \A n \in Pool : node'[n] = Free \/ node'[n].kind \in Kinds
           /\ \A n \in Pool : node'[n].kind = "diff" => node'[n].ino = ino \/ (node[n].kind = "diff" /\ node[n].ino = node'[n].ino)
           /\ NodeIdsDistinct'
  <1> DEFINE p == req[q].at
             new == CHOOSE n \in Pool : node[n] = Free /\ \A m \in Pool : node[m] = Free => n <= m
             rec == [kind |-> req[q].kind, ino |-> ino, parent |-> p, gen |-> req[q].gen]
  <1>1. node' = [n \in Pool |-> IF n = new THEN rec
                                ELSE IF n \in Child(p, req[q].kind) THEN [node[n] EXCEPT !.parent = NoNode]
                                ELSE node[n]]
    BY DEF Attach
  <1>2. req[q].kind \in Kinds /\ p \in Int /\ req[q].gen \in Int
    BY DEF IInv, TypeOK, KindInv
  <1> HIDE DEF new
  <1>3. ASSUME NEW n \in Pool, n = new PROVE node'[n] = rec
    BY <1>1, <1>3
  <1>4. ASSUME NEW n \in Pool, n # new, node[n] # Free
        PROVE  node'[n].kind = node[n].kind /\ node'[n].ino = node[n].ino /\ node'[n].kind \in Kinds
    BY <1>1, <1>4 DEF IInv, TypeOK, KindInv
  <1>5. ASSUME NEW n \in Pool, n # new, node[n] = Free PROVE node'[n] = Free
    BY <1>1, <1>2, <1>5, SMTT(60) DEF Child, Free, Kinds
  <1>6. node' \in [Pool -> [kind : Kinds \cup {"none"}, ino : Nat, parent : Int, gen : Int]]
    BY <1>1, <1>2, SMTT(60) DEF IInv, TypeOK, NoNode
  <1>7. rec.kind = req[q].kind /\ rec.ino = ino
    OBVIOUS
  <1> HIDE DEF rec
  <1>8. \A n \in Pool : node'[n] = Free \/ node'[n].kind \in Kinds
    BY <1>2, <1>3, <1>4, <1>5, <1>7
  <1>9. \A n \in Pool : node'[n].kind = "diff" => node'[n].ino = ino \/ (node[n].kind = "diff" /\ node[n].ino = node'[n].ino)
    BY <1>3, <1>4, <1>5, <1>7 DEF Free
  <1>10. NodeIdsDistinct'
    BY <1>2, <1>3, <1>4, <1>5, <1>7, SMTT(60) DEF IInv, NodeIdsDistinct
  <1>. QED BY <1>6, <1>8, <1>9, <1>10

\* A step that makes, keeps or ends requests without an id, and leaves nodes and ids alone.
LEMMA RequestStep ==
    ASSUME IInv, NEW q \in Requests, UNCHANGED <<node, nodeMap, layerMap>>,
           NEW x \in [pc : {"idle", "info", "resolve", "make"}, at : Int, kind : Kinds \cup {"none"}, gen : Int, id : {0}],
           x.pc # "idle" => x.kind \in Kinds, req' = [req EXCEPT ![q] = x],
           gen' \in Int, open' \subseteq Int
    PROVE  IInv'
  <1>1. TypeOK'
    BY SMTT(60) DEF IInv, TypeOK
  <1>2. KindInv'
    BY DEF IInv, TypeOK, KindInv
  <1>3. HeldInv'
    BY DEF IInv, TypeOK, HeldInv
  <1>4. NodeIdsDistinct'
    BY SMTT(60) DEF IInv, NodeIdsDistinct
  <1>. QED BY <1>1, <1>2, <1>3, <1>4 DEF IInv

\* Each step keeps it.
LEMMA Step == ASSUME IInv, [Next]_vars PROVE IInv'
  <1>1. ASSUME NEW q \in Requests, NEW p \in Int, NEW kind \in Kinds, NEW pc \in {"info", "resolve", "make"},
               Begin(q, p, kind, pc)
        PROVE  IInv'
    <2> DEFINE x == [pc |-> pc, at |-> p, kind |-> kind, gen |-> 0, id |-> 0]
    <2>1. /\ x \in [pc : {"idle", "info", "resolve", "make"}, at : Int, kind : Kinds \cup {"none"}, gen : Int, id : {0}]
          /\ x.kind \in Kinds
      BY <1>1, SMTT(60)
    <2>2. req' = [req EXCEPT ![q] = x] /\ UNCHANGED <<node, nodeMap, layerMap, gen, open>>
      BY <1>1 DEF Begin
    <2> HIDE DEF x
    <2>3. gen' \in Int /\ open' \subseteq Int
      BY <2>2 DEF IInv, TypeOK
    <2>. QED BY <2>1, <2>2, <2>3, RequestStep
  <1>2. Idle \in [pc : {"idle", "info", "resolve", "make"}, at : Int, kind : Kinds \cup {"none"}, gen : Int, id : {0}]
        /\ Idle.pc = "idle"
    BY SMTT(60) DEF Idle, NoNode
  <1>3. ASSUME NEW q \in Requests, LookupInfo(q) PROVE IInv'
    <2>1. req[q].id = 0 /\ req[q].kind \in Kinds
      BY <1>3 DEF LookupInfo, IInv, HeldInv, KindInv, TypeOK
    <2>2. [req[q] EXCEPT !.pc = "make"] \in
             [pc : {"idle", "info", "resolve", "make"}, at : Int, kind : Kinds \cup {"none"}, gen : Int, id : {0}]
          /\ [req[q] EXCEPT !.pc = "make"].kind \in Kinds
      BY <2>1 DEF IInv, TypeOK
    <2>. QED BY <1>2, <1>3, <2>2, RequestStep DEF LookupInfo, IInv, TypeOK
  <1>4. ASSUME NEW q \in Requests, Resolve(q) PROVE IInv'
    <2>1. req[q].kind \in Kinds /\ req[q].at \in Int
      BY <1>4 DEF Resolve, IInv, KindInv, TypeOK
    <2>2. ASSUME NEW g \in Int, Resolved(q, g), gen' \in Int, open' \subseteq Int,
                 UNCHANGED <<node, nodeMap, layerMap>>
          PROVE  IInv'
      BY <2>1, <2>2, RequestStep DEF Resolved
    <2>3. UNCHANGED <<node, nodeMap, layerMap>> /\ gen \in Int /\ open \subseteq Int
      BY <1>4 DEF Resolve, IInv, TypeOK
    <2>4. CASE (\E g \in open : Resolved(q, g)) /\ UNCHANGED <<gen, open>>
      BY <2>2, <2>3, <2>4
    <2>5. CASE gen' = gen + 1 /\ open' = {gen + 1} /\ Resolved(q, gen + 1)
      <3>1. gen + 1 \in Int /\ gen' \in Int /\ open' \subseteq Int
        BY <2>3, <2>5, SMTT(60)
      <3>. QED BY <2>2, <2>3, <2>5, <3>1
    <2>6. CASE req' = [req EXCEPT ![q] = Idle] /\ UNCHANGED <<gen, open>>
      BY <1>2, <2>3, <2>6, RequestStep
    <2>. QED BY <1>4, <2>4, <2>5, <2>6 DEF Resolve
  <1>5. ASSUME NEW q \in Requests, LayerID(q) PROVE IInv'
    <2> DEFINE i == get(layerMap)
    <2>1. i \in Nat \ {0} /\ i \notin layerMap /\ IsFiniteSet(layerMap \cup {i})
      BY GetIsFresh, FS_AddElement DEF IInv, TypeOK
    <2>2. /\ req[q].pc = "make" /\ req[q].kind = "diff"
          /\ layerMap' = layerMap \cup {i} /\ req' = [req EXCEPT ![q] = [req[q] EXCEPT !.id = i]]
          /\ UNCHANGED <<node, nodeMap, gen, open>>
      BY <1>5 DEF LayerID
    <2> HIDE DEF i
    <2>3. TypeOK'
      BY <2>1, <2>2, SMTT(60) DEF IInv, TypeOK
    <2>4. KindInv'
      BY <2>2 DEF IInv, TypeOK, KindInv, Kinds
    <2>5. \A n \in Pool : node[n].kind = "diff" => node[n].ino \in layerMap
      BY SMTT(60) DEF IInv, NodeIdsDistinct, Free
    <2>6. HeldInv'
      BY <2>1, <2>2, <2>5, SMTT(60) DEF IInv, TypeOK, HeldInv
    <2>7. NodeIdsDistinct'
      BY <2>2, SMTT(60) DEF IInv, NodeIdsDistinct
    <2>. QED BY <2>3, <2>4, <2>6, <2>7 DEF IInv
  <1>6. ASSUME NEW q \in Requests, RootNodeFails(q) PROVE IInv'
    BY <1>2, <1>6, RequestStep DEF RootNodeFails, IInv, TypeOK
  <1>7. ASSUME NEW q \in Requests, NewInode(q) PROVE IInv'
    <2>1. req[q].pc = "make" /\ req' = [req EXCEPT ![q] = Idle] /\ UNCHANGED <<layerMap, gen, open>>
      BY <1>7 DEF NewInode
    <2>2. req[q].kind \in Kinds
      BY <2>1 DEF IInv, KindInv
    <2>3. \A r \in Requests : r # q => req'[r] = req[r]
      BY <2>1 DEF IInv, TypeOK
    <2>4. req'[q] = Idle /\ Idle.id = 0 /\ Idle.pc = "idle"
      BY <2>1 DEF IInv, TypeOK, Idle
    <2>5. ASSUME NEW ino \in Nat \ {0}, NEW M, Attach(q, ino), ino \in M, M \subseteq Nat \ {0}, IsFiniteSet(M),
                 (IF req[q].kind = "diff" THEN layerMap ELSE nodeMap) \subseteq M,
                 \A n \in Pool : node[n] # Free /\ (node[n].kind = "diff") = (req[q].kind = "diff") => node[n].ino # ino,
                 IF req[q].kind = "diff" THEN nodeMap' = nodeMap /\ layerMap' = M
                 ELSE nodeMap' = M /\ layerMap' = layerMap,
                 \A r \in Requests : r # q /\ req[r].id # 0 /\ req[q].kind = "diff" => req[r].id # ino,
                 \A n \in Pool : node'[n].kind = "diff" /\ req[q].kind # "diff" => node[n].kind = "diff" /\ node[n].ino = node'[n].ino
          PROVE  IInv'
      <3>1. /\ node' \in [Pool -> [kind : Kinds \cup {"none"}, ino : Nat, parent : Int, gen : Int]]
            /\ \A n \in Pool : node'[n] = Free \/ node'[n].kind \in Kinds
            /\ \A n \in Pool : node'[n].kind = "diff" => node'[n].ino = ino \/ (node[n].kind = "diff" /\ node[n].ino = node'[n].ino)
            /\ NodeIdsDistinct'
        BY <2>1, <2>5, AttachKeeps
      <3>2. TypeOK'
        <4>1. nodeMap' \subseteq Nat \ {0} /\ IsFiniteSet(nodeMap') /\ layerMap' \subseteq Nat \ {0} /\ IsFiniteSet(layerMap')
          BY <2>5 DEF IInv, TypeOK
        <4>2. req' \in [Requests -> [pc : {"idle", "info", "resolve", "make"}, at : Int, kind : Kinds \cup {"none"},
                                     gen : Int, id : Nat]]
          BY <1>2, <2>1, SMTT(60) DEF IInv, TypeOK
        <4>3. gen' \in Int /\ open' \subseteq Int
          BY <2>1 DEF IInv, TypeOK
        <4>. QED BY <3>1, <4>1, <4>2, <4>3 DEF TypeOK
      <3>3. KindInv'
        BY <2>3, <2>4, <3>1 DEF IInv, KindInv
      <3>4. HeldInv'
        BY <2>3, <2>4, <2>5, <3>1, SMTT(60) DEF IInv, HeldInv
      <3>. QED BY <3>1, <3>2, <3>3, <3>4 DEF IInv
    <2>6. CASE req[q].kind = "diff"
      <3>1. req[q].id # 0 /\ Attach(q, req[q].id) /\ UNCHANGED nodeMap
        BY <1>7, <2>6 DEF NewInode
      <3>2. /\ req[q].id \in Nat \ {0} /\ req[q].id \in layerMap
            /\ \A n \in Pool : node[n].kind = "diff" => node[n].ino # req[q].id
            /\ \A r \in Requests : r # q => req[r].id # req[q].id
        BY <3>1 DEF IInv, TypeOK, HeldInv
      <3>3. layerMap \subseteq Nat \ {0} /\ IsFiniteSet(layerMap)
        BY DEF IInv, TypeOK
      <3>. QED BY <2>1, <2>5, <2>6, <3>1, <3>2, <3>3
    <2>7. CASE req[q].kind # "diff"
      <3> DEFINE i == get(nodeMap)
      <3>1. Attach(q, i) /\ nodeMap' = nodeMap \cup {i}
        BY <1>7, <2>7 DEF NewInode
      <3>2. i \in Nat \ {0} /\ i \notin nodeMap /\ IsFiniteSet(nodeMap \cup {i}) /\ nodeMap \cup {i} \subseteq Nat \ {0}
        BY GetIsFresh, FS_AddElement DEF IInv, TypeOK
      <3> HIDE DEF i
      <3>3. \A n \in Pool : node[n] # Free /\ node[n].kind # "diff" => node[n].ino # i
        BY <3>2 DEF IInv, NodeIdsDistinct
      <3>4. \A n \in Pool : node'[n].kind = "diff" => node[n].kind = "diff" /\ node[n].ino = node'[n].ino
        BY <2>7, <3>1, SMTT(60) DEF Attach, IInv, TypeOK
      <3>. QED BY <2>1, <2>5, <2>7, <3>1, <3>2, <3>3, <3>4
    <2>. QED BY <2>6, <2>7
  <1>8. ASSUME NEW p \in Pool, Rmdir(p) PROVE IInv'
    <2>1. UNCHANGED <<node, nodeMap, layerMap, gen, req>> /\ (open' = {} \/ open' = open)
      BY <1>8 DEF Rmdir
    <2>2. TypeOK'
      BY <2>1 DEF IInv, TypeOK
    <2>3. KindInv' /\ HeldInv' /\ NodeIdsDistinct'
      BY <2>1, SMTT(60) DEF IInv, KindInv, HeldInv, NodeIdsDistinct
    <2>. QED BY <2>2, <2>3 DEF IInv
  <1>9. CASE Remove
    <2> DEFINE l == Child(rm.at, "layer")
    <2>1. /\ node' = [n \in Pool |-> IF n \in l \/ node[n].parent \in l THEN [node[n] EXCEPT !.parent = NoNode] ELSE node[n]]
          /\ UNCHANGED <<nodeMap, layerMap, gen, open, req>>
      BY <1>9 DEF Remove
    <2>2. l \subseteq Pool /\ \A n \in l : node[n] # Free
      BY SMTT(60) DEF Child, Free
    <2> HIDE DEF l
    <2>3. ASSUME NEW n \in Pool, node[n] = Free PROVE node'[n] = Free
      BY <2>1, <2>2, <2>3, SMTT(60) DEF Free, NoNode, Pool
    <2>4. ASSUME NEW n \in Pool PROVE node'[n].kind = node[n].kind /\ node'[n].ino = node[n].ino
      BY <2>1, SMTT(60) DEF IInv, TypeOK
    <2>5. node' \in [Pool -> [kind : Kinds \cup {"none"}, ino : Nat, parent : Int, gen : Int]]
      BY <2>1, SMTT(60) DEF IInv, TypeOK, NoNode
    <2>6. TypeOK' /\ KindInv'
      BY <2>1, <2>3, <2>4, <2>5 DEF IInv, TypeOK, KindInv
    <2>7. HeldInv'
      BY <2>1, <2>4, SMTT(60) DEF IInv, HeldInv
    <2>8. NodeIdsDistinct'
      BY <2>1, <2>3, <2>4, SMTT(60) DEF IInv, NodeIdsDistinct
    <2>. QED BY <2>6, <2>7, <2>8 DEF IInv
  <1>10. ASSUME NEW n \in Pool, OnForget(n) PROVE IInv'
    <2>1. /\ node[n] # Free /\ node' = [node EXCEPT ![n] = Free]
          /\ nodeMap' = IF node[n].kind = "diff" THEN nodeMap ELSE nodeMap \ {node[n].ino}
          /\ UNCHANGED <<layerMap, gen, open, req>>
      BY <1>10 DEF OnForget
    <2>2. IsFiniteSet(nodeMap')
      BY <2>1, FS_RemoveElement DEF IInv, TypeOK
    <2>3. node' \in [Pool -> [kind : Kinds \cup {"none"}, ino : Nat, parent : Int, gen : Int]]
      BY <2>1, SMTT(60) DEF IInv, TypeOK, Free, NoNode
    <2>4. node'[n] = Free /\ \A m \in Pool : m # n => node'[m] = node[m]
      BY <2>1 DEF IInv, TypeOK
    <2>5. TypeOK' /\ KindInv'
      BY <2>1, <2>2, <2>3, <2>4 DEF IInv, TypeOK, KindInv
    <2>6. HeldInv'
      BY <2>1, <2>4, SMTT(60) DEF IInv, HeldInv, Free
    <2>7. NodeIdsDistinct'
      BY <2>1, <2>4, SMTT(60) DEF IInv, NodeIdsDistinct
    <2>. QED BY <2>5, <2>6, <2>7 DEF IInv
  <1>11. CASE UNCHANGED vars
    BY <1>11, SMTT(60) DEF vars, IInv, TypeOK, KindInv, HeldInv, NodeIdsDistinct
  <1>. QED
    <2>1. ASSUME NEW q \in Requests, LookupRef(q) PROVE IInv'
      BY <1>1, <2>1, SMTT(60) DEF LookupRef, Kinds
    <2>2. ASSUME NEW q \in Requests, NEW p \in Pool, LookupLayer(q, p) PROVE IInv'
      BY <1>1, <2>2, SMTT(60) DEF LookupLayer, Kinds, Pool
    <2>3. ASSUME NEW q \in Requests, NEW p \in Pool, NEW kind \in {"info", "blob", "diff"}, LookupFile(q, p, kind)
          PROVE  IInv'
      BY <1>1, <2>3, SMTT(60) DEF LookupFile, Kinds, Pool
    <2>. QED BY <1>3, <1>4, <1>5, <1>6, <1>7, <1>8, <1>9, <1>10, <1>11, <2>1, <2>2, <2>3 DEF Next

\* No two nodes of one id map share an inode number, for any numbers of requests, nodes and layers.
THEOREM IdsDistinct == Spec => []NodeIdsDistinct
  <1>1. IInv => NodeIdsDistinct
    BY DEF IInv
  <1>. QED BY <1>1, Start, Step, PTL DEF Spec

-----------------------------------------------------------------------------
(* What a path leads to. *)

\* The directory of a layer that a path leads to.
Reach(l) == l \in Pool /\ node[l].parent \in Pool /\ node[node[l].parent].parent = 0

\* A node is under one of the kind that its own kind asks for, until it leaves the tree;
\* so is the node of a request, and a Rmdir works on the directory of an image.
ShapeInv ==
    /\ \A n \in Pool : \/ node[n].parent = NoNode
                       \/ /\ node[n].kind \in Kinds /\ node[n].parent \in Pool \cup {0}
                          /\ KindOf(node[n].parent) = Parent[node[n].kind]
    /\ \A q \in Requests : req[q].pc # "idle" => /\ req[q].at \in Pool \cup {0}
                                                 /\ KindOf(req[q].at) = Parent[req[q].kind]
    /\ rm.pc = "remove" => rm.at \in Pool /\ node[rm.at].kind = "ref"

\* The image has one directory, which stays, and one request at most makes it.
RefInv ==
    /\ \A n \in Pool : node[n].kind = "ref" => node[n].parent = 0
    /\ \A m, n \in Pool : node[m].kind = "ref" /\ node[n].kind = "ref" => m = n
    /\ \A n \in Pool, q \in Requests : ~(node[n].kind = "ref" /\ req[q].kind = "ref")
    /\ \A q, r \in Requests : req[q].kind = "ref" /\ req[r].kind = "ref" => q = r

\* Blobs and diff directories have a layer, which is open as long as a path leads to them;
\* so has a lookup that is about to make one.
GenInv ==
    /\ \A n \in Pool : node[n].gen # 0 => node[n].kind \in {"blob", "diff"}
    /\ \A q \in Requests : /\ req[q].gen # 0 => req[q].kind \in {"blob", "diff"} /\ req[q].pc = "make"
                           /\ req[q].pc = "resolve" => req[q].kind \in {"blob", "diff"}
    /\ \A q \in Requests : req[q].gen # 0 /\ Reach(req[q].at) => req[q].gen \in open \/ rm.pc = "remove"
    /\ \A n \in Pool : node[n].gen # 0 /\ Reach(node[n].parent) => node[n].gen \in open \/ rm.pc = "remove"

TreeInv == ShapeInv /\ RefInv /\ GenInv

\* The parents of the kinds.
LEMMA Parents ==
    /\ Parent["ref"] = "root" /\ Parent["layer"] = "ref"
    /\ Parent["info"] = "layer" /\ Parent["blob"] = "layer" /\ Parent["diff"] = "layer"
  BY DEF Parent

\* Only the mountpoint has the kind "root", and it is no node of the pool.
LEMMA Kind ==
    ASSUME IInv
    PROVE  /\ 0 \notin Pool /\ NoNode \notin Pool /\ NoNode # 0 /\ KindOf(0) = "root"
           /\ \A n \in Pool : KindOf(n) = node[n].kind /\ KindOf(n) # "root"
           /\ \A n \in Pool : node[n] = Free => node[n].kind = "none" /\ node[n].gen = 0 /\ node[n].parent = NoNode
  BY SMTT(60) DEF IInv, TypeOK, Pool, NoNode, KindOf, Kinds, Free

\* Where a path to a layer goes: the layer's directory, then the image's.
LEMMA Path ==
    ASSUME IInv, TreeInv, NEW l, Reach(l)
    PROVE  l \in Pool /\ node[l].kind = "layer" /\ node[l].parent \in Pool /\ node[node[l].parent].kind = "ref"
  <1> DEFINE r == node[l].parent
  <1>1. l \in Pool /\ r \in Pool /\ node[r].parent = 0
    BY DEF Reach
  <1>2. node[r].kind \in Kinds /\ KindOf(0) = Parent[node[r].kind]
    BY <1>1, Kind DEF TreeInv, ShapeInv
  <1>3. node[r].kind = "ref"
    BY <1>2, Kind, Parents DEF Kinds
  <1>4. node[l].kind \in Kinds /\ KindOf(r) = Parent[node[l].kind]
    BY <1>1, Kind DEF TreeInv, ShapeInv
  <1>. QED BY <1>1, <1>3, <1>4, Kind, Parents DEF Kinds

\* The invariant of the tree holds of the empty tree.
LEMMA TreeStart == Init => TreeInv
  BY SMTT(60) DEF Init, TreeInv, ShapeInv, RefInv, GenInv, Free, Idle, NoNode, Pool, Reach

\* A step of one request that leaves the nodes alone.
LEMMA TreeRequestStep ==
    ASSUME IInv, TreeInv, NEW q \in Requests, UNCHANGED <<node, rm>>, NEW x, req' = [req EXCEPT ![q] = x],
           x.pc # "idle" => x.at \in Pool \cup {0} /\ KindOf(x.at) = Parent[x.kind],
           x.kind = "ref" => /\ \A n \in Pool : node[n].kind # "ref"
                             /\ \A r \in Requests : r # q => req[r].kind # "ref",
           x.gen # 0 => x.kind \in {"blob", "diff"} /\ x.pc = "make",
           x.pc = "resolve" => x.kind \in {"blob", "diff"},
           x.gen # 0 /\ Reach(x.at) => x.gen \in open' \/ rm.pc = "remove",
           open \subseteq open'
    PROVE  TreeInv'
  <1>1. req'[q] = x /\ \A r \in Requests : r # q => req'[r] = req[r]
    BY DEF IInv, TypeOK
  <1>2. (\A l : Reach(l)' = Reach(l)) /\ \A n : KindOf(n)' = KindOf(n)
    BY DEF Reach, KindOf
  <1>3. ShapeInv'
    <2>1. \A r \in Requests : req'[r].pc # "idle" => /\ req'[r].at \in Pool \cup {0}
                                                     /\ KindOf(req'[r].at) = Parent[req'[r].kind]
      BY <1>1 DEF TreeInv, ShapeInv
    <2>. QED BY <2>1 DEF TreeInv, ShapeInv, KindOf
  <1>4. RefInv'
    BY <1>1 DEF TreeInv, RefInv
  <1>5. GenInv'
    <2>1. \A r \in Requests : req'[r].gen # 0 /\ Reach(req'[r].at) => req'[r].gen \in open' \/ rm.pc = "remove"
      BY <1>1 DEF TreeInv, GenInv
    <2>2. \A r \in Requests : /\ req'[r].gen # 0 => req'[r].kind \in {"blob", "diff"} /\ req'[r].pc = "make"
                              /\ req'[r].pc = "resolve" => req'[r].kind \in {"blob", "diff"}
      BY <1>1 DEF TreeInv, GenInv
    <2>3. \A n \in Pool : node[n].gen # 0 /\ Reach(node[n].parent) => node[n].gen \in open' \/ rm.pc = "remove"
      BY DEF TreeInv, GenInv
    <2>. QED BY <2>1, <2>2, <2>3 DEF TreeInv, GenInv, Reach
  <1>. QED BY <1>3, <1>4, <1>5 DEF TreeInv

\* A request that ends.
LEMMA TreeIdleStep ==
    ASSUME IInv, TreeInv, NEW q \in Requests, UNCHANGED <<node, rm, open>>, req' = [req EXCEPT ![q] = Idle]
    PROVE  TreeInv'
  <1>1. Idle.pc = "idle" /\ Idle.kind = "none" /\ Idle.gen = 0
    BY DEF Idle
  <1>. QED BY <1>1, TreeRequestStep

\* A lookup begins.
LEMMA TreeBeginStep ==
    ASSUME IInv, TreeInv, NEW q \in Requests, NEW p \in Pool \cup {0}, NEW kind \in Kinds,
           NEW pc \in {"info", "resolve", "make"}, Begin(q, p, kind, pc),
           pc = "resolve" => kind \in {"blob", "diff"},
           kind = "ref" => p = 0 /\ \A r \in Requests : req[r].kind # "ref"
    PROVE  TreeInv'
  <1> DEFINE x == [pc |-> pc, at |-> p, kind |-> kind, gen |-> 0, id |-> 0]
  <1>1. x.pc = pc /\ x.at = p /\ x.kind = kind /\ x.gen = 0
    OBVIOUS
  <1>2. req' = [req EXCEPT ![q] = x] /\ UNCHANGED <<node, rm, open>> /\ KindOf(p) = Parent[kind] /\ Child(p, kind) = {}
    BY DEF Begin
  <1> HIDE DEF x
  <1>3. kind = "ref" => \A n \in Pool : node[n].kind # "ref"
    BY <1>2 DEF Child, TreeInv, RefInv
  <1>. QED BY <1>1, <1>2, <1>3, TreeRequestStep

\* The new node is one that was free, and of the others only a replaced one moves: out of
\* the tree.
LEMMA AttachMoves ==
    ASSUME IInv, TreeInv, NEW q \in Requests, req[q].pc = "make", NEW ino, Attach(q, ino),
           \E n \in Pool : node[n] = Free
    PROVE  \E new \in Pool :
             /\ node[new] = Free
             /\ node'[new].kind = req[q].kind /\ node'[new].parent = req[q].at /\ node'[new].gen = req[q].gen
             /\ \A n \in Pool : n # new => /\ node'[n].kind = node[n].kind /\ node'[n].gen = node[n].gen
                                           /\ node'[n].parent = NoNode \/ node'[n].parent = node[n].parent
                                           /\ node[n].kind = "ref" => node'[n].parent = node[n].parent
  <1> DEFINE p == req[q].at
             new == CHOOSE n \in Pool : node[n] = Free /\ \A m \in Pool : node[m] = Free => n <= m
             rec == [kind |-> req[q].kind, ino |-> ino, parent |-> p, gen |-> req[q].gen]
  <1>1. node' = [n \in Pool |-> IF n = new THEN rec
                                ELSE IF n \in Child(p, req[q].kind) THEN [node[n] EXCEPT !.parent = NoNode]
                                ELSE node[n]]
    BY DEF Attach
  <1>2. new \in Pool /\ node[new] = Free
    <2> DEFINE S == {n \in Pool : node[n] = Free}
    <2>1. S \subseteq Nat \ {0} /\ S # {}
      BY SMTT(60) DEF Pool
    <2>2. \E n \in S : \A m \in S : n <= m
      BY <2>1, Least
    <2>3. \E n \in Pool : node[n] = Free /\ \A m \in Pool : node[m] = Free => n <= m
      BY <2>2
    <2>. QED BY <2>3, ZenonT(60)
  <1> HIDE DEF new
  <1>3. node'[new].kind = req[q].kind /\ node'[new].parent = req[q].at /\ node'[new].gen = req[q].gen
    BY <1>1, <1>2
  <1>4. ASSUME NEW n \in Pool, n # new
        PROVE  /\ node'[n].kind = node[n].kind /\ node'[n].gen = node[n].gen
               /\ node'[n].parent = NoNode \/ node'[n].parent = node[n].parent
    BY <1>1, <1>4, SMTT(60) DEF IInv, TypeOK
  <1>5. ASSUME NEW n \in Pool, n # new, node[n].kind = "ref"
        PROVE  node'[n].parent = node[n].parent
    <2>1. n \notin Child(p, req[q].kind)
      BY <1>5 DEF Child, TreeInv, RefInv
    <2>. QED BY <1>1, <1>5, <2>1
  <1>. QED BY <1>2, <1>3, <1>4, <1>5

\* A lookup ends with its node.
LEMMA TreeNewInodeStep == ASSUME IInv, TreeInv, NEW q \in Requests, NewInode(q) PROVE TreeInv'
  <1> DEFINE k == req[q].kind
             p == req[q].at
  <1>1. req[q].pc = "make" /\ req' = [req EXCEPT ![q] = Idle] /\ UNCHANGED <<open, rm>>
    BY DEF NewInode
  <1>2. (\E n \in Pool : node[n] = Free) /\ \E ino : Attach(q, ino)
    BY DEF NewInode
  <1>3. PICK new \in Pool :
             /\ node[new] = Free
             /\ node'[new].kind = k /\ node'[new].parent = p /\ node'[new].gen = req[q].gen
             /\ \A n \in Pool : n # new => /\ node'[n].kind = node[n].kind /\ node'[n].gen = node[n].gen
                                           /\ node'[n].parent = NoNode \/ node'[n].parent = node[n].parent
                                           /\ node[n].kind = "ref" => node'[n].parent = node[n].parent
    BY <1>1, <1>2, AttachMoves
  <1>4. req'[q].pc = "idle" /\ req'[q].kind = "none" /\ req'[q].gen = 0 /\ \A r \in Requests : r # q => req'[r] = req[r]
    BY <1>1 DEF IInv, TypeOK, Idle
  <1>5. p \in Pool \cup {0} /\ KindOf(p) = Parent[k] /\ k \in Kinds
    BY <1>1 DEF TreeInv, ShapeInv, IInv, KindInv
  <1>6. node[new].kind = "none"
    BY <1>3, Kind
  <1>7. \A kind \in Kinds : Parent[kind] # "none"
    BY Parents DEF Kinds
  <1>8. /\ p # new
        /\ \A n \in Pool : node[n].parent # new
        /\ \A r \in Requests : req[r].pc # "idle" => req[r].at # new
        /\ rm.pc = "remove" => rm.at # new
    BY <1>3, <1>5, <1>6, <1>7, Kind, SMTT(60) DEF TreeInv, ShapeInv, IInv, KindInv
  <1>9. \A n \in Pool \cup {0} : n # new => KindOf(n)' = KindOf(n)
    BY <1>3 DEF KindOf
  <1>10. \A l : l # new /\ Reach(l)' => Reach(l)
    <2> SUFFICES ASSUME NEW l, l # new, Reach(l)' PROVE Reach(l)
      OBVIOUS
    <2>1. l \in Pool /\ node'[l].parent \in Pool /\ node'[node'[l].parent].parent = 0
      BY DEF Reach
    <2>2. node'[l].parent = node[l].parent
      BY <1>3, <2>1, Kind
    <2>3. node[l].parent # new
      BY <1>8, <2>1
    <2>4. node'[node[l].parent].parent = node[node[l].parent].parent
      BY <1>3, <2>1, <2>2, <2>3, Kind
    <2>. QED BY <2>1, <2>2, <2>4 DEF Reach
  <1>11. ShapeInv'
    <2>1. ASSUME NEW n \in Pool, n # new, node'[n].parent # NoNode
          PROVE  /\ node'[n].kind \in Kinds /\ node'[n].parent \in Pool \cup {0}
                 /\ KindOf(node[n].parent)' = Parent[node'[n].kind]
      <3>1. node'[n].parent = node[n].parent /\ node'[n].kind = node[n].kind
        BY <1>3, <2>1
      <3>2. /\ node[n].kind \in Kinds /\ node[n].parent \in Pool \cup {0} /\ node[n].parent # new
            /\ KindOf(node[n].parent) = Parent[node[n].kind]
        BY <1>8, <2>1, <3>1 DEF TreeInv, ShapeInv
      <3>3. PICK m \in Pool \cup {0} : m = node[n].parent
        BY <3>2
      <3>4. KindOf(m)' = KindOf(m)
        BY <1>9, <3>2, <3>3
      <3>. QED BY <3>1, <3>2, <3>3, <3>4 DEF KindOf
    <2>2. /\ node'[new].kind \in Kinds /\ node'[new].parent \in Pool \cup {0}
          /\ KindOf(node[new].parent)' = Parent[node'[new].kind]
      <3>1. PICK m \in Pool \cup {0} : m = p
        BY <1>5
      <3>2. KindOf(m)' = KindOf(m)
        BY <1>8, <1>9, <3>1
      <3>. QED BY <1>3, <1>5, <3>1, <3>2 DEF KindOf
    <2>3. ASSUME NEW r \in Requests, req'[r].pc # "idle"
          PROVE  req'[r].at \in Pool \cup {0} /\ KindOf(req[r].at)' = Parent[req'[r].kind]
      <3>1. r # q /\ req'[r] = req[r] /\ req[r].at \in Pool \cup {0} /\ KindOf(req[r].at) = Parent[req[r].kind] /\ req[r].at # new
        BY <1>4, <1>8, <2>3 DEF TreeInv, ShapeInv
      <3>2. PICK m \in Pool \cup {0} : m = req[r].at
        BY <3>1
      <3>3. KindOf(m)' = KindOf(m)
        BY <1>9, <3>1, <3>2
      <3>. QED BY <3>1, <3>2, <3>3 DEF KindOf
    <2>4. rm'.pc = "remove" => rm'.at \in Pool /\ node'[rm'.at].kind = "ref"
      BY <1>1, <1>3, <1>8 DEF TreeInv, ShapeInv
    <2>. QED BY <2>1, <2>2, <2>3, <2>4 DEF ShapeInv
  <1>12. RefInv'
    <2>1. k = "ref" => p = 0
      BY <1>5, Kind, Parents
    <2>2. k = "ref" => /\ \A n \in Pool : node[n].kind # "ref"
                       /\ \A r \in Requests : r # q => req[r].kind # "ref"
      BY DEF TreeInv, RefInv
    <2>3. \A n \in Pool : node'[n].kind = "ref" => node'[n].parent = 0
      BY <1>3, <2>1 DEF TreeInv, RefInv
    <2>4. \A m, n \in Pool : node'[m].kind = "ref" /\ node'[n].kind = "ref" => m = n
      BY <1>3, <2>2 DEF TreeInv, RefInv
    <2>5. \A n \in Pool, r \in Requests : ~(node'[n].kind = "ref" /\ req'[r].kind = "ref")
      BY <1>3, <1>4, <2>2, SMTT(60) DEF TreeInv, RefInv
    <2>6. \A r, t \in Requests : req'[r].kind = "ref" /\ req'[t].kind = "ref" => r = t
      BY <1>4 DEF TreeInv, RefInv
    <2>. QED BY <2>3, <2>4, <2>5, <2>6 DEF RefInv
  <1>13. GenInv'
    <2>1. \A n \in Pool : node'[n].gen # 0 => node'[n].kind \in {"blob", "diff"}
      BY <1>3 DEF TreeInv, GenInv
    <2>2. \A r \in Requests : /\ req'[r].gen # 0 => req'[r].kind \in {"blob", "diff"} /\ req'[r].pc = "make"
                              /\ req'[r].pc = "resolve" => req'[r].kind \in {"blob", "diff"}
      BY <1>4 DEF TreeInv, GenInv
    <2>3. ASSUME NEW r \in Requests, req'[r].gen # 0, NEW l \in Pool, l = req'[r].at, Reach(l)'
          PROVE  req'[r].gen \in open \/ rm.pc = "remove"
      <3>1. r # q /\ req'[r] = req[r] /\ req[r].pc = "make"
        BY <1>4, <2>3 DEF TreeInv, GenInv
      <3>2. Reach(l)
        BY <1>8, <1>10, <2>3, <3>1
      <3>. QED BY <2>3, <3>1, <3>2 DEF TreeInv, GenInv
    <2>4. ASSUME NEW n \in Pool, node'[n].gen # 0, NEW l \in Pool, l = node'[n].parent, Reach(l)'
          PROVE  node'[n].gen \in open \/ rm.pc = "remove"
      <3>1. CASE n = new
        <4>1. l = p /\ node'[n].gen = req[q].gen
          BY <1>3, <2>4, <3>1
        <4>2. Reach(l)
          BY <1>8, <1>10, <2>4, <4>1
        <4>. QED BY <2>4, <4>1, <4>2 DEF TreeInv, GenInv
      <3>2. CASE n # new
        <4>1. l = node[n].parent /\ node'[n].gen = node[n].gen
          BY <1>3, <2>4, <3>2, Kind
        <4>2. Reach(l)
          BY <1>8, <1>10, <2>4, <4>1
        <4>. QED BY <2>4, <4>1, <4>2 DEF TreeInv, GenInv
      <3>. QED BY <3>1, <3>2
    <2>. QED BY <1>1, <2>1, <2>2, <2>3, <2>4 DEF GenInv, Reach
  <1>. QED BY <1>11, <1>12, <1>13 DEF TreeInv

\* A release that was not the last changes nothing; the last one leaves the nodes to Remove.
LEMMA TreeRmdirStep == ASSUME IInv, TreeInv, NEW p \in Pool, Rmdir(p) PROVE TreeInv'
  <1>1. CASE UNCHANGED <<rm, open>>
    BY <1>1 DEF Rmdir, TreeInv, ShapeInv, RefInv, GenInv, KindOf, Reach
  <1>2. CASE rm' = [pc |-> "remove", at |-> p] /\ open' = {}
    <2>1. rm'.pc = "remove" /\ rm'.at = p
      BY <1>2
    <2>2. UNCHANGED <<node, req>> /\ node[p].kind = "ref"
      BY Kind DEF Rmdir
    <2>3. ShapeInv'
      BY <2>1, <2>2 DEF TreeInv, ShapeInv, KindOf
    <2>4. RefInv'
      BY <2>2 DEF TreeInv, RefInv
    <2>5. GenInv'
      BY <2>1, <2>2 DEF TreeInv, GenInv
    <2>. QED BY <2>3, <2>4, <2>5 DEF TreeInv
  <1>. QED BY <1>1, <1>2 DEF Rmdir

\* No path leads to a layer once its directory has been removed.
LEMMA TreeRemoveStep == ASSUME IInv, TreeInv, Remove PROVE TreeInv'
  <1> DEFINE l == Child(rm.at, "layer")
  <1>1. /\ node' = [n \in Pool |-> IF n \in l \/ node[n].parent \in l THEN [node[n] EXCEPT !.parent = NoNode] ELSE node[n]]
        /\ UNCHANGED <<open, req>> /\ rm.pc = "remove" /\ rm'.pc = "idle"
    BY DEF Remove
  <1>2. l \subseteq Pool /\ \A n \in l : node[n].kind = "layer"
    BY DEF Child
  <1>3. \A n \in Pool : node'[n].kind = node[n].kind /\ node'[n].gen = node[n].gen
    BY <1>1 DEF IInv, TypeOK
  <1>4. \A n \in Pool : node'[n].parent = NoNode \/ (node'[n].parent = node[n].parent /\ n \notin l)
    BY <1>1 DEF IInv, TypeOK
  <1>5. \A n \in Pool : node[n].kind = "ref" => node'[n].parent = node[n].parent
    BY <1>1, <1>2, Kind DEF TreeInv, RefInv
  <1>6. \A n \in Pool \cup {0} : KindOf(n)' = KindOf(n)
    BY <1>3 DEF KindOf
  <1>7. ASSUME NEW x \in Pool, Reach(x)' PROVE FALSE
    <2>1. node'[x].parent \in Pool /\ node'[node'[x].parent].parent = 0
      BY <1>7 DEF Reach
    <2>2. node'[x].parent = node[x].parent /\ x \notin l
      BY <1>4, <2>1, Kind
    <2>3. node[node[x].parent].parent = 0
      BY <1>4, <2>1, <2>2, Kind
    <2>4. Reach(x)
      BY <2>1, <2>2, <2>3 DEF Reach
    <2>5. node[x].kind = "layer" /\ node[x].parent \in Pool /\ node[node[x].parent].kind = "ref"
      BY <2>4, Path
    <2>6. rm.at \in Pool /\ node[rm.at].kind = "ref"
      BY <1>1 DEF TreeInv, ShapeInv
    <2>7. node[x].parent = rm.at
      BY <2>5, <2>6 DEF TreeInv, RefInv
    <2>. QED BY <2>2, <2>5, <2>7 DEF Child
  <1> HIDE DEF l
  <1>8. ShapeInv'
    <2>1. ASSUME NEW n \in Pool, node'[n].parent # NoNode
          PROVE  /\ node'[n].kind \in Kinds /\ node'[n].parent \in Pool \cup {0}
                 /\ KindOf(node[n].parent)' = Parent[node'[n].kind]
      <3>1. node'[n].parent = node[n].parent /\ node'[n].kind = node[n].kind
        BY <1>3, <1>4, <2>1
      <3>2. PICK m \in Pool \cup {0} : m = node[n].parent /\ KindOf(m) = Parent[node[n].kind] /\ node[n].kind \in Kinds
        BY <2>1, <3>1 DEF TreeInv, ShapeInv
      <3>3. KindOf(m)' = KindOf(m)
        BY <1>6
      <3>. QED BY <3>1, <3>2, <3>3 DEF KindOf
    <2>2. ASSUME NEW r \in Requests, req'[r].pc # "idle"
          PROVE  req'[r].at \in Pool \cup {0} /\ KindOf(req[r].at)' = Parent[req'[r].kind]
      <3>1. PICK m \in Pool \cup {0} : m = req[r].at /\ KindOf(m) = Parent[req[r].kind]
        BY <1>1, <2>2 DEF TreeInv, ShapeInv
      <3>2. KindOf(m)' = KindOf(m)
        BY <1>6
      <3>. QED BY <1>1, <3>1, <3>2 DEF KindOf
    <2>. QED BY <1>1, <2>1, <2>2 DEF ShapeInv
  <1>9. RefInv'
    BY <1>1, <1>3, <1>5, SMTT(60) DEF TreeInv, RefInv
  <1>10. GenInv'
    <2>1. \A x : ~Reach(x)'
      BY <1>7 DEF Reach
    <2>2. (\A q \in Requests : ~Reach(req[q].at)') /\ \A n \in Pool : ~Reach(node[n].parent)'
      BY <2>1 DEF Reach
    <2>. QED BY <1>1, <1>3, <2>2 DEF TreeInv, GenInv
  <1>. QED BY <1>8, <1>9, <1>10 DEF TreeInv

\* A forgotten node had neither children nor lookups.
LEMMA TreeForgetStep == ASSUME IInv, TreeInv, NEW n \in Pool, OnForget(n) PROVE TreeInv'
  <1>1. /\ node' = [node EXCEPT ![n] = Free] /\ UNCHANGED <<open, req, rm>>
        /\ \A m \in Pool : node[m].parent # n
        /\ \A q \in Requests : req[q].at # n
        /\ rm.at # n
    BY DEF OnForget
  <1>2. node'[n].kind = "none" /\ node'[n].gen = 0 /\ node'[n].parent = NoNode /\ \A m \in Pool : m # n => node'[m] = node[m]
    BY <1>1 DEF IInv, TypeOK, Free
  <1>3. \A m \in Pool \cup {0} : m # n => KindOf(m)' = KindOf(m)
    BY <1>2 DEF KindOf
  <1>4. ASSUME NEW x \in Pool, Reach(x)' PROVE Reach(x)
    <2>1. node'[x].parent \in Pool /\ node'[node'[x].parent].parent = 0
      BY <1>4 DEF Reach
    <2>2. x # n /\ node'[x] = node[x] /\ node[x].parent # n
      BY <1>1, <1>2, <2>1, Kind
    <2>. QED BY <1>2, <2>1, <2>2 DEF Reach
  <1>5. ShapeInv'
    <2>1. ASSUME NEW m \in Pool, node'[m].parent # NoNode
          PROVE  /\ node'[m].kind \in Kinds /\ node'[m].parent \in Pool \cup {0}
                 /\ KindOf(node[m].parent)' = Parent[node'[m].kind]
      <3>1. m # n /\ node'[m] = node[m]
        BY <1>2, <2>1
      <3>2. PICK k \in Pool \cup {0} : k = node[m].parent /\ KindOf(k) = Parent[node[m].kind] /\ node[m].kind \in Kinds
        BY <2>1, <3>1 DEF TreeInv, ShapeInv
      <3>3. KindOf(k)' = KindOf(k)
        BY <1>1, <1>3, <3>2
      <3>. QED BY <3>1, <3>2, <3>3 DEF KindOf
    <2>2. ASSUME NEW r \in Requests, req'[r].pc # "idle"
          PROVE  req'[r].at \in Pool \cup {0} /\ KindOf(req[r].at)' = Parent[req'[r].kind]
      <3>1. PICK k \in Pool \cup {0} : k = req[r].at /\ KindOf(k) = Parent[req[r].kind]
        BY <1>1, <2>2 DEF TreeInv, ShapeInv
      <3>2. KindOf(k)' = KindOf(k)
        BY <1>1, <1>3, <3>1
      <3>. QED BY <1>1, <3>1, <3>2 DEF KindOf
    <2>3. rm'.pc = "remove" => rm'.at \in Pool /\ node'[rm'.at].kind = "ref"
      BY <1>1, <1>2 DEF TreeInv, ShapeInv
    <2>. QED BY <2>1, <2>2, <2>3 DEF ShapeInv
  <1>6. RefInv'
    BY <1>1, <1>2, SMTT(60) DEF TreeInv, RefInv
  <1>7. GenInv'
    <2>1. ASSUME NEW r \in Requests, req'[r].gen # 0, NEW l \in Pool, l = req'[r].at, Reach(l)'
          PROVE  req'[r].gen \in open \/ rm.pc = "remove"
      BY <1>1, <1>4, <2>1 DEF TreeInv, GenInv
    <2>2. ASSUME NEW m \in Pool, node'[m].gen # 0, NEW l \in Pool, l = node'[m].parent, Reach(l)'
          PROVE  node'[m].gen \in open \/ rm.pc = "remove"
      BY <1>2, <1>4, <2>2 DEF TreeInv, GenInv
    <2>3. \A m \in Pool : node'[m].gen # 0 => node'[m].kind \in {"blob", "diff"}
      BY <1>2 DEF TreeInv, GenInv
    <2>4. \A r \in Requests : /\ req'[r].gen # 0 => req'[r].kind \in {"blob", "diff"} /\ req'[r].pc = "make"
                              /\ req'[r].pc = "resolve" => req'[r].kind \in {"blob", "diff"}
      BY <1>1 DEF TreeInv, GenInv
    <2>. QED BY <1>1, <2>1, <2>2, <2>3, <2>4 DEF GenInv, Reach
  <1>. QED BY <1>5, <1>6, <1>7 DEF TreeInv

\* Each step keeps it.
LEMMA TreeStep == ASSUME IInv, TreeInv, [Next]_vars PROVE TreeInv'
  <1>1. ASSUME NEW q \in Requests, LookupRef(q) PROVE TreeInv'
    BY <1>1, TreeBeginStep DEF LookupRef, Kinds
  <1>2. ASSUME NEW q \in Requests, NEW p \in Pool, LookupLayer(q, p) PROVE TreeInv'
    BY <1>2, TreeBeginStep DEF LookupLayer, Kinds
  <1>3. ASSUME NEW q \in Requests, NEW p \in Pool, NEW kind \in {"info", "blob", "diff"}, LookupFile(q, p, kind)
        PROVE  TreeInv'
    <2> DEFINE pc == IF kind = "info" THEN "info" ELSE "resolve"
    <2>1. Begin(q, p, kind, pc)
      BY <1>3 DEF LookupFile
    <2>2. pc \in {"info", "resolve", "make"} /\ kind \in Kinds /\ kind # "ref" /\ (pc = "resolve" => kind \in {"blob", "diff"})
      BY DEF Kinds
    <2> HIDE DEF pc
    <2>. QED BY <2>1, <2>2, TreeBeginStep
  <1>4. ASSUME NEW q \in Requests, LookupInfo(q) PROVE TreeInv'
    <2>1. UNCHANGED <<node, rm, open>> /\ req[q].pc = "info"
      BY <1>4 DEF LookupInfo
    <2>2. CASE req' = [req EXCEPT ![q] = Idle]
      BY <2>1, <2>2, TreeIdleStep
    <2>3. CASE req' = [req EXCEPT ![q] = [req[q] EXCEPT !.pc = "make"]]
      <3> DEFINE x == [req[q] EXCEPT !.pc = "make"]
      <3>1. x.pc = "make" /\ x.at = req[q].at /\ x.kind = req[q].kind /\ x.gen = req[q].gen
        BY DEF IInv, TypeOK
      <3>2. req' = [req EXCEPT ![q] = x]
        BY <2>3
      <3> HIDE DEF x
      <3>3. req[q].gen = 0 /\ req[q].at \in Pool \cup {0} /\ KindOf(req[q].at) = Parent[req[q].kind]
        BY <2>1 DEF TreeInv, ShapeInv, GenInv
      <3>4. req[q].kind = "ref" => /\ \A n \in Pool : node[n].kind # "ref"
                                   /\ \A r \in Requests : r # q => req[r].kind # "ref"
        BY DEF TreeInv, RefInv
      <3>. QED BY <2>1, <3>1, <3>2, <3>3, <3>4, TreeRequestStep
    <2>. QED BY <1>4, <2>2, <2>3 DEF LookupInfo
  <1>5. ASSUME NEW q \in Requests, Resolve(q) PROVE TreeInv'
    <2>1. UNCHANGED <<node, rm>> /\ req[q].pc = "resolve" /\ req[q].kind \in {"blob", "diff"}
      BY <1>5 DEF Resolve, TreeInv, GenInv
    <2>2. ASSUME NEW g, g \in open', open \subseteq open', Resolved(q, g) PROVE TreeInv'
      <3> DEFINE x == [pc |-> "make", at |-> req[q].at, kind |-> req[q].kind, gen |-> g, id |-> 0]
      <3>1. x.pc = "make" /\ x.at = req[q].at /\ x.kind = req[q].kind /\ x.gen = g
        OBVIOUS
      <3>2. req' = [req EXCEPT ![q] = x]
        BY <2>2 DEF Resolved
      <3> HIDE DEF x
      <3>3. req[q].at \in Pool \cup {0} /\ KindOf(req[q].at) = Parent[req[q].kind]
        BY <2>1 DEF TreeInv, ShapeInv
      <3>. QED BY <2>1, <2>2, <3>1, <3>2, <3>3, TreeRequestStep
    <2>3. CASE (\E g \in open : Resolved(q, g)) /\ UNCHANGED <<gen, open>>
      BY <2>2, <2>3
    <2>4. CASE open = {} /\ open' = {gen + 1} /\ Resolved(q, gen + 1)
      BY <2>2, <2>4
    <2>5. CASE req' = [req EXCEPT ![q] = Idle] /\ UNCHANGED <<gen, open>>
      BY <2>1, <2>5, TreeIdleStep
    <2>. QED BY <1>5, <2>3, <2>4, <2>5 DEF Resolve
  <1>6. ASSUME NEW q \in Requests, LayerID(q) PROVE TreeInv'
    <2> DEFINE x == [req[q] EXCEPT !.id = get(layerMap)]
    <2>1. req' = [req EXCEPT ![q] = x] /\ UNCHANGED <<node, rm, open>> /\ req[q].pc = "make" /\ req[q].kind = "diff"
      BY <1>6 DEF LayerID
    <2>2. x.pc = req[q].pc /\ x.at = req[q].at /\ x.kind = req[q].kind /\ x.gen = req[q].gen
      BY DEF IInv, TypeOK
    <2> HIDE DEF x
    <2>3. /\ req[q].at \in Pool \cup {0} /\ KindOf(req[q].at) = Parent[req[q].kind]
          /\ req[q].gen # 0 /\ Reach(req[q].at) => req[q].gen \in open \/ rm.pc = "remove"
      BY <2>1 DEF TreeInv, ShapeInv, GenInv
    <2>. QED BY <2>1, <2>2, <2>3, TreeRequestStep
  <1>7. ASSUME NEW q \in Requests, RootNodeFails(q) PROVE TreeInv'
    BY <1>7, TreeIdleStep DEF RootNodeFails
  <1>8. CASE UNCHANGED vars
    BY <1>8 DEF vars, TreeInv, ShapeInv, RefInv, GenInv, KindOf, Reach
  <1>. QED BY <1>1, <1>2, <1>3, <1>4, <1>5, <1>6, <1>7, <1>8, TreeNewInodeStep, TreeRmdirStep, TreeRemoveStep,
              TreeForgetStep DEF Next

\* What a path leads to serves an open layer, unless the layer is being removed: a lookup
\* that resolved the layer before its release ends outside the tree, whichever requests
\* run at once.
THEOREM ReachableStaysOpen == Spec => []ReachableIsOpen
  <1>1. TreeInv => ReachableIsOpen
    BY DEF TreeInv, GenInv, ReachableIsOpen, Reach
  <1>2. Init => IInv /\ TreeInv
    BY Start, TreeStart
  <1>3. IInv /\ TreeInv /\ [Next]_vars => (IInv /\ TreeInv)'
    BY Step, TreeStep
  <1>. QED BY <1>1, <1>2, <1>3, PTL DEF Spec

-----------------------------------------------------------------------------
\* LayerNode: the directory of a layer.

\* The entry that shows as n: its file, else its whiteout.
Shown(n) == IF <<"plain", n>> \in DOMAIN ids THEN <<"plain", n>> ELSE <<"wh", n>>

\* The names of the root that Lookup answers itself.
Reserved(n) == isRoot /\ n \in {Landmark, StateDir}

\* Where a request is, what it may answer, and what it keeps.
NodePC == {"idle", "memory", "store", "cache", "list", "keep", "done"}
NodeReply == [found : {"ENOENT", "EIO", "none", "plain", "wh", "state"}, ino : Nat]
Req == [op : {"none", "lookup", "readdir"}, name : AllNames, pc : NodePC,
        list : SUBSET [name : AllNames, ino : Nat], hurt : BOOLEAN, ans : NodeReply]

\* No id is given twice.
DirectoryOK ==
    /\ isRoot \in BOOLEAN /\ failing \in BOOLEAN /\ DOMAIN ids \subseteq Entry
    /\ \A e \in DOMAIN ids : ids[e] \in Nat
    /\ \A e, f \in DOMAIN ids : ids[e] = ids[f] => e = f

\* An inode in memory is the one a lookup would make.
KidsOK == \A n \in DOMAIN kids : ~Reserved(n) /\ kids[n] = Shown(n) /\ Shown(n) \in DOMAIN ids

\* A listing that is kept is the whole directory.
Whole(list) == list = Listing /\ \A e \in Listing : e.ino # 0

\* What a request has found out.
RequestOK(q) ==
    /\ q.pc # "idle" /\ ~q.hurt => ~failing
    /\ q.pc \in {"memory", "store"} => q.op = "lookup"
    /\ q.pc = "keep" => Whole(q.list)
    /\ q.op = "lookup" /\ q.pc \in {"store", "cache", "list", "keep"} => ~Reserved(q.name)
    /\ q.op = "lookup" /\ q.pc \in {"cache", "list", "keep"} /\ ~q.hurt => Shown(q.name) \notin DOMAIN ids
    /\ q.op = "readdir" /\ q.pc = "done" /\ q.ans # EIO => Whole(q.list)
    /\ q.op = "lookup" /\ q.pc = "done" /\ ~q.hurt => q.ans = Visible(q.name)
    /\ q.ans.found \in {"plain", "wh"} => q.ans = Visible(q.name)

\* The inductive invariant of a directory of a layer.
NodeInv ==
    /\ DirectoryOK /\ KidsOK /\ (entsCached => Whole(ents))
    /\ reqs \in [NodeRequests -> Req]
    /\ \A r \in NodeRequests : RequestOK(reqs[r])

\* Every id has an inode number of its own in the layer's range, above the reserved ones,
\* or none.
LEMMA InodeOfID ==
    ASSUME NEW id \in Nat, inodeOfID(id) # 0
    PROVE  /\ inodeOfID(id) \in Nat
           /\ inodeOfID(id) = baseInode * 2^IdBits + 3 + id
           /\ inodeOfID(id) \div 2^IdBits = baseInode
  <1>1. PICK P : P = 2^IdBits
    OBVIOUS
  <1>2. P \in Nat /\ baseInode \in Nat
    BY <1>1, NodeAssumption
  <1>3. inodeOfID(id) = IF id > P - 1 - 3 THEN 0 ELSE baseInode * P + ((3 + id) % P)
    BY <1>1 DEF inodeOfID
  <1>4. ~(id > P - 1 - 3)
    BY <1>3
  <1>5. 3 + id \in 0 .. P - 1 /\ P > 0
    BY <1>2, <1>4, SMTT(60)
  <1>6. (3 + id) % P = 3 + id
    BY <1>2, <1>5, SMTT(60)
  <1>7. PICK B : B = baseInode * P
    OBVIOUS
  <1>8. B \in Nat
    BY <1>2, <1>7, SMTT(60)
  <1>9. inodeOfID(id) = B + (3 + id)
    BY <1>3, <1>4, <1>6, <1>7
  <1>10. (baseInode * P + (3 + id)) \div P = baseInode
    BY <1>2, <1>5, SMTT(60)
  <1> QED
    BY <1>1, <1>2, <1>7, <1>8, <1>9, <1>10, SMTT(60)

\* The rank of an entry is its own.
LEMMA RankInjective ==
    ASSUME NEW e \in Entry, NEW f \in Entry
    PROVE  Rank(e) \in Nat /\ (Rank(e) = Rank(f) => e = f)
  <1> DEFINE Place(n) == CHOOSE i \in DOMAIN NameOrder : NameOrder[i] = n
  <1>1. ASSUME NEW n \in AllNames PROVE Place(n) \in DOMAIN NameOrder /\ NameOrder[Place(n)] = n
    <2>1. \E i \in DOMAIN NameOrder : NameOrder[i] = n
      BY DEF AllNames, Range
    <2> QED
      BY <2>1
  <1>2. DOMAIN NameOrder \subseteq Nat \ {0}
    BY NodeAssumption, SMTT(60)
  <1>3. e[2] \in AllNames /\ f[2] \in AllNames /\ e[1] \in {"plain", "wh"} /\ f[1] \in {"plain", "wh"} /\ e = <<e[1], e[2]>> /\ f = <<f[1], f[2]>>
    BY SMTT(60) DEF Entry
  <1>4. PICK i, j : i = Place(e[2]) /\ j = Place(f[2])
    OBVIOUS
  <1>5. i \in Nat \ {0} /\ j \in Nat \ {0} /\ (i = j => e[2] = f[2])
    BY <1>1, <1>2, <1>3, <1>4
  <1>6. Rank(e) = (IF e[1] = "plain" THEN 2 * i - 2 ELSE 2 * i - 1) /\ Rank(f) = (IF f[1] = "plain" THEN 2 * j - 2 ELSE 2 * j - 1)
    BY <1>4, SMTT(60) DEF Rank
  <1>7. Rank(e) \in Nat /\ (Rank(e) = Rank(f) => i = j /\ (e[1] = "plain" <=> f[1] = "plain"))
    BY <1>5, <1>6, SMTT(60)
  <1> QED
    BY <1>3, <1>5, <1>7

\* A request that has not begun has found nothing.
LEMMA IdleOK == NodeIdle \in Req /\ RequestOK(NodeIdle)
  <1>1. NodeIdle \in Req
    <2>1. StateDir \in AllNames
      BY NodeAssumption
    <2>2. NoAnswer \in NodeReply
      BY SMTT(60) DEF NoAnswer, NodeReply
    <2> QED
      BY <2>1, <2>2 DEF NodeIdle, Req, NodePC
  <1>2. RequestOK(NodeIdle)
    BY DEF NodeIdle, RequestOK, NoAnswer
  <1> QED
    BY <1>1, <1>2

\* A directory begins with nothing in memory and an id of its own for every entry.
LEMMA NodeStarts == NodeInit => NodeInv
  <1> SUFFICES ASSUME NodeInit PROVE NodeInv
    OBVIOUS
  <1>1. PICK es \in SUBSET Entry, first \in FirstIds : ids = [e \in es |-> first + Rank(e)]
    BY DEF NodeInit
  <1>2. first \in Nat
    BY NodeAssumption
  <1>3. ASSUME NEW e \in es, NEW f \in es PROVE ids[e] \in Nat /\ (ids[e] = ids[f] => e = f)
    <2>1. Rank(e) \in Nat /\ Rank(f) \in Nat /\ (Rank(e) = Rank(f) => e = f) /\ ids[e] = first + Rank(e) /\ ids[f] = first + Rank(f)
      BY <1>1, RankInjective
    <2> QED
      BY <1>2, <2>1, SMTT(60)
  <1>4. DirectoryOK
    BY <1>1, <1>3 DEF NodeInit, DirectoryOK
  <1>5. KidsOK /\ ~entsCached
    BY DEF NodeInit, NoFunction, KidsOK
  <1> QED
    BY <1>4, <1>5, IdleOK DEF NodeInit, NodeInv

\* The answers that name no entry.
LEMMA NoEntry == ENOENT.found = "ENOENT" /\ EIO.found = "EIO" /\ NoAnswer.found = "none"
    BY SMTT(60) DEF ENOENT, EIO, NoAnswer

\* What a lookup says of a name that is not reserved is its entry, if it has one.
LEMMA VisibleIsShown ==
    ASSUME NEW n, ~Reserved(n)
    PROVE  Visible(n) = IF Shown(n) \in DOMAIN ids THEN Answer(Shown(n)[1], ids[Shown(n)]) ELSE ENOENT
  <1>1. ~(isRoot /\ n = Landmark) /\ ~(isRoot /\ n = StateDir)
    BY DEF Reserved
  <1>2. <<"plain", n>>[1] = "plain" /\ <<"wh", n>>[1] = "wh"
    BY SMTT(60)
  <1>3. CASE <<"plain", n>> \in DOMAIN ids
    BY <1>1, <1>2, <1>3 DEF Visible, Shown
  <1>4. CASE <<"plain", n>> \notin DOMAIN ids
    BY <1>1, <1>2, <1>4 DEF Visible, Shown
  <1> QED
    BY <1>3, <1>4

\* A listing has the entries that show, with their inodes, under no reserved name.
LEMMA ListingHas ==
    ASSUME NEW n \in AllNames, ~(isRoot /\ n = Landmark)
    PROVE  /\ (\E e \in Listing : e.name = n) <=> Shown(n) \in DOMAIN ids
           /\ \A e \in Listing : e.name = n => e.ino = inodeOfID(ids[Shown(n)])
  <1> DEFINE plain == {m \in AllNames : <<"plain", m>> \in DOMAIN ids /\ ~(isRoot /\ m = Landmark)}
             wh == {m \in AllNames \ plain : <<"wh", m>> \in DOMAIN ids}
             Item(kind, m) == [name |-> m, ino |-> inodeOfID(ids[<<kind, m>>])]
  <1>1. Listing = {Item("plain", m) : m \in plain} \cup {Item("wh", m) : m \in wh}
    BY DEF Listing
  <1>2. \A kind, m : Item(kind, m).name = m /\ Item(kind, m).ino = inodeOfID(ids[<<kind, m>>])
    BY SMTT(60)
  <1>3. n \in plain <=> <<"plain", n>> \in DOMAIN ids
    OBVIOUS
  <1>4. n \in wh <=> <<"plain", n>> \notin DOMAIN ids /\ <<"wh", n>> \in DOMAIN ids
    BY <1>3
  <1>5. n \in plain => Shown(n) = <<"plain", n>>
    BY <1>3 DEF Shown
  <1>6. n \notin plain => Shown(n) = <<"wh", n>>
    BY <1>3 DEF Shown
  <1> HIDE DEF plain, wh, Item
  <1>7. ASSUME NEW e \in Listing, e.name = n
        PROVE  \/ n \in plain /\ e = Item("plain", n)
               \/ n \in wh /\ e = Item("wh", n)
    BY <1>1, <1>2, <1>7
  <1>8. n \in plain => Item("plain", n) \in Listing
    BY <1>1
  <1>9. n \in wh => Item("wh", n) \in Listing
    BY <1>1
  <1>10. n \in plain \/ n \in wh <=> Shown(n) \in DOMAIN ids
    BY <1>3, <1>4, <1>5, <1>6
  <1>11. n \in wh => n \notin plain
    BY <1>3, <1>4
  <1>12. ASSUME NEW e \in Listing, e.name = n PROVE e.ino = inodeOfID(ids[Shown(n)]) /\ Shown(n) \in DOMAIN ids
    <2>1. CASE n \in plain /\ e = Item("plain", n)
      BY <1>2, <1>5, <1>10, <2>1
    <2>2. CASE n \in wh /\ e = Item("wh", n)
      BY <1>2, <1>6, <1>10, <1>11, <2>2
    <2> QED
      BY <1>7, <1>12, <2>1, <2>2
  <1>13. Shown(n) \in DOMAIN ids => \E e \in Listing : e.name = n
    BY <1>2, <1>8, <1>9, <1>10
  <1> QED
    BY <1>12, <1>13

\* The answers follow from what every request has found, and the listings from Whole.
LEMMA InvAnswers == NodeInv => NodeAnswers
  <1> SUFFICES ASSUME NodeInv PROVE NodeAnswers
    OBVIOUS
  <1>1. LookupAnswers
    BY DEF NodeInv, RequestOK, LookupAnswers
  <1>2. ASSUME NEW r \in NodeRequests, reqs[r].op = "readdir", reqs[r].pc = "done", reqs[r].ans # EIO, NEW n \in UserNames
        PROVE  /\ (Visible(n).found # "ENOENT") <=> (\E e \in reqs[r].list : e.name = n)
               /\ \A e \in reqs[r].list : e.name = n => e.ino = Visible(n).ino
    <2>1. reqs[r].list = Listing /\ \A e \in Listing : e.ino # 0
      BY <1>2 DEF NodeInv, RequestOK, Whole
    <2>2. n \in AllNames /\ ~Reserved(n) /\ n # Landmark
      BY DEF UserNames, Reserved
    <2>3. CASE Shown(n) \in DOMAIN ids
      <3>1. PICK e \in Listing : e.name = n
        BY <2>2, <2>3, ListingHas
      <3>2. e.ino = inodeOfID(ids[Shown(n)])
        BY <2>2, <3>1, ListingHas
      <3>3. Visible(n) = [found |-> Shown(n)[1], ino |-> inodeOfID(ids[Shown(n)])]
        BY <2>1, <2>2, <2>3, <3>2, VisibleIsShown DEF Answer
      <3>4. Shown(n)[1] \in {"plain", "wh"}
        BY SMTT(60) DEF Shown
      <3>5. Visible(n).found # "ENOENT" /\ Visible(n).ino = inodeOfID(ids[Shown(n)])
        BY <3>3, <3>4, SMTT(60)
      <3> QED
        BY <2>1, <2>2, <3>1, <3>5, ListingHas
    <2>4. CASE Shown(n) \notin DOMAIN ids
      <3>1. Visible(n).found = "ENOENT"
        BY <2>2, <2>4, VisibleIsShown, NoEntry
      <3> QED
        BY <2>1, <2>2, <2>4, <3>1, ListingHas
    <2> QED
      BY <2>3, <2>4
  <1>3. ListingAnswers
    BY <1>2 DEF ListingAnswers
  <1> QED
    BY <1>1, <1>3 DEF NodeAnswers

\* Two entries have two ids, two ids have two inode numbers, and none is reserved.
LEMMA InvInodes == NodeInv => InodesDistinct
  <1> SUFFICES ASSUME NodeInv PROVE InodesDistinct
    OBVIOUS
  <1>1. ASSUME NEW r \in NodeRequests, reqs[r].ans.found \in {"plain", "wh"}
        PROVE  /\ Shown(reqs[r].name) \in DOMAIN ids
               /\ reqs[r].ans.ino = inodeOfID(ids[Shown(reqs[r].name)])
               /\ inodeOfID(ids[Shown(reqs[r].name)]) # 0
    <2>1. PICK n : n = reqs[r].name
      OBVIOUS
    <2>2. reqs[r].ans = Visible(n)
      BY <1>1, <2>1 DEF NodeInv, RequestOK
    <2>3. ~Reserved(n)
      <3>1. [found |-> "state", ino |-> inodeOfState].found = "state"
        BY SMTT(60)
      <3>2. Reserved(n) => Visible(n) \in {ENOENT, [found |-> "state", ino |-> inodeOfState]}
        BY DEF Visible, Reserved
      <3> QED
        BY <1>1, <2>2, <3>1, <3>2, NoEntry
    <2>4. Shown(n) \in DOMAIN ids
      BY <1>1, <2>2, <2>3, VisibleIsShown, NoEntry
    <2>5. reqs[r].ans = Answer(Shown(n)[1], ids[Shown(n)])
      BY <2>2, <2>3, <2>4, VisibleIsShown
    <2>7. inodeOfID(ids[Shown(n)]) # 0
      BY <1>1, <2>5, NoEntry DEF Answer
    <2>8. reqs[r].ans = [found |-> Shown(n)[1], ino |-> inodeOfID(ids[Shown(n)])]
      BY <2>5, <2>7 DEF Answer
    <2> QED
      BY <2>1, <2>4, <2>7, <2>8, SMTT(60)
  <1>2. ASSUME NEW r \in NodeRequests, reqs[r].ans.found \in {"plain", "wh"}
        PROVE  /\ reqs[r].ans.ino \notin {0, inodeOfState, inodeOfStatFile}
               /\ reqs[r].ans.ino \div 2^IdBits = baseInode
    <2>1. PICK id : id = ids[Shown(reqs[r].name)]
      OBVIOUS
    <2>2. id \in Nat /\ reqs[r].ans.ino = inodeOfID(id) /\ inodeOfID(id) # 0
      BY <1>1, <1>2, <2>1 DEF NodeInv, DirectoryOK
    <2>3. PICK B : B = baseInode * 2^IdBits
      OBVIOUS
    <2>4. B \in Nat
      BY <2>3, NodeAssumption, SMTT(60)
    <2>5. inodeOfID(id) = B + 3 + id /\ inodeOfID(id) \div 2^IdBits = baseInode
      BY <2>2, <2>3, InodeOfID
    <2>6. inodeOfState = B + 1 /\ inodeOfStatFile = B + 2
      BY <2>3 DEF inodeOfState, inodeOfStatFile
    <2>7. B + 3 + id # B + 1 /\ B + 3 + id # B + 2
      BY <2>2, <2>4, SMTT(60)
    <2> QED
      BY <2>2, <2>5, <2>6, <2>7
  <1>3. ASSUME NEW r \in NodeRequests, reqs[r].ans.found \in {"plain", "wh"},
               NEW q \in NodeRequests, reqs[q].ans.found \in {"plain", "wh"}, reqs[q].name # reqs[r].name
        PROVE  reqs[q].ans.ino # reqs[r].ans.ino
    <2>1. PICK e, f : e = Shown(reqs[r].name) /\ f = Shown(reqs[q].name)
      OBVIOUS
    <2>2. e # f
      BY <1>3, <2>1, SMTT(60) DEF Shown
    <2>3. e \in DOMAIN ids /\ f \in DOMAIN ids /\ inodeOfID(ids[e]) # 0 /\ inodeOfID(ids[f]) # 0
          /\ reqs[r].ans.ino = inodeOfID(ids[e]) /\ reqs[q].ans.ino = inodeOfID(ids[f])
      BY <1>1, <1>3, <2>1
    <2>4. PICK i, j : i = ids[e] /\ j = ids[f]
      OBVIOUS
    <2>5. i \in Nat /\ j \in Nat /\ i # j
      BY <2>2, <2>3, <2>4 DEF NodeInv, DirectoryOK
    <2>6. inodeOfID(i) = baseInode * 2^IdBits + 3 + i /\ inodeOfID(j) = baseInode * 2^IdBits + 3 + j
      BY <2>3, <2>4, <2>5, InodeOfID
    <2>7. PICK B : B = baseInode * 2^IdBits
      OBVIOUS
    <2>8. B \in Nat
      BY <2>7, NodeAssumption, SMTT(60)
    <2>9. B + 3 + i # B + 3 + j
      BY <2>5, <2>8, SMTT(60)
    <2> QED
      BY <2>3, <2>4, <2>6, <2>7, <2>9
  <1> QED
    BY <1>2, <1>3 DEF InodesDistinct

\* What a request has found out holds of the directory as long as it is the same one.
LEMMA RequestSettles ==
    ASSUME UNCHANGED directoryVars, NEW q, NEW p, RequestOK(q),
           p.pc = q.pc, p.op = q.op, p.name = q.name, p.list = q.list, p.ans = q.ans,
           ~p.hurt => ~q.hurt, p.pc # "idle" /\ ~p.hurt => ~failing'
    PROVE  RequestOK(p)'
  <1>1. isRoot' = isRoot /\ ids' = ids
    BY DEF directoryVars
  <1>2. Listing' = Listing
    BY <1>1 DEF Listing
  <1>3. Visible(p.name)' = Visible(q.name)
    BY <1>1 DEF Visible
  <1>4. Shown(p.name)' = Shown(q.name) /\ (Reserved(p.name)' <=> Reserved(q.name))
    BY <1>1 DEF Shown, Reserved
  <1>5. Whole(q.list) => Whole(p.list)'
    BY <1>2 DEF Whole
  <1> QED
    BY <1>1, <1>3, <1>4, <1>5, SMTT(60) DEF RequestOK

\* A step that replaces request r by k and leaves the directory alone.
LEMMA RequestKeeps ==
    ASSUME NodeInv, NEW r \in NodeRequests, NEW k \in Req, RequestOK(k),
           reqs' = [reqs EXCEPT ![r] = k], UNCHANGED <<directoryVars, failing>>,
           KidsOK', entsCached' => Whole(ents)'
    PROVE  NodeInv'
  <1>1. isRoot' = isRoot /\ ids' = ids /\ failing' = failing
    BY DEF directoryVars
  <1>2. DirectoryOK'
    BY <1>1 DEF NodeInv, DirectoryOK
  <1>3. reqs' \in [NodeRequests -> Req] /\ reqs'[r] = k /\ \A q \in NodeRequests \ {r} : reqs'[q] = reqs[q]
    BY SMTT(60) DEF NodeInv
  <1>4. ASSUME NEW q, RequestOK(q) PROVE RequestOK(q)'
    BY <1>1, <1>4, RequestSettles, SMTT(60) DEF RequestOK, directoryVars
  <1>5. ASSUME NEW q \in NodeRequests PROVE RequestOK(reqs[q])'
    <2>1. PICK p : p = reqs'[q]
      OBVIOUS
    <2>2. RequestOK(p)
      BY <1>3, <2>1 DEF NodeInv
    <2>3. RequestOK(p)'
      BY <1>4, <2>2
    <2> QED
      BY <2>1, <2>3 DEF RequestOK
  <1> QED
    BY <1>2, <1>3, <1>5 DEF NodeInv

\* Request r is answered with a.
LEMMA ReplyKeeps ==
    ASSUME NodeInv, NEW r \in NodeRequests, NEW a \in NodeReply, Reply(r, a),
           UNCHANGED <<directoryVars, failing, ents, entsCached>>, KidsOK', reqs[r].pc # "idle",
           reqs[r].op = "readdir" => a = EIO,
           reqs[r].op = "lookup" /\ ~reqs[r].hurt => a = Visible(reqs[r].name),
           a.found \in {"plain", "wh"} => a = Visible(reqs[r].name)
    PROVE  NodeInv'
  <1>1. reqs \in [NodeRequests -> Req] /\ reqs[r] \in Req /\ RequestOK(reqs[r])
    BY DEF NodeInv
  <1>2. PICK k : k = [reqs[r] EXCEPT !.pc = "done", !.ans = a]
    OBVIOUS
  <1>3. k \in Req
    BY <1>1, <1>2 DEF Req, NodePC
  <1>4. k.pc = "done" /\ k.ans = a /\ k.op = reqs[r].op /\ k.name = reqs[r].name /\ k.hurt = reqs[r].hurt
    BY <1>1, <1>2 DEF Req
  <1>5. reqs' = [reqs EXCEPT ![r] = k]
    BY <1>1, <1>2 DEF Reply
  <1>6. RequestOK(k)
    BY <1>1, <1>4 DEF RequestOK
  <1>7. entsCached' => Whole(ents)'
    BY DEF NodeInv, Whole, Listing, directoryVars
  <1> QED
    BY <1>3, <1>5, <1>6, <1>7, RequestKeeps

\* Request r goes on to p.
LEMMA GotoKeeps ==
    ASSUME NodeInv, NEW r \in NodeRequests, NEW p \in {"store", "cache", "list"}, Goto(r, p),
           UNCHANGED <<directoryVars, failing, ents, entsCached, kids>>, reqs[r].pc # "idle",
           p = "store" => reqs[r].op = "lookup",
           reqs[r].op = "lookup" => ~Reserved(reqs[r].name),
           reqs[r].op = "lookup" /\ p # "store" /\ ~reqs[r].hurt => Shown(reqs[r].name) \notin DOMAIN ids
    PROVE  NodeInv'
  <1>1. reqs \in [NodeRequests -> Req] /\ reqs[r] \in Req /\ RequestOK(reqs[r])
    BY DEF NodeInv
  <1>2. PICK k : k = [reqs[r] EXCEPT !.pc = p]
    OBVIOUS
  <1>3. k \in Req
    BY <1>1, <1>2 DEF Req, NodePC
  <1>4. k.pc = p /\ k.ans = reqs[r].ans /\ k.op = reqs[r].op /\ k.name = reqs[r].name /\ k.hurt = reqs[r].hurt
    BY <1>1, <1>2 DEF Req
  <1>5. reqs' = [reqs EXCEPT ![r] = k]
    BY <1>1, <1>2 DEF Goto
  <1>6. RequestOK(k)
    BY <1>1, <1>4 DEF RequestOK
  <1>7. (entsCached' => Whole(ents)') /\ KidsOK'
    BY DEF NodeInv, Whole, Listing, directoryVars, KidsOK, Shown, Reserved
  <1> QED
    BY <1>3, <1>5, <1>6, <1>7, RequestKeeps

\* What stays of the directory, the listing and the inodes in memory.
LEMMA RestKeeps ==
    ASSUME NodeInv, UNCHANGED <<directoryVars, ents, entsCached, kids>>
    PROVE  KidsOK' /\ (entsCached' => Whole(ents)')
    BY DEF NodeInv, Whole, Listing, directoryVars, KidsOK, Shown, Reserved

\* A request begins.
LEMMA BeginsKeep ==
    ASSUME NodeInv, NEW r \in NodeRequests, NEW n \in AllNames, Lookup(r, n) \/ Readdir(r)
    PROVE  NodeInv'
  <1>1. NodeIdle \in Req /\ failing \in BOOLEAN
    BY IdleOK DEF NodeInv, DirectoryOK
  <1>2. KidsOK' /\ (entsCached' => Whole(ents)')
    BY RestKeeps DEF Lookup, Readdir
  <1>3. NodeIdle.ans = NoAnswer
    BY DEF NodeIdle
  <1>4. CASE Lookup(r, n)
    <2>1. PICK k : k = [NodeIdle EXCEPT !.op = "lookup", !.name = n, !.pc = "memory", !.hurt = failing]
      OBVIOUS
    <2>2. k \in Req
      BY <1>1, <2>1 DEF Req, NodePC
    <2>3. k.op = "lookup" /\ k.pc = "memory" /\ k.hurt = failing /\ k.ans = NoAnswer
      BY <1>1, <1>3, <2>1 DEF Req
    <2>4. RequestOK(k)
      BY <2>3, NoEntry DEF RequestOK
    <2> QED
      BY <1>2, <1>4, <2>1, <2>2, <2>4, RequestKeeps DEF Lookup
  <1>5. CASE Readdir(r)
    <2>1. PICK k : k = [NodeIdle EXCEPT !.op = "readdir", !.pc = "cache", !.hurt = failing]
      OBVIOUS
    <2>2. k \in Req
      BY <1>1, <2>1 DEF Req, NodePC
    <2>3. k.op = "readdir" /\ k.pc = "cache" /\ k.hurt = failing /\ k.ans = NoAnswer
      BY <1>1, <1>3, <2>1 DEF Req
    <2>4. RequestOK(k)
      BY <2>3, NoEntry DEF RequestOK
    <2> QED
      BY <1>2, <1>5, <2>1, <2>2, <2>4, RequestKeeps DEF Readdir
  <1> QED
    BY <1>4, <1>5

\* The types of the answers.
LEMMA AnswerType ==
    /\ ENOENT \in NodeReply /\ EIO \in NodeReply /\ NoAnswer \in NodeReply
    /\ [found |-> "state", ino |-> inodeOfState] \in NodeReply
    /\ \A kind \in {"plain", "wh"}, id \in Nat : Answer(kind, id) \in NodeReply
  <1>1. inodeOfState \in Nat
    BY NodeAssumption, SMTT(60) DEF inodeOfState
  <1>2. \A kind \in {"plain", "wh"}, id \in Nat : Answer(kind, id) \in NodeReply
    <2> SUFFICES ASSUME NEW kind \in {"plain", "wh"}, NEW id \in Nat, inodeOfID(id) # 0
                 PROVE  [found |-> kind, ino |-> inodeOfID(id)] \in NodeReply
      BY SMTT(60) DEF Answer, EIO, NodeReply
    <2>1. inodeOfID(id) \in Nat
      BY InodeOfID
    <2> QED
      BY <2>1 DEF NodeReply
  <1> QED
    BY <1>1, <1>2, SMTT(60) DEF ENOENT, EIO, NoAnswer, NodeReply

\* What Lookup finds without the metadata.
LEMMA LookupMemoryKeeps == ASSUME NodeInv, NEW r \in NodeRequests, LookupMemory(r) PROVE NodeInv'
  <1>1. PICK n : n = reqs[r].name
    OBVIOUS
  <1>2. reqs[r] \in Req /\ RequestOK(reqs[r]) /\ reqs[r].pc = "memory" /\ reqs[r].op = "lookup" /\ n \in AllNames
    BY <1>1 DEF NodeInv, RequestOK, LookupMemory, Req
  <1>3. UNCHANGED <<directoryVars, failing, ents, entsCached, kids>>
    BY DEF LookupMemory
  <1>4. KidsOK'
    BY <1>3, RestKeeps
  <1>5. CASE isRoot /\ n = Landmark
    <2>1. Reply(r, ENOENT) /\ Visible(n) = ENOENT
      BY <1>1, <1>5 DEF LookupMemory, Visible
    <2> QED
      BY <1>1, <1>2, <1>3, <1>4, <2>1, ReplyKeeps, AnswerType
  <1>6. CASE ~(isRoot /\ n = Landmark) /\ isRoot /\ n = StateDir
    <2>1. PICK a : a = [found |-> "state", ino |-> inodeOfState]
      OBVIOUS
    <2>2. Reply(r, a) /\ Visible(n) = a
      BY <1>1, <1>6, <2>1 DEF LookupMemory, Visible
    <2> QED
      BY <1>1, <1>2, <1>3, <1>4, <2>1, <2>2, ReplyKeeps, AnswerType
  <1>7. CASE ~Reserved(n) /\ n \in DOMAIN kids
    <2>1. PICK a : a = Answer(kids[n][1], ids[kids[n]])
      OBVIOUS
    <2>2. Reply(r, a)
      BY <1>1, <1>7, <2>1 DEF LookupMemory, Reserved
    <2>3. kids[n] = Shown(n) /\ Shown(n) \in DOMAIN ids /\ Shown(n)[1] \in {"plain", "wh"}
      <3>1. Shown(n)[1] \in {"plain", "wh"}
        BY SMTT(60) DEF Shown
      <3> QED
        BY <1>7, <3>1 DEF NodeInv, KidsOK
    <2>4. Visible(n) = a
      BY <1>7, <2>1, <2>3, VisibleIsShown
    <2>5. a \in NodeReply
      BY <2>1, <2>3, AnswerType DEF NodeInv, DirectoryOK
    <2> QED
      BY <1>1, <1>2, <1>3, <1>4, <2>2, <2>4, <2>5, ReplyKeeps
  <1>8. CASE ~Reserved(n) /\ n \notin DOMAIN kids /\ entsCached /\ \A e \in ents : e.name # n
    <2>1. Reply(r, ENOENT)
      BY <1>1, <1>8 DEF LookupMemory, Reserved
    <2>2. ents = Listing /\ ~(isRoot /\ n = Landmark)
      BY <1>8 DEF NodeInv, Whole, Reserved
    <2>3. Shown(n) \notin DOMAIN ids
      BY <1>2, <1>8, <2>2, ListingHas
    <2>4. Visible(n) = ENOENT
      BY <1>8, <2>3, VisibleIsShown
    <2> QED
      BY <1>1, <1>2, <1>3, <1>4, <2>1, <2>4, ReplyKeeps, AnswerType
  <1>9. CASE ~Reserved(n) /\ n \notin DOMAIN kids /\ ~(entsCached /\ \A e \in ents : e.name # n)
    <2>1. Goto(r, "store")
      BY <1>1, <1>9 DEF LookupMemory, Reserved
    <2> QED
      BY <1>1, <1>2, <1>3, <1>9, <2>1, GotoKeeps
  <1> QED
    BY <1>5, <1>6, <1>7, <1>8, <1>9 DEF Reserved

\* What Lookup finds in the metadata.
LEMMA LookupStoreKeeps == ASSUME NodeInv, NEW r \in NodeRequests, LookupStore(r) PROVE NodeInv'
  <1>1. PICK n : n = reqs[r].name
    OBVIOUS
  <1>2. reqs[r] \in Req /\ RequestOK(reqs[r]) /\ reqs[r].pc = "store" /\ reqs[r].op = "lookup" /\ n \in AllNames
    BY <1>1 DEF NodeInv, RequestOK, LookupStore, Req
  <1>3. ~Reserved(n) /\ UNCHANGED <<directoryVars, failing, ents, entsCached>> /\ (~reqs[r].hurt => ~failing)
    BY <1>1, <1>2 DEF RequestOK, LookupStore
  <1>4. CASE ~failing /\ Shown(n) \in DOMAIN ids
    <2>1. PICK a : a = Answer(Shown(n)[1], ids[Shown(n)])
      OBVIOUS
    <2>2. /\ Reply(r, a)
          /\ kids' = IF a = EIO THEN kids ELSE [m \in DOMAIN kids \cup {n} |-> IF m = n THEN Shown(n) ELSE kids[m]]
      BY <1>1, <1>4, <2>1 DEF LookupStore, Shown
    <2>3. Visible(n) = a
      BY <1>3, <1>4, <2>1, VisibleIsShown
    <2>4. Shown(n)[1] \in {"plain", "wh"}
      BY SMTT(60) DEF Shown
    <2>5. a \in NodeReply
      BY <1>4, <2>1, <2>4, AnswerType DEF NodeInv, DirectoryOK
    <2>6. ASSUME NEW m \in DOMAIN kids' PROVE ~Reserved(m) /\ kids'[m] = Shown(m) /\ Shown(m) \in DOMAIN ids
      <3>1. CASE m = n /\ a # EIO
        BY <1>3, <1>4, <2>2, <3>1
      <3>2. CASE m \in DOMAIN kids /\ kids'[m] = kids[m]
        BY <3>2 DEF NodeInv, KidsOK
      <3> QED
        BY <2>2, <2>6, <3>1, <3>2
    <2>7. KidsOK'
      BY <1>3, <2>6 DEF KidsOK, Reserved, Shown, directoryVars
    <2> QED
      BY <1>1, <1>2, <1>3, <2>2, <2>3, <2>5, <2>7, ReplyKeeps
  <1>5. CASE failing \/ Shown(n) \notin DOMAIN ids
    <2>1. Goto(r, "cache") /\ UNCHANGED kids
      BY <1>1, <1>5 DEF LookupStore, Shown
    <2> QED
      BY <1>1, <1>2, <1>3, <1>5, <2>1, GotoKeeps
  <1> QED
    BY <1>4, <1>5

\* A whole listing has the type of one.
LEMMA ListingType == ASSUME DirectoryOK PROVE Listing \in SUBSET [name : AllNames, ino : Nat]
  <1>1. ASSUME NEW id \in Nat PROVE inodeOfID(id) \in Nat
    BY InodeOfID, 0 \in Nat, Zenon
  <1>2. ASSUME NEW e \in DOMAIN ids PROVE inodeOfID(ids[e]) \in Nat
    BY <1>1 DEF DirectoryOK
  <1>3. ASSUME NEW e \in Listing PROVE e \in [name : AllNames, ino : Nat]
    <2>1. PICK kind \in {"plain", "wh"}, n \in AllNames : e = [name |-> n, ino |-> inodeOfID(ids[<<kind, n>>])] /\ <<kind, n>> \in DOMAIN ids
      BY <1>3 DEF Listing
    <2>2. inodeOfID(ids[<<kind, n>>]) \in Nat
      BY <1>2, <2>1
    <2> QED
      BY <2>1, <2>2
  <1> QED
    BY <1>3

\* A listing is returned: from memory, or after it was kept.
LEMMA ListKeeps ==
    ASSUME NodeInv, NEW r \in NodeRequests, NEW list \in SUBSET [name : AllNames, ino : Nat],
           ListReply(r, list), Whole(list), UNCHANGED <<directoryVars, failing, kids>>,
           entsCached' => Whole(ents)', reqs[r].pc \in {"cache", "keep"}
    PROVE  NodeInv'
  <1>1. reqs \in [NodeRequests -> Req] /\ reqs[r] \in Req /\ RequestOK(reqs[r])
    BY DEF NodeInv
  <1>2. PICK a : a = IF reqs[r].op = "lookup" THEN ENOENT ELSE NoAnswer
    OBVIOUS
  <1>3. a \in NodeReply /\ a.found \notin {"plain", "wh"}
    BY <1>2, AnswerType, NoEntry
  <1>4. PICK k : k = [reqs[r] EXCEPT !.pc = "done", !.list = list, !.ans = a]
    OBVIOUS
  <1>5. k \in Req
    BY <1>1, <1>3, <1>4 DEF Req, NodePC
  <1>6. k.pc = "done" /\ k.ans = a /\ k.list = list /\ k.op = reqs[r].op /\ k.name = reqs[r].name /\ k.hurt = reqs[r].hurt
    BY <1>1, <1>4 DEF Req
  <1>7. reqs' = [reqs EXCEPT ![r] = k]
    BY <1>1, <1>2, <1>4 DEF ListReply
  <1>8. ASSUME k.op = "lookup", ~k.hurt PROVE k.ans = Visible(k.name)
    <2>1. ~Reserved(k.name) /\ Shown(k.name) \notin DOMAIN ids
      BY <1>1, <1>6, <1>8 DEF RequestOK
    <2> QED
      BY <1>2, <1>6, <1>8, <2>1, VisibleIsShown
  <1>9. RequestOK(k)
    BY <1>1, <1>3, <1>6, <1>8 DEF RequestOK
  <1>10. KidsOK'
    BY DEF NodeInv, KidsOK, Shown, Reserved, directoryVars
  <1> QED
    BY <1>5, <1>7, <1>9, <1>10, RequestKeeps

\* readdir, for a listing or for a lookup that found nothing.
LEMMA ReaddirKeeps ==
    ASSUME NodeInv, NEW r \in NodeRequests, ReaddirCached(r) \/ ReaddirList(r) \/ ReaddirKeep(r)
    PROVE  NodeInv'
  <1>1. reqs \in [NodeRequests -> Req] /\ reqs[r] \in Req /\ RequestOK(reqs[r]) /\ UNCHANGED <<directoryVars, failing, kids>>
    BY DEF NodeInv, ReaddirCached, ReaddirList, ReaddirKeep
  <1>2. Listing \in SUBSET [name : AllNames, ino : Nat]
    BY ListingType DEF NodeInv
  <1>3. CASE ReaddirCached(r)
    <2>1. reqs[r].pc = "cache" /\ UNCHANGED <<ents, entsCached>>
      BY <1>3 DEF ReaddirCached
    <2>2. KidsOK' /\ (entsCached' => Whole(ents)')
      BY <1>1, <2>1, RestKeeps
    <2>3. CASE entsCached
      <3>1. ListReply(r, ents) /\ Whole(ents) /\ ents = Listing
        BY <1>3, <2>3 DEF ReaddirCached, NodeInv, Whole
      <3> QED
        BY <1>1, <1>2, <2>1, <2>2, <3>1, ListKeeps
    <2>4. CASE ~entsCached
      <3>1. Goto(r, "list")
        BY <1>3, <2>4 DEF ReaddirCached
      <3>2. reqs[r].op = "lookup" => ~Reserved(reqs[r].name) /\ (~reqs[r].hurt => Shown(reqs[r].name) \notin DOMAIN ids)
        BY <1>1, <2>1 DEF RequestOK
      <3> QED
        BY <1>1, <2>1, <3>1, <3>2, GotoKeeps
    <2> QED
      BY <2>3, <2>4
  <1>4. CASE ReaddirList(r)
    <2>1. reqs[r].pc = "list" /\ UNCHANGED <<ents, entsCached>>
      BY <1>4 DEF ReaddirList
    <2>2. KidsOK' /\ (entsCached' => Whole(ents)')
      BY <1>1, <2>1, RestKeeps
    <2>3. CASE failing \/ \E e \in Listing : e.ino = 0
      <3>1. PICK a : a = IF reqs[r].op = "lookup" THEN ENOENT ELSE EIO
        OBVIOUS
      <3>2. Reply(r, a)
        BY <1>4, <2>3, <3>1 DEF ReaddirList
      <3>3. a \in NodeReply /\ a.found \notin {"plain", "wh"} /\ (reqs[r].op = "readdir" => a = EIO)
        BY <3>1, AnswerType, NoEntry
      <3>4. ASSUME reqs[r].op = "lookup", ~reqs[r].hurt PROVE a = Visible(reqs[r].name)
        <4>1. ~Reserved(reqs[r].name) /\ Shown(reqs[r].name) \notin DOMAIN ids
          BY <1>1, <2>1, <3>4 DEF RequestOK
        <4> QED
          BY <3>1, <3>4, <4>1, VisibleIsShown
      <3> QED
        BY <1>1, <2>1, <2>2, <3>2, <3>3, <3>4, ReplyKeeps
    <2>4. CASE ~failing /\ \A e \in Listing : e.ino # 0
      <3>1. PICK k : k = [reqs[r] EXCEPT !.pc = "keep", !.list = Listing]
        OBVIOUS
      <3>2. k \in Req
        BY <1>1, <1>2, <3>1 DEF Req, NodePC
      <3>3. k.pc = "keep" /\ k.ans = reqs[r].ans /\ k.list = Listing /\ k.op = reqs[r].op /\ k.name = reqs[r].name /\ k.hurt = reqs[r].hurt
        BY <1>1, <3>1 DEF Req
      <3>4. reqs' = [reqs EXCEPT ![r] = k]
        BY <1>1, <1>4, <2>4, <3>1 DEF ReaddirList
      <3>5. RequestOK(k)
        BY <1>1, <2>1, <2>4, <3>3 DEF RequestOK, Whole
      <3> QED
        BY <1>1, <2>2, <3>2, <3>4, <3>5, RequestKeeps
    <2> QED
      BY <2>3, <2>4
  <1>5. CASE ReaddirKeep(r)
    <2>1. reqs[r].pc = "keep" /\ ents' = reqs[r].list /\ ListReply(r, reqs[r].list)
      BY <1>5 DEF ReaddirKeep
    <2>2. Whole(reqs[r].list) /\ reqs[r].list = Listing
      BY <1>1, <2>1 DEF RequestOK, Whole
    <2>3. Listing' = Listing
      BY <1>1 DEF Listing, directoryVars
    <2>4. Whole(ents)'
      BY <2>1, <2>2, <2>3 DEF Whole
    <2> QED
      BY <1>1, <1>2, <2>1, <2>2, <2>4, ListKeeps
  <1> QED
    BY <1>3, <1>4, <1>5

\* Request p is request q, of which the store may have failed.
SameRequest(p, q) ==
    /\ p.pc = q.pc /\ p.op = q.op /\ p.name = q.name /\ p.list = q.list /\ p.ans = q.ans
    /\ ~p.hurt => ~q.hurt

\* A step that leaves the directory and what every request has found alone.
LEMMA RequestsKeep ==
    ASSUME NodeInv, UNCHANGED directoryVars, failing' \in BOOLEAN, KidsOK', entsCached' => Whole(ents)',
           reqs' \in [NodeRequests -> Req],
           \A r \in NodeRequests : SameRequest(reqs'[r], reqs[r]) /\ (reqs'[r].pc # "idle" /\ ~reqs'[r].hurt => ~failing')
    PROVE  NodeInv'
  <1>1. DirectoryOK'
    BY DEF NodeInv, DirectoryOK, directoryVars
  <1>2. ASSUME NEW r \in NodeRequests PROVE RequestOK(reqs[r])'
    <2>1. PICK p, q : p = reqs'[r] /\ q = reqs[r]
      OBVIOUS
    <2>2. RequestOK(q) /\ SameRequest(p, q) /\ (p.pc # "idle" /\ ~p.hurt => ~failing')
      BY <2>1 DEF NodeInv
    <2>3. RequestOK(p)'
      BY <2>2, RequestSettles DEF SameRequest
    <2> QED
      BY <2>1, <2>3 DEF RequestOK
  <1> QED
    BY <1>1, <1>2 DEF NodeInv

\* A request ends, the kernel forgets an inode, the store fails and recovers.
LEMMA OtherNodeKeeps ==
    ASSUME NodeInv, (\E r \in NodeRequests : Finish(r)) \/ (\E n \in AllNames : Forget(n)) \/ Fail \/ Recover
    PROVE  NodeInv'
  <1>1. CASE \E r \in NodeRequests : Finish(r)
    <2>1. PICK r \in NodeRequests : Finish(r)
      BY <1>1
    <2>2. KidsOK' /\ (entsCached' => Whole(ents)')
      BY <2>1, RestKeeps DEF Finish
    <2>3. NodeIdle \in Req /\ RequestOK(NodeIdle)
      BY IdleOK
    <2> QED
      BY <2>1, <2>2, <2>3, RequestKeeps DEF Finish
  <1>2. CASE \E n \in AllNames : Forget(n)
    <2>1. PICK n \in AllNames : Forget(n)
      BY <1>2
    <2>2. KidsOK'
      BY <2>1 DEF Forget, Restrict, NodeInv, KidsOK, Shown, Reserved, directoryVars
    <2>3. UNCHANGED <<directoryVars, failing, reqs>> /\ (entsCached' => Whole(ents)')
      BY <2>1 DEF Forget, directoryVars, NodeInv, Whole, Listing
    <2>4. \A r \in NodeRequests : SameRequest(reqs'[r], reqs[r]) /\ (reqs'[r].pc # "idle" /\ ~reqs'[r].hurt => ~failing')
      BY <2>3 DEF NodeInv, SameRequest, RequestOK
    <2>5. failing' \in BOOLEAN /\ reqs' \in [NodeRequests -> Req]
      BY <2>3 DEF NodeInv, DirectoryOK
    <2> QED
      BY <2>2, <2>3, <2>4, <2>5, RequestsKeep
  <1>3. CASE Fail
    <2>1. ASSUME NEW r \in NodeRequests
          PROVE  reqs'[r] \in Req /\ SameRequest(reqs'[r], reqs[r]) /\ (reqs'[r].pc = "idle" \/ reqs'[r].hurt)
      <3>1. reqs[r] \in Req
        BY DEF NodeInv
      <3>2. CASE reqs[r].pc = "idle"
        <4>1. reqs'[r] = reqs[r]
          BY <1>3, <3>2 DEF Fail
        <4> QED
          BY <3>1, <3>2, <4>1 DEF SameRequest
      <3>3. CASE reqs[r].pc # "idle"
        <4>1. reqs'[r] = [reqs[r] EXCEPT !.hurt = TRUE]
          BY <1>3, <3>3 DEF Fail
        <4> QED
          BY <3>1, <4>1 DEF SameRequest, Req
      <3> QED
        BY <3>2, <3>3
    <2>2. KidsOK' /\ (entsCached' => Whole(ents)') /\ failing' \in BOOLEAN /\ UNCHANGED directoryVars
      BY <1>3, RestKeeps DEF Fail
    <2>3. reqs' = [r \in NodeRequests |-> reqs'[r]]
      BY <1>3 DEF Fail
    <2>4. reqs' \in [NodeRequests -> Req]
      BY <2>1, <2>3
    <2> QED
      BY <2>1, <2>2, <2>4, RequestsKeep
  <1>4. CASE Recover
    <2>1. KidsOK' /\ (entsCached' => Whole(ents)') /\ failing' = FALSE /\ reqs' = reqs /\ UNCHANGED directoryVars
      BY <1>4, RestKeeps DEF Recover
    <2>2. reqs' \in [NodeRequests -> Req] /\ \A r \in NodeRequests : SameRequest(reqs'[r], reqs[r])
      BY <2>1 DEF NodeInv, SameRequest
    <2> QED
      BY <2>1, <2>2, RequestsKeep
  <1> QED
    BY <1>1, <1>2, <1>3, <1>4

\* A directory keeps its invariant, for any entries and any number of requests.
THEOREM NodeInvariant == NodeSpec => []NodeInv
  <1>1. ASSUME NodeInv, [NodeNext]_nodeVars PROVE NodeInv'
    <2>1. CASE UNCHANGED nodeVars
      <3>1. KidsOK' /\ (entsCached' => Whole(ents)') /\ failing' = failing /\ reqs' = reqs /\ UNCHANGED directoryVars
        BY <1>1, <2>1, RestKeeps DEF nodeVars
      <3>2. failing' \in BOOLEAN /\ reqs' \in [NodeRequests -> Req]
        BY <1>1, <3>1 DEF NodeInv, DirectoryOK
      <3>3. \A r \in NodeRequests : SameRequest(reqs'[r], reqs[r]) /\ (reqs'[r].pc # "idle" /\ ~reqs'[r].hurt => ~failing')
        BY <1>1, <3>1 DEF NodeInv, SameRequest, RequestOK
      <3> QED
        BY <1>1, <3>1, <3>2, <3>3, RequestsKeep
    <2>2. CASE NodeNext
      <3>1. ASSUME NEW r \in NodeRequests, Readdir(r) \/ \E n \in AllNames : Lookup(r, n) PROVE NodeInv'
        BY <1>1, <3>1, NodeAssumption, BeginsKeep
      <3>2. ASSUME NEW r \in NodeRequests, LookupMemory(r) \/ LookupStore(r) PROVE NodeInv'
        BY <1>1, <3>2, LookupMemoryKeeps, LookupStoreKeeps
      <3>3. ASSUME NEW r \in NodeRequests, ReaddirCached(r) \/ ReaddirList(r) \/ ReaddirKeep(r) PROVE NodeInv'
        BY <1>1, <3>3, ReaddirKeeps
      <3> QED
        BY <1>1, <2>2, <3>1, <3>2, <3>3, OtherNodeKeeps DEF NodeNext
    <2> QED
      BY <1>1, <2>1, <2>2
  <1> QED
    BY <1>1, NodeStarts, PTL DEF NodeSpec

\* Every lookup and every listing of a directory answers what the layer's metadata say,
\* whatever was looked up, listed, forgotten or failing before and runs at once (node.Lookup,
\* node.readdir), for any directory and any number of requests.
THEOREM NodesAnswer == NodeSpec => []NodeAnswers
  <1>1. NodeInv => NodeAnswers
    BY InvAnswers
  <1> QED
    BY <1>1, NodeInvariant, PTL

\* The inode numbers that the kernel gets for the entries of a layer are distinct, apart
\* from those of the state directory, and in the layer's own range, for every base inode
\* and every width of the ids (fs.inodeOfID).
THEOREM InodesStayDistinct == NodeSpec => []InodesDistinct
  <1>1. NodeInv => InodesDistinct
    BY InvInodes
  <1> QED
    BY <1>1, NodeInvariant, PTL
=============================================================================
