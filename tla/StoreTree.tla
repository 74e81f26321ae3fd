------------------------------ MODULE StoreTree ------------------------------
(***************************************************************************)
(* The tree of the store (store/fs.go): <image>/<layer>/{info, blob, diff}. *)
(* Lookups make nodes with inode numbers of an id map, the blob and the    *)
(* diff directory with a layer of the layer manager; removing a layer's    *)
(* directory releases the layer and drops its nodes.                       *)
(*                                                                         *)
(* The nodes are the numbers of a pool.  An open layer has a generation;   *)
(* after its release the next lookup resolves it again.  A node that left  *)
(* the tree is forgotten some time later, when the kernel lets go of it.   *)
(***************************************************************************)
EXTENDS Integers, FiniteSets

CONSTANTS Requests, MaxNodes, MaxGens

StoreTreeAssumption == MaxNodes \in Nat /\ MaxGens \in Nat

Parent == [ref |-> "root", layer |-> "ref", info |-> "layer", blob |-> "layer", diff |-> "layer"]

\* Node 0 is the root of the mountpoint.
Pool == 1 .. MaxNodes
NoNode == -1
Free == [kind |-> "none", ino |-> 0, parent |-> NoNode, gen |-> 0]

VARIABLES
    node,       \* the nodes: [kind, ino, parent, gen]; parent NoNode: out of the tree
    nodeMap,    \* ids of nodes outside diff directories
    layerMap,   \* ids of the roots of diff directories
    gen, open,  \* the generations of the layer so far, and the open ones
    req,        \* request -> [op, pc, at, kind, gen, id]
    rm          \* where a Rmdir is, and the parent node it works on

vars == <<node, nodeMap, layerMap, gen, open, req, rm>>

Idle == [pc |-> "idle", at |-> NoNode, kind |-> "none", gen |-> 0, id |-> 0]

Init ==
    /\ node = [n \in Pool |-> Free]
    /\ nodeMap = {} /\ layerMap = {} /\ gen = 0 /\ open = {}
    /\ req = [q \in Requests |-> Idle]
    /\ rm = [pc |-> "idle", at |-> NoNode]

-----------------------------------------------------------------------------
\* idMap.get: the smallest id that is not taken, from 1 on.
get(m) == CHOOSE i \in 1 .. (Cardinality(m) + 1) : i \notin m /\ \A j \in 1 .. (i - 1) : j \in m

KindOf(n) == IF n = 0 THEN "root" ELSE node[n].kind

\* Inode.GetChild
Child(p, kind) == {n \in Pool : node[n].parent = p /\ node[n].kind = kind}

\* A lookup in a node the kernel knows that finds no node in memory.
Begin(q, p, kind, pc) ==
    /\ req[q].pc = "idle" /\ KindOf(p) = Parent[kind] /\ Child(p, kind) = {}
    /\ req' = [req EXCEPT ![q] = [pc |-> pc, at |-> p, kind |-> kind, gen |-> 0, id |-> 0]]
    /\ UNCHANGED <<node, nodeMap, layerMap, gen, open, rm>>

\* The kernel sends one lookup of a name it has no entry of; of a name that left the
\* tree, such as a removed layer, it may send several to revalidate its entry.
LookupRef(q) == (\A r \in Requests : req[r].kind # "ref") /\ Begin(q, 0, "ref", "make")

LookupLayer(q, p) == Begin(q, p, "layer", "make")

LookupFile(q, p, kind) == Begin(q, p, kind, IF kind = "info" THEN "info" ELSE "resolve")

\* getLayerInfo reads the manifest and the config, and may fail.
LookupInfo(q) ==
    /\ req[q].pc = "info"
    /\ req' = [req EXCEPT ![q] = Idle] \/ req' = [req EXCEPT ![q] = [req[q] EXCEPT !.pc = "make"]]
    /\ UNCHANGED <<node, nodeMap, layerMap, gen, open, rm>>

Resolved(q, g) ==
    req' = [req EXCEPT ![q] = [pc |-> "make", at |-> req[q].at, kind |-> req[q].kind, gen |-> g, id |-> 0]]

\* layernode.Lookup of blob and diff: getLayer, the open layer or a new one, and Verify.
Resolve(q) ==
    /\ req[q].pc = "resolve"
    /\ \/ (\E g \in open : Resolved(q, g)) /\ UNCHANGED <<gen, open>>
       \/ /\ open = {} /\ gen < MaxGens
          /\ gen' = gen + 1 /\ open' = {gen + 1}
          /\ Resolved(q, gen + 1)
       \/ req' = [req EXCEPT ![q] = Idle] /\ UNCHANGED <<gen, open>>
    /\ UNCHANGED <<node, nodeMap, layerMap, rm>>

\* The id of a diff directory is taken before its root node is made, which may fail.
LayerID(q) ==
    /\ req[q].pc = "make" /\ req[q].kind = "diff" /\ req[q].id = 0
    /\ Cardinality(layerMap) < MaxGens
    /\ layerMap' = layerMap \cup {get(layerMap)}
    /\ req' = [req EXCEPT ![q] = [req[q] EXCEPT !.id = get(layerMap)]]
    /\ UNCHANGED <<node, nodeMap, gen, open, rm>>

RootNodeFails(q) ==
    /\ req[q].pc = "make" /\ req[q].kind = "diff" /\ req[q].id # 0
    /\ req' = [req EXCEPT ![q] = Idle]
    /\ UNCHANGED <<node, nodeMap, layerMap, gen, open, rm>>

\* The node joins its parent in the place of one that a concurrent lookup made.
Attach(q, ino) ==
    LET p == req[q].at
        new == CHOOSE n \in Pool : node[n] = Free /\ \A m \in Pool : node[m] = Free => n <= m
    IN node' = [n \in Pool |->
                 IF n = new THEN [kind |-> req[q].kind, ino |-> ino, parent |-> p, gen |-> req[q].gen]
                 ELSE IF n \in Child(p, req[q].kind) THEN [node[n] EXCEPT !.parent = NoNode]
                 ELSE node[n]]

\* newInodeWithID, and the diff directory.
NewInode(q) ==
    /\ req[q].pc = "make" /\ (req[q].kind = "diff" => req[q].id # 0)
    /\ \E n \in Pool : node[n] = Free
    /\ IF req[q].kind = "diff" THEN Attach(q, req[q].id) /\ UNCHANGED nodeMap
       ELSE Attach(q, get(nodeMap)) /\ nodeMap' = nodeMap \cup {get(nodeMap)}
    /\ req' = [req EXCEPT ![q] = Idle]
    /\ UNCHANGED <<layerMap, gen, open, rm>>

-----------------------------------------------------------------------------
\* refnode.Rmdir: the release, and, when it was the last, the nodes.
Rmdir(p) ==
    /\ rm.pc = "idle" /\ KindOf(p) = "ref" /\ open # {}
    /\ \/ rm' = [pc |-> "remove", at |-> p] /\ open' = {}
       \/ UNCHANGED <<rm, open>>
    /\ UNCHANGED <<node, nodeMap, layerMap, gen, req>>

\* Mutant: the children leave, the node of the layer stays.
RemoveShallow ==
    /\ rm.pc = "remove" /\ rm' = [pc |-> "idle", at |-> NoNode]
    /\ LET l == Child(rm.at, "layer") IN
       node' = [n \in Pool |-> IF node[n].parent \in l THEN [node[n] EXCEPT !.parent = NoNode] ELSE node[n]]
    /\ UNCHANGED <<nodeMap, layerMap, gen, open, req>>

Remove ==
    /\ rm.pc = "remove" /\ rm' = [pc |-> "idle", at |-> NoNode]
    /\ LET l == Child(rm.at, "layer") IN
       node' = [n \in Pool |-> IF n \in l \/ node[n].parent \in l THEN [node[n] EXCEPT !.parent = NoNode] ELSE node[n]]
    /\ UNCHANGED <<nodeMap, layerMap, gen, open, req>>

\* Mutant: the root of a diff directory gives an id of the other map back.
OnForgetAny(n) ==
    /\ node[n] # Free /\ node[n].parent = NoNode
    /\ \A m \in Pool : node[m].parent # n
    /\ \A q \in Requests : req[q].at # n
    /\ rm.at # n
    /\ node' = [node EXCEPT ![n] = Free] /\ nodeMap' = nodeMap \ {node[n].ino}
    /\ UNCHANGED <<layerMap, gen, open, req, rm>>

\* OnForget gives the id back; the root of a diff directory has none.
OnForget(n) ==
    /\ node[n] # Free /\ node[n].parent = NoNode
    /\ \A m \in Pool : node[m].parent # n
    /\ \A q \in Requests : req[q].at # n
    /\ rm.at # n
    /\ node' = [node EXCEPT ![n] = Free]
    /\ nodeMap' = IF node[n].kind = "diff" THEN nodeMap ELSE nodeMap \ {node[n].ino}
    /\ UNCHANGED <<layerMap, gen, open, req, rm>>

Next ==
    \/ \E q \in Requests :
         \/ LookupRef(q)
         \/ \E p \in Pool : LookupLayer(q, p) \/ \E kind \in {"info", "blob", "diff"} : LookupFile(q, p, kind)
         \/ LookupInfo(q) \/ Resolve(q) \/ LayerID(q) \/ RootNodeFails(q) \/ NewInode(q)
    \/ \E p \in Pool : Rmdir(p)
    \/ Remove
    \/ \E n \in Pool : OnForget(n)

Spec == Init /\ [][Next]_vars

-----------------------------------------------------------------------------
(* Properties. *)

\* No two nodes of one id map (idMap.get) share a number, whichever lookups run at once
\* and whatever was forgotten before; a node's number stays taken as long as it lives.
NodeIdsDistinct ==
    \A m, n \in {k \in Pool : node[k] # Free} :
        /\ node[n].ino # 0 /\ node[n].ino \in (IF node[n].kind = "diff" THEN layerMap ELSE nodeMap)
        /\ (m # n /\ node[m].ino = node[n].ino) => (node[m].kind = "diff") # (node[n].kind = "diff")

\* A file or directory that a path leads to serves an open layer, unless the layer is
\* being removed: a lookup that resolved the layer before its release ends in a
\* directory that has left the tree.
ReachableIsOpen ==
    \A n \in Pool :
        LET l == node[n].parent IN
        (node[n].gen # 0 /\ l \in Pool /\ node[l].parent \in Pool /\ node[node[l].parent].parent = 0)
            => node[n].gen \in open \/ rm.pc = "remove"
=============================================================================
