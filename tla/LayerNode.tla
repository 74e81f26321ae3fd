------------------------------ MODULE LayerNode ------------------------------
(***************************************************************************)
(* A directory of a mounted layer (fs/layer/node.go): lookups and listings *)
(* over the metadata of the layer, with whiteouts turned into the form     *)
(* overlayfs knows, landmarks hidden, a cached listing, and the inodes     *)
(* that the FUSE library keeps in memory.                                  *)
(*                                                                         *)
(* The layer has entries <<"plain", n>> for a file n and <<"wh", n>> for   *)
(* the whiteout ".wh." n; ids[e] is the id of an entry in the metadata.    *)
(* Ids and the lower half of inode numbers have IdBits bits.               *)
(***************************************************************************)
EXTENDS Integers, Sequences, Functions

CONSTANTS NameOrder, Landmark, StateDir, NodeRequests, IdBits, FirstIds, baseInode

\* The names a directory may have, in the order of the ids of their entries.
AllNames == Range(NameOrder)
UserNames == AllNames \ {Landmark, StateDir}
Entry == {"plain", "wh"} \X AllNames

ASSUME NodeAssumption ==
    /\ IdBits \in Nat \ {0} /\ 2^IdBits \in Nat /\ baseInode \in Nat
    /\ NameOrder \in Seq(AllNames) /\ IsInjective(NameOrder)
    /\ Landmark # StateDir /\ {Landmark, StateDir} \subseteq AllNames
    /\ FirstIds \subseteq Nat /\ \A first \in FirstIds : first + 2 * Len(NameOrder) <= 2^IdBits

VARIABLES
    isRoot, ids,       \* the directory
    ents, entsCached,  \* the cached listing
    kids,              \* the inodes in memory: name -> entry
    failing,           \* the metadata store answers with errors
    reqs               \* request -> [op, name, pc, list, hurt, ans]

directoryVars == <<isRoot, ids>>
nodeVars == <<directoryVars, ents, entsCached, kids, failing, reqs>>

NoFunction == [x \in {} |-> 0]
ENOENT == [found |-> "ENOENT", ino |-> 0]
EIO == [found |-> "EIO", ino |-> 0]
NoAnswer == [found |-> "none", ino |-> 0]
NodeIdle == [op |-> "none", name |-> StateDir, pc |-> "idle", list |-> {}, hurt |-> FALSE, ans |-> NoAnswer]

-----------------------------------------------------------------------------
(* Inode numbers. *)

\* Mutant: only the ids that do not fit into IdBits bits are refused.
inodeOfIDWraps(id) ==
    IF id > 2^IdBits - 1 THEN 0 ELSE baseInode * 2^IdBits + ((3 + id) % 2^IdBits)

\* 0 is the error "too many inodes".
inodeOfID(id) ==
    IF id > 2^IdBits - 1 - 3 THEN 0 ELSE baseInode * 2^IdBits + ((3 + id) % 2^IdBits)

inodeOfState == baseInode * 2^IdBits + 1
inodeOfStatFile == baseInode * 2^IdBits + 2

Answer(kind, id) == IF inodeOfID(id) = 0 THEN EIO ELSE [found |-> kind, ino |-> inodeOfID(id)]

-----------------------------------------------------------------------------
Rank(e) == LET i == CHOOSE i \in DOMAIN NameOrder : NameOrder[i] = e[2]
           IN  IF e[1] = "plain" THEN 2 * i - 2 ELSE 2 * i - 1

NodeInit ==
    /\ isRoot \in BOOLEAN
    /\ \E es \in SUBSET Entry, first \in FirstIds : ids = [e \in es |-> first + Rank(e)]
    /\ ents = {} /\ entsCached = FALSE /\ kids = NoFunction /\ failing = FALSE
    /\ reqs = [r \in NodeRequests |-> NodeIdle]

Goto(r, p) == reqs' = [reqs EXCEPT ![r].pc = p]
Reply(r, ans) == reqs' = [reqs EXCEPT ![r].pc = "done", ![r].ans = ans]

Lookup(r, n) ==
    /\ reqs[r].pc = "idle"
    /\ reqs' = [reqs EXCEPT ![r] = [NodeIdle EXCEPT !.op = "lookup", !.name = n, !.pc = "memory", !.hurt = failing]]
    /\ UNCHANGED <<directoryVars, ents, entsCached, kids, failing>>

Readdir(r) ==
    /\ reqs[r].pc = "idle"
    /\ reqs' = [reqs EXCEPT ![r] = [NodeIdle EXCEPT !.op = "readdir", !.pc = "cache", !.hurt = failing]]
    /\ UNCHANGED <<directoryVars, ents, entsCached, kids, failing>>

\* Landmarks, the state directory, an inode in memory, the cached listing.
LookupMemory(r) ==
    /\ reqs[r].pc = "memory"
    /\ LET n == reqs[r].name IN
       IF isRoot /\ n = Landmark THEN Reply(r, ENOENT)
       ELSE IF isRoot /\ n = StateDir THEN Reply(r, [found |-> "state", ino |-> inodeOfState])
       ELSE IF n \in DOMAIN kids THEN Reply(r, Answer(kids[n][1], ids[kids[n]]))
       ELSE IF entsCached /\ \A e \in ents : e.name # n THEN Reply(r, ENOENT)
       ELSE Goto(r, "store")
    /\ UNCHANGED <<directoryVars, ents, entsCached, kids, failing>>

\* Mutant: the whiteout of a name is looked for before its file.
LookupStoreWhiteoutFirst(r) ==
    /\ reqs[r].pc = "store"
    /\ LET n == reqs[r].name
           e == IF <<"wh", n>> \in DOMAIN ids THEN <<"wh", n>> ELSE <<"plain", n>>
       IN  IF ~failing /\ e \in DOMAIN ids
           THEN LET a == Answer(e[1], ids[e]) IN
                /\ Reply(r, a)
                /\ kids' = IF a = EIO THEN kids ELSE [m \in DOMAIN kids \cup {n} |-> IF m = n THEN e ELSE kids[m]]
           ELSE Goto(r, "cache") /\ UNCHANGED kids
    /\ UNCHANGED <<directoryVars, ents, entsCached, failing>>

\* GetChild of the name, then of its whiteout; an error is taken for absence, and
\* an absent name makes the listing be cached.
LookupStore(r) ==
    /\ reqs[r].pc = "store"
    /\ LET n == reqs[r].name
           e == IF <<"plain", n>> \in DOMAIN ids THEN <<"plain", n>> ELSE <<"wh", n>>
       IN  IF ~failing /\ e \in DOMAIN ids
           THEN LET a == Answer(e[1], ids[e]) IN
                /\ Reply(r, a)
                /\ kids' = IF a = EIO THEN kids ELSE [m \in DOMAIN kids \cup {n} |-> IF m = n THEN e ELSE kids[m]]
           ELSE Goto(r, "cache") /\ UNCHANGED kids
    /\ UNCHANGED <<directoryVars, ents, entsCached, failing>>

ListReply(r, list) ==
    reqs' = [reqs EXCEPT ![r].pc = "done", ![r].list = list,
                         ![r].ans = IF reqs[r].op = "lookup" THEN ENOENT ELSE NoAnswer]

ReaddirCached(r) ==
    /\ reqs[r].pc = "cache"
    /\ IF entsCached THEN ListReply(r, ents) ELSE Goto(r, "list")
    /\ UNCHANGED <<directoryVars, ents, entsCached, kids, failing>>

\* The entries of the listing: files, and whiteouts that no file replaces.
Listing ==
    LET plain == {n \in AllNames : <<"plain", n>> \in DOMAIN ids /\ ~(isRoot /\ n = Landmark)}
        wh == {n \in AllNames \ plain : <<"wh", n>> \in DOMAIN ids}
    IN  {[name |-> n, ino |-> inodeOfID(ids[<<"plain", n>>])] : n \in plain}
          \cup {[name |-> n, ino |-> inodeOfID(ids[<<"wh", n>>])] : n \in wh}

ReaddirList(r) ==
    /\ reqs[r].pc = "list"
    /\ IF failing \/ \E e \in Listing : e.ino = 0
       THEN Reply(r, IF reqs[r].op = "lookup" THEN ENOENT ELSE EIO)
       ELSE reqs' = [reqs EXCEPT ![r].pc = "keep", ![r].list = Listing]
    /\ UNCHANGED <<directoryVars, ents, entsCached, kids, failing>>

ReaddirKeep(r) ==
    /\ reqs[r].pc = "keep"
    /\ ents' = reqs[r].list /\ entsCached' = TRUE
    /\ ListReply(r, reqs[r].list)
    /\ UNCHANGED <<directoryVars, kids, failing>>

Finish(r) ==
    /\ reqs[r].pc = "done"
    /\ reqs' = [reqs EXCEPT ![r] = NodeIdle]
    /\ UNCHANGED <<directoryVars, ents, entsCached, kids, failing>>

\* The kernel forgets an inode.
Forget(n) ==
    /\ n \in DOMAIN kids
    /\ kids' = Restrict(kids, DOMAIN kids \ {n})
    /\ UNCHANGED <<directoryVars, ents, entsCached, failing, reqs>>

\* The store begins to fail, and recovers.
Fail ==
    /\ ~failing /\ failing' = TRUE
    /\ reqs' = [r \in NodeRequests |-> IF reqs[r].pc = "idle" THEN reqs[r] ELSE [reqs[r] EXCEPT !.hurt = TRUE]]
    /\ UNCHANGED <<directoryVars, ents, entsCached, kids>>

Recover ==
    /\ failing /\ failing' = FALSE
    /\ UNCHANGED <<directoryVars, ents, entsCached, kids, reqs>>

NodeNext ==
    \/ \E r \in NodeRequests :
         \/ Readdir(r) \/ \E n \in AllNames : Lookup(r, n)
         \/ LookupMemory(r) \/ LookupStore(r) \/ ReaddirCached(r) \/ ReaddirList(r) \/ ReaddirKeep(r) \/ Finish(r)
    \/ \E n \in AllNames : Forget(n)
    \/ Fail \/ Recover

NodeSpec == NodeInit /\ [][NodeNext]_nodeVars

-----------------------------------------------------------------------------
(* Properties. *)

\* What overlayfs has to see of a name.
Visible(n) ==
    IF isRoot /\ n = Landmark THEN ENOENT
    ELSE IF isRoot /\ n = StateDir THEN [found |-> "state", ino |-> inodeOfState]
    ELSE IF <<"plain", n>> \in DOMAIN ids THEN Answer("plain", ids[<<"plain", n>>])
    ELSE IF <<"wh", n>> \in DOMAIN ids THEN Answer("wh", ids[<<"wh", n>>])
    ELSE ENOENT

\* A lookup answers what the layer says, whatever was cached, forgotten, listed or
\* failing before it and whatever runs beside it; a whiteout shows up as one exactly
\* when no file of the layer replaces it (node.Lookup).
LookupAnswers ==
    \A r \in NodeRequests :
        (reqs[r].op = "lookup" /\ reqs[r].pc = "done" /\ ~reqs[r].hurt) => reqs[r].ans = Visible(reqs[r].name)

\* A listing has exactly the names a lookup finds, with the same inodes, and is never
\* cached in part (node.readdir).  The state directory is found but not listed, and a
\* whiteout of a landmark is listed but not found.
ListingAnswers ==
    \A r \in NodeRequests :
        (reqs[r].op = "readdir" /\ reqs[r].pc = "done" /\ reqs[r].ans # EIO) =>
            \A n \in UserNames :
                /\ (Visible(n).found # "ENOENT") <=> (\E e \in reqs[r].list : e.name = n)
                /\ \A e \in reqs[r].list : e.name = n => e.ino = Visible(n).ino

\* A lookup or a listing that meets no error finds what overlayfs has to see.
NodeAnswers == LookupAnswers /\ ListingAnswers

\* No two entries of a layer share an inode number, none has a reserved one, and an
\* id that does not fit is refused, up to the last id (inodeOfID).
InodesDistinct ==
    \A r \in NodeRequests : LET a == reqs[r].ans IN
        a.found \in {"plain", "wh"} =>
            /\ a.ino \notin {0, inodeOfState, inodeOfStatFile} /\ a.ino \div 2^IdBits = baseInode
            /\ \A q \in NodeRequests : LET b == reqs[q].ans IN
                 (b.found \in {"plain", "wh"} /\ reqs[q].name # reqs[r].name) => b.ino # a.ino
=============================================================================
