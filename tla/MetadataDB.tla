----------------------------- MODULE MetadataDB -----------------------------
(***************************************************************************)
(* The metadata store on a bolt database                                   *)
(* (cmd/containerd-stargz-grpc/db): the TOC is decoded entry by entry into *)
(* node, metadata and stream buckets, and files are read through them.     *)
(*                                                                         *)
(* A database is a record of what the buckets of one filesystem hold:      *)
(*   nodes[id]  type, size and numLink of a node, src the tar entry it is  *)
(*   md[id]     kids (base name -> id), chunks, next (nextOffset)          *)
(*   st[offset] inner offset -> node, for the chunks that start in the     *)
(*              stream at offset                                           *)
(* and, while it is filled, the last id, the nodes that wait for their     *)
(* nextOffset and the last node.                                           *)
(***************************************************************************)
EXTENDS EStargzReader

rootID == 1

\* Where a function has no value yet.
At(f, x, default) == IF x \in DOMAIN f THEN f[x] ELSE default
NoMD == [kids |-> <<>>, chunks |-> <<>>, next |-> 0]
Put(f, x, v) == (x :> v) @@ f

Base(name) == IF name = <<>> THEN "." ELSE name[Len(name)]

initRootNode ==
    [nodes |-> rootID :> [type |-> "dir", size |-> 0, numLink |-> 2, src |-> 0],
     md |-> <<>>, st |-> <<>>, curID |-> rootID, want |-> {}, last |-> 0, lastSize |-> 0, ok |-> TRUE]

\* 0 when there is no such node.
getIDByName(md, name) ==
    FoldLeft(LAMBDA pid, base : At(At(md, pid, NoMD).kids, base, 0), rootID, name)

setChild(db, pid, base, id, isDir) ==
    LET m == At(db.md, pid, NoMD) IN
    [db EXCEPT !.md = Put(@, pid, [m EXCEPT !.kids = Put(@, base, id)]),
               !.nodes[pid].numLink = @ + (IF isDir THEN 1 ELSE 0)]

\* The database with the directory, whose id is then getIDByName.
RECURSIVE getOrCreateDir(_, _)
getOrCreateDir(db, d) ==
    IF getIDByName(db.md, d) # 0 THEN db
    ELSE LET id == db.curID + 1
             made == [db EXCEPT !.curID = id,
                                !.nodes = Put(@, id, [type |-> "dir", size |-> 0, numLink |-> 2, src |-> 0])]
             up == getOrCreateDir(made, Parent(d))
         IN  setChild(up, getIDByName(up.md, Parent(d)), Base(d), id, TRUE)

\* The node of an entry that is neither a chunk nor a hard link; a directory that
\* was created for its children is overwritten.
WriteNode(db, e) ==
    LET old == IF e.type = "dir" THEN getIDByName(db.md, e.name) ELSE 0
        id == IF old # 0 THEN old ELSE db.curID + 1
        links == IF old # 0 THEN db.nodes[old].numLink ELSE IF e.type = "dir" THEN 2 ELSE 1
    IN  [db |-> [db EXCEPT !.curID = IF old # 0 THEN @ ELSE id,
                           !.nodes = Put(@, id, [type |-> e.type, size |-> e.size, numLink |-> links,
                                                 src |-> e.id])],
         id |-> id]

LinkNode(db, e) ==
    LET id == getIDByName(db.md, e.link)
    IN  [db |-> IF id = 0 THEN [db EXCEPT !.ok = FALSE] ELSE [db EXCEPT !.nodes[id].numLink = @ + 1],
         id |-> id]

\* A new stream ends the streams of the nodes before it.
GiveNextOffset(db, offset, inner) ==
    IF offset = 0 \/ inner # 0 THEN db
    ELSE [db EXCEPT !.want = {},
                    !.md = [i \in db.want |-> [At(db.md, i, NoMD) EXCEPT !.next = offset]] @@ @]

\* Node id under the name of its entry, in directories that are made for it.
Attach(db, id, e) ==
    LET up == getOrCreateDir(db, Parent(e.name))
        in == setChild(up, getIDByName(up.md, Parent(e.name)), Base(e.name), id, e.type = "dir")
    IN  [GiveNextOffset(in, e.offset, e.inner) EXCEPT
            !.want = IF e.type = "reg" /\ e.size > 0 THEN @ \cup {id} ELSE @,
            !.last = id, !.lastSize = e.size]

AddNode(db, e) ==
    LET n == IF e.type = "hardlink" THEN LinkNode(db, e) ELSE WriteNode(db, e)
    IN  IF n.db.ok THEN Attach(n.db, n.id, e) ELSE n.db

AddChunk(db, e, chunkSize) ==
    LET m == At(db.md, db.last, NoMD)
        ce == [offset |-> e.offset, inner |-> e.inner, chunkOffset |-> e.chunkOffset, digest |-> e.digest]
    IN  IF chunkSize = 0 THEN db
        ELSE [db EXCEPT !.md = Put(@, db.last, [m EXCEPT !.chunks = Append(@, ce)]),
                        !.st = Put(@, e.offset, Put(At(@, e.offset, <<>>), e.inner, db.last))]

\* The chunk of an entry with data.
AddData(db, e) ==
    LET size == IF e.type = "chunk" /\ e.chunkSize = 0 THEN db.lastSize - e.chunkOffset
                ELSE IF e.chunkSize = 0 THEN e.size ELSE e.chunkSize
    IN  IF db.ok /\ IsData(e) THEN AddChunk(db, e, size) ELSE db

AddEntry(db, e) ==
    IF ~db.ok \/ (e.type = "chunk" /\ db.last = 0) THEN [db EXCEPT !.ok = FALSE]
    ELSE AddData(IF e.type = "chunk" THEN db ELSE AddNode(db, e), e)

\* A stream with one chunk at its start needs no record.
Single(db, offset) == DOMAIN db.st[offset] = {0}

\* The end of the blob ends the streams of the nodes that still wait.
EndStreams(db, size) ==
    [db EXCEPT !.md = [i \in db.want |-> [At(db.md, i, NoMD) EXCEPT !.next = size]] @@ @]

\* A chunk alone in its stream is marked by the inner offset -1.
Mark(db, c) == IF Single(db, c.offset) THEN [c EXCEPT !.inner = -1] ELSE c

\* The buckets that are kept.
Buckets(db) ==
    [ok |-> db.ok, nodes |-> db.nodes,
     md |-> [i \in DOMAIN db.md |-> [db.md[i] EXCEPT !.chunks = [k \in DOMAIN @ |-> Mark(db, @[k])]]],
     st |-> [o \in {x \in DOMAIN db.st : ~Single(db, x)} |-> db.st[o]]]

initNodes(toc, size) == Buckets(EndStreams(FoldLeft(AddEntry, initRootNode, toc), size))

-----------------------------------------------------------------------------
(* Reading. *)

ChildrenOf(db, id) == At(db.md, id, NoMD).kids

\* The size of a chunk is not stored: it ends where the next one starts.
readChunks(db, id) ==
    LET cs == SetToSortSeq(ToSet(At(db.md, id, NoMD).chunks), LAMBDA a, b : a.chunkOffset < b.chunkOffset)
        End(i) == IF i = Len(cs) THEN db.nodes[id].size ELSE cs[i + 1].chunkOffset
    IN  [i \in DOMAIN cs |-> [chunkSize |-> End(i) - cs[i].chunkOffset] @@ cs[i]]

\* The chunks of a shared stream, node by node for every inner offset it records.
readInnerChunks(db, offset) ==
    LET Of(inner) == SelectSeq(readChunks(db, db.st[offset][inner]), LAMBDA c : c.offset = offset)
        inners == SetToSeq(DOMAIN db.st[offset])
    IN  SortSeq(FlattenSeq([i \in DOMAIN inners |-> Of(inners[i])]), LAMBDA a, b : a.inner < b.inner)

dbChunkEntryForOffset(db, id, off) ==
    LET ents == readChunks(db, id)
        found == {i \in DOMAIN ents : \/ ents[i].chunkOffset >= off
                                      \/ off < ents[i].chunkOffset + ents[i].chunkSize}
    IN  IF found = {} THEN Failed ELSE [Failed EXCEPT !.ok = TRUE, !.data = ents[Min(found)].digest]

\* The chunk a read starts in.
dbEntryFor(ents, off) ==
    LET before == {i \in DOMAIN ents : ents[i].chunkOffset <= off} IN ents[Max(before)]

dbReadAt(db, streams, id, off, n) ==
    LET ent == dbEntryFor(readChunks(db, id), off)
    IN  ReadFull(Inflate(streams, ent.offset, db.md[id].next),
                 off - ent.chunkOffset + Max({0, ent.inner}), n)

\* With a callback; a chunk alone in its stream has no others to offer.
dbPreReadAt(db, streams, id, off, n, reads) ==
    LET ent == dbEntryFor(readChunks(db, id), off)
    IN  IF ent.inner < 0 THEN dbReadAt(db, streams, id, off, n)
        ELSE StreamPass(Inflate(streams, ent.offset, db.md[id].next), readInnerChunks(db, ent.offset),
                        {c \in ToSet(readInnerChunks(db, ent.offset)) : c.inner = ent.inner},
                        off - ent.chunkOffset, n, reads)
=============================================================================
