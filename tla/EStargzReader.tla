--------------------------- MODULE EStargzReader ---------------------------
(***************************************************************************)
(* Reading an eStargz blob (estargz/estargz.go): finding the TOC through   *)
(* the footer, completing its entries, the tree they form, and reads of a  *)
(* file through the compressed streams.  metadata/memory serves the        *)
(* snapshotter from this reader.                                           *)
(*                                                                         *)
(* A blob is what EStargzWriter leaves: its streams, its TOC, the footer,  *)
(* where the TOC starts and the size of all.  A reader is the blob and the *)
(* completed entries.                                                      *)
(***************************************************************************)
EXTENDS EStargzWriter

Failed == [ok |-> FALSE, data |-> <<>>, pre |-> {}]

IsData(e) == e.type \in {"reg", "chunk"}

-----------------------------------------------------------------------------
(* Open. *)

maxFooterSize(size, ds) == Max({0} \cup ({FooterSize(ds[i]) : i \in DOMAIN ds} \cap 0 .. size))

\* What the footers say of the end of the payload and the place of the TOC.
GzipFooter(f) == [payload |-> f.tocOffset, tocOffset |-> f.tocOffset, tocSize |-> 0]
ZstdFooter(f) == [payload |-> f.tocOffset - FrameLen("zstdchunked"), tocOffset |-> f.tocOffset, tocSize |-> f.tocSize]
ExternalFooter(f) == [payload |-> Unset, tocOffset |-> Unset, tocSize |-> 0]

\* Decompressor d on the last p bytes of the blob.
ParseFooter(d, blob, p) ==
    [ok |-> blob.footer.magic = d /\ p = FooterSize(d)]
    @@ CASE d = "zstdchunked" -> ZstdFooter(blob.footer) [] d = "externaltoc" -> ExternalFooter(blob.footer)
         [] OTHER -> GzipFooter(blob.footer)

\* The n bytes at from hold a TOC that can be parsed.
ParseTOC(blob, from, n) == from = blob.tocAt /\ n >= TocLen(blob.toc)

\* The TOC is parsed from the bytes in front of the footer when the fetched range
\* happens to start with it, and read at the offset the footer names otherwise.
TOCFound(d, blob, fetchSize) ==
    LET fSize == FooterSize(d)
        fOffset == Max({0, fetchSize - fSize})
        f == ParseFooter(d, blob, Min({fSize, fetchSize}))
        tocSize == IF f.tocOffset >= 0 /\ f.tocSize <= 0
                   THEN blob.size - f.tocOffset - fSize ELSE f.tocSize
    IN  /\ f.ok
        /\ \/ f.tocOffset < 0
           \/ ParseTOC(blob, blob.size - fetchSize, Min({fOffset, tocSize}))
           \/ ParseTOC(blob, f.tocOffset, tocSize)

\* Whether the blob opens with these additional decompressors and this hint for
\* the offset of the TOC (0: none).
Opens(blob, extra, hint) ==
    LET ds == <<"gzip", "legacy">> \o extra
        footer == maxFooterSize(blob.size, ds)
        fetchSize == IF hint > footer THEN blob.size - hint ELSE footer
    IN  /\ hint > footer => hint <= blob.size
        /\ \E i \in DOMAIN ds : TOCFound(ds[i], blob, fetchSize)

\* Unpack: the tar stream in front of the TOC.
Unpack(blob, d) ==
    LET f == ParseFooter(d, blob, FooterSize(d))
        payload == IF f.payload < 0 THEN blob.size ELSE f.payload
        At(i) == FoldLeft(LAMBDA n, s : n + Compressed(s), 0, SubSeq(blob.streams, 1, i))
    IN  FlattenSeq(SubSeq(blob.streams, 1, Cardinality({i \in DOMAIN blob.streams : At(i) <= payload})))

-----------------------------------------------------------------------------
(* initFields. *)

NextOffset(toc, size, i) ==
    LET later == {j \in i + 1 .. Len(toc) : toc[j].offset # 0 /\ toc[j].inner = 0}
    IN  IF later = {} THEN size ELSE toc[Min(later)].offset

LastReg(toc, i) == Max({j \in 1 .. i : toc[j].type = "reg"})

\* chunkTopIndex of every entry: the first of a run that shares its offset.
TopIndex(toc) ==
    FoldLeft(LAMBDA acc, i :
               LET top == IF IsData(toc[i]) /\ toc[i].offset # toc[acc.top].offset THEN i ELSE acc.top
               IN  [top |-> top, of |-> Append(acc.of, top)],
             [top |-> 1, of |-> <<>>], [i \in DOMAIN toc |-> i]).of

initFields(toc, size) ==
    LET top == TopIndex(toc)
        Complete(i) ==
            LET e == toc[i]
                n == IF e.type = "chunk" /\ e.chunkSize = 0
                     THEN toc[LastReg(toc, i)].size - e.chunkOffset
                     ELSE IF e.chunkSize = 0 THEN e.size ELSE e.chunkSize
            IN  [e EXCEPT !.chunkSize = n] @@ [top |-> top[i], next |-> NextOffset(toc, size, i), at |-> i]
    IN  [i \in DOMAIN toc |-> Complete(i)]

NewReader(blob) == [toc |-> initFields(blob.toc, blob.size), streams |-> blob.streams]

-----------------------------------------------------------------------------
(* The tree.  A node goes by the name of its entry, which a hard link lends *)
(* it; directories without an entry are added.                             *)

Entries(r) == SelectSeq(r.toc, LAMBDA e : e.type # "chunk")
Names(r) == LET named == {e.name : e \in ToSet(Entries(r))}
            IN  named \cup UNION {{SubSeq(n, 1, k) : k \in 0 .. Len(n) - 1} : n \in named} \cup {<<>>}

RECURSIVE getSource(_, _)
getSource(r, name) ==
    IF Has(Entries(r), name) /\ Get(Entries(r), name).type = "hardlink"
    THEN getSource(r, Get(Entries(r), name).link) ELSE name

NodeType(r, name) == IF Has(Entries(r), name) THEN Get(Entries(r), name).type ELSE "dir"
Children(r, name) == {n \in Names(r) : n # <<>> /\ Parent(n) = name}

\* Mutant: a directory does not count the ".." of its subdirectories.
NumLinkFlat(r, name) ==
    IF NodeType(r, name) # "dir"
    THEN Cardinality({n \in Names(r) : getSource(r, n) = name})
    ELSE 2

\* Names of a file; a directory counts itself, its parent and its subdirectories,
\* the root with an entry of its own has nobody to count it as a child.
NumLink(r, name) ==
    IF NodeType(r, name) # "dir"
    THEN Cardinality({n \in Names(r) : getSource(r, n) = name})
    ELSE (IF name = <<>> /\ Has(Entries(r), name) THEN 1 ELSE 2)
         + Cardinality({n \in Children(r, name) : NodeType(r, n) = "dir"})

-----------------------------------------------------------------------------
(* Files. *)

\* getChunks of the file with this entry.
getChunks(r, name) ==
    SelectSeq(r.toc, LAMBDA e : e.name = name /\ IsData(e))

\* The index of the entry that covers the offset, 0 when there is none.
ChunkEntryForOffset(r, name, off) ==
    LET ents == getChunks(r, name)
        Covers(i) == \/ ents[i].chunkOffset >= off
                     \/ off < ents[i].chunkOffset + ents[i].chunkSize
        found == {i \in DOMAIN ents : Covers(i)}
    IN  IF Len(ents) < 2 THEN (IF off >= ents[1].chunkSize THEN 0 ELSE ents[1].at)
        ELSE IF found = {} THEN 0 ELSE ents[Min(found)].at

\* The entry a read at the offset starts in.
EntryFor(ents, off) ==
    LET from == {i \in DOMAIN ents : ents[i].chunkOffset >= off}
        i == IF Len(ents) = 1 THEN 1 ELSE IF from = {} THEN Len(ents) ELSE Min(from)
    IN  IF ents[i].chunkOffset > off THEN ents[i - 1] ELSE ents[i]

\* What the compressed bytes [from, to) decompress to; nothing unless a stream
\* starts at from, and only whole streams.
Inflate(streams, from, to) ==
    LET At(i) == FoldLeft(LAMBDA n, s : n + Compressed(s), 0, SubSeq(streams, 1, i - 1))
        first == {i \in DOMAIN streams : At(i) = from}
    IN  IF first = {} THEN <<>>
        ELSE FlattenSeq(SelectSeq([i \in DOMAIN streams |->
                 IF At(i) >= from /\ At(i) + Compressed(streams[i]) <= to THEN streams[i] ELSE <<>>],
                 LAMBDA s : s # <<>>))

\* io.ReadFull of n bytes at pos.
ReadFull(bytes, pos, n) ==
    IF pos + n <= Len(bytes) THEN [Failed EXCEPT !.ok = TRUE, !.data = SubSeq(bytes, pos + 1, pos + n)]
    ELSE Failed

\* One pass over a stream that several chunks share: the chunks that were not asked
\* for are offered to the callback, which reads all of them or none (reads).
\* targets are the chunks asked for, nr is the position in the stream; going back is
\* an error.
StreamPass(bytes, ents, targets, base, n, reads) ==
    LET step(s, e) ==
            IF ~s.ok \/ e.inner < s.nr \/ e.inner > Len(bytes) THEN [s EXCEPT !.ok = FALSE]
            ELSE IF e \in targets
            THEN LET got == ReadFull(bytes, e.inner + base, n)
                 IN  [s EXCEPT !.ok = got.ok, !.data = got.data, !.found = TRUE,
                               !.nr = e.inner + base + n]
            ELSE LET got == SubSeq(bytes, e.inner + 1, e.inner + e.chunkSize)
                 IN  [s EXCEPT !.nr = e.inner + (IF reads THEN Len(got) ELSE 0),
                               !.pre = @ \cup (IF reads THEN {<<e.digest, got>>} ELSE {})]
        end == FoldLeft(step, [ok |-> TRUE, found |-> FALSE, nr |-> 0, data |-> <<>>, pre |-> {}], ents)
    IN  IF end.ok /\ end.found THEN [ok |-> TRUE, data |-> end.data, pre |-> end.pre] ELSE Failed

\* fileReader.ReadAt without a callback.
ReadAt(r, name, off, n) ==
    LET ents == getChunks(r, name)
        ent == EntryFor(ents, off)
    IN  ReadFull(Inflate(r.streams, ent.offset, ents[Len(ents)].next), ent.inner + off - ent.chunkOffset, n)

\* The same, with a callback for the other chunks of the stream.
PreReadAt(r, name, off, n, reads) ==
    LET ents == getChunks(r, name)
        ent == EntryFor(ents, off)
        rest == SelectSeq(SubSeq(r.toc, ent.top, Len(r.toc)), IsData)
        Other(i) == rest[i].offset # r.toc[ent.top].offset
        stop == {i \in DOMAIN rest : Other(i)}
    IN  StreamPass(Inflate(r.streams, ent.offset, ents[Len(ents)].next),
                   IF stop = {} THEN rest ELSE SubSeq(rest, 1, Min(stop) - 1),
                   {ent}, off - ent.chunkOffset, n, reads)
=============================================================================
