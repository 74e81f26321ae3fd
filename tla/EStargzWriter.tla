--------------------------- MODULE EStargzWriter ---------------------------
(***************************************************************************)
(* Writing an eStargz blob (estargz/estargz.go, estargz/build.go and the   *)
(* compressors): the order of the tar entries, the writer that cuts them   *)
(* into compressed streams and records the table of contents (TOC), the    *)
(* combination of parts that were written in parallel, and the footer.     *)
(*                                                                         *)
(* A tar entry is [id, name, type, size, link].  A name is the sequence of *)
(* its path elements, <<>> the root: what cleanEntryName makes of every    *)
(* spelling.  An uncompressed byte is <<id, k>>: 0 for the header of entry *)
(* id, 1 .. size for its payload, -1 for the padding after it.  A stream   *)
(* is a sequence of such bytes; it is one byte longer when compressed,     *)
(* which is all the offsets need to know of a compressor.                  *)
(***************************************************************************)
EXTENDS Integers, Sequences, FiniteSets, SequencesExt

Unset == -1

PrefetchLandmark == <<".prefetch.landmark">>
NoPrefetchLandmark == <<".no.prefetch.landmark">>
TOCTarName == <<"stargz.index.json">>
Landmarks == {PrefetchLandmark, NoPrefetchLandmark}

Parent(name) == SubSeq(name, 1, Len(name) - 1)

-----------------------------------------------------------------------------
(* sortEntries. *)

Has(tar, name) == \E i \in DOMAIN tar : tar[i].name = name
Get(tar, name) == tar[CHOOSE i \in DOMAIN tar : tar[i].name = name]
Without(tar, name) == SelectSeq(tar, LAMBDA e : e.name # name)

importTar(tar) ==
    FoldLeft(LAMBDA acc, e : IF e.name \in Landmarks
                             THEN acc ELSE Append(Without(acc, e.name), e), <<>>, tar)

\* What moveRec leaves: [in, out, ok]; a name that is in neither ends it.
RECURSIVE moveRec(_, _)
moveRec(name, s) ==
    LET Move(t) == IF Has(t.in, name)
                   THEN [t EXCEPT !.out = Append(@, Get(t.in, name)), !.in = Without(@, name)]
                   ELSE t
    IN  IF name = <<>> THEN Move(s)
        ELSE IF ~Has(s.in, name) /\ ~Has(s.out, name) THEN [s EXCEPT !.ok = FALSE]
        ELSE LET p == moveRec(Parent(name), s)
                 l == IF p.ok /\ Has(p.in, name) /\ Get(p.in, name).type = "hardlink"
                      THEN moveRec(Get(p.in, name).link, p) ELSE p
             IN  IF l.ok THEN Move(l) ELSE l

Landmark(name) == [id |-> 0, name |-> name, type |-> "reg", size |-> 1, link |-> <<>>]

\* Mutant: the landmark is put in front of the prioritized files.
SortEntriesLandmarkFirst(tar, prio, allowMissing) ==
    LET step(s, l) == IF ~s.ok THEN s
                      ELSE LET t == moveRec(l, s) IN [t EXCEPT !.ok = @ \/ allowMissing]
        end == FoldLeft(step, [in |-> importTar(tar), out |-> <<>>, ok |-> TRUE], prio)
        mark == IF prio = <<>> THEN NoPrefetchLandmark ELSE PrefetchLandmark
    IN  [ok |-> end.ok, entries |-> <<Landmark(mark)>> \o end.out \o end.in]

\* The entries in the order they are written; not ok when a prioritized file is
\* missing and the caller did not allow that.
sortEntries(tar, prio, allowMissing) ==
    LET step(s, l) == IF ~s.ok THEN s
                      ELSE LET t == moveRec(l, s) IN [t EXCEPT !.ok = @ \/ allowMissing]
        end == FoldLeft(step, [in |-> importTar(tar), out |-> <<>>, ok |-> TRUE], prio)
        mark == IF prio = <<>> THEN NoPrefetchLandmark ELSE PrefetchLandmark
    IN  [ok |-> end.ok, entries |-> Append(end.out, Landmark(mark)) \o end.in]

\* The parts that are written in parallel; the last one may be empty.
divideEntries(entries, minPartsNum) ==
    LET estimatedSize == FoldLeft(LAMBDA n, e : n + e.size, 0, entries)
        unitSize == estimatedSize \div minPartsNum
        step(s, e) ==
            LET set == [s.set EXCEPT ![Len(s.set)] = Append(@, e)]
                off == s.offset + e.size
            IN  IF off > s.nextEnd
                THEN [set |-> Append(set, <<>>), offset |-> off, nextEnd |-> s.nextEnd + unitSize]
                ELSE [set |-> set, offset |-> off, nextEnd |-> s.nextEnd]
    IN  FoldLeft(step, [set |-> << <<>> >>, offset |-> 0, nextEnd |-> unitSize], entries).set

-----------------------------------------------------------------------------
(* Writer.  gz holds the open stream while isOpen; unc counts uncompressed *)
(* bytes; prev and prevUnc are prevOffset and prevOffsetUncompressed.      *)

NewWriter(needsOpenGzEntries) ==
    [streams |-> <<>>, gz |-> <<>>, isOpen |-> FALSE, unc |-> 0, prev |-> 0, prevUnc |-> 0,
     toc |-> <<>>, needsOpenGzEntries |-> needsOpenGzEntries]

Compressed(stream) == Len(stream) + 1

\* w.cw.n once the open stream is flushed.
Written(w) == FoldLeft(LAMBDA n, s : n + Compressed(s), 0, w.streams)
              + (IF w.isOpen THEN Compressed(w.gz) ELSE 0)

closeGz(w) == IF w.isOpen
              THEN [w EXCEPT !.streams = Append(@, w.gz), !.gz = <<>>, !.isOpen = FALSE] ELSE w

\* Writing opens a stream when none is.
Write(w, bytes) == [w EXCEPT !.gz = @ \o bytes, !.isOpen = TRUE, !.unc = @ + Len(bytes)]

needsOpenGz(w, e, isReg) == isReg /\ e.name \in w.needsOpenGzEntries

Payload(e, from, n) == [k \in 1 .. n |-> <<e.id, from + k>>]

\* A chunk starts a stream of its own or stays in the one that is open.
ChunkPlace(w, e, isReg, minChunkSize) ==
    IF needsOpenGz(w, e, isReg) \/ Written(w) - w.prev >= minChunkSize
    THEN LET c == closeGz(w) IN [c EXCEPT !.prev = Written(c), !.prevUnc = c.unc]
    ELSE w

\* The payload of a regular file, chunk by chunk.  A last chunk that is not full
\* has no chunkSize of its own.
RECURSIVE WriteChunks(_, _, _, _, _)
WriteChunks(w, e, written, chunkSize, minChunkSize) ==
    IF written >= e.size THEN w
    ELSE LET remain == e.size - written
             isReg == written = 0
             n == IF remain < chunkSize THEN remain ELSE chunkSize
             p == ChunkPlace(w, e, isReg, minChunkSize)
             ent == [id |-> e.id, name |-> e.name, type |-> IF isReg THEN "reg" ELSE "chunk",
                     size |-> IF isReg THEN e.size ELSE 0, link |-> <<>>,
                     offset |-> p.prev, inner |-> p.unc - p.prevUnc,
                     chunkOffset |-> written, chunkSize |-> IF remain < chunkSize THEN 0 ELSE chunkSize,
                     digest |-> Payload(e, written, n)]
             q == Write(p, Payload(e, written, n))
         IN  WriteChunks([q EXCEPT !.toc = Append(@, ent)], e, written + n, chunkSize, minChunkSize)

WriteEntry(w, e, chunkSize, minChunkSize) ==
    LET h == Write(w, << <<e.id, 0>> >>)
        ent == [id |-> e.id, name |-> e.name, type |-> e.type, size |-> 0, link |-> e.link,
                offset |-> 0, inner |-> 0, chunkOffset |-> 0, chunkSize |-> 0, digest |-> <<>>]
    IN  IF e.type = "reg" /\ e.size > 0
        THEN Write(WriteChunks(h, e, 0, chunkSize, minChunkSize), << <<e.id, -1>> >>)
        ELSE [h EXCEPT !.toc = Append(@, ent)]

appendTar(writer, entries, chunkSize, minChunkSize) ==
    FoldLeft(LAMBDA w, e : IF e.name = TOCTarName THEN w ELSE WriteEntry(w, e, chunkSize, minChunkSize),
             writer, entries)

\* AppendTar in Build, whose writers start a stream at a landmark; the TOC of an
\* earlier conversion is left out.
AppendTar(entries, chunkSize, minChunkSize) ==
    appendTar(NewWriter(Landmarks), entries, chunkSize, minChunkSize)

\* AppendTarLossLess refuses such a TOC, and keeps what follows the last entry.
Trailer == << <<-1, 0>> >>
LossLessAllowed(tar) == ~Has(tar, TOCTarName)
AppendTarLossLess(tar, chunkSize, minChunkSize) ==
    Write(appendTar(NewWriter({}), tar, chunkSize, minChunkSize), Trailer)

-----------------------------------------------------------------------------
(* closeWithCombine, WriteTOCAndFooter and Close. *)

\* Mutant: the chunks of a later part keep the offsets they have in it.
CombineChunksUnshifted(ws) ==
    FoldLeft(LAMBDA acc, v :
               LET w == closeGz(v)
                   Shift(e) == IF e.type = "reg" /\ e.size > 0
                               THEN [e EXCEPT !.offset = @ + acc.size] ELSE e
               IN  [streams |-> acc.streams \o w.streams,
                    toc |-> acc.toc \o [i \in DOMAIN w.toc |-> Shift(w.toc[i])],
                    size |-> acc.size + Written(w)],
             [streams |-> <<>>, toc |-> <<>>, size |-> 0], ws)

closeWithCombine(ws) ==
    FoldLeft(LAMBDA acc, v :
               LET w == closeGz(v)
                   Shift(e) == IF (e.type = "reg" /\ e.size > 0) \/ e.type = "chunk"
                               THEN [e EXCEPT !.offset = @ + acc.size] ELSE e
               IN  [streams |-> acc.streams \o w.streams,
                    toc |-> acc.toc \o [i \in DOMAIN w.toc |-> Shift(w.toc[i])],
                    size |-> acc.size + Written(w)],
             [streams |-> <<>>, toc |-> <<>>, size |-> 0], ws)

\* The compressed TOC, the header of the frame around it, and the footer.
TocLen(toc) == Len(toc) + 1
FrameLen(format) == IF format = "zstdchunked" THEN 1 ELSE 0
FooterSize(format) == CASE format = "gzip" -> 5 [] format = "legacy" -> 4
                        [] format = "externaltoc" -> 3 [] format = "zstdchunked" -> 2

\* payload: end of the streams; the TOC of an external one is kept apart.
GzipTail(c) == [footer |-> [magic |-> "gzip", tocOffset |-> c.size, tocSize |-> 0],
                len |-> TocLen(c.toc) + FooterSize("gzip")]
ZstdTail(c) == [footer |-> [magic |-> "zstdchunked", tocOffset |-> c.size + FrameLen("zstdchunked"),
                            tocSize |-> TocLen(c.toc)],
                len |-> 2 * FrameLen("zstdchunked") + TocLen(c.toc) + FooterSize("zstdchunked")]
ExternalTail(c) == [footer |-> [magic |-> "externaltoc", tocOffset |-> Unset, tocSize |-> 0],
                    len |-> FooterSize("externaltoc")]

WriteTOCAndFooter(format, c) ==
    LET t == CASE format = "gzip" -> GzipTail(c) [] format = "zstdchunked" -> ZstdTail(c)
               [] format = "externaltoc" -> ExternalTail(c)
    IN  [streams |-> c.streams, toc |-> c.toc, footer |-> t.footer,
         tocAt |-> c.size + FrameLen(format), size |-> c.size + t.len]
=============================================================================
