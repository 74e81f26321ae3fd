---------------------------- MODULE EStargzBuild ----------------------------
(***************************************************************************)
(* estargz.Build (estargz/build.go): a tar is decompressed into a temporary *)
(* file, sorted, divided, and its parts are written to temporary files by  *)
(* one goroutine each; the parts, the combined TOC and the footer are the  *)
(* blob, whose Close removes the files.  A watcher removes them when the   *)
(* context ends first.  The lossless writer of an external-TOC conversion  *)
(* (AppendTarLossLess, Close) starts from the same tars.                   *)
(*                                                                         *)
(* In: the tar, the prioritized files, whether one may be missing, the     *)
(* minimal chunk size and the format of the blob.  In a run that is faulty *)
(* files may fail and the context may be cancelled; other runs try all     *)
(* tars.                                                                   *)
(***************************************************************************)
EXTENDS MetadataDB

CONSTANTS Tars, FaultyTars, Prios, ChunkSize, MinChunkSizes, Formats, Procs

BuildAssumption == ChunkSize > 0 /\ Procs > 0 /\ FaultyTars \subseteq Tars

VARIABLES
    in,        \* [tar, prio, allow, minChunk, format, lossless, compressed, faulty]
    pc, err,   \* Build
    ctx, once, watcher,
    entries,   \* the sorted entries
    parts,     \* their parts
    part, ws,  \* control and writer of the goroutine of a part
    disk,      \* the temporary files that exist: 0 the decompressed tar, i that of part i
    tracked,   \* layerFiles.files
    blob

vars == <<in, pc, err, ctx, once, watcher, entries, parts, part, ws, disk, tracked, blob>>
fileVars == <<once, disk, tracked>>

NoBlob == [streams |-> <<>>]

Init ==
    /\ in \in [tar : Tars, prio : Prios, allow : BOOLEAN, minChunk : MinChunkSizes, format : Formats,
               lossless : {FALSE}, compressed : {FALSE}, faulty : {FALSE}]
         \cup [tar : Tars, prio : {<<>>}, allow : {FALSE}, minChunk : MinChunkSizes, format : Formats,
               lossless : {TRUE}, compressed : {FALSE}, faulty : {FALSE}]
         \cup [tar : FaultyTars, prio : Prios, allow : {FALSE}, minChunk : {0}, format : Formats,
               lossless : {FALSE}, compressed : BOOLEAN, faulty : {TRUE}]
    /\ pc = "start" /\ err = FALSE
    /\ ctx = "live" /\ once = FALSE /\ watcher = "waiting"
    /\ entries = <<>> /\ parts = <<>> /\ part = <<>> /\ ws = <<>>
    /\ disk = {} /\ tracked = {} /\ blob = NoBlob

\* tempFiles.CleanupAll: once.
CleanupAll ==
    IF once THEN UNCHANGED fileVars
    ELSE /\ once' = TRUE /\ disk' = disk \ tracked /\ tracked' = {}

Fail == pc' = "defer" /\ err' = TRUE
Goto(p) == pc' = p /\ UNCHANGED err

-----------------------------------------------------------------------------
(* The goroutine of Build. *)

DecompressBlob ==
    /\ pc = "start" /\ ~in.lossless
    /\ \/ ~in.compressed /\ Goto("sort") /\ UNCHANGED disk
       \/ in.compressed /\ Goto("uncompressed") /\ disk' = disk \cup {0}
       \/ in.faulty /\ Fail /\ UNCHANGED disk
    /\ UNCHANGED <<in, ctx, once, watcher, entries, parts, part, ws, tracked, blob>>

TrackUncompressed ==
    /\ pc = "uncompressed"
    /\ tracked' = tracked \cup {0} /\ Goto("copy")
    /\ UNCHANGED <<in, ctx, once, watcher, entries, parts, part, ws, disk, blob>>

\* The copy fails when the watcher has closed the file.
CopyUncompressed ==
    /\ pc = "copy"
    /\ \/ 0 \in disk /\ Goto("sort")
       \/ Fail
    /\ UNCHANGED <<in, ctx, once, watcher, entries, parts, part, ws, disk, tracked, blob>>

SortAndDivide ==
    /\ pc = "sort"
    /\ LET s == sortEntries(in.tar, in.prio, in.allow)
           ps == IF in.minChunk > 0 THEN <<s.entries>> ELSE divideEntries(s.entries, Procs)
       IN  IF ~s.ok THEN Fail /\ UNCHANGED <<entries, parts, part, ws>>
           ELSE /\ Goto("parts") /\ entries' = s.entries /\ parts' = ps
                /\ part' = [i \in DOMAIN ps |-> "new"] /\ ws' = [i \in DOMAIN ps |-> NewWriter(Landmarks)]
    /\ UNCHANGED <<in, ctx, once, watcher, disk, tracked, blob>>

\* All goroutines have ended.
WaitAndCombine ==
    /\ pc = "parts" /\ \A i \in DOMAIN part : part[i] \in {"done", "failed"}
    /\ IF \E i \in DOMAIN part : part[i] = "failed"
       THEN Fail /\ UNCHANGED blob
       ELSE /\ Goto("payloads")
            /\ blob' = WriteTOCAndFooter(in.format, closeWithCombine(ws))
    /\ UNCHANGED <<in, ctx, once, watcher, entries, parts, part, ws, disk, tracked>>

\* Stat of the payload files, which the watcher may have closed.
StatPayloads ==
    /\ pc = "payloads"
    /\ IF DOMAIN parts \subseteq disk THEN Goto("defer") ELSE Fail
    /\ UNCHANGED <<in, ctx, once, watcher, entries, parts, part, ws, disk, tracked, blob>>

\* Mutant: Build leaves the files of a failed build to the caller.
ReturnWithoutCleanup ==
    /\ pc = "defer"
    /\ pc' = "returned" /\ err' = (err \/ ctx = "cancelled")
    /\ UNCHANGED <<in, ctx, watcher, entries, parts, part, ws, blob, once, disk, tracked>>

\* The deferred functions: an error cleans up, and the context's makes one.
Return ==
    /\ pc = "defer"
    /\ pc' = "returned" /\ err' = (err \/ ctx = "cancelled")
    /\ IF err THEN CleanupAll ELSE UNCHANGED fileVars
    /\ UNCHANGED <<in, ctx, watcher, entries, parts, part, ws, blob>>

\* The caller reads the blob and closes it; it drops one that came with an error.
CallerCloses ==
    /\ pc = "returned"
    /\ Goto("closed")
    /\ IF err THEN UNCHANGED fileVars ELSE CleanupAll
    /\ UNCHANGED <<in, ctx, watcher, entries, parts, part, ws, blob>>

\* Writer.AppendTarLossLess and Writer.Close.
LossLess ==
    /\ pc = "start" /\ in.lossless
    /\ IF LossLessAllowed(in.tar)
       THEN /\ Goto("returned") /\ entries' = in.tar
            /\ blob' = WriteTOCAndFooter(in.format,
                           closeWithCombine(<<AppendTarLossLess(in.tar, ChunkSize, in.minChunk)>>))
       ELSE pc' = "returned" /\ err' = TRUE /\ UNCHANGED <<entries, blob>>
    /\ UNCHANGED <<in, ctx, once, watcher, parts, part, ws, disk, tracked>>

-----------------------------------------------------------------------------
(* The goroutine of part i. *)

PartCreates(i) ==
    /\ part[i] = "new"
    /\ \/ part' = [part EXCEPT ![i] = "created"] /\ disk' = disk \cup {i}
       \/ in.faulty /\ part' = [part EXCEPT ![i] = "failed"] /\ UNCHANGED disk
    /\ UNCHANGED <<in, pc, err, ctx, once, watcher, entries, parts, ws, tracked, blob>>

PartTracks(i) ==
    /\ part[i] = "created"
    /\ part' = [part EXCEPT ![i] = "tracked"] /\ tracked' = tracked \cup {i}
    /\ UNCHANGED <<in, pc, err, ctx, once, watcher, entries, parts, ws, disk, blob>>

\* AppendTar into the part's own file, which the watcher may have closed.
PartAppends(i) ==
    /\ part[i] = "tracked"
    /\ \/ /\ i \in disk
          /\ part' = [part EXCEPT ![i] = "done"]
          /\ ws' = [ws EXCEPT ![i] = AppendTar(parts[i], ChunkSize, in.minChunk)]
       \/ /\ in.faulty \/ i \notin disk
          /\ part' = [part EXCEPT ![i] = "failed"] /\ UNCHANGED ws
    /\ UNCHANGED <<in, pc, err, ctx, once, watcher, entries, parts, disk, tracked, blob>>

-----------------------------------------------------------------------------
(* The context and its watcher, which Build's return releases. *)

Cancel ==
    /\ in.faulty /\ ctx = "live"
    /\ ctx' = "cancelled"
    /\ UNCHANGED <<in, pc, err, watcher, entries, parts, part, ws, blob, once, disk, tracked>>

Watch ==
    /\ watcher = "waiting" /\ ~in.lossless
    /\ watcher' = "ended"
    /\ \/ ctx = "cancelled" /\ CleanupAll
       \/ pc \in {"returned", "closed"} /\ UNCHANGED fileVars
    /\ UNCHANGED <<in, pc, err, ctx, entries, parts, part, ws, blob>>

Done == pc = "closed" /\ UNCHANGED vars

Next ==
    \/ DecompressBlob \/ TrackUncompressed \/ CopyUncompressed \/ SortAndDivide
    \/ WaitAndCombine \/ StatPayloads \/ Return \/ CallerCloses \/ LossLess
    \/ \E i \in DOMAIN part : PartCreates(i) \/ PartTracks(i) \/ PartAppends(i)
    \/ Cancel \/ Watch \/ Done

Spec == Init /\ [][Next]_vars

-----------------------------------------------------------------------------
(* Properties. *)

Built == pc = "returned" /\ ~err /\ blob # NoBlob

\* Build keeps one entry of every name; the lossless writer keeps them all.
OneEntryPerName == IsInjective([i \in DOMAIN entries |-> entries[i].name])

\* A hard link follows the file it names, unless a later duplicate of the file took
\* its place (importTar); the database does not take a link that comes first.
LinksFollow == \A i \in DOMAIN entries : entries[i].type = "hardlink" => Has(SubSeq(entries, 1, i), entries[i].link)

RECURSIVE Source(_)
Source(name) == LET e == Get(entries, name) IN IF e.type = "hardlink" THEN Source(e.link) ELSE e
Files == {e.name : e \in {x \in ToSet(entries) : x.name # TOCTarName /\ Source(x.name).type = "reg"}}

TarStream(es) ==
    FlattenSeq([i \in DOMAIN es |->
        << <<es[i].id, 0>> >> \o Payload(es[i], 0, es[i].size)
        \o (IF es[i].size > 0 THEN << <<es[i].id, -1>> >> ELSE <<>>)])

\* The bytes of e at off from both stores, for every length.
FileReadsBack(r, name, db, id, e) ==
    \A off \in 0 .. e.size - 1, n \in 1 .. e.size :
        off + n <= e.size =>
            /\ ReadAt(r, name, off, n).data = Payload(e, off, n)
            /\ dbReadAt(db, blob.streams, id, off, n).data = Payload(e, off, n)

ChunkAt(e, off) == Payload(e, off, Min({ChunkSize, e.size - off}))
DigestsMatch(r, name, db, id, e) ==
    \A off \in 0 .. e.size - 1 :
        /\ ChunkEntryForOffset(r, name, off) # 0
        /\ r.toc[ChunkEntryForOffset(r, name, off)].digest = ChunkAt(e, off - (off % ChunkSize))
        /\ dbChunkEntryForOffset(db, id, off).data = ChunkAt(e, off - (off % ChunkSize))

StoresReadBack(r, db) ==
    /\ db.ok
    /\ \A f \in Files :
         /\ FileReadsBack(r, getSource(r, f), db, getIDByName(db.md, f), Source(f))
         /\ DigestsMatch(r, getSource(r, f), db, getIDByName(db.md, f), Source(f))

\* Every file reads back, at every offset and length, byte for byte as the tar has
\* it, from both metadata stores (estargz fileReader.ReadAt, db fileReader.ReadAt),
\* whatever the sorting, the parts written in parallel and the chunks that share a
\* stream; and the chunk found for an offset carries the digest of its bytes.
ReadsBack ==
    (Built /\ OneEntryPerName /\ LinksFollow) => StoresReadBack(NewReader(blob), initNodes(blob.toc, blob.size))

\* A read of a whole chunk that offers the other chunks of its stream to the cache.
ChunkRead(read, e, off) ==
    LET n == Min({ChunkSize, e.size - off}) IN
    /\ read.ok /\ read.data = Payload(e, off, n)
    /\ \A p \in read.pre : p[1] = p[2]

ChunkStarts(e) == {off \in 0 .. e.size - 1 : off % ChunkSize = 0}

FilePreReads(r, name, db, id, e) ==
    \A off \in ChunkStarts(e), reads \in BOOLEAN :
        /\ ChunkRead(PreReadAt(r, name, off, Min({ChunkSize, e.size - off}), reads), e, off)
        /\ ChunkRead(dbPreReadAt(db, blob.streams, id, off, Min({ChunkSize, e.size - off}), reads), e, off)
StoresPreRead(r, db) == \A f \in Files : FilePreReads(r, getSource(r, f), db, getIDByName(db.md, f), Source(f))

\* estargz/estargz.go, OpenFileWithPreReader and db/reader.go:822: "When it reads
\* other ranges than required by the returned reader [...] these chunks are passed to
\* the callback so that it can be cached": reading a chunk succeeds, and every chunk
\* offered to the cache is the one its digest names.
PreReadsSucceed ==
    (Built /\ OneEntryPerName /\ LinksFollow) => StoresPreRead(NewReader(blob), initNodes(blob.toc, blob.size))

\* Two shapes of a shared stream that PreReadsSucceed does not hold for.
EmptyInFirstStream == \E i \in DOMAIN blob.toc :
    /\ blob.toc[i].type = "reg" /\ blob.toc[i].size = 0
    /\ \E j \in DOMAIN blob.toc : j < i /\ IsData(blob.toc[j]) /\ blob.toc[j].offset = 0
FileTwiceInStream == \E i, j \in DOMAIN blob.toc :
    i # j /\ IsData(blob.toc[i]) /\ blob.toc[i].id = blob.toc[j].id /\ blob.toc[i].offset = blob.toc[j].offset

\* With neither of those, a read through a shared stream returns the chunk and hands
\* the others to the cache under their own digests, from both stores
\* (estargz.go:614-647, db/reader.go:960-996).
SharedStreamsRead ==
    (Built /\ ~EmptyInFirstStream /\ ~FileTwiceInStream) => PreReadsSucceed

\* The footer leads back to the TOC in every format, with and without a hint for its
\* offset, whichever other decompressors are tried first (estargz.Open), and Unpack
\* gives the tar that was written: the input itself from the lossless writer.
BlobReopens ==
    Built => /\ \A hint \in {0, blob.tocAt}, extra \in {<<in.format>>, <<"zstdchunked", "externaltoc">>} :
                    in.format \in ToSet(extra) \cup {"gzip"} => Opens(blob, extra, hint)
             /\ Unpack(blob, in.format)
                = TarStream(SelectSeq(entries, LAMBDA e : e.name # TOCTarName))
                  \o (IF in.lossless THEN Trailer ELSE <<>>)

\* Sorting neither loses nor repeats a file: the last entry of every name is kept
\* (importTar), and the prioritized ones come first, in the order of the list, after
\* their directories and link targets; all their chunks lie below the offset of the
\* landmark, up to which a mount prefetches (sortEntries, needsOpenGz).
PrefetchCoversPrioritized ==
    (Built /\ ~in.lossless) =>
        LET Pos(n) == CHOOSE i \in DOMAIN entries : entries[i].name = n
            mark == Pos(IF in.prio = <<>> THEN NoPrefetchLandmark ELSE PrefetchLandmark)
            limit == Get(blob.toc, entries[mark].name).offset
            kept == {n \in {e.name : e \in ToSet(in.tar)} : n \notin Landmarks}
            moved == {p \in ToSet(in.prio) : Has(entries, p) /\ Pos(p) < mark}
        IN  /\ Len(entries) = Cardinality(kept) + 1
            /\ \A n \in kept : Get(entries, n) = in.tar[Max({i \in DOMAIN in.tar : in.tar[i].name = n})]
            /\ ~in.allow => moved = ToSet(in.prio)
            /\ \A p \in moved :
                 /\ Parent(p) # <<>> => Pos(Parent(p)) < Pos(p)
                 /\ Get(entries, p).type = "hardlink" => Pos(Get(entries, p).link) < mark
            /\ \A i \in DOMAIN blob.toc : (IsData(blob.toc[i]) /\ blob.toc[i].size + blob.toc[i].chunkOffset > 0) =>
                 (Pos(blob.toc[i].name) < mark <=> blob.toc[i].offset < limit)

\* A directory of the tar comes before what is in it.
ParentsFirst == \A i, j \in DOMAIN entries : entries[i].name = Parent(entries[j].name) /\ i # j => i < j

\* The node that a name leads to in each store.
SameNode(r, n, db, id) ==
    /\ id # 0
    /\ db.nodes[id].type = NodeType(r, getSource(r, n))
    /\ db.nodes[id].numLink = NumLink(r, getSource(r, n))
    /\ DOMAIN ChildrenOf(db, id) = {Base(k) : k \in Children(r, n)}
    /\ \A m \in Names(r) : (getIDByName(db.md, m) = id) <=> (getSource(r, m) = getSource(r, n))
SameTree(r, db) == \A n \in Names(r) : SameNode(r, n, db, getIDByName(db.md, n))

\* Both metadata stores show the same tree: the same names, types, link counts and
\* the same node under two names exactly for hard links (metadata/memory, db
\* initNodes).  The tars have no entry for the root and parents come first.
TreesAgree ==
    (Built /\ OneEntryPerName /\ LinksFollow /\ ParentsFirst) =>
        SameTree(NewReader(blob), initNodes(blob.toc, blob.size))

\* A build that is not cancelled leaves no temporary file behind, whichever of its
\* steps failed (the deferred CleanupAll, Blob.Close).
NoFileLeft == (pc = "closed" /\ ctx = "live") => disk = {}
=============================================================================
