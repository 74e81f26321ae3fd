-------------------------------- MODULE Blob --------------------------------
(***************************************************************************)
(* fs/remote/blob.go over an httpFetcher of fs/remote/resolver.go: reads   *)
(* of a remote blob through the cache of its chunks.  Byte i of the blob   *)
(* is the number i, so a buffer shows where each of its bytes came from.   *)
(*                                                                         *)
(* A process makes one ReadAt or one Cache, which fetches into nowhere; a  *)
(* Cache that is split by prefetchChunkSize is several processes.          *)
(* lastCheck and Check are left out.                                       *)
(***************************************************************************)
EXTENDS RegionSet, FiniteSets

CONSTANTS Procs,
          size, chunkSize,  \* of the blob
          Offsets, Lengths, \* the reads that are tried
          Piece,            \* number of bytes that io.CopyN moves at once
          MaxLost,          \* how often a chunk is missing from the cache later
          MaxRefresh,       \* how often the fetcher is replaced
          None

BlobAssumption == size > 0 /\ chunkSize > 0 /\ Piece > 0

VARIABLES
    fetcher,     \* b.fetcher, numbered: the ids of chunks depend on it
    single,      \* singleRange of that fetcher
    cache,       \* the chunks in b.cache, with the fetcher of their id
    fetchedRegionSet,
    closed,
    refreshing,  \* a Refresh is waiting for its new fetcher
    lost,        \* chunks lost from the cache so far
    pc, op,      \* control, and the read or Cache a process performs
    fr,          \* the fetcher it has taken
    next,        \* the next chunk it looks up
    allData,     \* the missed chunks, whose writers have got cur bytes
    cur,
    buf,         \* the caller's buffer
    flight,      \* the leader of the singleflight call a process is in
    parts,       \* chunks of the response still to come
    fetched,     \* the chunks that a leader's response brought
    copied       \* chunks a follower has copied from the cache

procVars == <<op, fr, next, allData, cur, buf, flight, parts, fetched, copied>>
blobVars == <<fetcher, single, cache, fetchedRegionSet, closed, refreshing, lost>>
vars == <<blobVars, pc, procVars>>

-----------------------------------------------------------------------------
(* Offsets and sizes. *)

positive(n) == IF n < 0 THEN 0 ELSE n
Lower(a, b) == IF a < b THEN a ELSE b

NumChunks == (size + chunkSize - 1) \div chunkSize
BlobChunks == 0 .. NumChunks - 1
chunk(c) == [b |-> c * chunkSize, e |-> Lower((c + 1) * chunkSize, size) - 1]

\* walkChunks over the region that a read is aligned to.
Walk(o) == (o.off \div chunkSize) .. Lower((o.off + o.len - 1) \div chunkSize, NumChunks - 1)

\* The part of the buffer for a chunk: where it starts, its length, and how
\* many bytes of the chunk come before it.
base(o, c) == positive(chunk(c).b - o.off)
lowerUnread(o, c) == positive(o.off - chunk(c).b)
expectedSize(o, c) ==
    Size(chunk(c)) - positive(chunk(c).e + 1 - (o.off + o.len)) - lowerUnread(o, c)

\* Reading the chunk from the cache puts the bytes there at once.
FromCache(o, c, b) ==
    [i \in DOMAIN b |-> IF base(o, c) <= i /\ i < base(o, c) + expectedSize(o, c)
                        THEN chunk(c).b + lowerUnread(o, c) + i - base(o, c) ELSE b[i]]

\* Mutant: the bytes before the part that is wanted are not skipped.
WriteUnskipped(o, c, b, current, first, n) ==
    LET len == expectedSize(o, c)
        off == lowerUnread(o, c)
        destBase == positive(current - off)
        pBegin == 0
        pEnd == Lower(positive(off + len - current), n)
    IN IF destBase > len \/ pBegin >= n THEN b
       ELSE [i \in DOMAIN b |->
               LET j == i - base(o, c) - destBase IN
               IF 0 <= j /\ j < Lower(pEnd - pBegin, len - destBase)
               THEN first + pBegin + j ELSE b[i]]

\* bytesWriter.Write of n bytes from byte `first' on, into the buffer b.
Write(o, c, b, current, first, n) ==
    LET len == expectedSize(o, c)
        off == lowerUnread(o, c)
        destBase == positive(current - off)
        pBegin == positive(off - current)
        pEnd == Lower(positive(off + len - current), n)
    IN IF destBase > len \/ pBegin >= n THEN b
       ELSE [i \in DOMAIN b |->
               LET j == i - base(o, c) - destBase IN
               IF 0 <= j /\ j < Lower(pEnd - pBegin, len - destBase)
               THEN first + pBegin + j ELSE b[i]]

\* io.CopyN of the whole chunk, piece by piece; done bytes have been written.
RECURSIVE CopyFrom(_, _, _, _, _)
CopyFrom(o, c, b, current, done) ==
    LET n == Lower(Piece, Size(chunk(c)) - done) IN
    IF n = 0 THEN b
    ELSE CopyFrom(o, c, Write(o, c, b, current, chunk(c).b + done, n), current + n, done + n)

CopyN(o, c, b, current) == IF o.discard THEN b ELSE CopyFrom(o, c, b, current, 0)

-----------------------------------------------------------------------------

Init ==
    /\ fetcher = 1 /\ single = FALSE /\ cache = {} /\ fetchedRegionSet = <<>>
    /\ closed = FALSE /\ refreshing = FALSE /\ lost = 0
    /\ pc = [p \in Procs |-> "idle"]
    /\ op = [p \in Procs |-> None]
    /\ fr = [p \in Procs |-> 1]
    /\ next = [p \in Procs |-> 0]
    /\ allData = [p \in Procs |-> {}]
    /\ cur = [p \in Procs |-> [c \in BlobChunks |-> 0]]
    /\ buf = [p \in Procs |-> <<>>]
    /\ flight = [p \in Procs |-> None]
    /\ parts = [p \in Procs |-> <<>>]
    /\ fetched = [p \in Procs |-> {}]
    /\ copied = [p \in Procs |-> {}]

To(p, s) == pc' = [pc EXCEPT ![p] = s]

Begin(p, o, s) ==
    /\ pc[p] = "idle"
    /\ op' = [op EXCEPT ![p] = o]
    /\ buf' = [buf EXCEPT ![p] = [i \in 0 .. o.len - 1 |-> None]]
    /\ fr' = [fr EXCEPT ![p] = fetcher]
    /\ next' = [next EXCEPT ![p] = o.off \div chunkSize]
    /\ To(p, s)
    /\ UNCHANGED <<blobVars, allData, cur, flight, parts, fetched, copied>>

\* ReadAt: nothing is read behind the end of the blob.
ReadAt(p, offset, len) ==
    Begin(p, [off |-> offset, len |-> len, discard |-> FALSE],
          IF closed THEN "err" ELSE IF len = 0 \/ offset > size THEN "ok" ELSE "lookup")

Cache(p, offset, len) ==
    Begin(p, [off |-> offset, len |-> len, discard |-> TRUE],
          IF closed THEN "err" ELSE "lookup")

Hit(p, c) == ~closed /\ <<fr[p], c>> \in cache

Miss(p, c) == allData' = IF Hit(p, c) THEN allData ELSE [allData EXCEPT ![p] = @ \cup {c}]

\* prepareChunksForRead: the next chunk is read from the cache or missed.
Lookup(p) ==
    LET c == next[p] IN
    /\ pc[p] = "lookup" /\ c \in Walk(op[p]) /\ ~op[p].discard
    /\ next' = [next EXCEPT ![p] = c + 1]
    /\ buf' = IF Hit(p, c) THEN [buf EXCEPT ![p] = FromCache(op[p], c, @)] ELSE buf
    /\ Miss(p, c)
    /\ UNCHANGED <<blobVars, pc, op, fr, cur, flight, parts, fetched, copied>>

\* cacheAt: the next chunk is in the cache or missed.
CacheAt(p) ==
    LET c == next[p] IN
    /\ pc[p] = "lookup" /\ c \in Walk(op[p]) /\ op[p].discard
    /\ next' = [next EXCEPT ![p] = c + 1]
    /\ Miss(p, c)
    /\ UNCHANGED <<blobVars, pc, op, fr, cur, buf, flight, parts, fetched, copied>>

\* fetchRange: nothing to fetch, join the call for the same chunks, or lead one.
FetchRange(p) ==
    LET leaders == {q \in Procs : flight[q] = q /\ allData[q] = allData[p]} IN
    /\ pc[p] = "fetchRange" \/ (pc[p] = "lookup" /\ next[p] \notin Walk(op[p]))
    /\ \/ allData[p] = {} /\ To(p, "ok") /\ UNCHANGED <<flight, fetched>>
       \/ /\ allData[p] # {} /\ leaders # {}
          /\ \E q \in leaders : flight' = [flight EXCEPT ![p] = q]
          /\ To(p, "follow")
          /\ fetched' = [fetched EXCEPT ![p] = {}]
       \/ /\ allData[p] # {} /\ leaders = {}
          /\ flight' = [flight EXCEPT ![p] = p]
          /\ To(p, "request")
          /\ fetched' = [fetched EXCEPT ![p] = {}]
    /\ UNCHANGED <<blobVars, op, fr, next, allData, cur, buf, parts, copied>>

\* The regions that fetch asks for: squashed, in single range mode into one.
Requests(S, one) ==
    LET rs == FoldSeq(LAMBDA c, acc : add(acc, chunk(c)), <<>>, SetToSeq(S)) IN
    IF one THEN <<superRegion(rs)>> ELSE rs

\* The chunks of a response with these regions, in order.
ChunksIn(rs) == SetToSortSeq({c \in BlobChunks : chunk(c).b \in Bytes(rs)}, <)

\* A server that does not support several ranges answers 400; the one retry
\* asks for a single range, and so do all later requests.
SingleRangeModes == {single, TRUE}

\* fetch of the leader, with the current fetcher: 206 with the regions asked
\* for or 200 with the whole blob.
Request(p) ==
    /\ pc[p] = "request"
    /\ fr' = [fr EXCEPT ![p] = fetcher]
    /\ \E one \in SingleRangeModes :
         /\ single' = one
         /\ \E rs \in {Requests(allData[p], one), <<[b |-> 0, e |-> size - 1]>>} :
              parts' = [parts EXCEPT ![p] = ChunksIn(rs)]
    /\ To(p, "receive")
    /\ UNCHANGED <<fetcher, cache, fetchedRegionSet, closed, refreshing, lost, op, next, allData, cur,
                   buf, flight, fetched, copied>>

\* cacheChunkData: the next chunk goes to the cache, and to the buffer if it
\* was asked for.
Receive(p) ==
    LET c == Head(parts[p]) IN
    /\ pc[p] = "receive" /\ parts[p] # <<>> /\ ~closed
    /\ cache' = cache \cup {<<fr[p], c>>}
    /\ fetchedRegionSet' = add(fetchedRegionSet, chunk(c))
    /\ fetched' = [fetched EXCEPT ![p] = @ \cup {c}]
    /\ buf' = IF c \in allData[p]
              THEN [buf EXCEPT ![p] = CopyN(op[p], c, @, cur[p][c])] ELSE buf
    /\ cur' = IF c \in allData[p]
              THEN [cur EXCEPT ![p][c] = @ + Size(chunk(c))] ELSE cur
    /\ parts' = [parts EXCEPT ![p] = Tail(@)]
    /\ UNCHANGED <<pc, fetcher, single, closed, refreshing, lost, op, fr, next, allData, flight, copied>>

\* The members of the leader's call.
Members(p) == {q \in Procs : flight[q] = p}

\* singleflight hands the result to everybody: the leader is done, the others
\* still have to copy the chunks.
Return(p, err) ==
    /\ pc' = [q \in Procs |-> IF q \notin Members(p) THEN pc[q]
                              ELSE IF err THEN "err"
                              ELSE IF q = p THEN "ok" ELSE "copy"]
    /\ flight' = [q \in Procs |-> IF q \in Members(p) THEN None ELSE flight[q]]
    /\ copied' = [q \in Procs |-> IF q \in Members(p) THEN {} ELSE copied[q]]

\* The request fails, the response breaks off, is short or ends in garbage, or
\* the cache is closed.
FetchFails(p) ==
    /\ pc[p] \in {"request", "receive"}
    /\ Return(p, TRUE)
    /\ UNCHANGED <<blobVars, op, fr, next, allData, cur, buf, parts, fetched>>

\* The end of the response: all chunks have been fetched.
FetchDone(p) ==
    /\ pc[p] = "receive" /\ parts[p] = <<>> /\ allData[p] \subseteq fetched[p]
    /\ Return(p, FALSE)
    /\ UNCHANGED <<blobVars, op, fr, next, allData, cur, buf, parts, fetched>>

\* handleSharedFetch copies a chunk that the leader has cached, with the id of
\* the fetcher of now; a chunk that is not there sends everything to the
\* registry again, with the same writers.  The copy of a chunk that is there
\* succeeds: an I/O error halfway through it is not modelled.
CopyChunk(p, c) ==
    /\ pc[p] = "copy" /\ c \in allData[p] \ copied[p]
    /\ IF ~closed /\ <<fetcher, c>> \in cache
       THEN /\ buf' = [buf EXCEPT ![p] = CopyN(op[p], c, @, cur[p][c])]
            /\ cur' = [cur EXCEPT ![p][c] = @ + Size(chunk(c))]
            /\ copied' = [copied EXCEPT ![p] = @ \cup {c}]
            /\ UNCHANGED pc
       ELSE To(p, "fetchRange") /\ UNCHANGED <<buf, cur, copied>>
    /\ UNCHANGED <<blobVars, op, fr, next, allData, flight, parts, fetched>>

CopyDone(p) ==
    /\ pc[p] = "copy" /\ allData[p] \subseteq copied[p]
    /\ To(p, "ok")
    /\ UNCHANGED <<blobVars, procVars>>

\* A chunk disappears from the cache: its buffer is evicted before the file is
\* written.
Lose(k) ==
    /\ k \in cache /\ lost < MaxLost
    /\ lost' = lost + 1
    /\ cache' = cache \ {k}
    /\ UNCHANGED <<fetcher, single, fetchedRegionSet, closed, refreshing, pc, procVars>>

\* Refresh tests closed before it asks the registry for a new fetcher ...
Refresh ==
    /\ ~closed /\ ~refreshing /\ fetcher <= MaxRefresh
    /\ refreshing' = TRUE
    /\ UNCHANGED <<fetcher, single, cache, fetchedRegionSet, closed, lost, pc, procVars>>

\* ... which may be for another mirror, and may arrive after Close.
Refreshed ==
    /\ refreshing
    /\ refreshing' = FALSE
    /\ \/ fetcher' = fetcher + 1 /\ single' = FALSE
       \/ UNCHANGED <<fetcher, single>>   \* an error, or another size
    /\ UNCHANGED <<cache, fetchedRegionSet, closed, lost, pc, procVars>>

Close ==
    /\ ~closed
    /\ closed' = TRUE
    /\ UNCHANGED <<fetcher, single, cache, fetchedRegionSet, refreshing, lost, pc, procVars>>

Next ==
    \/ \E p \in Procs :
         \/ \E off \in Offsets, len \in Lengths : ReadAt(p, off, len) \/ Cache(p, off, len)
         \/ Lookup(p) \/ CacheAt(p) \/ FetchRange(p) \/ Request(p) \/ Receive(p) \/ FetchFails(p)
         \/ FetchDone(p) \/ (\E c \in BlobChunks : CopyChunk(p, c)) \/ CopyDone(p)
    \/ \E k \in cache : Lose(k)
    \/ Refresh \/ Refreshed \/ Close

Spec == Init /\ [][Next]_vars

-----------------------------------------------------------------------------
(* Properties. *)

\* A successful ReadAt has filled the buffer with the bytes it was asked for,
\* up to the end of the blob: whether they came from the cache, from its own
\* response or from somebody else's, and after a retry because a chunk was
\* missing from the cache.
ReadIsExact ==
    \A p \in Procs : pc[p] = "ok" /\ ~op[p].discard =>
        \A i \in DOMAIN buf[p] : op[p].off + i < size => buf[p][i] = op[p].off + i

\* fetchedRegionSet is exactly what has been fetched, in whatever order the
\* chunks arrived: sorted, disjoint and squashed, and its size, which is
\* what FetchedSize reports, never exceeds the size of the blob.
FetchedRegionsAreExact ==
    /\ Normal(fetchedRegionSet)
    /\ totalSize(fetchedRegionSet) = Cardinality(Bytes(fetchedRegionSet))
    /\ Bytes(fetchedRegionSet) \subseteq 0 .. size - 1
    /\ UNION {chunk(k[2]).b .. chunk(k[2]).e : k \in cache} \subseteq Bytes(fetchedRegionSet)

\* When FetchedSize says that the blob is complete, which makes fs.Check skip
\* the registry, every byte is in the cache, unless a chunk got lost from it:
\* under the id of the present fetcher or of one that Refresh has replaced.
CompleteIsCached ==
    totalSize(fetchedRegionSet) = size /\ lost = 0 =>
        \A c \in BlobChunks : \E f \in 1 .. fetcher : <<f, c>> \in cache

\* The slice of the caller's buffer that prepareChunksForRead takes for a
\* chunk is within the buffer: a read of any offset does not panic.
SlicesInBounds ==
    \A p \in Procs : pc[p] = "lookup" /\ ~op[p].discard /\ next[p] \in Walk(op[p]) =>
        /\ expectedSize(op[p], next[p]) >= 0
        /\ base(op[p], next[p]) + expectedSize(op[p], next[p]) <= op[p].len
=============================================================================
