----------------------------- MODULE Passthrough -----------------------------
(***************************************************************************)
(* The passthrough mode of a file (fs/reader/reader.go, node.Open in       *)
(* fs/layer/node.go): opening it merges its chunks, from the cache or from *)
(* the blob, into one file of the cache whose descriptor the kernel reads. *)
(* Workers fill a buffer with the chunks of a batch; a chunk larger than   *)
(* the buffer makes the chunks be written one by one.                      *)
(*                                                                         *)
(* Byte o of the file is the number o; a byte that was tampered with is    *)
(* Bad, and one that was not read is Zero.                                 *)
(***************************************************************************)
EXTENDS Integers, Sequences, FiniteSets, SequencesExt

CONSTANTS
    Files,        \* the sizes of the chunks of the files
    BufferSizes,  \* the values of mergeBufferSize
    Workers       \* mergeWorkerCount

PassthroughAssumption ==
    /\ Files \subseteq Seq(Nat \ {0}) /\ BufferSizes \subseteq Nat \ {0} /\ Workers \in Nat \ {0}

Zero == -1
Bad == -2

VARIABLES
    sizes, bufferSize, verify,
    tampered,       \* the chunks that are not what the TOC says
    cached,         \* the chunks in the cache
    enable,         \* passThrough.enable
    pc,             \* the open of the file
    next,           \* the next batch, or the next chunk
    buffer, infos,  \* of the batch: the bytes and [offset, size] of the reads
    worker,         \* worker -> its next chunk of the batch; 0: done, -1: failed
    out,            \* what has been written to the file of the cache
    entire          \* the committed files

fileVars == <<sizes, bufferSize, verify, tampered>>
mergeVars == <<next, buffer, infos, worker, out>>
vars == <<fileVars, cached, enable, pc, mergeVars, entire>>

W == 1 .. Workers
FileChunks == DOMAIN sizes
Total(s) == FoldLeft(+, 0, s)
TotalSize == Total(sizes)
Offset(i) == Total(SubSeq(sizes, 1, i - 1))

NoBatch == /\ buffer' = <<>> /\ infos' = {} /\ worker' = [w \in W |-> 0]

Init ==
    /\ sizes \in Files /\ bufferSize \in BufferSizes /\ verify \in BOOLEAN
    /\ \E bad \in SUBSET FileChunks : Cardinality(bad) <= 1 /\ tampered = bad
    /\ cached = {} /\ enable = TRUE /\ pc = "idle"
    /\ next = 0 /\ buffer = <<>> /\ infos = {} /\ worker = [w \in W |-> 0] /\ out = <<>>
    /\ entire = {}

\* What a read of the chunk returns, from the cache or from the blob.
Bytes(i) == [k \in 1 .. sizes[i] |-> IF i \in tampered THEN Bad ELSE Offset(i) + k - 1]

-----------------------------------------------------------------------------
\* node.Open: GetPassthroughFd takes the merged file or makes it.
Open ==
    /\ pc = "idle" /\ enable
    /\ pc' = IF entire # {} THEN "idle"
             ELSE IF \E i \in FileChunks : sizes[i] > bufferSize THEN "sequential" ELSE "batch"
    /\ next' = 0 /\ out' = <<>> /\ NoBatch
    /\ UNCHANGED <<fileVars, cached, enable, entire>>

\* The write is aborted, and the mode is left.
Abort ==
    /\ pc' = "idle" /\ enable' = FALSE
    /\ next' = 0 /\ out' = <<>> /\ NoBatch
    /\ UNCHANGED <<fileVars, cached, entire>>

Commit ==
    /\ pc' = "idle" /\ entire' = entire \cup {out}
    /\ next' = 0 /\ out' = <<>> /\ NoBatch
    /\ UNCHANGED <<fileVars, cached, enable>>

\* verifyOneChunk, for what was read from the blob.
Verified(i) == ~verify \/ i \notin tampered

\* prefetchEntireFileSequential, a chunk at a time; what a short read leaves out is
\* only noticed by verification.
Sequential ==
    /\ pc = "sequential"
    /\ IF next = Len(sizes) THEN Commit
       ELSE \/ /\ next + 1 \in cached \/ Verified(next + 1)
               /\ \/ out' = out \o Bytes(next + 1)
                  \/ /\ next + 1 \notin cached /\ ~verify
                     /\ out' = out \o [k \in 1 .. sizes[next + 1] |-> Zero]
               /\ next' = next + 1
               /\ UNCHANGED <<fileVars, cached, enable, pc, buffer, infos, worker, entire>>
            \/ next + 1 \notin cached /\ Abort

-----------------------------------------------------------------------------
(* prefetchEntireFile *)

BatchCount == (TotalSize + bufferSize - 1) \div bufferSize
BatchStart == next * bufferSize
BatchEnd == IF (next + 1) * bufferSize > TotalSize THEN TotalSize ELSE (next + 1) * bufferSize

\* The chunks that overlap the batch, in order, and their places in the buffer.
BatchChunks == SelectSeq([i \in FileChunks |-> i], LAMBDA i : Offset(i) + sizes[i] > BatchStart /\ Offset(i) < BatchEnd)
BufferPos(j) == Total([k \in 1 .. (j - 1) |-> sizes[BatchChunks[k]]])

\* Mutant: the last batch is forgotten when the buffer does not divide the file.
StartBatchRounded ==
    /\ pc = "batch"
    /\ IF next = TotalSize \div bufferSize THEN Commit
       ELSE /\ pc' = "merge"
            /\ buffer' = [k \in 1 .. (BatchEnd - BatchStart) |-> Zero]
            /\ infos' = {}
            /\ worker' = [w \in W |-> IF w <= Len(BatchChunks) THEN w ELSE 0]
            /\ UNCHANGED <<fileVars, cached, enable, next, out, entire>>

StartBatch ==
    /\ pc = "batch"
    /\ IF next = BatchCount THEN Commit
       ELSE /\ pc' = "merge"
            /\ buffer' = [k \in 1 .. (BatchEnd - BatchStart) |-> Zero]
            /\ infos' = {}
            /\ worker' = [w \in W |-> IF w <= Len(BatchChunks) THEN w ELSE 0]
            /\ UNCHANGED <<fileVars, cached, enable, next, out, entire>>

\* A chunk of the worker: n bytes of it reach the buffer.
Fill(w, j, n) ==
    LET i == BatchChunks[j] pos == BufferPos(j) IN
    /\ buffer' = [k \in DOMAIN buffer |-> IF k \in (pos + 1) .. (pos + n) THEN Bytes(i)[k - pos] ELSE buffer[k]]
    /\ infos' = infos \cup {[offset |-> pos, size |-> n]}
    /\ worker' = [worker EXCEPT ![w] = IF j + Workers > Len(BatchChunks) THEN 0 ELSE j + Workers]

\* processBatchChunks.  The slice of the buffer is taken first.  A chunk that was not
\* read to its end verifies only when verification is off.
ProcessChunk(w) ==
    /\ pc = "merge" /\ worker[w] > 0
    /\ LET j == worker[w] i == BatchChunks[j] IN
       IF BufferPos(j) + sizes[i] > Len(buffer)
       THEN pc' = "panic" /\ UNCHANGED <<buffer, infos, worker>>
       ELSE /\ UNCHANGED pc
            /\ IF i \in cached THEN Fill(w, j, sizes[i])
               ELSE \/ Verified(i) /\ Fill(w, j, sizes[i])
                    \/ ~verify /\ \E n \in 0 .. (sizes[i] - 1) : Fill(w, j, n)
                    \/ worker' = [worker EXCEPT ![w] = -1] /\ UNCHANGED <<buffer, infos>>
    /\ UNCHANGED <<fileVars, cached, enable, next, out, entire>>

\* The reads, in the order of their offsets, leave no hole and end with the batch.
checkHoles ==
    LET s == SetToSortSeq(infos, LAMBDA q, r : q.offset < r.offset)
        End(k) == s[k].offset + s[k].size
    IN s = <<>> \/ /\ \A k \in 1 .. (Len(s) - 1) : s[k + 1].offset = End(k)
                   /\ End(Len(s)) = Len(buffer)

EndBatch ==
    /\ pc = "merge" /\ \A w \in W : worker[w] <= 0
    /\ IF (\E w \in W : worker[w] = -1) \/ ~checkHoles THEN Abort
       ELSE /\ out' = out \o buffer /\ next' = next + 1 /\ pc' = "batch"
            /\ NoBatch
            /\ UNCHANGED <<fileVars, cached, enable, entire>>

-----------------------------------------------------------------------------
\* Another reader of the file caches a chunk.
CacheChunk(i) ==
    /\ i \notin cached /\ Verified(i)
    /\ cached' = cached \cup {i}
    /\ UNCHANGED <<fileVars, enable, pc, mergeVars, entire>>

Next ==
    \/ Open \/ Sequential \/ StartBatch \/ EndBatch
    \/ \E w \in W : ProcessChunk(w)
    \/ \E i \in FileChunks : CacheChunk(i)

Spec == Init /\ [][Next]_vars

-----------------------------------------------------------------------------
(* Properties. *)

\* A merged file is the file: every byte in its place, none missing after a short
\* read, a failed worker or a last batch that is not full, and none that did not
\* verify (GetPassthroughFd).  Without verification the blob is taken as it is, and the
\* sequential merge takes over what a short read leaves in its buffer.
EntireFileIsExact ==
    \A f \in entire :
        /\ Len(f) = TotalSize
        /\ \A k \in DOMAIN f :
             f[k] = k - 1 \/ (~verify /\ (f[k] = Bad \/ \E i \in FileChunks : sizes[i] > bufferSize))

\* reader.go:520: the check of the chunk sizes is there "to avoid bounds out of range".
MergeStaysInBounds == pc # "panic"
=============================================================================
