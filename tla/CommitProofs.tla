---------------------------- MODULE CommitProofs ----------------------------
(***************************************************************************)
(* Proofs about what writers commit: Converter to the content store,       *)
(* DirectoryCache to the directory of a cache; and about the streams of    *)
(* the container that the analyzer runs, AnalyzerIO.                       *)
(*                                                                         *)
(* Converter, for any numbers of conversions, layers and parts: a          *)
(* conversion fails only for an error of its own, and a descriptor tells   *)
(* the truth.  Both rest on one invariant.  Whoever is between OpenWriter  *)
(* and Commit holds the lock of its layer's writer, so from Truncate on    *)
(* the writer has the parts that this conversion copied and nothing else;  *)
(* and a count that has ended is the count of all of them.                 *)
(*                                                                         *)
(* DirectoryCache, for any numbers of clients, chunks, buffers and files   *)
(* and any sizes of its two caches: a reader reads its chunk until it is   *)
(* closed, no descriptor leaks, and a committed file is a whole chunk.     *)
(* The invariant tells what is shared (the buffers and files of the        *)
(* caches, and those that somebody refers to: they have the whole chunk    *)
(* and stay out of the pool, or open) from what is one client's own (the   *)
(* buffer of a writer, the file that a reader has opened).                 *)
(*                                                                         *)
(* AnalyzerIO: the closer is set before the reader of stdin gets past the  *)
(* flag or the wait, for any number of reads.                              *)
(***************************************************************************)
EXTENDS Converter, DirectoryCache, AnalyzerIO, TLAPS

-----------------------------------------------------------------------------
(* The converter. *)

\* Leaves go to SMT, unless they name another prover.
USE SMTT(60)

Pcs == {"idle", "build", "open", "truncate", "copy", "count", "commit", "describe", "toc", "record", "done", "failed"}

TypeOK ==
    /\ kind \in {"estargz", "lossless", "zstd"} /\ external \in BOOLEAN
    /\ job \in [Jobs -> [layer : Layers \cup {NoLayer}, pc : Pcs, n : Nat, fault : BOOLEAN]]
    /\ counter \in [Jobs -> [st : {"off", "run", "failed", "done", "read"}, n : Nat]]
    /\ lock \in [Layers -> Jobs \cup {NoJob}]
    /\ data \in [Layers -> Nat]
    /\ store \subseteq Layers

\* The conversions that have a writer open, and those that have begun to write.
Writing(j) == job[j].pc \in {"truncate", "copy", "count", "commit"}
Written(j) == job[j].pc \in {"copy", "count", "commit"}

\* A conversion that is under way has a layer, and has copied nothing at its start.
JobInv ==
    \A j \in Jobs :
        /\ job[j].pc # "idle" => job[j].layer \in Layers
        /\ job[j].pc \in {"build", "open", "truncate"} => job[j].n = 0
        /\ job[j].n <= Parts
        /\ job[j].pc \in {"count", "commit", "describe"} \/ Described(j) => job[j].n = Parts

\* A writer belongs to one conversion, and has what this one copied.
WriterInv ==
    \A j \in Jobs :
        /\ Writing(j) => lock[job[j].layer] = j
        /\ Written(j) => data[job[j].layer] = job[j].n

\* The count follows the copy, and is complete when it has ended well.
CountInv ==
    \A j \in Jobs :
        /\ counter[j].st = "done" => counter[j].n = Parts
        /\ job[j].pc \in {"copy", "count"} => counter[j].st \in {"run", "failed", "done"}
        /\ counter[j].st = "done" => job[j].pc \in {"count", "commit", "describe", "failed"}
        /\ kind # "zstd" /\ (job[j].pc \in {"commit", "describe"}) => counter[j].st \in {"done", "failed"}

\* What has been described was committed and counted.
DescribeInv ==
    \A j \in Jobs :
        /\ job[j].pc = "describe" \/ Described(j) => job[j].layer \in store
        /\ Described(j) => counter[j].st \in {"read", "failed"}
        /\ Described(j) /\ kind # "zstd" => counter[j].n = Parts \/ counter[j].st = "failed"

\* The inductive invariant.
IInv == TypeOK /\ JobInv /\ WriterInv /\ CountInv /\ DescribeInv /\ ConversionRecovers

-----------------------------------------------------------------------------
\* It holds initially, when no conversion has begun.
LEMMA Start == ASSUME ConverterAssumption PROVE Init => IInv
  BY DEF Init, IInv, TypeOK, Pcs, JobInv, WriterInv, Writing, Written, CountInv, DescribeInv, Described,
         ConversionRecovers, At, Idle, Off, ConverterAssumption

\* A conversion that fails for an error of its own gives up its writer, and no other.
LEMMA Failing ==
    ASSUME ConverterAssumption, IInv, NEW j \in Jobs, ~At(j, "idle"), Fail(j, TRUE),
           UNCHANGED <<kind, external, counter, data, store>>
    PROVE  IInv'
  BY DEF IInv, TypeOK, Pcs, JobInv, WriterInv, Writing, Written, CountInv, DescribeInv, Described,
         ConversionRecovers, At, ConverterAssumption, Fail

\* Each step of a conversion, of its counter or of the image keeps the invariant.
LEMMA Step == ASSUME ConverterAssumption, IInv, [Next]_vars PROVE IInv'
  <1> USE DEF IInv, TypeOK, Pcs, JobInv, WriterInv, Writing, Written, CountInv, DescribeInv, Described,
              ConversionRecovers, At, ConverterAssumption, jobVars, zstdVars, storeVars, tocVars
  <1>1. ASSUME NEW j \in Jobs, NEW l \in Layers, LayerConvert(j, l) PROVE IInv'
    BY <1>1 DEF LayerConvert, AppendCompressor
  <1>2. ASSUME NEW j \in Jobs, Build(j) PROVE IInv'
    <2>1. CASE GoTo(j, "open") /\ UNCHANGED lock
      BY <1>2, <2>1 DEF Build, GoTo
    <2>2. CASE Fail(j, TRUE)
      BY <1>2, <2>2, Failing, ZenonT(60) DEF Build
    <2>. QED BY <1>2, <2>1, <2>2, ZenonT(60) DEF Build
  <1>3. ASSUME NEW j \in Jobs, OpenWriter(j) PROVE IInv'
    BY <1>3 DEF OpenWriter, GoTo
  <1>4. ASSUME NEW j \in Jobs, Truncate(j) PROVE IInv'
    BY <1>4 DEF Truncate, GoTo
  <1>5. ASSUME NEW j \in Jobs, Copy(j) PROVE IInv'
    <2>1. CASE Fail(j, TRUE) /\ UNCHANGED data
      BY <1>5, <2>1, Failing, ZenonT(60) DEF Copy
    <2>2. CASE /\ counter[j].st = "run"
               /\ job' = [job EXCEPT ![j] = [job[j] EXCEPT !.n = @ + 1]]
               /\ data' = [data EXCEPT ![job[j].layer] = @ + 1]
               /\ UNCHANGED lock
      <3>1. UNCHANGED <<kind, external, counter, store>> /\ job[j].pc = "copy" /\ job[j].n < Parts
        BY <1>5 DEF Copy
      <3>. QED BY <2>2, <3>1
    <2>. QED BY <1>5, <2>1, <2>2, ZenonT(60) DEF Copy
  <1>6. ASSUME NEW j \in Jobs, Count(j) PROVE IInv'
    BY <1>6 DEF Count
  <1>7. ASSUME NEW j \in Jobs, CountFails(j) PROVE IInv'
    BY <1>7 DEF CountFails
  <1>8. ASSUME NEW j \in Jobs, CountEnds(j) PROVE IInv'
    BY <1>8 DEF CountEnds
  <1>9. ASSUME NEW j \in Jobs, ClosePipe(j) PROVE IInv'
    BY <1>9 DEF ClosePipe, GoTo
  <1>10. ASSUME NEW j \in Jobs, WaitCount(j) PROVE IInv'
    BY <1>10 DEF WaitCount, GoTo
  <1>11. ASSUME NEW j \in Jobs, CompareCounts(j) PROVE IInv'
    <2>1. CASE counter[j].st = "failed" /\ Fail(j, TRUE)
      BY <1>11, <2>1, Failing, ZenonT(60) DEF CompareCounts
    <2>2. CASE counter[j].st = "done" /\ GoTo(j, "commit") /\ UNCHANGED lock
      <3>1. UNCHANGED <<kind, external, counter, data, store>> /\ job[j].pc = "count"
        BY <1>11 DEF CompareCounts
      <3>. QED BY <2>2, <3>1 DEF GoTo
    <2>. QED BY <1>11, <2>1, <2>2, ZenonT(60) DEF CompareCounts
  <1>12. ASSUME NEW j \in Jobs, Commit(j) PROVE IInv'
    <2>1. data[job[j].layer] = job[j].n /\ job[j].pc = "commit" /\ UNCHANGED <<kind, external, counter>>
      BY <1>12 DEF Commit
    <2>2. /\ store' = store \cup {job[j].layer} /\ data' = [data EXCEPT ![job[j].layer] = 0]
          /\ lock' = [lock EXCEPT ![job[j].layer] = NoJob]
          /\ job' = [job EXCEPT ![j] = [job[j] EXCEPT !.pc = "describe"]]
      BY <1>12, <2>1 DEF Commit, GoTo
    <2>. QED BY <2>1, <2>2
  <1>13. ASSUME NEW j \in Jobs, Describe(j) PROVE IInv'
    BY <1>13 DEF Describe, GoTo
  <1>14. ASSUME NEW j \in Jobs, writeTOCTo(j) PROVE IInv'
    <2>1. CASE GoTo(j, "record") /\ UNCHANGED lock
      BY <1>14, <2>1 DEF writeTOCTo, GoTo
    <2>2. CASE Fail(j, TRUE)
      BY <1>14, <2>2, Failing, ZenonT(60) DEF writeTOCTo
    <2>. QED BY <1>14, <2>1, <2>2, ZenonT(60) DEF writeTOCTo
  <1>15. ASSUME NEW j \in Jobs, RecordTOC(j) PROVE IInv'
    BY <1>15 DEF RecordTOC, GoTo
  <1>16. CASE Finalize
    BY <1>16 DEF Finalize
  <1>17. CASE Interrupt
    BY <1>17 DEF Interrupt, Idle, Off
  <1>18. CASE UNCHANGED vars
    BY <1>18 DEF vars
  <1>. QED BY <1>1, <1>2, <1>3, <1>4, <1>5, <1>6, <1>7, <1>8, <1>9, <1>10, <1>11, <1>12, <1>13, <1>14, <1>15, <1>16, <1>17, <1>18, ZenonT(60) DEF Next

\* A conversion fails only for an error of its own, whatever killed conversions left in
\* the writers and however many conversions of equal layers run at once.
THEOREM Recovers == ASSUME ConverterAssumption PROVE Spec => []ConversionRecovers
  <1>1. IInv => ConversionRecovers
    BY DEF IInv
  <1>. QED BY <1>1, Start, Step, PTL DEF Spec

\* A descriptor names a committed layer and, of an eStargz layer, its whole size.
THEOREM Truthful == ASSUME ConverterAssumption PROVE Spec => []DescriptorIsTrue
  <1>1. IInv => DescriptorIsTrue
    BY DEF IInv, DescribeInv, DescriptorIsTrue
  <1>. QED BY <1>1, Start, Step, PTL DEF Spec

-----------------------------------------------------------------------------
(* The image of the TOCs. *)

\* While no two goroutines have written to the map at once, it has the TOC of every
\* conversion that is done; finalize takes it when all are, and none begins afterwards.
TOCInv ==
    /\ external /\ ~raced => \A j \in Jobs : At(j, "done") => job[j].layer \in tocs
    /\ image # {} => external /\ image = tocs /\ \A j \in Jobs : At(j, "done")

\* Until a conversion is done it touches neither the map nor the image.
LEMMA TOCIdle ==
    ASSUME TypeOK, TOCInv, NEW j \in Jobs, NEW r, ~At(j, "done"), r.pc # "done" \/ ~external,
           job' = [job EXCEPT ![j] = r], UNCHANGED <<external, tocs, image>>, raced => raced'
    PROVE  TOCInv'
  BY DEF TypeOK, TOCInv, At

\* Each step keeps it.
LEMMA TOCStep == ASSUME IInv, TOCInv, [Next]_vars PROVE TOCInv'
  <1> USE DEF IInv, jobVars, tocVars
  <1>1. ASSUME NEW j \in Jobs, NEW l \in Layers, LayerConvert(j, l) PROVE TOCInv'
    BY <1>1, TOCIdle, ZenonT(60) DEF LayerConvert, At
  <1>2. ASSUME NEW j \in Jobs, Fail(j, TRUE) \/ Fail(j, FALSE), ~At(j, "done"),
               UNCHANGED <<external, tocVars>>
        PROVE  TOCInv'
    BY <1>2, TOCIdle, ZenonT(60) DEF Fail
  <1>3. ASSUME NEW j \in Jobs, NEW p, GoTo(j, p), ~At(j, "done"), p # "done" \/ ~external,
               UNCHANGED <<external, tocs, image>>, raced => raced'
        PROVE  TOCInv'
    BY <1>3, TOCIdle, ZenonT(60) DEF GoTo, TypeOK
  <1>4. ASSUME NEW j \in Jobs, Build(j) PROVE TOCInv'
    BY <1>4, <1>2, <1>3, ZenonT(60) DEF Build, At
  <1>5. ASSUME NEW j \in Jobs, OpenWriter(j) \/ Truncate(j) \/ ClosePipe(j) \/ WaitCount(j) PROVE TOCInv'
    <2>1. PICK p : GoTo(j, p) /\ p # "done"
      BY <1>5 DEF OpenWriter, Truncate, ClosePipe, WaitCount
    <2>. QED BY <1>5, <2>1, <1>3 DEF OpenWriter, Truncate, ClosePipe, WaitCount, At
  <1>6. ASSUME NEW j \in Jobs, Copy(j) PROVE TOCInv'
    <2>1. CASE Fail(j, TRUE)
      BY <1>6, <2>1, <1>2, ZenonT(60) DEF Copy, At
    <2>2. CASE job' = [job EXCEPT ![j] = [job[j] EXCEPT !.n = @ + 1]]
      BY <1>6, <2>2, TOCIdle, ZenonT(60) DEF Copy, At, TypeOK
    <2>. QED BY <1>6, <2>1, <2>2, ZenonT(60) DEF Copy
  <1>7. ASSUME NEW j \in Jobs, Count(j) \/ CountFails(j) \/ CountEnds(j) PROVE TOCInv'
    BY <1>7 DEF Count, CountFails, CountEnds, TOCInv, At
  <1>8. ASSUME NEW j \in Jobs, CompareCounts(j) PROVE TOCInv'
    BY <1>8, <1>2, <1>3, ZenonT(60) DEF CompareCounts, At
  <1>9. ASSUME NEW j \in Jobs, Commit(j) PROVE TOCInv'
    BY <1>9, <1>2, <1>3, ZenonT(60) DEF Commit, At
  <1>10. ASSUME NEW j \in Jobs, Describe(j) PROVE TOCInv'
    BY <1>10, <1>3 DEF Describe, At
  <1>11. ASSUME NEW j \in Jobs, writeTOCTo(j) PROVE TOCInv'
    <2>1. CASE Fail(j, TRUE) /\ UNCHANGED raced
      BY <1>11, <2>1, <1>2, ZenonT(60) DEF writeTOCTo, At
    <2>2. CASE GoTo(j, "record") /\ (raced => raced')
      BY <1>11, <2>2, <1>3 DEF writeTOCTo, At
    <2>. QED BY <1>11, <2>1, <2>2, ZenonT(60) DEF writeTOCTo
  <1>12. ASSUME NEW j \in Jobs, RecordTOC(j) PROVE TOCInv'
    BY <1>12 DEF RecordTOC, GoTo, TOCInv, At, TypeOK
  <1>13. CASE Finalize
    BY <1>13 DEF Finalize, TOCInv, At
  <1>14. CASE Interrupt
    BY <1>14 DEF Interrupt, Idle, TOCInv, At
  <1>15. CASE UNCHANGED vars
    BY <1>15 DEF vars, TOCInv, At
  <1>. QED BY <1>1, <1>4, <1>5, <1>6, <1>7, <1>8, <1>9, <1>10, <1>11, <1>12, <1>13, <1>14, <1>15 DEF Next

\* Descriptors are true and, unless the unlocked map was written to by two goroutines at
\* once, the image of the TOCs is complete, for any number of layers converted at once.
THEOREM DescriptorsTrue == ASSUME ConverterAssumption PROVE Spec => []DescriptorsAreTrue
  <1>1. Init => TOCInv
    BY DEF Init, Idle, TOCInv, At
  <1>2. IInv /\ TOCInv => DescriptorsAreTrue
    BY DEF IInv, DescribeInv, DescriptorIsTrue, TOCInv, TOCImageIsComplete, DescriptorsAreTrue
  <1>. QED BY <1>1, <1>2, Start, Step, TOCStep, PTL DEF Spec

-----------------------------------------------------------------------------
(* The chunk cache: most steps are first-order. *)

USE ZenonT(60)

Referring == {"readBuf", "fill", "checkClosed", "rename"}
Own == {"readFile", "readDirect", "readPass"}

\* A buffer of the cache, and one that a reader or a commit refers to, is not in the pool
\* and has the whole chunk.  A commit of the file writer alone has no buffer.
SharedBuf(b, k) == b \in Bufs \ pool /\ buf[b] = k

SharedBufs ==
    /\ \A k \in Keys : dataCache[k] # Nil => SharedBuf(dataCache[k], k)
    /\ \A c \in Clients : pc[c] \in Referring =>
           SharedBuf(obj[c], key[c]) \/ (pc[c] = "rename" /\ obj[c] = Nil)

\* The buffer of a writer is that writer's alone.
OwnedBufs ==
    /\ \A c \in Clients : pc[c] = "writeBuf" => obj[c] \in Bufs \ pool /\ ~BufReferred(obj[c])
    /\ \A c, d \in Clients : pc[c] = "writeBuf" /\ pc[d] = "writeBuf" /\ obj[c] = obj[d] => c = d
    /\ \A c \in Clients : pc[c] = "writeFile" => obj[c] = Nil

BufInv == SharedBufs /\ OwnedBufs

\* A file of the cache, and one that a reader refers to, is open and has the chunk.
OpenFor(f, k) == f \in opened /\ content[f] = k

SharedFiles ==
    /\ \A k \in Keys : fds[k] # Nil => OpenFor(fds[k], k)
    /\ \A c \in Clients : pc[c] = "readFd" => OpenFor(obj[c], key[c])

\* A file that a reader has opened is that reader's alone.
OwnedFiles ==
    /\ \A c \in Clients : pc[c] \in Own => OpenFor(obj[c], key[c]) /\ ~FdReferred(obj[c])
    /\ \A c, d \in Clients : pc[c] \in Own /\ pc[d] \in Own /\ obj[c] = obj[d] => c = d

FileInv == SharedFiles /\ OwnedFiles /\ NoDescriptorLeak

\* A temporary file that is about to be renamed has the whole chunk, if Close has left it.
WipIsWhole == \A c \in Clients : pc[c] \in {"checkClosed", "rename"} => wip[c] \in {key[c], Nil}

DCInv == CacheTypeOK /\ BufInv /\ FileInv /\ WipIsWhole /\ CommittedFilesAreWhole

\* The initial states.
LEMMA CacheStarts == CacheInit => DCInv
  <1> SUFFICES ASSUME CacheInit PROVE DCInv
    OBVIOUS
  <1> USE DEF CacheInit, CacheIdle
  <1>1. CacheTypeOK
    <2>1. direct \in BOOLEAN /\ pass \in BOOLEAN
      OBVIOUS
    <2>. QED BY <2>1 DEF CacheTypeOK, Contents, PC
  <1>2. BufInv
    BY DEF BufInv, SharedBufs, OwnedBufs, Referring
  <1>3. FileInv
    BY DEF FileInv, SharedFiles, OwnedFiles, NoDescriptorLeak, Own
  <1>4. WipIsWhole /\ CommittedFilesAreWhole
    BY DEF WipIsWhole, CommittedFilesAreWhole
  <1>. QED BY <1>1, <1>2, <1>3, <1>4 DEF DCInv

\* Only client c moves.
Others(c) == \A d \in Clients \ {c} : pc'[d] = pc[d] /\ obj'[d] = obj[d] /\ key'[d] = key[d]

\* What the buffers see of a step of c that puts the buffers in put back to the pool:
\* one that stays referred to, or was not, is kept; c gives its buffer to the cache or
\* takes one that is referred to.
BufStep(c, put) ==
    /\ Others(c)
    /\ \A b \in Bufs \ (pool \cup put) : BufReferred(b)' \/ ~BufReferred(b) =>
           b \notin pool' /\ buf'[b] = buf[b]
    /\ \A b \in put : ~BufReferred(b)' /\ \A d \in Clients \ {c} : pc[d] = "writeBuf" => obj[d] # b
    /\ \A k \in Keys : \/ dataCache'[k] \in {dataCache[k], Nil}
                       \/ pc[c] = "writeBuf" /\ dataCache'[k] = obj[c] /\ buf[obj[c]] = k
    /\ pc'[c] # "writeBuf"
    /\ pc'[c] = "writeFile" => obj'[c] = Nil
    /\ pc'[c] \in Referring =>
           \/ pc'[c] = "rename" /\ obj'[c] = Nil
           \/ /\ SharedBuf(obj'[c], key'[c])
              /\ BufReferred(obj'[c]) \/ (pc[c] = "writeBuf" /\ obj'[c] = obj[c])

\* Such a step keeps what is said of buffers.
LEMMA BufStepKeeps ==
    ASSUME CacheTypeOK, BufInv, NEW c \in Clients, NEW put, BufStep(c, put)
    PROVE  BufInv'
  <1>1. ASSUME NEW b \in Bufs \ pool, BufReferred(b)'
        PROVE  b \in Bufs \ pool' /\ buf'[b] = buf[b]
    BY <1>1 DEF BufStep
  <1>2. ASSUME NEW k \in Keys, dataCache'[k] # Nil
        PROVE  SharedBuf(dataCache[k], k)'
    <2>1. dataCache'[k] \in Bufs \ pool /\ buf[dataCache'[k]] = k
      <3>1. CASE dataCache'[k] = dataCache[k]
        BY <1>2, <3>1 DEF BufInv, SharedBufs, SharedBuf
      <3>2. CASE pc[c] = "writeBuf" /\ dataCache'[k] = obj[c] /\ buf[obj[c]] = k
        BY <3>2 DEF BufInv, OwnedBufs
      <3>. QED BY <1>2, <3>1, <3>2 DEF BufStep
    <2>2. ASSUME NEW b, b = dataCache'[k] PROVE BufReferred(b)'
      BY <2>2 DEF BufReferred, InCache
    <2>3. ASSUME NEW b, b = dataCache'[k] PROVE b \in Bufs \ pool' /\ buf'[b] = k
      BY <1>1, <2>1, <2>2, <2>3
    <2>. QED BY <2>3, SMTT(60) DEF SharedBuf
  <1>3. ASSUME NEW d \in Clients, pc'[d] \in Referring
        PROVE  SharedBuf(obj[d], key[d])' \/ (pc'[d] = "rename" /\ obj'[d] = Nil)
    <2>1. CASE pc'[d] = "rename" /\ obj'[d] = Nil
      BY <2>1
    <2>2. CASE ~(pc'[d] = "rename" /\ obj'[d] = Nil)
      <3>1. SharedBuf(obj'[d], key'[d])
        <4>1. CASE d = c
          BY <1>3, <2>2, <4>1 DEF BufStep
        <4>2. CASE d # c
          BY <1>3, <2>2, <4>2 DEF BufStep, Others, BufInv, SharedBufs
        <4>. QED BY <4>1, <4>2
      <3>2. ASSUME NEW b, b = obj'[d] PROVE BufReferred(b)'
        BY <1>3, <3>2 DEF BufReferred, Referring
      <3>3. ASSUME NEW b, b = obj'[d] PROVE b \in Bufs \ pool' /\ buf'[b] = key'[d]
        BY <1>1, <3>1, <3>2, <3>3 DEF SharedBuf
      <3>. QED BY <3>3, SMTT(60) DEF SharedBuf
    <2>. QED BY <2>1, <2>2
  <1>4. ASSUME NEW d \in Clients, pc'[d] = "writeBuf"
        PROVE  obj'[d] \in Bufs \ pool' /\ ~BufReferred(obj[d])'
    <2>1. d # c /\ pc[d] = "writeBuf" /\ obj'[d] = obj[d]
      BY <1>4 DEF BufStep, Others
    <2>2. obj[d] \in Bufs \ pool /\ ~BufReferred(obj[d]) /\ obj[d] \notin put
      BY <2>1 DEF BufStep, BufInv, OwnedBufs
    <2>3. obj[d] \in Bufs \ pool'
      BY <2>2 DEF BufStep
    <2>4. ASSUME NEW k \in Keys PROVE dataCache'[k] # obj[d]
      <3>1. dataCache[k] # obj[d]
        BY <2>2 DEF BufReferred, InCache
      <3>2. obj[d] # Nil
        BY <2>2, CacheAssumption
      <3>3. CASE dataCache'[k] \in {dataCache[k], Nil}
        BY <3>1, <3>2, <3>3
      <3>4. CASE pc[c] = "writeBuf" /\ dataCache'[k] = obj[c]
        BY <2>1, <3>4 DEF BufInv, OwnedBufs
      <3>. QED BY <3>3, <3>4 DEF BufStep
    <2>5. ASSUME NEW e \in Clients, pc'[e] \in Referring PROVE obj'[e] # obj[d]
      <3>1. CASE e # c
        BY <2>2, <2>5, <3>1 DEF BufStep, Others, BufReferred, Referring
      <3>2. CASE e = c
        <4>1. obj[d] # Nil
          BY <2>2, CacheAssumption
        <4>2. CASE BufReferred(obj'[c])
          BY <2>2, <3>2, <4>2
        <4>3. CASE pc[c] = "writeBuf" /\ obj'[c] = obj[c]
          BY <2>1, <3>2, <4>3 DEF BufInv, OwnedBufs
        <4>. QED BY <2>5, <3>2, <4>1, <4>2, <4>3 DEF BufStep
      <3>. QED BY <3>1, <3>2
    <2>6. ASSUME NEW b, b = obj'[d] PROVE ~BufReferred(b)'
      BY <2>1, <2>4, <2>5, <2>6 DEF BufReferred, InCache, Referring
    <2>. QED BY <2>1, <2>3, <2>6 DEF BufReferred, InCache
  <1>5. ASSUME NEW d \in Clients, NEW e \in Clients,
               pc'[d] = "writeBuf", pc'[e] = "writeBuf", obj'[d] = obj'[e]
        PROVE  d = e
    <2>1. d # c /\ e # c
      BY <1>5 DEF BufStep
    <2>2. pc[d] = "writeBuf" /\ pc[e] = "writeBuf" /\ obj[d] = obj[e]
      BY <1>5, <2>1 DEF BufStep, Others
    <2>. QED BY <2>2 DEF BufInv, OwnedBufs
  <1>6. ASSUME NEW d \in Clients, pc'[d] = "writeFile" PROVE obj'[d] = Nil
    BY <1>6 DEF BufStep, Others, BufInv, OwnedBufs
  <1>7. SharedBufs'
    BY <1>2, <1>3 DEF SharedBufs
  <1>8. OwnedBufs'
    BY <1>4, <1>5, <1>6 DEF OwnedBufs
  <1>. QED BY <1>7, <1>8 DEF BufInv

\* What the open files see of a step of c that closes the files in shut: one that stays
\* referred to, or was not, is kept, and one that stays open keeps its reference; c gives
\* its file to the cache or closes it, and takes only one that is referred to.
FileStep(c, shut) ==
    /\ Others(c)
    /\ \A f \in opened \ shut : FdReferred(f)' \/ ~FdReferred(f) =>
           f \in opened' /\ content'[f] = content[f]
    /\ \A f \in opened' : f \in opened \ shut /\ (FdReferred(f) => FdReferred(f)')
    /\ \A f \in shut : ~FdReferred(f)' /\ \A d \in Clients \ {c} : pc[d] \in Own => obj[d] # f
    /\ \A k \in Keys : \/ fds'[k] \in {fds[k], Nil}
                       \/ pc[c] \in Own /\ fds'[k] = obj[c] /\ key[c] = k
    /\ pc[c] \in Own => \A f \in opened : f = obj[c] => f \in shut \/ FdReferred(f)'
    /\ pc'[c] \notin Own
    /\ pc'[c] = "readFd" => OpenFor(obj'[c], key'[c]) /\ FdReferred(obj'[c])

\* Such a step keeps what is said of open files.
LEMMA FileStepKeeps ==
    ASSUME CacheTypeOK, FileInv, NEW c \in Clients, NEW shut, FileStep(c, shut)
    PROVE  FileInv'
  <1>1. ASSUME NEW f \in opened, FdReferred(f)'
        PROVE  f \in opened' /\ content'[f] = content[f]
    BY <1>1 DEF FileStep
  <1>2. ASSUME NEW k \in Keys, fds'[k] # Nil
        PROVE  OpenFor(fds[k], k)'
    <2>1. OpenFor(fds'[k], k)
      <3>1. CASE fds'[k] = fds[k]
        BY <1>2, <3>1 DEF FileInv, SharedFiles
      <3>2. CASE pc[c] \in Own /\ fds'[k] = obj[c] /\ key[c] = k
        BY <3>2 DEF FileInv, OwnedFiles
      <3>. QED BY <1>2, <3>1, <3>2 DEF FileStep
    <2>2. ASSUME NEW f, f = fds'[k] PROVE FdReferred(f)'
      BY <2>2 DEF FdReferred, InCache
    <2>3. ASSUME NEW f, f = fds'[k] PROVE f \in opened' /\ content'[f] = k
      BY <1>1, <2>1, <2>2, <2>3 DEF OpenFor
    <2>. QED BY <2>3, SMTT(60) DEF OpenFor
  <1>3. ASSUME NEW d \in Clients, pc'[d] = "readFd"
        PROVE  OpenFor(obj[d], key[d])'
    <2>1. OpenFor(obj'[d], key'[d])
      <3>1. CASE d = c
        BY <1>3, <3>1 DEF FileStep
      <3>2. CASE d # c
        BY <1>3, <3>2 DEF FileStep, Others, FileInv, SharedFiles
      <3>. QED BY <3>1, <3>2
    <2>2. ASSUME NEW f, f = obj'[d] PROVE FdReferred(f)'
      BY <1>3, <2>2 DEF FdReferred
    <2>3. ASSUME NEW f, f = obj'[d] PROVE f \in opened' /\ content'[f] = key'[d]
      BY <1>1, <2>1, <2>2, <2>3 DEF OpenFor
    <2>. QED BY <2>3, SMTT(60) DEF OpenFor
  <1>4. ASSUME NEW d \in Clients, pc'[d] \in Own
        PROVE  OpenFor(obj[d], key[d])' /\ ~FdReferred(obj[d])'
    <2>1. d # c /\ pc[d] \in Own /\ obj'[d] = obj[d] /\ key'[d] = key[d]
      BY <1>4 DEF FileStep, Others
    <2>2. OpenFor(obj[d], key[d]) /\ ~FdReferred(obj[d]) /\ obj[d] \notin shut
      BY <2>1 DEF FileStep, FileInv, OwnedFiles
    <2>3. obj[d] \in opened' /\ content'[obj[d]] = key[d]
      BY <2>2 DEF FileStep, OpenFor
    <2>4. ASSUME NEW k \in Keys PROVE fds'[k] # obj[d]
      <3>1. fds[k] # obj[d]
        BY <2>2 DEF FdReferred, InCache
      <3>2. obj[d] # Nil
        BY <2>2, CacheAssumption DEF OpenFor, CacheTypeOK
      <3>3. CASE fds'[k] \in {fds[k], Nil}
        BY <3>1, <3>2, <3>3
      <3>4. CASE pc[c] \in Own /\ fds'[k] = obj[c]
        BY <2>1, <3>4 DEF FileInv, OwnedFiles
      <3>. QED BY <3>3, <3>4 DEF FileStep
    <2>5. ASSUME NEW e \in Clients, pc'[e] = "readFd" PROVE obj'[e] # obj[d]
      <3>1. CASE e # c
        BY <2>2, <2>5, <3>1 DEF FileStep, Others, FdReferred
      <3>2. CASE e = c
        BY <2>2, <2>5, <3>2 DEF FileStep
      <3>. QED BY <3>1, <3>2
    <2>6. ASSUME NEW f, f = obj'[d] PROVE ~FdReferred(f)'
      BY <2>1, <2>4, <2>5, <2>6 DEF FdReferred, InCache
    <2>7. OpenFor(obj[d], key[d])'
      BY <2>1, <2>3 DEF OpenFor
    <2>. QED BY <2>6, <2>7 DEF FdReferred, InCache
  <1>5. ASSUME NEW d \in Clients, NEW e \in Clients,
               pc'[d] \in Own, pc'[e] \in Own, obj'[d] = obj'[e]
        PROVE  d = e
    <2>1. d # c /\ e # c
      BY <1>5 DEF FileStep
    <2>2. pc[d] \in Own /\ pc[e] \in Own /\ obj[d] = obj[e]
      BY <1>5, <2>1 DEF FileStep, Others
    <2>. QED BY <2>2 DEF FileInv, OwnedFiles
  <1>6. ASSUME NEW f \in opened'
        PROVE  FdReferred(f)' \/ \E d \in Clients : obj'[d] = f /\ pc'[d] \in Own
    <2>1. f \in opened \ shut /\ (FdReferred(f) => FdReferred(f)')
      BY DEF FileStep
    <2>2. CASE FdReferred(f)
      BY <2>1, <2>2
    <2>3. ASSUME NEW d \in Clients, obj[d] = f, pc[d] \in Own
          PROVE  FdReferred(f)' \/ \E e \in Clients : obj'[e] = f /\ pc'[e] \in Own
      <3>1. CASE d # c
        BY <2>3, <3>1 DEF FileStep, Others
      <3>2. CASE d = c
        BY <2>1, <2>3, <3>2 DEF FileStep
      <3>. QED BY <3>1, <3>2
    <2>4. FdReferred(f) \/ \E d \in Clients : obj[d] = f /\ pc[d] \in Own
      BY <2>1 DEF FileInv, NoDescriptorLeak, Own
    <2>. QED BY <2>2, <2>3, <2>4
  <1>7. SharedFiles'
    BY <1>2, <1>3 DEF SharedFiles
  <1>8. OwnedFiles'
    BY <1>4, <1>5 DEF OwnedFiles
  <1>9. NoDescriptorLeak'
    BY <1>6 DEF NoDescriptorLeak, Own
  <1>. QED BY <1>7, <1>8, <1>9 DEF FileInv

-----------------------------------------------------------------------------
\* What a step of one client does to the clients.
LEMMA Moves ==
    ASSUME CacheTypeOK, NEW c \in Clients, NEW to, NEW o, Move(c, to, o),
           \A d \in Clients \ {c} : key'[d] = key[d]
    PROVE  pc'[c] = to /\ obj'[c] = o /\ Others(c)
  BY DEF CacheTypeOK, Move, Others

\* Types after a move.
LEMMA MoveTypes ==
    ASSUME CacheTypeOK, NEW c \in Clients, NEW to \in PC, NEW o \in Bufs \cup Files \cup {Nil},
           Move(c, to, o)
    PROVE  pc' \in [Clients -> PC] /\ obj' \in [Clients -> Bufs \cup Files \cup {Nil}]
  BY DEF CacheTypeOK, Move

\* What recycling does to buffers.
LEMMA Recycles ==
    ASSUME CacheTypeOK, NEW put, RecycleBufs(put)
    PROVE  \A b \in Bufs \ (pool \cup put) : BufReferred(b)' \/ ~BufReferred(b) =>
               b \notin pool' /\ buf'[b] = buf[b]
  <1>1. ASSUME NEW b \in Bufs \ (pool \cup put), BufReferred(b)' \/ ~BufReferred(b)
        PROVE  b \notin pool' /\ buf'[b] = buf[b]
    <2> DEFINE dead == put \cup {x \in Bufs : BufReferred(x) /\ ~BufReferred(x)'}
    <2>1. b \notin dead
      BY <1>1
    <2>2. pool' = pool \cup dead /\ buf' = [x \in Bufs |-> IF x \in dead THEN "empty" ELSE buf[x]]
      BY DEF RecycleBufs
    <2> HIDE DEF dead
    <2>. QED BY <2>1, <2>2
  <1>. QED BY <1>1

\* Types after recycling.
LEMMA RecycleTypes ==
    ASSUME CacheTypeOK, NEW put, \A b \in put : b \in Bufs, RecycleBufs(put)
    PROVE  pool' \subseteq Bufs /\ buf' \in [Bufs -> Contents]
  <1>1. pool' \subseteq Bufs
    BY DEF RecycleBufs, CacheTypeOK
  <1>2. buf' \in [Bufs -> Contents]
    BY DEF RecycleBufs, CacheTypeOK, Contents
  <1>. QED BY <1>1, <1>2

\* What closing does to files.
LEMMA Closes ==
    ASSUME CacheTypeOK, NEW shut, CloseFiles(shut)
    PROVE  /\ \A f \in opened \ shut : FdReferred(f)' \/ ~FdReferred(f) =>
                  f \in opened' /\ content'[f] = content[f]
           /\ \A f \in opened' : f \in opened \ shut /\ (FdReferred(f) => FdReferred(f)')
           /\ opened' \subseteq Files /\ content' \in [Files -> Contents]
  <1> DEFINE dead == shut \cup {x \in Files : FdReferred(x) /\ ~FdReferred(x)'}
  <1>1. opened' = opened \ dead /\ content' = [x \in Files |-> IF x \in dead THEN "empty" ELSE content[x]]
    BY DEF CloseFiles
  <1>2. \A f \in Files \ shut : f \in dead <=> FdReferred(f) /\ ~FdReferred(f)'
    OBVIOUS
  <1>3. shut \subseteq dead
    OBVIOUS
  <1> HIDE DEF dead
  <1>4. ASSUME NEW f \in opened \ shut, FdReferred(f)' \/ ~FdReferred(f)
        PROVE  f \in opened' /\ content'[f] = content[f]
    <2>1. f \in Files \ dead
      BY <1>2, <1>4 DEF CacheTypeOK
    <2>. QED BY <1>1, <2>1
  <1>5. ASSUME NEW f \in opened' PROVE f \in opened \ shut /\ (FdReferred(f) => FdReferred(f)')
    BY <1>1, <1>2, <1>3 DEF CacheTypeOK
  <1>6. opened' \subseteq Files /\ content' \in [Files -> Contents]
    BY <1>1 DEF CacheTypeOK, Contents
  <1>. QED BY <1>4, <1>5, <1>6

\* What adding to a cache leads to.
LEMMA Inserts ==
    ASSUME NEW S, NEW cache \in [Keys -> S], NEW k \in Keys, NEW o, NEW n,
           NEW new \in Inserted(cache, k, o, n)
    PROVE  /\ new \in [Keys -> S \cup {o, Nil}] /\ new[k] = o
           /\ \A j \in Keys \ {k} : new[j] \in {cache[j], Nil}
  <1>1. CASE new = [cache EXCEPT ![k] = o]
    BY <1>1
  <1>2. ASSUME NEW j \in Keys, new = [cache EXCEPT ![j] = Nil, ![k] = o]
        PROVE  /\ new \in [Keys -> S \cup {o, Nil}] /\ new[k] = o
               /\ \A i \in Keys \ {k} : new[i] \in {cache[i], Nil}
    BY <1>2, SMTT(60)
  <1>. QED BY <1>1, <1>2 DEF Inserted

\* A step that leaves the buffers alone.
LEMMA BufQuiet ==
    ASSUME NEW c \in Clients, Others(c), UNCHANGED bufVars,
           pc'[c] \notin Referring \cup {"writeBuf", "writeFile"}
    PROVE  BufStep(c, {})
  BY DEF BufStep, bufVars, Referring

\* A step that leaves the files alone.
LEMMA FileQuiet ==
    ASSUME NEW c \in Clients, Others(c), UNCHANGED fdVars,
           pc[c] \notin Own \cup {"readFd"}, pc'[c] \notin Own \cup {"readFd"}
    PROVE  FileStep(c, {})
  <1>1. fds' = fds /\ opened' = opened /\ content' = content
    BY DEF fdVars
  <1>2. ASSUME NEW f, FdReferred(f) PROVE FdReferred(f)'
    BY <1>1, <1>2 DEF FdReferred, InCache, Others
  <1>. QED BY <1>1, <1>2 DEF FileStep

\* The temporary files and the directory, when neither changes.
LEMMA DirQuiet ==
    ASSUME CacheTypeOK, WipIsWhole, CommittedFilesAreWhole, NEW c \in Clients, Others(c),
           UNCHANGED dirVars, pc'[c] \in {"checkClosed", "rename"} => wip[c] \in {key'[c], Nil}
    PROVE  WipIsWhole' /\ CommittedFilesAreWhole'
  <1>1. wip' = wip /\ disk' = disk
    BY DEF dirVars
  <1>2. WipIsWhole'
    BY <1>1 DEF WipIsWhole, Others
  <1>. QED BY <1>1, <1>2 DEF CommittedFilesAreWhole

-----------------------------------------------------------------------------
\* A client and its object, the others and the variables that a step has left alone:
\* what makes DCInv hold after it.
LEMMA ClientKeeps ==
    ASSUME DCInv, UNCHANGED config, NEW c \in Clients, NEW put, NEW shut,
           CacheTypeOK', BufStep(c, put), FileStep(c, shut), WipIsWhole', CommittedFilesAreWhole'
    PROVE  DCInv'
  BY BufStepKeeps, FileStepKeeps DEF DCInv

\* The closed check of Get and of Add.
LEMMA GetKeeps ==
    ASSUME DCInv, UNCHANGED config, NEW c \in Clients, NEW k \in Keys, NEW opt \in BOOLEAN,
           Get(c, k, opt) \/ Add(c, k, opt)
    PROVE  DCInv'
  <1> USE DEF DCInv
  <1>1. PICK to \in {"lookup", "openDirect", "create", "createDirect"} : Move(c, to, Nil)
    BY DEF Get, Add
  <1>2. /\ UNCHANGED <<closed, dirVars, bufVars, fdVars>> /\ key' = [key EXCEPT ![c] = k]
        /\ pc[c] = "idle"
    BY DEF Get, Add
  <1>3. pc'[c] = to /\ obj'[c] = Nil /\ Others(c)
    BY <1>1, <1>2, Moves DEF CacheTypeOK
  <1>4. CacheTypeOK'
    <2>1. pc' \in [Clients -> PC] /\ obj' \in [Clients -> Bufs \cup Files \cup {Nil}]
      BY <1>1, MoveTypes DEF PC
    <2>2. key' \in [Clients -> Keys]
      BY <1>2 DEF CacheTypeOK
    <2>. QED BY <1>2, <2>1, <2>2 DEF CacheTypeOK, config, dirVars, bufVars, fdVars
  <1>5. BufStep(c, {})
    BY <1>2, <1>3, BufQuiet DEF Referring
  <1>6. FileStep(c, {})
    BY <1>2, <1>3, FileQuiet DEF Own
  <1>7. WipIsWhole' /\ CommittedFilesAreWhole'
    BY <1>2, <1>3, DirQuiet
  <1>. QED BY <1>4, <1>5, <1>6, <1>7, ClientKeeps

\* The lookups in the two caches.
LEMMA LookupKeeps ==
    ASSUME DCInv, UNCHANGED config, NEW c \in Clients, LookupData(c) \/ LookupFd(c)
    PROVE  DCInv'
  <1> USE DEF DCInv
  <1>1. UNCHANGED <<closed, key, dirVars, bufVars, fdVars>> /\ pc[c] \in {"lookup", "lookupFd"}
    BY DEF LookupData, LookupFd
  <1>2. /\ key[c] \in Keys /\ dataCache[key[c]] \in Bufs \cup {Nil} /\ fds[key[c]] \in Files \cup {Nil}
    BY DEF CacheTypeOK
  <1>3. \/ LookupData(c) /\ dataCache[key[c]] # Nil /\ Move(c, "readBuf", dataCache[key[c]])
        \/ LookupFd(c) /\ fds[key[c]] # Nil /\ Move(c, "readFd", fds[key[c]])
        \/ \E to \in {"lookupFd", "openFile"} : Move(c, to, Nil)
    BY DEF LookupData, LookupFd
  <1>4. ASSUME NEW to \in PC, NEW o \in Bufs \cup Files \cup {Nil}, Move(c, to, o)
        PROVE  CacheTypeOK' /\ Others(c) /\ pc'[c] = to /\ obj'[c] = o
    <2>1. pc' \in [Clients -> PC] /\ obj' \in [Clients -> Bufs \cup Files \cup {Nil}]
      BY <1>4, MoveTypes
    <2>2. Others(c) /\ pc'[c] = to /\ obj'[c] = o
      BY <1>1, <1>4, Moves
    <2>. QED BY <1>1, <2>1, <2>2 DEF CacheTypeOK, config, dirVars, bufVars, fdVars
  <1>5. CASE dataCache[key[c]] # Nil /\ Move(c, "readBuf", dataCache[key[c]])
    <2>1. CacheTypeOK' /\ Others(c) /\ pc'[c] = "readBuf" /\ obj'[c] = dataCache[key[c]]
      BY <1>2, <1>4, <1>5 DEF PC
    <2>2. SharedBuf(obj'[c], key'[c]) /\ BufReferred(obj'[c])
      <3>1. SharedBuf(dataCache[key[c]], key[c])
        BY <1>2, <1>5 DEF BufInv, SharedBufs
      <3>2. BufReferred(dataCache[key[c]])
        BY <1>2 DEF BufReferred, InCache
      <3>. QED BY <1>1, <2>1, <3>1, <3>2
    <2>3. BufStep(c, {})
      BY <1>1, <2>1, <2>2 DEF BufStep, bufVars
    <2>4. FileStep(c, {})
      BY <1>1, <2>1, FileQuiet DEF Own
    <2>5. WipIsWhole' /\ CommittedFilesAreWhole'
      BY <1>1, <2>1, DirQuiet
    <2>. QED BY <2>1, <2>3, <2>4, <2>5, ClientKeeps
  <1>6. CASE fds[key[c]] # Nil /\ Move(c, "readFd", fds[key[c]])
    <2>1. CacheTypeOK' /\ Others(c) /\ pc'[c] = "readFd" /\ obj'[c] = fds[key[c]]
      BY <1>2, <1>4, <1>6 DEF PC
    <2>2. OpenFor(obj'[c], key'[c]) /\ FdReferred(obj'[c])
      <3>1. OpenFor(fds[key[c]], key[c])
        BY <1>2, <1>6 DEF FileInv, SharedFiles
      <3>2. FdReferred(fds[key[c]])
        BY <1>2 DEF FdReferred, InCache
      <3>. QED BY <1>1, <2>1, <3>1, <3>2
    <2>3. ASSUME NEW f, FdReferred(f) PROVE FdReferred(f)'
      BY <1>1, <2>1, <2>3 DEF FdReferred, InCache, Others, fdVars
    <2>4. FileStep(c, {})
      BY <1>1, <2>1, <2>2, <2>3 DEF FileStep, fdVars, Own
    <2>5. BufStep(c, {})
      BY <1>1, <2>1, BufQuiet DEF Referring
    <2>6. WipIsWhole' /\ CommittedFilesAreWhole'
      BY <1>1, <2>1, DirQuiet
    <2>. QED BY <2>1, <2>4, <2>5, <2>6, ClientKeeps
  <1>7. ASSUME NEW to \in {"lookupFd", "openFile"}, Move(c, to, Nil) PROVE DCInv'
    <2>1. CacheTypeOK' /\ Others(c) /\ pc'[c] = to
      BY <1>4, <1>7 DEF PC
    <2>2. BufStep(c, {})
      BY <1>1, <2>1, BufQuiet DEF Referring
    <2>3. FileStep(c, {})
      BY <1>1, <2>1, FileQuiet DEF Own
    <2>4. WipIsWhole' /\ CommittedFilesAreWhole'
      BY <1>1, <2>1, DirQuiet
    <2>. QED BY <2>1, <2>2, <2>3, <2>4, ClientKeeps
  <1>. QED BY <1>3, <1>5, <1>6, <1>7

\* The readers that are closed: references given back, files closed or cached.
LEMMA CloseReaderKeeps ==
    ASSUME DCInv, UNCHANGED config, NEW c \in Clients,
           CloseCached(c) \/ CloseOpened(c) \/ CloseDirect(c)
    PROVE  DCInv'
  <1> USE DEF DCInv
  <1>1. UNCHANGED <<closed, key, dirVars, dataCache>> /\ Move(c, "idle", Nil)
    BY DEF CloseCached, CloseOpened, CloseDirect, bufVars
  <1>2. Others(c) /\ pc'[c] = "idle" /\ obj'[c] = Nil
    BY <1>1, Moves
  <1>3. pc' \in [Clients -> PC] /\ obj' \in [Clients -> Bufs \cup Files \cup {Nil}]
    BY <1>1, MoveTypes DEF PC
  <1>4. WipIsWhole' /\ CommittedFilesAreWhole'
    BY <1>1, <1>2, DirQuiet
  <1>5. key[c] \in Keys /\ obj[c] \in Bufs \cup Files \cup {Nil}
    BY DEF CacheTypeOK
  <1>6. CASE CloseCached(c)
    <2>1. RecycleBufs({}) /\ CloseFiles({}) /\ UNCHANGED <<dataCache, fds>> /\ pc[c] \in {"readBuf", "readFd"}
      BY <1>6 DEF CloseCached
    <2>2. BufStep(c, {})
      BY <1>2, <2>1, Recycles DEF BufStep, Referring
    <2>3. FileStep(c, {})
      BY <1>2, <2>1, Closes DEF FileStep, Own
    <2>4. CacheTypeOK'
      <3>1. pool' \subseteq Bufs /\ buf' \in [Bufs -> Contents]
        BY <2>1, RecycleTypes
      <3>2. opened' \subseteq Files /\ content' \in [Files -> Contents]
        BY <2>1, Closes
      <3>. QED BY <1>1, <1>3, <2>1, <3>1, <3>2 DEF CacheTypeOK, config, dirVars
    <2>. QED BY <1>4, <2>2, <2>3, <2>4, ClientKeeps
  <1>7. CASE CloseOpened(c)
    <2>1. UNCHANGED bufVars /\ pc[c] = "readFile"
      BY <1>7 DEF CloseOpened
    <2>2. BufStep(c, {})
      BY <1>2, <2>1, BufQuiet DEF Referring
    <2>3. OpenFor(obj[c], key[c]) /\ ~FdReferred(obj[c]) /\ obj[c] \in Files
      BY <2>1 DEF FileInv, OwnedFiles, OpenFor, Own, CacheTypeOK
    <2>4. CASE fds[key[c]] = Nil
      <3>1. fds' \in Inserted(fds, key[c], obj[c], FdEntries) /\ CloseFiles({})
        BY <1>7, <2>4 DEF CloseOpened
      <3>2. /\ fds' \in [Keys -> (Files \cup {Nil}) \cup {obj[c], Nil}] /\ fds'[key[c]] = obj[c]
            /\ \A j \in Keys \ {key[c]} : fds'[j] \in {fds[j], Nil}
        BY <1>5, <3>1, Inserts DEF CacheTypeOK
      <3>3. FileStep(c, {})
        <4>1. ASSUME NEW f, f = obj[c] PROVE FdReferred(f)'
          BY <1>5, <3>2, <4>1 DEF FdReferred, InCache
        <4>2. \A k \in Keys : fds'[k] \in {fds[k], Nil} \/ (fds'[k] = obj[c] /\ key[c] = k)
          BY <3>2
        <4>. QED BY <1>2, <2>1, <3>1, <4>1, <4>2, Closes DEF FileStep, Own
      <3>4. CacheTypeOK'
        <4>1. opened' \subseteq Files /\ content' \in [Files -> Contents]
          BY <3>1, Closes
        <4>2. fds' \in [Keys -> Files \cup {Nil}]
          BY <2>3, <3>2
        <4>. QED BY <1>1, <1>3, <2>1, <4>1, <4>2 DEF CacheTypeOK, config, dirVars, bufVars
      <3>. QED BY <1>4, <2>2, <3>3, <3>4, ClientKeeps
    <2>5. CASE fds[key[c]] # Nil
      <3>1. UNCHANGED fds /\ CloseFiles({obj[c]})
        BY <1>7, <2>5 DEF CloseOpened
      <3>2. FileStep(c, {obj[c]})
        <4>1. ASSUME NEW f, f = obj[c]
              PROVE  ~FdReferred(f)' /\ \A d \in Clients \ {c} : pc[d] \in Own => obj[d] # f
          BY <1>2, <2>1, <2>3, <3>1, <4>1 DEF FdReferred, InCache, Others, FileInv, OwnedFiles, Own
        <4>. QED BY <1>2, <2>1, <3>1, <4>1, Closes DEF FileStep, Own
      <3>3. CacheTypeOK'
        <4>1. opened' \subseteq Files /\ content' \in [Files -> Contents]
          BY <3>1, Closes
        <4>. QED BY <1>1, <1>3, <2>1, <3>1, <4>1 DEF CacheTypeOK, config, dirVars, bufVars
      <3>. QED BY <1>4, <2>2, <3>2, <3>3, ClientKeeps
    <2>. QED BY <2>4, <2>5
  <1>8. CASE CloseDirect(c)
    <2>1. /\ UNCHANGED <<bufVars, fds>> /\ pc[c] \in {"readDirect", "readPass"}
          /\ opened' = opened \ {obj[c]} /\ content' = [content EXCEPT ![obj[c]] = "empty"]
      BY <1>8 DEF CloseDirect
    <2>2. BufStep(c, {})
      BY <1>2, <2>1, BufQuiet DEF Referring
    <2>3. OpenFor(obj[c], key[c]) /\ ~FdReferred(obj[c])
      BY <2>1 DEF FileInv, OwnedFiles, Own
    <2>4. ASSUME NEW f, f = obj[c]
          PROVE  ~FdReferred(f)' /\ \A d \in Clients \ {c} : pc[d] \in Own => obj[d] # f
      BY <1>2, <2>1, <2>3, <2>4 DEF FdReferred, InCache, Others, FileInv, OwnedFiles, Own
    <2>5. ASSUME NEW f \in opened \ {obj[c]}
          PROVE  f \in opened' /\ content'[f] = content[f] /\ (FdReferred(f) => FdReferred(f)')
      BY <1>2, <2>1 DEF FdReferred, InCache, Others, CacheTypeOK
    <2>6. FileStep(c, {obj[c]})
      BY <1>2, <2>1, <2>4, <2>5 DEF FileStep, Own
    <2>7. CacheTypeOK'
      <3>1. opened' \subseteq Files /\ content' \in [Files -> Contents]
        BY <2>1 DEF CacheTypeOK, Contents
      <3>. QED BY <1>1, <1>3, <2>1, <3>1 DEF CacheTypeOK, config, dirVars, bufVars
    <2>. QED BY <1>4, <2>2, <2>6, <2>7, ClientKeeps
  <1>. QED BY <1>6, <1>7, <1>8

\* A file opened: no entry of the cache and no reader has it yet.
LEMMA OpenedKeeps ==
    ASSUME DCInv, NEW c \in Clients, NEW f \in Files \ opened, Others(c), key' = key, fds' = fds,
           pc[c] \in {"openFile", "openDirect"}, pc'[c] \in Own, obj'[c] = f,
           opened' = opened \cup {f}, content' = [content EXCEPT ![f] = key[c]]
    PROVE  FileInv'
  <1> USE DEF DCInv
  <1>1. content'[f] = key[c] /\ \A g \in opened : content'[g] = content[g] /\ g # f
    BY DEF CacheTypeOK
  <1>2. \A k \in Keys : fds[k] # f
    BY CacheAssumption DEF FileInv, SharedFiles, OpenFor
  <1>3. \A d \in Clients : pc[d] \in Own \cup {"readFd"} => obj[d] \in opened /\ obj[d] # f
    BY DEF FileInv, SharedFiles, OwnedFiles, OpenFor
  <1>4. ASSUME NEW g PROVE FdReferred(g)' <=> FdReferred(g)
    BY DEF FdReferred, InCache, Others, Own
  <1>5. SharedFiles'
    <2>1. ASSUME NEW k \in Keys, fds'[k] # Nil PROVE OpenFor(fds[k], k)'
      BY <1>1, <2>1 DEF OpenFor, FileInv, SharedFiles
    <2>2. ASSUME NEW d \in Clients, pc'[d] = "readFd" PROVE OpenFor(obj[d], key[d])'
      <3>1. d # c /\ pc[d] = "readFd" /\ obj'[d] = obj[d]
        BY <2>2 DEF Others, Own
      <3>2. obj[d] \in opened /\ content[obj[d]] = key[d]
        BY <3>1 DEF OpenFor, FileInv, SharedFiles
      <3>. QED BY <1>1, <3>1, <3>2 DEF OpenFor
    <2>. QED BY <2>1, <2>2 DEF SharedFiles
  <1>6. OwnedFiles'
    <2>1. ASSUME NEW d \in Clients, pc'[d] \in Own PROVE OpenFor(obj[d], key[d])' /\ ~FdReferred(obj[d])'
      <3>1. CASE d = c
        <4>1. ~FdReferred(f)
          BY <1>2, <1>3 DEF FdReferred, InCache
        <4>2. ~FdReferred(f)'
          BY <1>4, <4>1
        <4>3. OpenFor(obj[d], key[d])'
          BY <1>1, <3>1 DEF OpenFor
        <4>. QED BY <3>1, <4>2, <4>3 DEF FdReferred, InCache
      <3>2. CASE d # c
        <4>1. pc[d] \in Own /\ obj'[d] = obj[d]
          BY <2>1, <3>2 DEF Others
        <4>2. OpenFor(obj[d], key[d]) /\ ~FdReferred(obj[d])
          BY <4>1 DEF FileInv, OwnedFiles
        <4>3. OpenFor(obj[d], key[d])'
          BY <1>1, <4>1, <4>2 DEF OpenFor
        <4>4. ASSUME NEW g, g = obj[d] PROVE ~FdReferred(g)'
          BY <1>4, <4>2, <4>4
        <4>. QED BY <4>1, <4>3, <4>4 DEF FdReferred, InCache
      <3>. QED BY <3>1, <3>2
    <2>2. ASSUME NEW d \in Clients, NEW e \in Clients,
                 pc'[d] \in Own, pc'[e] \in Own, obj'[d] = obj'[e]
          PROVE  d = e
      <3>1. \A x \in Clients \ {c} : pc'[x] \in Own => pc[x] \in Own /\ obj'[x] = obj[x] /\ obj[x] # f
        BY <1>3 DEF Others
      <3>2. CASE d # c /\ e # c
        BY <2>2, <3>1, <3>2 DEF FileInv, OwnedFiles
      <3>. QED BY <2>2, <3>1, <3>2
    <2>. QED BY <2>1, <2>2 DEF OwnedFiles
  <1>7. NoDescriptorLeak'
    <2>1. ASSUME NEW g \in opened'
          PROVE  FdReferred(g)' \/ \E d \in Clients : obj'[d] = g /\ pc'[d] \in Own
      <3>1. CASE g = f
        BY <3>1
      <3>2. CASE g # f
        <4>1. FdReferred(g) \/ \E d \in Clients : obj[d] = g /\ pc[d] \in Own
          BY <3>2 DEF FileInv, NoDescriptorLeak, Own
        <4>2. ASSUME NEW d \in Clients, obj[d] = g, pc[d] \in Own PROVE obj'[d] = g /\ pc'[d] \in Own
          BY <4>2 DEF Others, Own
        <4>. QED BY <1>4, <4>1, <4>2
      <3>. QED BY <3>1, <3>2
    <2>. QED BY <2>1 DEF NoDescriptorLeak, Own
  <1>. QED BY <1>5, <1>6, <1>7 DEF FileInv

\* Opening the committed file.
LEMMA OpenFileKeeps ==
    ASSUME DCInv, UNCHANGED config, NEW c \in Clients, OpenFile(c)
    PROVE  DCInv'
  <1> USE DEF DCInv
  <1>1. /\ UNCHANGED <<closed, key, dirVars, bufVars>> /\ pc[c] \in {"openFile", "openDirect"}
        /\ key[c] \in Keys
    BY DEF OpenFile, CacheTypeOK
  <1>2. CASE Move(c, "idle", Nil) /\ UNCHANGED fdVars
    <2>1. Others(c) /\ pc'[c] = "idle" /\ obj'[c] = Nil
      BY <1>1, <1>2, Moves
    <2>2. pc' \in [Clients -> PC] /\ obj' \in [Clients -> Bufs \cup Files \cup {Nil}]
      BY <1>2, MoveTypes DEF PC
    <2>3. CacheTypeOK'
      BY <1>1, <1>2, <2>2 DEF CacheTypeOK, config, dirVars, bufVars, fdVars
    <2>4. BufStep(c, {})
      BY <1>1, <2>1, BufQuiet DEF Referring
    <2>5. FileStep(c, {})
      BY <1>1, <1>2, <2>1, FileQuiet DEF Own
    <2>6. WipIsWhole' /\ CommittedFilesAreWhole'
      BY <1>1, <2>1, DirQuiet
    <2>. QED BY <2>3, <2>4, <2>5, <2>6, ClientKeeps
  <1>3. ASSUME NEW f \in Files \ opened, NEW p \in Own, Move(c, p, f), disk[key[c]] # Nil,
               opened' = opened \cup {f}, content' = [content EXCEPT ![f] = disk[key[c]]], fds' = fds
        PROVE  DCInv'
    <2>1. Others(c) /\ pc'[c] = p /\ obj'[c] = f
      BY <1>1, <1>3, Moves
    <2>2. pc' \in [Clients -> PC] /\ obj' \in [Clients -> Bufs \cup Files \cup {Nil}]
      BY <1>3, MoveTypes DEF PC, Own
    <2>3. disk[key[c]] = key[c]
      BY <1>1, <1>3 DEF CommittedFilesAreWhole
    <2>4. opened' \subseteq Files /\ content' \in [Files -> Contents]
      BY <1>1, <1>3, <2>3 DEF CacheTypeOK, Contents
    <2>5. CacheTypeOK'
      BY <1>1, <1>3, <2>2, <2>4 DEF CacheTypeOK, config, dirVars, bufVars
    <2>6. BufInv'
      <3>1. BufStep(c, {})
        BY <1>1, <2>1, BufQuiet DEF Referring, Own
      <3>. QED BY <3>1, BufStepKeeps
    <2>7. FileInv'
      BY <1>1, <1>3, <2>1, <2>3, OpenedKeeps
    <2>8. WipIsWhole' /\ CommittedFilesAreWhole'
      BY <1>1, <2>1, DirQuiet DEF Own
    <2>. QED BY <2>5, <2>6, <2>7, <2>8
  <1>4. CASE disk[key[c]] # Nil
    <2> DEFINE f == Unowned(Files \ opened)
    <2>1. f \in Files \ opened
      BY <1>4 DEF OpenFile, Unowned
    <2>2. /\ opened' = opened \cup {f} /\ content' = [content EXCEPT ![f] = disk[key[c]]] /\ fds' = fds
          /\ \E p \in Own : Move(c, p, f)
      BY <1>4 DEF OpenFile, Own
    <2> HIDE DEF f
    <2>. QED BY <1>3, <1>4, <2>1, <2>2
  <1>. QED BY <1>2, <1>4 DEF OpenFile

\* A buffer taken from the pool: nobody refers to it, and no writer has it.
LEMMA TakenKeeps ==
    ASSUME DCInv, NEW c \in Clients, NEW b \in pool, Others(c), pool' = pool \ {b}, buf' = buf,
           dataCache' = dataCache, key' = key, pc[c] = "create", pc'[c] = "writeBuf", obj'[c] = b
    PROVE  BufInv'
  <1> USE DEF DCInv
  <1>1. b \in Bufs /\ b # Nil
    BY CacheAssumption DEF CacheTypeOK
  <1>2. ~BufReferred(b)
    BY <1>1 DEF BufReferred, InCache, BufInv, SharedBufs, SharedBuf, Referring
  <1>3. ASSUME NEW x PROVE BufReferred(x)' <=> BufReferred(x)
    BY DEF BufReferred, InCache, Others
  <1>4. SharedBufs'
    <2>1. ASSUME NEW x, NEW k, SharedBuf(x, k) PROVE SharedBuf(x, k)'
      BY <2>1 DEF SharedBuf
    <2>2. ASSUME NEW k \in Keys, dataCache'[k] # Nil PROVE SharedBuf(dataCache[k], k)'
      BY <2>2 DEF SharedBuf, BufInv, SharedBufs
    <2>3. ASSUME NEW d \in Clients, pc'[d] \in Referring
          PROVE  SharedBuf(obj[d], key[d])' \/ (pc'[d] = "rename" /\ obj'[d] = Nil)
      <3>1. pc[d] = pc'[d] /\ obj[d] = obj'[d]
        BY <2>3 DEF Others, Referring
      <3>2. SharedBuf(obj[d], key[d]) \/ (pc[d] = "rename" /\ obj[d] = Nil)
        BY <2>3, <3>1 DEF BufInv, SharedBufs
      <3>. QED BY <3>1, <3>2 DEF SharedBuf
    <2>. QED BY <2>2, <2>3 DEF SharedBufs
  <1>5. OwnedBufs'
    <2>1. ASSUME NEW d \in Clients \ {c}, pc'[d] = "writeBuf"
          PROVE  /\ pc[d] = "writeBuf" /\ obj'[d] = obj[d] /\ obj[d] # b
                 /\ obj[d] \in Bufs \ pool /\ ~BufReferred(obj[d])
      BY <2>1 DEF Others, BufInv, OwnedBufs
    <2>2. ASSUME NEW d \in Clients, pc'[d] = "writeBuf"
          PROVE  obj'[d] \in Bufs \ pool' /\ ~BufReferred(obj[d])'
      <3>1. CASE d = c
        <4>1. ~BufReferred(b)'
          BY <1>2, <1>3
        <4>. QED BY <1>1, <3>1, <4>1 DEF BufReferred, InCache
      <3>2. CASE d # c
        <4>1. ASSUME NEW x, x = obj[d] PROVE ~BufReferred(x)'
          BY <1>3, <2>1, <2>2, <3>2, <4>1
        <4>. QED BY <2>1, <2>2, <3>2, <4>1 DEF BufReferred, InCache
      <3>. QED BY <3>1, <3>2
    <2>3. ASSUME NEW d \in Clients, NEW e \in Clients,
                 pc'[d] = "writeBuf", pc'[e] = "writeBuf", obj'[d] = obj'[e]
          PROVE  d = e
      <3>1. CASE d # c /\ e # c
        BY <2>1, <2>3, <3>1 DEF BufInv, OwnedBufs
      <3>. QED BY <2>1, <2>3, <3>1
    <2>4. ASSUME NEW d \in Clients, pc'[d] = "writeFile" PROVE obj'[d] = Nil
      BY <2>4 DEF Others, BufInv, OwnedBufs
    <2>. QED BY <2>2, <2>3, <2>4 DEF OwnedBufs
  <1>. QED BY <1>4, <1>5 DEF BufInv

\* The temporary file and the buffer of Add.
LEMMA CreateKeeps ==
    ASSUME DCInv, UNCHANGED config, NEW c \in Clients, Create(c)
    PROVE  DCInv'
  <1> USE DEF DCInv
  <1>1. /\ UNCHANGED <<closed, key, disk, buf, dataCache, fdVars>> /\ pc[c] \in {"create", "createDirect"}
        /\ wip' = wip \/ wip' = [wip EXCEPT ![c] = "empty"]
    BY DEF Create
  <1>2. PICK to \in {"idle", "writeFile", "writeBuf"}, o \in Bufs \cup {Nil} : Move(c, to, o)
        /\ IF to = "writeBuf" THEN o \in pool /\ pool' = pool \ {o} /\ pc[c] = "create"
                              ELSE o = Nil /\ pool' = pool
    <2>1. pool # {} => Unowned(pool) \in pool
      BY DEF Unowned
    <2>2. pool \subseteq Bufs
      BY DEF CacheTypeOK
    <2>. QED BY <2>1, <2>2 DEF Create
  <1>3. Others(c) /\ pc'[c] = to /\ obj'[c] = o
    BY <1>1, <1>2, Moves
  <1>4. CacheTypeOK'
    <2>1. pc' \in [Clients -> PC] /\ obj' \in [Clients -> Bufs \cup Files \cup {Nil}]
      BY <1>2, MoveTypes DEF PC
    <2>2. wip' \in [Clients -> Contents \cup {Nil}]
      BY <1>1 DEF CacheTypeOK, Contents
    <2>3. pool' \subseteq Bufs
      BY <1>2 DEF CacheTypeOK
    <2>. QED BY <1>1, <2>1, <2>2, <2>3 DEF CacheTypeOK, config, fdVars
  <1>5. FileInv'
    <2>1. FileStep(c, {})
      BY <1>1, <1>3, FileQuiet DEF Own
    <2>. QED BY <2>1, FileStepKeeps
  <1>6. BufInv'
    <2>1. CASE to = "writeBuf"
      BY <1>1, <1>2, <1>3, <2>1, TakenKeeps
    <2>2. CASE to # "writeBuf"
      <3>1. BufStep(c, {})
        BY <1>1, <1>2, <1>3, <2>2 DEF BufStep, Referring
      <3>. QED BY <3>1, BufStepKeeps
    <2>. QED BY <2>1, <2>2
  <1>7. WipIsWhole'
    <2>1. \A d \in Clients \ {c} : wip'[d] = wip[d]
      BY <1>1 DEF CacheTypeOK
    <2>. QED BY <1>3, <2>1 DEF WipIsWhole, Others
  <1>8. CommittedFilesAreWhole'
    BY <1>1 DEF CommittedFilesAreWhole
  <1>. QED BY <1>4, <1>5, <1>6, <1>7, <1>8

\* A part of the chunk written to the buffer or to the temporary file of a writer, which
\* nobody else reads.
LEMMA WriteKeeps ==
    ASSUME DCInv, UNCHANGED config, NEW c \in Clients, Write(c)
    PROVE  DCInv'
  <1> USE DEF DCInv
  <1>1. UNCHANGED <<closed, pc, key, obj, disk, pool, dataCache, fdVars>>
    BY DEF Write, dirVars, bufVars
  <1>2. \A x : More(c, x) \in Contents
    BY DEF More, Contents, CacheTypeOK
  <1>3. FileInv' /\ CommittedFilesAreWhole'
    BY <1>1 DEF FileInv, SharedFiles, OwnedFiles, OpenFor, NoDescriptorLeak, FdReferred, InCache,
                fdVars, CommittedFilesAreWhole
  <1>4. CASE /\ pc[c] = "writeBuf" /\ UNCHANGED wip
             /\ buf' = [buf EXCEPT ![obj[c]] = More(c, buf[obj[c]])]
    <2>1. CacheTypeOK'
      <3>1. buf' \in [Bufs -> Contents]
        BY <1>2, <1>4 DEF CacheTypeOK
      <3>. QED BY <1>1, <1>4, <3>1 DEF CacheTypeOK, config, fdVars
    <2>2. \A b \in Bufs : BufReferred(b) => buf'[b] = buf[b]
      BY <1>4 DEF CacheTypeOK, BufInv, OwnedBufs
    <2>3. SharedBufs'
      <3>1. ASSUME NEW k \in Keys, dataCache'[k] # Nil PROVE SharedBuf(dataCache[k], k)'
        <4>1. SharedBuf(dataCache[k], k) /\ BufReferred(dataCache[k])
          BY <1>1, <3>1 DEF BufInv, SharedBufs, BufReferred, InCache
        <4>. QED BY <1>1, <2>2, <4>1 DEF SharedBuf
      <3>2. ASSUME NEW d \in Clients, pc'[d] \in Referring
            PROVE  SharedBuf(obj[d], key[d])' \/ (pc'[d] = "rename" /\ obj'[d] = Nil)
        <4>1. SharedBuf(obj[d], key[d]) \/ (pc[d] = "rename" /\ obj[d] = Nil)
          BY <1>1, <3>2 DEF BufInv, SharedBufs
        <4>2. BufReferred(obj[d])
          BY <1>1, <3>2 DEF BufReferred, Referring
        <4>. QED BY <1>1, <2>2, <4>1, <4>2 DEF SharedBuf
      <3>. QED BY <3>1, <3>2 DEF SharedBufs
    <2>4. OwnedBufs'
      BY <1>1 DEF BufInv, OwnedBufs, BufReferred, InCache
    <2>5. WipIsWhole'
      BY <1>1, <1>4 DEF WipIsWhole
    <2>. QED BY <1>3, <2>1, <2>3, <2>4, <2>5 DEF BufInv
  <1>5. CASE /\ pc[c] = "writeFile" /\ UNCHANGED buf
             /\ wip' = [wip EXCEPT ![c] = More(c, wip[c])]
    <2>1. CacheTypeOK'
      <3>1. wip' \in [Clients -> Contents \cup {Nil}]
        BY <1>2, <1>5 DEF CacheTypeOK
      <3>. QED BY <1>1, <1>5, <3>1 DEF CacheTypeOK, config, fdVars
    <2>2. BufInv'
      BY <1>1, <1>5 DEF BufInv, SharedBufs, SharedBuf, OwnedBufs, BufReferred, InCache
    <2>3. WipIsWhole'
      <3>1. \A d \in Clients \ {c} : wip'[d] = wip[d]
        BY <1>5 DEF CacheTypeOK
      <3>. QED BY <1>1, <1>5, <3>1 DEF WipIsWhole
    <2>. QED BY <1>3, <2>1, <2>2, <2>3
  <1>. QED BY <1>4, <1>5 DEF Write, dirVars, bufVars

\* What the steps that recycle buffers share: c moves on with o, its own buffer or one
\* that is referred to, or with none; only its own buffer is put back.
RecyclerStep(c, to, o, put) ==
    /\ Move(c, to, o) /\ key' = key /\ closed' = closed /\ UNCHANGED fdVars
    /\ to \in PC \ (Own \cup {"readFd", "writeBuf", "writeFile"}) /\ o \in Bufs \cup {Nil}
    /\ pc[c] \notin Own \cup {"readFd"}
    /\ RecycleBufs(put)
    /\ \A b \in put : b \in Bufs /\ b = obj[c] /\ pc[c] = "writeBuf" /\ (to \in Referring => o # b)
    /\ dataCache' \in [Keys -> Bufs \cup {Nil}]
    /\ \A k \in Keys : \/ dataCache'[k] \in {dataCache[k], Nil}
                       \/ pc[c] = "writeBuf" /\ dataCache'[k] = obj[c] /\ buf[obj[c]] = k /\ put = {}
    /\ to \in Referring =>
           \/ to = "rename" /\ o = Nil
           \/ /\ SharedBuf(o, key[c])
              /\ BufReferred(o) \/ (pc[c] = "writeBuf" /\ o = obj[c])
    /\ wip' \in [Clients -> Contents \cup {Nil}] /\ \A d \in Clients \ {c} : wip'[d] = wip[d]
    /\ to \in {"checkClosed", "rename"} => wip'[c] \in {key[c], Nil}
    /\ disk' \in [Keys -> Contents \cup {Nil}] /\ CommittedFilesAreWhole'

\* Such a step keeps the invariant.
LEMMA RecyclerKeeps ==
    ASSUME DCInv, UNCHANGED config, NEW c \in Clients, NEW to, NEW o, NEW put,
           RecyclerStep(c, to, o, put)
    PROVE  DCInv'
  <1> USE DEF DCInv
  <1>1. Others(c) /\ pc'[c] = to /\ obj'[c] = o
    BY Moves DEF RecyclerStep
  <1>2. CacheTypeOK'
    <2>1. pc' \in [Clients -> PC] /\ obj' \in [Clients -> Bufs \cup Files \cup {Nil}]
      BY MoveTypes DEF RecyclerStep
    <2>2. pool' \subseteq Bufs /\ buf' \in [Bufs -> Contents]
      BY RecycleTypes DEF RecyclerStep
    <2>. QED BY <2>1, <2>2 DEF RecyclerStep, CacheTypeOK, config, fdVars
  <1>3. FileStep(c, {})
    BY <1>1, FileQuiet DEF RecyclerStep
  <1>4. BufStep(c, put)
    <2>1. ASSUME NEW b \in put
          PROVE  ~BufReferred(b)' /\ \A d \in Clients \ {c} : pc[d] = "writeBuf" => obj[d] # b
      <3>1. b \in Bufs /\ b # Nil /\ b = obj[c] /\ pc[c] = "writeBuf" /\ put # {}
        BY CacheAssumption DEF RecyclerStep
      <3>2. ~BufReferred(b)
        BY <3>1 DEF BufInv, OwnedBufs
      <3>3. \A k \in Keys : dataCache'[k] \in {dataCache[k], Nil}
        BY <3>1 DEF RecyclerStep
      <3>4. \A k \in Keys : dataCache'[k] # b
        BY <3>1, <3>2, <3>3 DEF BufReferred, InCache
      <3>5. \A d \in Clients : pc'[d] \in Referring => obj'[d] # b
        BY <1>1, <3>2 DEF RecyclerStep, Others, BufReferred, Referring
      <3>6. ~BufReferred(b)'
        BY <3>4, <3>5 DEF BufReferred, InCache, Referring
      <3>. QED BY <3>1, <3>6 DEF BufInv, OwnedBufs
    <2>2. \A b \in Bufs \ (pool \cup put) : BufReferred(b)' \/ ~BufReferred(b) =>
              b \notin pool' /\ buf'[b] = buf[b]
      BY Recycles DEF RecyclerStep
    <2>. QED BY <1>1, <2>1, <2>2 DEF RecyclerStep, BufStep
  <1>5. WipIsWhole'
    BY <1>1 DEF RecyclerStep, WipIsWhole, Others
  <1>. QED BY <1>2, <1>3, <1>4, <1>5, ClientKeeps DEF RecyclerStep

\* A client at rest has no object.
LEMMA AtRest ==
    /\ "idle" \in PC /\ "idle" \notin Referring /\ "idle" \notin {"checkClosed", "rename"}
    /\ "idle" \notin Own \cup {"readFd", "writeBuf", "writeFile"}
  BY DEF PC, Own, Referring

\* Abort of either writer.
LEMMA AbortKeeps ==
    ASSUME DCInv, UNCHANGED config, NEW c \in Clients, Abort(c)
    PROVE  DCInv'
  <1> USE DEF DCInv
  <1>1. /\ pc[c] \in {"writeBuf", "writeFile"} /\ wip' = [wip EXCEPT ![c] = Nil]
        /\ Move(c, "idle", Nil) /\ UNCHANGED <<closed, key, disk, dataCache, fdVars>>
        /\ RecycleBufs({obj[c]} \cap Bufs)
    BY DEF Abort
  <1>2. \A b \in {obj[c]} \cap Bufs : b \in Bufs /\ b = obj[c] /\ pc[c] = "writeBuf"
    BY <1>1, CacheAssumption DEF BufInv, OwnedBufs
  <1>3. wip' \in [Clients -> Contents \cup {Nil}] /\ \A d \in Clients \ {c} : wip'[d] = wip[d]
    BY <1>1 DEF CacheTypeOK
  <1>4. dataCache' \in [Keys -> Bufs \cup {Nil}] /\ disk' \in [Keys -> Contents \cup {Nil}] /\ CommittedFilesAreWhole'
    BY <1>1 DEF CacheTypeOK, CommittedFilesAreWhole
  <1>5. key' = key /\ closed' = closed /\ UNCHANGED fdVars /\ pc[c] \notin Own \cup {"readFd"}
    BY <1>1 DEF Own
  <1>6. \A k \in Keys : dataCache'[k] \in {dataCache[k], Nil}
    BY <1>1
  <1>7. RecyclerStep(c, "idle", Nil, {obj[c]} \cap Bufs)
    BY <1>1, <1>2, <1>3, <1>4, <1>5, <1>6, AtRest DEF RecyclerStep
  <1>. QED BY <1>7, RecyclerKeeps

\* Commit of the memory writer.
LEMMA CommitBufKeeps ==
    ASSUME DCInv, UNCHANGED config, NEW c \in Clients, CommitBuf(c)
    PROVE  DCInv'
  <1> USE DEF DCInv
  <1>1. /\ pc[c] = "writeBuf" /\ buf[obj[c]] = key[c] /\ key[c] \in Keys
        /\ UNCHANGED <<closed, key, dirVars, fdVars>>
    BY DEF CommitBuf, CacheTypeOK
  <1>2. obj[c] \in Bufs \ pool /\ obj[c] # Nil /\ ~BufReferred(obj[c])
    BY <1>1, CacheAssumption DEF BufInv, OwnedBufs
  <1>3. /\ wip' \in [Clients -> Contents \cup {Nil}] /\ \A d \in Clients \ {c} : wip'[d] = wip[d]
        /\ disk' \in [Keys -> Contents \cup {Nil}] /\ CommittedFilesAreWhole'
    BY <1>1 DEF CacheTypeOK, CommittedFilesAreWhole, dirVars
  <1>4. key' = key /\ closed' = closed /\ UNCHANGED fdVars /\ pc[c] \notin Own \cup {"readFd"}
    BY <1>1 DEF Own
  <1>5. /\ "fill" \in PC /\ "fill" \notin {"checkClosed", "rename"}
        /\ "fill" \notin Own \cup {"readFd", "writeBuf", "writeFile"}
    BY DEF PC, Own
  <1>6. CASE Move(c, "idle", Nil) /\ dataCache' = dataCache /\ RecycleBufs({obj[c]})
    <2>1. dataCache' \in [Keys -> Bufs \cup {Nil}]
      BY <1>6 DEF CacheTypeOK
    <2>2. \A k \in Keys : dataCache'[k] \in {dataCache[k], Nil}
      BY <1>6
    <2>3. \A b \in {obj[c]} : b \in Bufs /\ b = obj[c] /\ pc[c] = "writeBuf"
      BY <1>1, <1>2
    <2>4. RecyclerStep(c, "idle", Nil, {obj[c]})
      BY <1>3, <1>4, <1>6, <2>1, <2>2, <2>3, AtRest DEF RecyclerStep
    <2>. QED BY <2>4, RecyclerKeeps
  <1>7. CASE /\ dataCache[key[c]] = Nil /\ dataCache' \in Inserted(dataCache, key[c], obj[c], DataEntries)
             /\ Move(c, "fill", dataCache'[key[c]]) /\ RecycleBufs({})
    <2>1. /\ dataCache' \in [Keys -> (Bufs \cup {Nil}) \cup {obj[c], Nil}] /\ dataCache'[key[c]] = obj[c]
          /\ \A j \in Keys \ {key[c]} : dataCache'[j] \in {dataCache[j], Nil}
      BY <1>1, <1>7, Inserts DEF CacheTypeOK
    <2>2. dataCache' \in [Keys -> Bufs \cup {Nil}]
      BY <1>2, <2>1
    <2>3. SharedBuf(obj[c], key[c])
      BY <1>1, <1>2 DEF SharedBuf
    <2>4. Move(c, "fill", obj[c])
      BY <1>7, <2>1
    <2>5. \A k \in Keys : \/ dataCache'[k] \in {dataCache[k], Nil}
                          \/ pc[c] = "writeBuf" /\ dataCache'[k] = obj[c] /\ buf[obj[c]] = k
      BY <1>1, <2>1
    <2>6. obj[c] \in Bufs \cup {Nil} /\ RecycleBufs({})
      BY <1>2, <1>7
    <2>7. "fill" \in Referring =>
              \/ "fill" = "rename" /\ obj[c] = Nil
              \/ /\ SharedBuf(obj[c], key[c])
                 /\ BufReferred(obj[c]) \/ (pc[c] = "writeBuf" /\ obj[c] = obj[c])
      BY <1>1, <2>3
    <2>8. RecyclerStep(c, "fill", obj[c], {})
      BY <1>3, <1>4, <1>5, <2>2, <2>4, <2>5, <2>6, <2>7 DEF RecyclerStep
    <2>. QED BY <2>8, RecyclerKeeps
  <1>8. CASE /\ dataCache[key[c]] # Nil /\ dataCache' = dataCache
             /\ Move(c, "fill", dataCache'[key[c]]) /\ RecycleBufs({obj[c]})
    <2>1. dataCache' \in [Keys -> Bufs \cup {Nil}] /\ dataCache[key[c]] \in Bufs \cup {Nil}
      BY <1>1, <1>8 DEF CacheTypeOK
    <2>2. SharedBuf(dataCache[key[c]], key[c]) /\ BufReferred(dataCache[key[c]])
      BY <1>1, <1>8 DEF BufInv, SharedBufs, BufReferred, InCache
    <2>3. dataCache[key[c]] # obj[c]
      BY <1>2, <2>2
    <2>4. Move(c, "fill", dataCache[key[c]])
      BY <1>8
    <2>5. \A k \in Keys : dataCache'[k] \in {dataCache[k], Nil}
      BY <1>8
    <2>6. \A b \in {obj[c]} : b \in Bufs /\ b = obj[c] /\ pc[c] = "writeBuf" /\ dataCache[key[c]] # b
      BY <1>1, <1>2, <2>3
    <2>7. "fill" \in Referring =>
              \/ "fill" = "rename" /\ dataCache[key[c]] = Nil
              \/ /\ SharedBuf(dataCache[key[c]], key[c])
                 /\ BufReferred(dataCache[key[c]]) \/ (pc[c] = "writeBuf" /\ dataCache[key[c]] = obj[c])
      BY <2>2
    <2>8. RecycleBufs({obj[c]})
      BY <1>8
    <2>9. RecyclerStep(c, "fill", dataCache[key[c]], {obj[c]})
      BY <1>3, <1>4, <1>5, <2>1, <2>4, <2>5, <2>6, <2>7, <2>8 DEF RecyclerStep
    <2>. QED BY <2>9, RecyclerKeeps
  <1>. QED BY <1>6, <1>7, <1>8 DEF CommitBuf

\* The commit of the file: the write, the closed check and the rename.
LEMMA CommitKeeps ==
    ASSUME DCInv, UNCHANGED config, NEW c \in Clients, Fill(c) \/ CommitFile(c) \/ Rename(c)
    PROVE  DCInv'
  <1> USE DEF DCInv
  <1>1. /\ pc[c] \in {"fill", "checkClosed", "rename", "writeFile"} /\ key[c] \in Keys
        /\ UNCHANGED <<closed, key, dataCache, fdVars>> /\ RecycleBufs({})
    BY DEF Fill, CommitFile, Rename, CacheTypeOK
  <1>2. dataCache' \in [Keys -> Bufs \cup {Nil}]
    BY <1>1 DEF CacheTypeOK
  <1>3. \/ obj[c] = Nil /\ pc[c] \in {"rename", "writeFile"}
        \/ SharedBuf(obj[c], key[c]) /\ obj[c] \in Bufs /\ BufReferred(obj[c])
    BY <1>1 DEF BufInv, SharedBufs, OwnedBufs, Referring, SharedBuf, BufReferred
  <1>4. \/ pc[c] = "fill" /\ Move(c, "checkClosed", obj[c])
        \/ pc[c] \in {"checkClosed", "writeFile"} /\ Move(c, "rename", obj[c])
        \/ Move(c, "idle", Nil)
    BY DEF Fill, CommitFile, Rename
  <1>5. /\ wip' \in [Clients -> Contents \cup {Nil}] /\ \A d \in Clients \ {c} : wip'[d] = wip[d]
        /\ Fill(c) \/ CommitFile(c) => wip'[c] \in {key[c], Nil} \/ pc'[c] = "idle"
    <2>1. CASE Fill(c)
      <3>1. buf[obj[c]] = key[c]
        BY <1>3, <2>1 DEF Fill, SharedBuf
      <3>. QED BY <1>1, <2>1, <3>1 DEF Fill, CacheTypeOK, Contents
    <2>2. CASE CommitFile(c)
      BY <2>2 DEF CommitFile, dirVars, CacheTypeOK, WipIsWhole
    <2>3. CASE Rename(c)
      <3>1. wip' = [wip EXCEPT ![c] = Nil]
        BY <2>3 DEF Rename
      <3>. QED BY <3>1 DEF CacheTypeOK
    <2>. QED BY <2>1, <2>2, <2>3
  <1>6. disk' \in [Keys -> Contents \cup {Nil}] /\ CommittedFilesAreWhole'
    <2>1. CASE disk' = disk
      BY <2>1 DEF CacheTypeOK, CommittedFilesAreWhole
    <2>2. CASE Rename(c) /\ disk' = [disk EXCEPT ![key[c]] = wip[c]] /\ wip[c] # Nil
      <3>1. wip[c] = key[c]
        BY <2>2 DEF Rename, WipIsWhole
      <3>. QED BY <1>1, <2>2, <3>1 DEF CacheTypeOK, Contents, CommittedFilesAreWhole
    <2>. QED BY <2>1, <2>2 DEF Fill, CommitFile, Rename, dirVars
  <1>7. ASSUME NEW to \in PC \ (Own \cup {"readFd", "writeBuf", "writeFile"}),
               NEW o \in Bufs \cup {Nil}, Move(c, to, o),
               to \in Referring => (to = "rename" /\ o = Nil) \/ (SharedBuf(o, key[c]) /\ BufReferred(o)),
               to \in {"checkClosed", "rename"} => wip'[c] \in {key[c], Nil}
        PROVE  DCInv'
    <2>1. pc[c] \notin Own \cup {"readFd"}
      BY <1>1 DEF Own
    <2>2. RecyclerStep(c, to, o, {})
      BY <1>1, <1>2, <1>5, <1>6, <1>7, <2>1 DEF RecyclerStep
    <2>. QED BY <2>2, RecyclerKeeps
  <1>8. CASE Move(c, "idle", Nil)
    BY <1>7, <1>8 DEF PC, Own, Referring
  <1>9. CASE pc[c] = "fill" /\ Move(c, "checkClosed", obj[c])
    <2>1. wip'[c] \in {key[c], Nil}
      <3>1. pc'[c] = "checkClosed" /\ Fill(c)
        BY <1>9 DEF Move, CacheTypeOK, Fill, CommitFile, Rename
      <3>. QED BY <1>5, <3>1
    <2>. QED BY <1>3, <1>7, <1>9, <2>1 DEF PC, Own
  <1>10. CASE pc[c] \in {"checkClosed", "writeFile"} /\ Move(c, "rename", obj[c])
    <2>1. wip'[c] \in {key[c], Nil}
      <3>1. pc'[c] = "rename" /\ CommitFile(c)
        BY <1>10 DEF Move, CacheTypeOK, Fill, CommitFile, Rename
      <3>. QED BY <1>5, <3>1
    <2>. QED BY <1>3, <1>7, <1>10, <2>1 DEF PC, Own
  <1>. QED BY <1>4, <1>8, <1>9, <1>10

\* The two halves of Close.
LEMMA CloseKeeps ==
    ASSUME DCInv, UNCHANGED config, Close
    PROVE  DCInv'
  <1> USE DEF DCInv
  <1>1. UNCHANGED <<pc, key, obj, bufVars, fdVars>> /\ closed' \in {"closing", "closed"}
    BY DEF Close
  <1>2. disk' = disk \/ disk' = [k \in Keys |-> Nil]
    BY DEF Close
  <1>3. wip' = wip \/ wip' = [c \in Clients |-> Nil]
    BY DEF Close
  <1>4. CacheTypeOK'
    <2>1. disk' \in [Keys -> Contents \cup {Nil}]
      BY <1>2 DEF CacheTypeOK
    <2>2. wip' \in [Clients -> Contents \cup {Nil}]
      BY <1>3 DEF CacheTypeOK
    <2>. QED BY <1>1, <2>1, <2>2 DEF CacheTypeOK, config, bufVars, fdVars
  <1>5. BufInv'
    BY <1>1 DEF BufInv, SharedBufs, SharedBuf, OwnedBufs, BufReferred, InCache, bufVars
  <1>6. FileInv'
    BY <1>1 DEF FileInv, SharedFiles, OwnedFiles, OpenFor, NoDescriptorLeak, FdReferred, InCache, fdVars
  <1>7. WipIsWhole'
    BY <1>1, <1>3 DEF WipIsWhole
  <1>8. CommittedFilesAreWhole'
    BY <1>2 DEF CommittedFilesAreWhole
  <1>. QED BY <1>4, <1>5, <1>6, <1>7, <1>8

\* The invariant of the chunk cache, for any numbers of clients, chunks, buffers and
\* files and any sizes of the two caches.
THEOREM CacheInvariant == CacheSpec => []DCInv
  <1>1. ASSUME DCInv, CacheNext PROVE DCInv'
    <2> USE <1>1
    <2>1. UNCHANGED config
      BY DEF CacheNext
    <2>2. ASSUME NEW c \in Clients, NEW k \in Keys, NEW opt \in BOOLEAN, Get(c, k, opt) \/ Add(c, k, opt)
          PROVE  DCInv'
      BY <2>1, <2>2, GetKeeps
    <2>3. ASSUME NEW c \in Clients,
                 \/ LookupData(c) \/ LookupFd(c) \/ OpenFile(c)
                 \/ CloseCached(c) \/ CloseOpened(c) \/ CloseDirect(c)
          PROVE  DCInv'
      BY <2>1, <2>3, LookupKeeps, OpenFileKeeps, CloseReaderKeeps
    <2>4. ASSUME NEW c \in Clients,
                 \/ Create(c) \/ Write(c) \/ Abort(c) \/ CommitBuf(c) \/ Fill(c)
                 \/ CommitFile(c) \/ Rename(c)
          PROVE  DCInv'
      BY <2>1, <2>4, CreateKeeps, WriteKeeps, AbortKeeps, CommitBufKeeps, CommitKeeps
    <2>. QED BY <2>1, <2>2, <2>3, <2>4, CloseKeeps DEF CacheNext, CacheStep
  <1>2. ASSUME DCInv, UNCHANGED directoryCacheVars PROVE DCInv'
    <2> USE <1>2 DEF DCInv, directoryCacheVars
    <2>1. CacheTypeOK'
      BY DEF CacheTypeOK
    <2>2. BufInv'
      BY DEF BufInv, SharedBufs, SharedBuf, OwnedBufs, BufReferred, InCache
    <2>3. FileInv'
      BY DEF FileInv, SharedFiles, OwnedFiles, OpenFor, NoDescriptorLeak, FdReferred, InCache
    <2>4. WipIsWhole' /\ CommittedFilesAreWhole'
      BY DEF WipIsWhole, CommittedFilesAreWhole
    <2>. QED BY <2>1, <2>2, <2>3, <2>4
  <1>. QED BY <1>1, <1>2, CacheStarts, PTL DEF CacheSpec

\* A reader reads its chunk until it is closed, and no descriptor leaks (cache.go:Get).
THEOREM ChunksStayReadable == CacheSpec => []ReadersSeeTheirChunk
  <1>1. DCInv => ReadersSeeTheirChunk
    <2> SUFFICES ASSUME DCInv PROVE ReadersSeeTheirChunk
      OBVIOUS
    <2>1. ASSUME NEW c \in Clients, pc[c] = "readBuf" PROVE buf[obj[c]] = key[c]
      BY <2>1 DEF DCInv, BufInv, SharedBufs, SharedBuf, Referring
    <2>2. ASSUME NEW c \in Clients, pc[c] \in {"readFd", "readFile", "readDirect", "readPass"}
          PROVE  obj[c] \in opened /\ content[obj[c]] = key[c]
      BY <2>2 DEF DCInv, FileInv, SharedFiles, OwnedFiles, OpenFor, Own
    <2>. QED BY <2>1, <2>2 DEF ReadersSeeTheirChunk, DCInv, FileInv
  <1>. QED BY <1>1, CacheInvariant, PTL

\* A committed file has the whole chunk of its key (cache.go:Add).
THEOREM CommitsAreWhole == CacheSpec => []CommittedFilesAreWhole
  <1>1. DCInv => CommittedFilesAreWhole
    BY DEF DCInv
  <1>. QED BY <1>1, CacheInvariant, PTL

-----------------------------------------------------------------------------
(* The streams of the analyzer's container. *)

\* The closer is set before the flag, the flag before the broadcast; a reader that is past
\* the wait has seen one of them.
CloserInv ==
    /\ initialized \/ main \in {"initialize", "broadcast"} \/ reader \in {"read", "eof"} => closer
    /\ reader = "waiting" /\ ~waiting => closer

\* The end of stdin finds its closer, although registerCloser takes no lock to set it and
\* to wake the reader, for any numbers of reads and lines.
THEOREM CloserStaysSet == IOSpec => []CloserIsSet
  <1>1. IOInit => CloserInv
    BY DEF IOInit, CloserInv
  <1>2. ASSUME CloserInv, [IONext]_ioVars PROVE CloserInv'
    <2>1. CASE RegisterCloser
      BY <1>2, <2>1 DEF CloserInv, RegisterCloser
    <2>2. ASSUME UNCHANGED <<closer, initialized, waiting, reader>>,
                 main' \in {"initialize", "broadcast"} => main \in {"initialize", "broadcast"}
          PROVE  CloserInv'
      BY <1>2, <2>2, ZenonT(60) DEF CloserInv
    <2>3. CASE Check \/ LockCheck \/ Woken
      <3>1. /\ UNCHANGED <<main, closer, initialized, waiting>>
            /\ reader' \in {"lock", "wait"} \/ (reader' = "read" /\ closer)
        BY <1>2, <2>3, ZenonT(60) DEF CloserInv, Check, LockCheck, Woken
      <3> QED
        BY <1>2, <3>1, ZenonT(60) DEF CloserInv
    <2>4. CASE Wait
      BY <1>2, <2>4, ZenonT(60) DEF CloserInv, Wait
    <2>5. CASE ReadStdin \/ CloseIO
      BY <1>2, <2>5, ZenonT(60) DEF CloserInv, ReadStdin, CloseIO
    <2>6. CASE NewTask
      BY <1>2, <2>6, ZenonT(60) DEF CloserInv, NewTask
    <2>7. CASE StartTask \/ Exited \/ LineDetected \/ Timeout \/ KillTask \/ KillTimeout \/ DeleteTask
      BY <2>2, <2>7 DEF StartTask, Exited, LineDetected, Timeout, KillTask, KillTimeout, DeleteTask, streams
    <2>8. CASE WriteLine \/ Exit \/ EndOutput \/ ScanLine \/ Finished \/ UNCHANGED ioVars
      BY <2>2, <2>8 DEF WriteLine, Exit, EndOutput, ScanLine, Finished, ioVars, streams
    <2> QED
      BY <1>2, <2>1, <2>3, <2>4, <2>5, <2>6, <2>7, <2>8 DEF IONext
  <1>3. CloserInv => CloserIsSet
    BY DEF CloserInv, CloserIsSet
  <1> QED
    BY <1>1, <1>2, <1>3, PTL DEF IOSpec
=============================================================================
