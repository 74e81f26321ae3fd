------------------------------ MODULE Converter ------------------------------
(***************************************************************************)
(* The converters of layers (nativeconverter): to eStargz, to eStargz      *)
(* without changing the tar (lossless), and to zstd:chunked.  containerd   *)
(* converts the layers of an image at once, each in a goroutine; the blob  *)
(* of a layer is copied into a writer of the content store and, through a  *)
(* pipe, to a goroutine that counts its uncompressed bytes.  With external *)
(* TOCs, each conversion records its TOC in a map from which an image is   *)
(* made at the end.                                                        *)
(*                                                                         *)
(* A blob has Parts parts.  The writer of a layer is named after it, so it *)
(* is shared by equal layers, and outlives a conversion that is killed.    *)
(***************************************************************************)
EXTENDS Integers, FiniteSets

CONSTANTS Jobs, Layers, Parts, MaxInterrupts, NoJob, NoLayer

ConverterAssumption == Parts \in Nat \ {0} /\ MaxInterrupts \in Nat /\ NoJob \notin Jobs

VARIABLES
    kind, external,     \* the converter, and whether its TOCs are external
    job,                \* job -> [layer, pc, n, fault]; n: parts copied
    counter,            \* job -> [st, n]: the goroutine that counts, and its count
    meta, opts,         \* zstd: the annotations of the job's compressor, and the last compressor in the options
    lock, data,         \* the writers: layer -> who has it open, and the parts in it
    store,              \* the layers whose conversion is in the content store
    tocs, raced,        \* the map of TOCs; two goroutines wrote to it at once
    image,              \* the layers in the image of the TOCs
    interrupts

jobVars == <<job, counter>>
zstdVars == <<meta, opts>>
storeVars == <<lock, data, store>>
tocVars == <<tocs, raced, image>>
vars == <<kind, external, jobVars, zstdVars, storeVars, tocVars, interrupts>>

Idle == [layer |-> NoLayer, pc |-> "idle", n |-> 0, fault |-> FALSE]
Off == [st |-> "off", n |-> 0]

Init ==
    /\ kind \in {"estargz", "lossless", "zstd"} /\ external \in BOOLEAN /\ (kind = "zstd" => ~external)
    /\ job = [j \in Jobs |-> Idle] /\ counter = [j \in Jobs |-> Off]
    /\ meta = [j \in Jobs |-> NoLayer] /\ opts = NoJob
    /\ lock = [l \in Layers |-> NoJob] /\ data = [l \in Layers |-> 0] /\ store = {}
    /\ tocs = {} /\ raced = FALSE /\ image = {}
    /\ interrupts = 0

-----------------------------------------------------------------------------
At(j, pc) == job[j].pc = pc
GoTo(j, pc) == job' = [job EXCEPT ![j] = [job[j] EXCEPT !.pc = pc]]

\* An error returns from the conversion; the deferred Close of the writer unlocks it.
Fail(j, fault) ==
    /\ job' = [job EXCEPT ![j] = [layer |-> job[j].layer, pc |-> "failed", n |-> job[j].n, fault |-> fault]]
    /\ lock' = [l \in Layers |-> IF lock[l] = j THEN NoJob ELSE lock[l]]

\* zstd appends its compressor to the options, which all conversions share: the last one
\* is in force.
AppendCompressor(j) == IF kind = "zstd" THEN j ELSE opts
CompressorOf(j) == IF kind = "zstd" THEN opts ELSE j

LayerConvert(j, l) ==
    /\ At(j, "idle") /\ image = {}
    /\ job' = [job EXCEPT ![j] = [layer |-> l, pc |-> "build", n |-> 0, fault |-> FALSE]]
    /\ opts' = AppendCompressor(j)
    /\ UNCHANGED <<kind, external, counter, meta, storeVars, tocVars, interrupts>>

\* The layer is read and built; its compressor keeps the annotations of the blob.
Build(j) ==
    /\ At(j, "build")
    /\ \/ /\ GoTo(j, "open")
          /\ meta' = [meta EXCEPT ![CompressorOf(j)] = job[j].layer]
          /\ UNCHANGED lock
       \/ Fail(j, TRUE) /\ UNCHANGED meta
    /\ UNCHANGED <<kind, external, counter, opts, data, store, tocVars, interrupts>>

\* content.OpenWriter waits for the writer of the layer.
OpenWriter(j) ==
    /\ At(j, "open") /\ lock[job[j].layer] = NoJob
    /\ lock' = [lock EXCEPT ![job[j].layer] = j]
    /\ GoTo(j, "truncate")
    /\ UNCHANGED <<kind, external, counter, zstdVars, data, store, tocVars, interrupts>>

\* Mutant: the writer goes on where an old one stopped.
TruncateSkipped(j) ==
    /\ At(j, "truncate")
    /\ GoTo(j, "copy")
    /\ counter' = [counter EXCEPT ![j] = [st |-> "run", n |-> 0]]
    /\ UNCHANGED <<kind, external, zstdVars, storeVars, tocVars, interrupts>>

\* An old writer possibly remains; then the counting starts.
Truncate(j) ==
    /\ At(j, "truncate")
    /\ data' = [data EXCEPT ![job[j].layer] = 0]
    /\ GoTo(j, "copy")
    /\ counter' = [counter EXCEPT ![j] = [st |-> "run", n |-> 0]]
    /\ UNCHANGED <<kind, external, zstdVars, lock, store, tocVars, interrupts>>

\* A part goes through the pipe to the counting goroutine, then to the writer.
Copy(j) ==
    /\ At(j, "copy") /\ job[j].n < Parts
    /\ \/ /\ counter[j].st = "run"
          /\ job' = [job EXCEPT ![j] = [job[j] EXCEPT !.n = @ + 1]]
          /\ data' = [data EXCEPT ![job[j].layer] = @ + 1]
          /\ UNCHANGED lock
       \/ Fail(j, TRUE) /\ UNCHANGED data
    /\ UNCHANGED <<kind, external, counter, zstdVars, store, tocVars, interrupts>>

-----------------------------------------------------------------------------
(* The goroutine that uncompresses and counts. *)

Count(j) ==
    /\ counter[j].st = "run" /\ counter[j].n < job[j].n
    /\ counter' = [counter EXCEPT ![j] = [counter[j] EXCEPT !.n = @ + 1]]
    /\ UNCHANGED <<kind, external, job, zstdVars, storeVars, tocVars, interrupts>>

CountFails(j) ==
    /\ counter[j].st = "run"
    /\ counter' = [counter EXCEPT ![j] = [counter[j] EXCEPT !.st = "failed"]]
    /\ UNCHANGED <<kind, external, job, zstdVars, storeVars, tocVars, interrupts>>

\* It ends with the pipe.
CountEnds(j) ==
    /\ counter[j].st = "run" /\ At(j, "count") /\ counter[j].n = job[j].n
    /\ counter' = [counter EXCEPT ![j] = [counter[j] EXCEPT !.st = "done"]]
    /\ UNCHANGED <<kind, external, job, zstdVars, storeVars, tocVars, interrupts>>

-----------------------------------------------------------------------------
\* The pipe is closed, except by zstd, which does not wait for the count either.
ClosePipe(j) ==
    /\ At(j, "copy") /\ job[j].n = Parts
    /\ GoTo(j, IF kind = "zstd" THEN "commit" ELSE "count")
    /\ UNCHANGED <<kind, external, counter, zstdVars, storeVars, tocVars, interrupts>>

\* Mutant: nobody waits for the count.
WaitCountNot(j) ==
    /\ At(j, "count") /\ kind = "estargz" /\ GoTo(j, "commit")
    /\ UNCHANGED <<kind, external, counter, zstdVars, storeVars, tocVars, interrupts>>

\* eStargz takes the count as it is.
WaitCount(j) ==
    /\ At(j, "count") /\ kind = "estargz" /\ counter[j].st \in {"done", "failed"}
    /\ GoTo(j, "commit")
    /\ UNCHANGED <<kind, external, counter, zstdVars, storeVars, tocVars, interrupts>>

\* Lossless compares it with the one of the tar.
CompareCounts(j) ==
    /\ At(j, "count") /\ kind = "lossless"
    /\ \/ counter[j].st = "failed" /\ Fail(j, TRUE)
       \/ counter[j].st = "done" /\ GoTo(j, "commit") /\ UNCHANGED lock
    /\ UNCHANGED <<kind, external, counter, zstdVars, data, store, tocVars, interrupts>>

\* The store refuses a writer whose size is not the one that was copied.
Commit(j) ==
    /\ At(j, "commit")
    /\ LET l == job[j].layer IN
       IF data[l] # job[j].n THEN Fail(j, FALSE) /\ UNCHANGED <<data, store>>
       ELSE /\ store' = store \cup {l} /\ data' = [data EXCEPT ![l] = 0]
            /\ lock' = [lock EXCEPT ![l] = NoJob]
            /\ GoTo(j, "describe")
    /\ UNCHANGED <<kind, external, counter, zstdVars, tocVars, interrupts>>

\* The new descriptor takes the count and the annotations as they are now.
Describe(j) ==
    /\ At(j, "describe")
    /\ GoTo(j, IF external THEN "toc" ELSE "done")
    /\ counter' = [counter EXCEPT ![j] = [counter[j] EXCEPT !.st = IF counter[j].st = "failed" THEN "failed" ELSE "read"]]
    /\ UNCHANGED <<kind, external, zstdVars, storeVars, tocVars, interrupts>>

-----------------------------------------------------------------------------
(* The map of the TOCs, which no lock protects. *)

writeTOCTo(j) ==
    /\ At(j, "toc")
    /\ \/ /\ GoTo(j, "record") /\ UNCHANGED lock
          /\ raced' = (raced \/ \E k \in Jobs \ {j} : At(k, "record"))
       \/ Fail(j, TRUE) /\ UNCHANGED raced
    /\ UNCHANGED <<kind, external, counter, zstdVars, data, store, tocs, image, interrupts>>

\* Of two writes at once, one may be lost (or the runtime ends the process: Interrupt).
RecordTOC(j) ==
    /\ At(j, "record") /\ GoTo(j, "done")
    /\ tocs' = tocs \cup {job[j].layer} \/ (raced /\ UNCHANGED tocs)
    /\ UNCHANGED <<kind, external, counter, zstdVars, storeVars, raced, image, interrupts>>

\* finalize, once all conversions have succeeded.
Finalize ==
    /\ external /\ image = {} /\ tocs # {} /\ \A j \in Jobs : At(j, "done")
    /\ image' = tocs
    /\ UNCHANGED <<kind, external, jobVars, zstdVars, storeVars, tocs, raced, interrupts>>

\* The process is killed, or a new conversion of the image begins after a failed one.
Interrupt ==
    /\ interrupts < MaxInterrupts /\ interrupts' = interrupts + 1
    /\ job' = [j \in Jobs |-> Idle] /\ counter' = [j \in Jobs |-> Off]
    /\ meta' = [j \in Jobs |-> NoLayer] /\ opts' = NoJob
    /\ lock' = [l \in Layers |-> NoJob]
    /\ tocs' = {} /\ raced' = FALSE /\ image' = {}
    /\ UNCHANGED <<kind, external, data, store>>

Next ==
    \/ \E j \in Jobs :
         \/ \E l \in Layers : LayerConvert(j, l)
         \/ Build(j) \/ OpenWriter(j) \/ Truncate(j) \/ Copy(j)
         \/ Count(j) \/ CountFails(j) \/ CountEnds(j)
         \/ ClosePipe(j) \/ WaitCount(j) \/ CompareCounts(j) \/ Commit(j) \/ Describe(j)
         \/ writeTOCTo(j) \/ RecordTOC(j)
    \/ Finalize \/ Interrupt

Spec == Init /\ [][Next]_vars

-----------------------------------------------------------------------------
(* Properties. *)

Described(j) == job[j].pc \in {"toc", "record", "done"}

\* A conversion fails only for an error of its own: neither what a killed conversion
\* left in the writer nor a conversion of an equal layer at the same time is one.
ConversionRecovers == \A j \in Jobs : At(j, "failed") => job[j].fault

\* The descriptor of a layer names a blob of the store and, of an eStargz layer, its
\* whole uncompressed size, unless the counting itself failed.
DescriptorIsTrue ==
    \A j \in Jobs : Described(j) =>
        /\ job[j].layer \in store
        /\ kind # "zstd" => counter[j].n = Parts \/ counter[j].st = "failed"

\* The image of the TOCs has one for each converted layer, unless two goroutines wrote
\* to the map at once.
TOCImageIsComplete == image # {} /\ ~raced => \A j \in Jobs : job[j].layer \in image

\* The descriptor of a converted layer tells its uncompressed size, and the image of the
\* TOCs has the TOC of each converted layer.
DescriptorsAreTrue == DescriptorIsTrue /\ TOCImageIsComplete
=============================================================================
