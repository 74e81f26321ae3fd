---------------------------- MODULE MetadataReader ----------------------------
(***************************************************************************)
(* The life of the readers of the metadata database                        *)
(* (cmd/containerd-stargz-grpc/db/reader.go): NewReader finds the TOC of a *)
(* blob, makes the bucket of a filesystem and stores the entries of the    *)
(* TOC in the background; the operations on the metadata wait for that;    *)
(* Clone shares the bucket, Close removes it.                              *)
(*                                                                         *)
(* Writes go through Batch of the database, which runs the functions of    *)
(* concurrent callers in one transaction.  When one of them fails, the     *)
(* transaction is rolled back, the failed one is run again by itself and   *)
(* the others are run again together.  What a function reads and writes    *)
(* outside the transaction, the decoder and the map, is not rolled back.   *)
(*                                                                         *)
(* A reader has at most one function under way (OneFunctionEach), and a    *)
(* function touches the bucket, the decoder and the map of its reader      *)
(* only: so each finds what was there before the transaction, whatever ran *)
(* in it earlier.                                                          *)
(***************************************************************************)
EXTENDS Integers, Sequences

CONSTANTS
    Readers,    \* calls of NewReader, each with an id of its own
    Callers,    \* users of the readers
    Tocs        \* sequences of "ok", "link" (its target is missing) and "syntax"

ASSUME MetadataReaderAssumption == Tocs \subseteq Seq({"ok", "link", "syntax"})

VARIABLES
    toc,        \* reader -> its TOC
    stage,      \* reader -> where NewReader and its background initialization are
    tmp,        \* readers whose temporary copy of the TOC exists
    dec,        \* reader -> entries the JSON decoder has consumed
    md,         \* reader -> entries in the map that becomes the metadata buckets
    db,         \* reader -> [exists, nodes, meta]: its bucket
    pending,    \* calls waiting for a common transaction: <<reader, function>>
    solo,       \* calls that are run again by themselves
    closing,    \* readers that have been closed, or are being closed
    again,      \* history: readers whose nodes function ran more than once
    call        \* caller -> [reader, op, pc, ans]

readerVars == <<toc, stage, tmp, dec, md>>
dbVars == <<readerVars, db, pending, solo, closing, again, call>>

Empty == [exists |-> FALSE, nodes |-> {}, meta |-> {}]
NoCall == [reader |-> 0, op |-> "none", pc |-> "idle", ans |-> "none"]

ReaderInit ==
    /\ toc \in [Readers -> Tocs]
    /\ stage = [r \in Readers |-> "footer"] /\ tmp = {}
    /\ dec = [r \in Readers |-> 0] /\ md = [r \in Readers |-> {}]
    /\ db = [r \in Readers |-> Empty]
    /\ pending = {} /\ solo = {} /\ closing = {} /\ again = {}
    /\ call = [c \in Callers |-> NoCall]

-----------------------------------------------------------------------------
(* The functions passed to Batch: <<r, "root">> makes the bucket of r,     *)
(* <<r, "nodes">>, <<r, "meta">> and <<r, "stream">> fill it, and          *)
(* <<r, "close">> removes it.                                              *)

\* The entries that initNodes is to store, from where the decoder is, and those that fail.
Rest(r) == (dec[r] + 1) .. Len(toc[r])
Bad(r) == {k \in Rest(r) : toc[r][k] # "ok"}
FirstBad(r) == CHOOSE k \in Bad(r) : \A j \in Bad(r) : k <= j

Succeeds(f) ==
    \/ f[2] = "root"
    \/ db[f[1]].exists /\ (f[2] = "nodes" => Bad(f[1]) = {})

\* What a run of initNodes leaves of the decoder and adds to the map, up to the first
\* entry that fails; one whose target is missing has been decoded.
StoredNodes(r) ==
    IF Bad(r) = {} THEN Rest(r) ELSE (dec[r] + 1) .. (FirstBad(r) - 1)
Decoded(r) ==
    IF Bad(r) = {} THEN Len(toc[r])
    ELSE IF toc[r][FirstBad(r)] = "link" THEN FirstBad(r) ELSE FirstBad(r) - 1

\* The functions fs run: outside the transaction.
Run(fs) ==
    LET storing == {r \in Readers : <<r, "nodes">> \in fs /\ db[r].exists} IN
    /\ dec' = [r \in Readers |-> IF r \in storing THEN Decoded(r) ELSE dec[r]]
    /\ md' = [r \in Readers |-> IF r \in storing THEN md[r] \cup StoredNodes(r) ELSE md[r]]

\* The transaction of the functions fs, which have all succeeded, is committed.  The inner
\* offsets that "stream" stores are not told apart.
Bucket(r, fs) ==
    IF <<r, "root">> \in fs THEN [exists |-> TRUE, nodes |-> {}, meta |-> {}]
    ELSE IF <<r, "nodes">> \in fs THEN [exists |-> TRUE, nodes |-> db[r].nodes \cup Rest(r), meta |-> db[r].meta]
    ELSE IF <<r, "meta">> \in fs THEN [exists |-> TRUE, nodes |-> db[r].nodes, meta |-> md[r]]
    ELSE IF <<r, "close">> \in fs THEN Empty
    ELSE db[r]
CommitTx(fs) == db' = [r \in Readers |-> Bucket(r, fs)]

-----------------------------------------------------------------------------
(* What its submitter does with the end of a call. *)

StageAfter(s, ans) ==
    IF ans = "error" THEN "failed" ELSE IF s = "root" THEN "copy" ELSE IF s = "nodes" THEN "store"
    ELSE IF s = "meta" THEN "index" ELSE "ready"

Done(fs, ans) ==
    /\ stage' = [r \in Readers |-> IF <<r, stage[r]>> \in fs THEN StageAfter(stage[r], ans) ELSE stage[r]]
    /\ tmp' = {r \in tmp : stage'[r] \notin {"ready", "failed"}}
    /\ call' = [c \in Callers |-> IF call[c].pc = "batch" /\ <<call[c].reader, "close">> \in fs
                                  THEN [call[c] EXCEPT !.pc = "done", !.ans = ans] ELSE call[c]]

\* A transaction of the whole batch is committed.
RunBatch ==
    /\ pending # {} /\ \A f \in pending : Succeeds(f)
    /\ Run(pending) /\ CommitTx(pending) /\ Done(pending, "ok")
    /\ pending' = {}
    /\ UNCHANGED <<toc, solo, closing, again>>

\* A transaction of the whole batch is rolled back: f fails after those before it have run.
BatchFails(f, before) ==
    /\ f \in pending \ before /\ before \subseteq pending
    /\ ~Succeeds(f) /\ \A g \in before : Succeeds(g)
    /\ Run(before \cup {f})
    /\ pending' = pending \ {f} /\ solo' = solo \cup {f}
    /\ again' = again \cup {r \in Readers : <<r, "nodes">> \in before \cup {f}}
    /\ UNCHANGED <<toc, stage, tmp, db, closing, call>>

\* A transaction of f by itself.
RunSolo(f) ==
    /\ f \in solo
    /\ Run({f}) /\ Done({f}, IF Succeeds(f) THEN "ok" ELSE "error")
    /\ IF Succeeds(f) THEN CommitTx({f}) ELSE UNCHANGED db
    /\ solo' = solo \ {f}
    /\ UNCHANGED <<toc, pending, closing, again>>

-----------------------------------------------------------------------------
(* NewReader and the background initialization of reader r. *)

Submit(r, f, to) ==
    /\ pending' = pending \cup {<<r, f>>}
    /\ stage' = [stage EXCEPT ![r] = to]
    /\ UNCHANGED <<toc, tmp, dec, md, db, solo, closing, again, call>>

\* The footer is read and parsed, and the TOC found; else nothing is made.
FindTOC(r) ==
    /\ stage[r] = "footer"
    /\ \/ Submit(r, "root", "root")
       \/ stage' = [stage EXCEPT ![r] = "refused"] /\ UNCHANGED <<toc, tmp, dec, md, db, pending, solo, closing, again, call>>

\* init: the TOC is copied to a temporary file; a failure leaves the bucket behind.
CopyTOC(r) ==
    /\ stage[r] = "copy"
    /\ \/ stage' = [stage EXCEPT ![r] = "init"] /\ tmp' = tmp \cup {r}
       \/ stage' = [stage EXCEPT ![r] = "refused"] /\ UNCHANGED tmp
    /\ UNCHANGED <<toc, dec, md, db, pending, solo, closing, again, call>>

\* The background initialization ends, and the copy of the TOC is removed.
InitEnds(r, to) ==
    /\ stage' = [stage EXCEPT ![r] = to] /\ tmp' = tmp \ {r}
    /\ UNCHANGED <<toc, dec, md, db, pending, solo, closing, again, call>>

\* The nodes, unless there are no entries to be found; then the buckets made from the map.
InitNodes(r) ==
    /\ stage[r] = "init"
    /\ Submit(r, "nodes", "nodes") \/ InitEnds(r, "failed")
InitMetadata(r) == stage[r] = "store" /\ Submit(r, "meta", "meta")

\* The inner offsets of the streams that several chunks share, if there are any.
InitStreams(r) ==
    /\ stage[r] = "index"
    /\ Submit(r, "stream", "stream") \/ InitEnds(r, "ready")

\* The initialization runs in the background of a reader that has been returned.
Returned(r) == stage[r] \in {"init", "nodes", "store", "meta", "index", "stream", "ready", "failed"}

-----------------------------------------------------------------------------
(* Operations on a reader or a clone of it.  A layer closes its reader once. *)

Operate(c, r, op) ==
    /\ call[c].pc = "idle" /\ Returned(r)
    /\ op = "close" => r \notin closing
    /\ closing' = IF op = "close" THEN closing \cup {r} ELSE closing
    /\ call' = [call EXCEPT ![c] = [reader |-> r, op |-> op, pc |-> "wait", ans |-> "none"]]
    /\ UNCHANGED <<readerVars, db, pending, solo, again>>

\* Mutant: an operation waits for the nodes only.
WaitInitEarly(c) ==
    /\ call[c].pc = "wait" /\ stage[call[c].reader] \in {"store", "meta", "index", "stream", "ready", "failed"}
    /\ call' = [call EXCEPT ![c] = IF stage[call[c].reader] = "failed"
                                   THEN [@ EXCEPT !.pc = "done", !.ans = "error"] ELSE [@ EXCEPT !.pc = "tx"]]
    /\ UNCHANGED <<readerVars, db, pending, solo, closing, again>>

\* An operation fails with the initialization, Close included.
waitInit(c) ==
    /\ call[c].pc = "wait" /\ stage[call[c].reader] \in {"ready", "failed"}
    /\ call' = [call EXCEPT ![c] = IF stage[call[c].reader] = "failed"
                                   THEN [@ EXCEPT !.pc = "done", !.ans = "error"] ELSE [@ EXCEPT !.pc = "tx"]]
    /\ UNCHANGED <<readerVars, db, pending, solo, closing, again>>

\* What a view finds of the entries.
Complete(r) == db[r].nodes = 1 .. Len(toc[r]) /\ db[r].meta = 1 .. Len(toc[r])

View(c) ==
    /\ call[c].pc = "tx" /\ call[c].op = "view"
    /\ LET r == call[c].reader IN
       call' = [call EXCEPT ![c] =
                   [@ EXCEPT !.pc = "done",
                             !.ans = IF ~db[r].exists THEN "error" ELSE IF Complete(r) THEN "all" ELSE "part"]]
    /\ UNCHANGED <<readerVars, db, pending, solo, closing, again>>

CloseReader(c) ==
    /\ call[c].pc = "tx" /\ call[c].op = "close"
    /\ pending' = pending \cup {<<call[c].reader, "close">>}
    /\ call' = [call EXCEPT ![c] = [@ EXCEPT !.pc = "batch"]]
    /\ UNCHANGED <<readerVars, db, solo, closing, again>>

Return(c) ==
    /\ call[c].pc = "done" /\ call' = [call EXCEPT ![c] = NoCall]
    /\ UNCHANGED <<readerVars, db, pending, solo, closing, again>>

ReaderNext ==
    \/ \E r \in Readers : FindTOC(r) \/ CopyTOC(r) \/ InitNodes(r) \/ InitMetadata(r) \/ InitStreams(r)
    \/ RunBatch
    \/ \E f \in pending, before \in SUBSET pending : BatchFails(f, before)
    \/ \E f \in solo : RunSolo(f)
    \/ \E c \in Callers :
         \/ \E r \in Readers, op \in {"view", "close"} : Operate(c, r, op)
         \/ waitInit(c) \/ View(c) \/ CloseReader(c) \/ Return(c)

ReaderSpec == ReaderInit /\ [][ReaderNext]_dbVars

-----------------------------------------------------------------------------
(* Properties. *)

\* An operation that gets through sees every entry of the TOC, also while other
\* readers begin, fail and end, unless a failure in a common transaction had the
\* entries of its reader stored again.
ViewsAreComplete ==
    \A c \in Callers : call[c].ans = "part" => call[c].reader \in again

\* The temporary copy of a TOC is gone when its initialization has ended.
NoTempLeft ==
    \A r \in tmp : stage[r] \in {"init", "nodes", "store", "meta", "index", "stream"}
=============================================================================
