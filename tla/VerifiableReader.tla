-------------------------- MODULE VerifiableReader --------------------------
(***************************************************************************)
(* fs/reader/reader.go and the verification of fs/layer/layer.go, for one  *)
(* layer with one file: the chunks that prefetch and background fetch      *)
(* cache before anybody has checked the TOC, the mounts that check it (or  *)
(* skip the check) and then read on demand, chunk by chunk or as one       *)
(* passthrough file.                                                       *)
(*                                                                         *)
(* What the registry delivers for a chunk is "good" when it has the digest *)
(* that the TOC records and "bad" otherwise; a chunk without a recorded    *)
(* digest can only be "bad".                                               *)
(***************************************************************************)
EXTENDS Naturals

CONSTANTS Chunks,    \* the chunks of the file
          NoDigest,  \* those for which the TOC has no digest
          Cachers,   \* goroutines of VerifiableReader.Cache
          Mounts,    \* mounts of this layer
          None

ASSUME ReaderAssumption == NoDigest \subseteq Chunks /\ None \notin Chunks

VARIABLES
    prohibit,  \* vr.prohibitVerifyFailure
    lastErr,   \* whether vr.lastVerifyErr is set
    verify,    \* vr.r.verify
    closed,    \* vr.closed, and the cache with it
    lr,        \* whether l.r is set
    cache,     \* content of each cached chunk, "none" if it is not cached
    whole,     \* content of the cached passthrough file
    caching,   \* a Cache call has passed its closed check
    cpc, cdata,            \* the cachers: control and what they have in hand
    label,                 \* the label of a mount: a TOC digest or "skip"
    pc, data, served,      \* the mounts: control, data in hand, last content
    left,                  \* chunks that a passthrough merge still needs
    skipped    \* ghost: some mount has used SkipVerify

layerVars == <<prohibit, lastErr, verify, lr, skipped>>
cacheVars == <<cache, whole>>
cacherVars == <<caching, cpc, cdata>>
mountVars == <<label, pc, data, served, left>>
vars == <<layerVars, closed, cacheVars, cacherVars, mountVars>>

Contents == {"good", "bad"}
Delivered(c) == IF c \in NoDigest THEN {"bad"} ELSE Contents

Init ==
    /\ prohibit = FALSE /\ lastErr = FALSE /\ verify = FALSE /\ closed = FALSE
    /\ lr = FALSE /\ skipped = FALSE
    /\ cache = [c \in Chunks |-> "none"]
    /\ whole = "none"
    /\ caching = FALSE
    /\ cpc = [w \in Cachers |-> "idle"]
    /\ cdata = [w \in Cachers |-> [chunk |-> None, content |-> "none"]]
    /\ label \in [Mounts -> {"right", "wrong", "skip"}]
    /\ pc = [m \in Mounts |-> "idle"]
    /\ data = [m \in Mounts |-> [chunk |-> None, content |-> "none"]]
    /\ served = [m \in Mounts |-> "none"]
    /\ left = [m \in Mounts |-> {}]

-----------------------------------------------------------------------------
(* Cache: chunks are cached before the layer is verified. *)

Cache ==
    /\ ~caching /\ ~closed
    /\ caching' = TRUE
    /\ UNCHANGED <<layerVars, closed, cacheVars, cpc, cdata, mountVars>>

\* readAndCache misses the cache and peeks at the chunk.  A hit, and a read
\* that fails, change nothing.
ReadAndCache(w, c) ==
    /\ caching /\ cpc[w] = "idle" /\ ~closed /\ cache[c] = "none"
    /\ \E x \in Delivered(c) :
         /\ cdata' = [cdata EXCEPT ![w] = [chunk |-> c, content |-> x]]
         /\ cpc' = [cpc EXCEPT ![w] = IF x = "bad" THEN "judge" ELSE "commit"]
    /\ UNCHANGED <<layerVars, closed, cacheVars, caching, mountVars>>

\* Mutant: the error is recorded after failures have been prohibited, too.
JudgeRecords(w) ==
    /\ cpc[w] = "judge"
    /\ cpc' = [cpc EXCEPT ![w] = IF prohibit THEN "idle" ELSE "commit"]
    /\ lastErr' = TRUE
    /\ UNCHANGED <<prohibit, verify, lr, skipped, closed, cacheVars, caching,
                   cdata, mountVars>>

\* A chunk without a usable digest or with the wrong one: refused once
\* verification failures are prohibited, cached but recorded before that.
\* VerifyTOC cannot come between the test and the record, which share the
\* read lock.
Judge(w) ==
    /\ cpc[w] = "judge"
    /\ cpc' = [cpc EXCEPT ![w] = IF prohibit THEN "idle" ELSE "commit"]
    /\ lastErr' = (lastErr \/ ~prohibit)
    /\ UNCHANGED <<prohibit, verify, lr, skipped, closed, cacheVars, caching,
                   cdata, mountVars>>

\* w.Commit, which fails when the cache is closed.
Commit(w) ==
    /\ cpc[w] = "commit"
    /\ cpc' = [cpc EXCEPT ![w] = "idle"]
    /\ cache' = IF closed THEN cache
                ELSE [cache EXCEPT ![cdata[w].chunk] = cdata[w].content]
    /\ UNCHANGED <<layerVars, closed, whole, caching, cdata, mountVars>>

\* Copying the payload or committing it fails: Abort.
CacheAbort(w) ==
    /\ cpc[w] = "commit"
    /\ cpc' = [cpc EXCEPT ![w] = "idle"]
    /\ UNCHANGED <<layerVars, closed, cacheVars, caching, cdata, mountVars>>

-----------------------------------------------------------------------------
(* A mount verifies the layer. *)

To(m, p) == pc' = [pc EXCEPT ![m] = p]

\* layer.Verify and layer.SkipVerify do nothing if l.r is set.
Verify(m) ==
    /\ pc[m] = "idle" /\ label[m] # "skip"
    /\ To(m, IF closed THEN "refused" ELSE IF lr THEN "node" ELSE "toc")
    /\ UNCHANGED <<layerVars, closed, cacheVars, cacherVars, label, data, served, left>>

SkipVerify(m) ==
    /\ pc[m] = "idle" /\ label[m] = "skip"
    /\ To(m, IF lr THEN "node" ELSE "skip")
    /\ UNCHANGED <<layerVars, closed, cacheVars, cacherVars, label, data, served, left>>

\* VerifyTOC: under the write lock failures are prohibited from now on, and
\* the ones so far are looked up.
ProhibitFailure(m) ==
    /\ pc[m] = "toc"
    /\ \/ closed /\ To(m, "fail") /\ UNCHANGED prohibit
       \/ /\ ~closed /\ prohibit' = TRUE
          /\ To(m, IF lastErr THEN "badContent" ELSE "compare")
    /\ UNCHANGED <<lastErr, verify, lr, skipped, closed, cacheVars, cacherVars,
                   label, data, served, left>>

CompareTOC(m) ==
    /\ pc[m] = "compare"
    /\ verify' = (verify \/ label[m] = "right")
    /\ To(m, IF label[m] = "right" THEN "assign" ELSE "fail")
    /\ UNCHANGED <<prohibit, lastErr, lr, skipped, closed, cacheVars, cacherVars,
                   label, data, served, left>>

\* Verify stores what VerifyTOC returned in l.r, nil if it failed.
AssignReader(m) ==
    /\ pc[m] \in {"assign", "fail", "badContent", "skip"}
    /\ lr' = (pc[m] \in {"assign", "skip"})
    /\ skipped' = (skipped \/ pc[m] = "skip")
    /\ To(m, IF pc[m] \in {"assign", "skip"} THEN "node"
             ELSE IF pc[m] = "badContent" THEN "contentError" ELSE "refused")
    /\ UNCHANGED <<prohibit, lastErr, verify, closed, cacheVars, cacherVars,
                   label, data, served, left>>

RootNode(m) ==
    /\ pc[m] = "node"
    /\ To(m, IF closed \/ ~lr THEN "refused" ELSE "mounted")
    /\ UNCHANGED <<layerVars, closed, cacheVars, cacherVars, label, data, served, left>>

-----------------------------------------------------------------------------
(* A mount reads on demand. *)

Serve(m, x) == served' = [served EXCEPT ![m] = x]
Cached(c) == ~closed /\ cache[c] # "none"

\* file.ReadAt finds the chunk in the cache.
ReadHit(m, c) ==
    /\ pc[m] = "mounted" /\ Cached(c)
    /\ Serve(m, cache[c])
    /\ UNCHANGED <<layerVars, closed, cacheVars, cacherVars, label, pc, data, left>>

\* file.ReadAt, or the pre-reader of OpenFile, reads the chunk itself.
ReadMiss(m, c) ==
    /\ pc[m] = "mounted" /\ ~Cached(c)
    /\ \E x \in Delivered(c) : data' = [data EXCEPT ![m] = [chunk |-> c, content |-> x]]
    /\ To(m, "verify")
    /\ UNCHANGED <<layerVars, closed, cacheVars, cacherVars, label, served, left>>

Verified(x) == verify => x = "good"

VerifyChunk(m) ==
    /\ pc[m] = "verify"
    /\ To(m, IF Verified(data[m].content) THEN "cacheData" ELSE "mounted")
    /\ UNCHANGED <<layerVars, closed, cacheVars, cacherVars, label, data, served, left>>

\* cacheData ignores the errors of the cache.
CacheData(m) ==
    /\ pc[m] = "cacheData"
    /\ \/ cache' = cache
       \/ ~closed /\ cache' = [cache EXCEPT ![data[m].chunk] = data[m].content]
    /\ Serve(m, data[m].content)
    /\ To(m, "mounted")
    /\ UNCHANGED <<layerVars, closed, whole, cacherVars, label, data, left>>

\* GetPassthroughFd: the whole file is cached, or its chunks have to be merged.
GetPassthroughFd(m) ==
    /\ pc[m] = "mounted" /\ ~closed
    /\ \/ whole # "none" /\ Serve(m, whole) /\ UNCHANGED <<pc, data, left>>
       \/ /\ whole = "none" /\ To(m, "merge") /\ UNCHANGED served
          /\ left' = [left EXCEPT ![m] = Chunks]
          /\ data' = [data EXCEPT ![m] = [chunk |-> None, content |-> "good"]]
    /\ UNCHANGED <<layerVars, closed, cacheVars, cacherVars, label>>

\* One bad chunk makes the merged file bad.
Merged(d, x) == IF x = "bad" THEN [chunk |-> None, content |-> "bad"] ELSE d

\* Mutant: a chunk that had to be fetched is merged without verification.
MergeChunkUnverified(m, c) ==
    /\ pc[m] = "merge" /\ c \in left[m]
    /\ \E x \in IF Cached(c) THEN {cache[c]} ELSE Delivered(c) :
         /\ left' = [left EXCEPT ![m] = @ \ {c}]
         /\ data' = [data EXCEPT ![m] = Merged(@, x)]
    /\ UNCHANGED <<layerVars, closed, cacheVars, cacherVars, label, pc, served>>

\* prefetchEntireFile: the workers merge the chunks, from the cache or from
\* the registry, in some order; one that does not verify aborts the merge.
MergeChunk(m, c) ==
    /\ pc[m] = "merge" /\ c \in left[m]
    /\ \E x \in IF Cached(c) THEN {cache[c]} ELSE Delivered(c) :
         IF Cached(c) \/ Verified(x)
         THEN /\ left' = [left EXCEPT ![m] = @ \ {c}]
              /\ data' = [data EXCEPT ![m] = Merged(@, x)]
              /\ UNCHANGED pc
         ELSE To(m, "mounted") /\ UNCHANGED <<left, data>>
    /\ UNCHANGED <<layerVars, closed, cacheVars, cacherVars, label, served>>

\* The merged file is committed and looked up again.
MergeCommit(m) ==
    /\ pc[m] = "merge" /\ left[m] = {}
    /\ To(m, "mounted")
    /\ IF closed THEN UNCHANGED <<whole, served>>
       ELSE whole' = data[m].content /\ Serve(m, data[m].content)
    /\ UNCHANGED <<layerVars, closed, cache, cacherVars, label, data, left>>

-----------------------------------------------------------------------------

\* layer.close, when the cache of layers evicts this one: Unmount gives the
\* layer up before it unmounts, so reads may still come.
Close ==
    /\ ~closed
    /\ closed' = TRUE
    /\ UNCHANGED <<layerVars, cacheVars, cacherVars, mountVars>>

Next ==
    \/ Cache \/ Close
    \/ \E w \in Cachers :
         \/ \E c \in Chunks : ReadAndCache(w, c)
         \/ Judge(w) \/ Commit(w) \/ CacheAbort(w)
    \/ \E m \in Mounts :
         \/ Verify(m) \/ SkipVerify(m) \/ ProhibitFailure(m) \/ CompareTOC(m)
         \/ AssignReader(m) \/ RootNode(m)
         \/ \E c \in Chunks : ReadHit(m, c) \/ ReadMiss(m, c) \/ MergeChunk(m, c)
         \/ VerifyChunk(m) \/ CacheData(m) \/ GetPassthroughFd(m) \/ MergeCommit(m)

Spec == Init /\ [][Next]_vars

-----------------------------------------------------------------------------
(* Properties. *)

Data == [chunk : Chunks \cup {None}, content : Contents \cup {"none"}]
MountPC == {"idle", "toc", "compare", "assign", "skip", "fail", "badContent",
            "contentError", "refused", "node", "mounted", "verify", "cacheData",
            "merge"}

\* Types; the data that a cacher or a reader is about to store is a chunk's.
TypeOK ==
    /\ {prohibit, lastErr, verify, closed, lr, caching, skipped} \subseteq BOOLEAN
    /\ cache \in [Chunks -> Contents \cup {"none"}]
    /\ whole \in Contents \cup {"none"}
    /\ cpc \in [Cachers -> {"idle", "judge", "commit"}]
    /\ cdata \in [Cachers -> Data]
    /\ \A w \in Cachers : cpc[w] # "idle" => cdata[w].chunk \in Chunks
    /\ label \in [Mounts -> {"right", "wrong", "skip"}]
    /\ pc \in [Mounts -> MountPC]
    /\ data \in [Mounts -> Data]
    /\ \A m \in Mounts : pc[m] \in {"verify", "cacheData"} => data[m].chunk \in Chunks
    /\ served \in [Mounts -> Contents \cup {"none"}]
    /\ left \in [Mounts -> SUBSET Chunks]

\* Once VerifyTOC has succeeded nothing in the cache is unverified, neither a
\* chunk nor a passthrough file, although prefetch caches chunks before and
\* while the TOC is checked (unless a mount has skipped verification).
VerifiedCacheIsClean ==
    verify /\ ~skipped =>
        /\ \A c \in Chunks : cache[c] # "bad"
        /\ whole # "bad"

\* A mount never serves content that does not have the digest of the TOC,
\* from the cache, from the registry or from a merged passthrough file, unless
\* a mount of this layer has skipped verification.
ServesVerified ==
    ~skipped => \A m \in Mounts : served[m] # "bad"

\* Concurrent mounts agree about the contents: when one has passed VerifyTOC,
\* none is refused for "content error occurs during caching contents".
VerdictsAgree ==
    verify => \A m \in Mounts : pc[m] \notin {"badContent", "contentError"}

\* A mount that has passed Verify or SkipVerify still finds l.r when it asks
\* for the root node, if no other mount brought a wrong TOC digest.
VerifiedReaderStays ==
    (\A m \in Mounts : label[m] # "wrong") /\ ~closed /\ ~skipped
        => \A m \in Mounts : pc[m] = "node" => lr

\* What VerifyTOC promises the mounts: when one has passed it, none is refused for the
\* contents, the cache has no content without its digest, and the mount still finds its
\* reader when it asks for the root node.
VerificationHolds == VerdictsAgree /\ VerifiedCacheIsClean /\ VerifiedReaderStays
=============================================================================
