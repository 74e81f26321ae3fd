--------------------------- MODULE ReadingProofs ---------------------------
(***************************************************************************)
(* Proofs about VerifiableReader, for any numbers of chunks, cachers and   *)
(* mounts and any set of chunks without a digest, and about HTTPFetcher,   *)
(* for any numbers of hosts, callers and expiries.                         *)
(***************************************************************************)
EXTENDS VerifiableReader, HTTPFetcher, TLAPS

\* Leaves go to SMT, unless they name another prover.
USE SMTT(60)

\* An error seen is an error recorded: lastErr is set before a bad chunk is
\* committed, and after the prohibition no error is recorded any more, so a
\* verdict "no error so far" stays true.
Recorded ==
    /\ verify => prohibit /\ ~lastErr
    /\ \A m \in Mounts : pc[m] = "compare" => prohibit /\ ~lastErr
    /\ \A m \in Mounts : pc[m] \in {"badContent", "contentError"} => lastErr

\* Before verification only the cachers write to the cache.
CleanWithoutErr ==
    ~lastErr /\ ~skipped =>
        /\ \A c \in Chunks : cache[c] # "bad"
        /\ \A w \in Cachers : cpc[w] = "commit" => cdata[w].content # "bad"

\* If nobody skips verification, whoever reads, reads a verified layer.
ReadersAreVerified ==
    ~skipped =>
        /\ lr => verify
        /\ whole # "bad"
        /\ \A m \in Mounts :
             /\ pc[m] \in {"assign", "mounted", "verify", "cacheData", "merge"} => verify
             /\ pc[m] \in {"cacheData", "merge"} => data[m].content # "bad"
             /\ served[m] # "bad"

IInv == TypeOK /\ Recorded /\ CleanWithoutErr /\ ReadersAreVerified

CacherStep ==
    \/ Cache \/ Close
    \/ \E w \in Cachers :
         \/ \E c \in Chunks : ReadAndCache(w, c)
         \/ Judge(w) \/ Commit(w) \/ CacheAbort(w)

USE DEF Contents, Data, MountPC

\* The initial state satisfies the invariant.
LEMMA InitIInv == Init => IInv
  <1> SUFFICES ASSUME Init PROVE IInv
    OBVIOUS
  <1>1. TypeOK
    BY ZenonT(60) DEF Init, TypeOK
  <1>2. Recorded
    BY DEF Init, Recorded
  <1>3. CleanWithoutErr
    BY DEF Init, CleanWithoutErr
  <1>4. ReadersAreVerified
    BY DEF Init, ReadersAreVerified
  <1> QED
    BY <1>1, <1>2, <1>3, <1>4 DEF IInv

\* Steps of prefetch and background fetch, and close, preserve it.
LEMMA CacherPreserves == IInv /\ CacherStep => IInv'
  <1> SUFFICES ASSUME IInv, CacherStep PROVE IInv'
    OBVIOUS
  <1>1. CASE Cache
    BY <1>1 DEF IInv, Cache, TypeOK, Recorded, CleanWithoutErr, ReadersAreVerified,
                layerVars, cacheVars, mountVars
  <1>2. CASE Close
    BY <1>2 DEF IInv, Close, TypeOK, Recorded, CleanWithoutErr, ReadersAreVerified,
                layerVars, cacheVars, cacherVars, mountVars
  <1>3. ASSUME NEW w \in Cachers, NEW c \in Chunks, ReadAndCache(w, c) PROVE IInv'
    BY <1>3 DEF IInv, ReadAndCache, Delivered, TypeOK, Recorded, CleanWithoutErr,
                ReadersAreVerified, layerVars, cacheVars, mountVars
  <1>4. ASSUME NEW w \in Cachers, Judge(w) PROVE IInv'
    BY <1>4, ZenonT(60) DEF IInv, Judge, TypeOK, Recorded, CleanWithoutErr, ReadersAreVerified,
                cacheVars, mountVars
  <1>5. ASSUME NEW w \in Cachers, Commit(w) PROVE IInv'
    BY <1>5 DEF IInv, Commit, TypeOK, Recorded, CleanWithoutErr, ReadersAreVerified,
                layerVars, mountVars
  <1>6. ASSUME NEW w \in Cachers, CacheAbort(w) PROVE IInv'
    BY <1>6 DEF IInv, CacheAbort, TypeOK, Recorded, CleanWithoutErr, ReadersAreVerified,
                layerVars, cacheVars, mountVars
  <1> QED
    BY <1>1, <1>2, <1>3, <1>4, <1>5, <1>6 DEF CacherStep

\* A mount that prohibits failures and reads lastErr preserves it.
LEMMA ProhibitPreserves ==
    ASSUME IInv, NEW m \in Mounts, ProhibitFailure(m)
    PROVE  IInv'
  <1>0. /\ UNCHANGED <<lastErr, verify, lr, skipped, closed, cache, whole, caching, cpc, cdata,
                       label, data, served, left>>
    BY ZenonT(60) DEF ProhibitFailure, cacheVars, cacherVars
  <1>a. (prohibit' = TRUE \/ prohibit' = prohibit) /\ prohibit' \in BOOLEAN
    BY ZenonT(60) DEF ProhibitFailure, IInv, TypeOK
  <1>1. PICK s \in {"fail", "badContent", "compare"} :
           /\ pc' = [pc EXCEPT ![m] = s]
           /\ s = "compare" => prohibit' /\ ~lastErr
           /\ s = "badContent" => lastErr
    BY DEF ProhibitFailure, To
  <1>2. /\ pc' \in [Mounts -> MountPC] /\ pc'[m] = s
        /\ \A k \in Mounts \ {m} : pc'[k] = pc[k]
    BY <1>1 DEF IInv, TypeOK
  <1>3. TypeOK'
    BY <1>0, <1>a, <1>1, <1>2 DEF IInv, TypeOK
  <1>4. Recorded'
    BY <1>0, <1>a, <1>1, <1>2 DEF IInv, Recorded
  <1>5. CleanWithoutErr'
    BY <1>0, <1>1, <1>2 DEF IInv, CleanWithoutErr, Recorded
  <1>6. ReadersAreVerified'
    BY <1>0, <1>1, <1>2 DEF IInv, ReadersAreVerified
  <1> QED
    BY <1>3, <1>4, <1>5, <1>6 DEF IInv

\* Steps of a mount that verifies the layer preserve it.
LEMMA VerifyPreserves ==
    ASSUME IInv, NEW m \in Mounts,
           \/ Verify(m) \/ SkipVerify(m) \/ ProhibitFailure(m) \/ CompareTOC(m)
           \/ AssignReader(m) \/ RootNode(m)
    PROVE  IInv'
  <1> USE DEF IInv, TypeOK, Recorded, CleanWithoutErr, ReadersAreVerified, To,
              cacheVars, cacherVars
  <1>1. CASE Verify(m)
    BY <1>1 DEF Verify, layerVars
  <1>2. CASE SkipVerify(m)
    BY <1>2 DEF SkipVerify, layerVars
  <1>4. CASE CompareTOC(m)
    BY <1>4, ZenonT(60) DEF CompareTOC
  <1>6. CASE RootNode(m)
    BY <1>6 DEF RootNode, layerVars
  <1> HIDE DEF IInv, TypeOK, Recorded, CleanWithoutErr, ReadersAreVerified
  <1>3. CASE ProhibitFailure(m)
    BY <1>3, ProhibitPreserves
  <1>5. CASE AssignReader(m)
    <2>1. UNCHANGED <<prohibit, lastErr, verify, closed, cache, whole, caching, cpc, cdata,
                      label, data, served, left>>
      BY <1>5, ZenonT(60) DEF AssignReader
    <2>2. PICK s \in {"node", "contentError", "refused"} :
             pc' = [pc EXCEPT ![m] = s] /\ (s = "contentError" => lastErr)
      <3>1. CASE pc[m] \in {"assign", "skip"}
        BY <1>5, <3>1, ZenonT(60) DEF AssignReader
      <3>2. CASE pc[m] = "badContent"
        BY <1>5, <3>2, ZenonT(60) DEF AssignReader, IInv, Recorded
      <3>3. CASE pc[m] = "fail"
        BY <1>5, <3>3, ZenonT(60) DEF AssignReader
      <3> QED
        BY <1>5, <3>1, <3>2, <3>3, ZenonT(60) DEF AssignReader
    <2>3. /\ pc' \in [Mounts -> MountPC] /\ pc'[m] = s
          /\ \A k \in Mounts \ {m} : pc'[k] = pc[k]
      BY <2>2 DEF IInv, TypeOK
    <2>4. lr' \in BOOLEAN /\ skipped' \in BOOLEAN
      BY <1>5 DEF AssignReader, IInv, TypeOK
    <2>5. (skipped => skipped') /\ (lr' /\ ~skipped' => verify)
      BY <1>5 DEF AssignReader, IInv, TypeOK, ReadersAreVerified
    <2>6. TypeOK'
      BY <2>1, <2>2, <2>3, <2>4, ZenonT(60) DEF IInv, TypeOK
    <2>7. Recorded'
      BY <2>1, <2>2, <2>3 DEF IInv, Recorded
    <2>8. CleanWithoutErr'
      BY <2>1, <2>5, ZenonT(60) DEF IInv, CleanWithoutErr
    <2>9. ReadersAreVerified'
      BY <2>1, <2>2, <2>3, <2>5 DEF IInv, ReadersAreVerified
    <2> QED
      BY <2>6, <2>7, <2>8, <2>9, ZenonT(60) DEF IInv
  <1> QED
    BY <1>1, <1>2, <1>3, <1>4, <1>5, <1>6

\* Steps of a mount that reads a chunk preserve it.
LEMMA ReadChunkPreserves ==
    ASSUME IInv, NEW m \in Mounts, NEW c \in Chunks,
           ReadHit(m, c) \/ ReadMiss(m, c) \/ MergeChunk(m, c)
    PROVE  IInv'
  <1> USE DEF IInv, To, layerVars, cacheVars, cacherVars
  <1>1. CASE ReadHit(m, c)
    BY <1>1 DEF ReadHit, Serve, Cached, TypeOK, Recorded, CleanWithoutErr, ReadersAreVerified
  <1>2. CASE ReadMiss(m, c)
    <2>1. PICK x \in Delivered(c) : data' = [data EXCEPT ![m] = [chunk |-> c, content |-> x]]
      BY <1>2, ZenonT(60) DEF ReadMiss
    <2>2. x \in Contents
      BY DEF Delivered
    <2>3. TypeOK'
      BY <1>2, <2>1, <2>2, ZenonT(60) DEF ReadMiss, TypeOK
    <2>4. Recorded' /\ CleanWithoutErr'
      BY <1>2, ZenonT(60) DEF ReadMiss, TypeOK, Recorded, CleanWithoutErr
    <2>5. ReadersAreVerified'
      BY <1>2, <2>1 DEF ReadMiss, TypeOK, ReadersAreVerified
    <2> QED
      BY <2>3, <2>4, <2>5
  <1>3. CASE MergeChunk(m, c)
    <2>1. UNCHANGED <<layerVars, closed, cacheVars, cacherVars, label, served>>
      BY <1>3 DEF MergeChunk
    <2>2. PICK x \in IF Cached(c) THEN {cache[c]} ELSE Delivered(c) :
            IF Cached(c) \/ Verified(x)
            THEN /\ left' = [left EXCEPT ![m] = @ \ {c}]
                 /\ data' = [data EXCEPT ![m] = Merged(@, x)]
                 /\ UNCHANGED pc
            ELSE To(m, "mounted") /\ UNCHANGED <<left, data>>
      BY <1>3 DEF MergeChunk
    <2>3. ~skipped => verify /\ ~lastErr
      BY <1>3 DEF MergeChunk, ReadersAreVerified, Recorded
    <2>4. CASE ~(Cached(c) \/ Verified(x))
      <3>1. pc' = [pc EXCEPT ![m] = "mounted"] /\ UNCHANGED <<left, data>>
        BY <2>2, <2>4
      <3>2. TypeOK'
        BY <2>1, <3>1, ZenonT(60) DEF TypeOK
      <3>3. Recorded' /\ CleanWithoutErr'
        BY <2>1, <3>1 DEF TypeOK, Recorded, CleanWithoutErr
      <3>4. ReadersAreVerified'
        BY <2>1, <2>3, <3>1 DEF TypeOK, ReadersAreVerified
      <3> QED
        BY <3>2, <3>3, <3>4
    <2>5. CASE Cached(c) \/ Verified(x)
      <3>1. ~skipped => x # "bad"
        BY <2>2, <2>3, <2>5 DEF Verified, Cached, CleanWithoutErr
      <3>2. pc[m] = "merge" /\ UNCHANGED pc
        BY <2>2, <2>5, <1>3 DEF MergeChunk
      <3>3. /\ data' = [data EXCEPT ![m] = Merged(data[m], x)]
            /\ left' = [left EXCEPT ![m] = left[m] \ {c}]
        BY <2>2, <2>5 DEF TypeOK
      <3>4. /\ data[m] \in Data /\ Merged(data[m], x) \in Data
            /\ ~skipped => Merged(data[m], x) = data[m]
        BY <3>1, ZenonT(60) DEF Merged, TypeOK
      <3> HIDE DEF Data, Merged
      <3>5. /\ data' \in [Mounts -> Data] /\ left' \in [Mounts -> SUBSET Chunks]
            /\ \A n \in Mounts \ {m} : data'[n] = data[n]
            /\ ~skipped => data'[m] = data[m]
        BY <3>3, <3>4 DEF TypeOK
      <3>6. TypeOK'
        <4>1. \A n \in Mounts : pc'[n] \in {"verify", "cacheData"} => data'[n].chunk \in Chunks
          BY <3>2, <3>5 DEF TypeOK
        <4> QED
          BY <2>1, <3>2, <3>5, <4>1, ZenonT(60) DEF TypeOK
      <3>7. Recorded' /\ CleanWithoutErr'
        BY <2>1, <3>2, ZenonT(60) DEF Recorded, CleanWithoutErr
      <3>8. ReadersAreVerified'
        BY <2>1, <3>2, <3>5, ZenonT(60) DEF ReadersAreVerified
      <3> QED
        BY <3>6, <3>7, <3>8
    <2> QED
      BY <2>4, <2>5
  <1> QED
    BY <1>1, <1>2, <1>3

\* Its steps on the data it has in hand preserve it.
LEMMA ServePreserves ==
    ASSUME IInv, NEW m \in Mounts,
           VerifyChunk(m) \/ CacheData(m) \/ GetPassthroughFd(m) \/ MergeCommit(m)
    PROVE  IInv'
  <1> USE DEF IInv, To, layerVars, cacherVars
  <1>1. CASE VerifyChunk(m)
    BY <1>1, ZenonT(60) DEF VerifyChunk, Verified, cacheVars, TypeOK, Recorded, CleanWithoutErr,
                ReadersAreVerified
  <1>2. CASE CacheData(m)
    <2>1. /\ UNCHANGED <<layerVars, closed, whole, cacherVars, label, data, left>>
          /\ pc' = [pc EXCEPT ![m] = "mounted"]
          /\ served' = [served EXCEPT ![m] = data[m].content]
          /\ data[m] \in Data /\ data[m].chunk \in Chunks
      BY <1>2, ZenonT(60) DEF CacheData, Serve, TypeOK
    <2>2. /\ pc' \in [Mounts -> MountPC] /\ pc'[m] = "mounted"
          /\ \A n \in Mounts \ {m} : pc'[n] = pc[n]
          /\ served' \in [Mounts -> Contents \cup {"none"}] /\ served'[m] = data[m].content
          /\ \A n \in Mounts \ {m} : served'[n] = served[n]
      BY <2>1 DEF TypeOK
    <2>3. /\ cache' \in [Chunks -> Contents \cup {"none"}]
          /\ \A c \in Chunks : cache'[c] \in {cache[c], data[m].content}
      <3>1. CASE cache' = cache
        BY <3>1, ZenonT(60) DEF TypeOK
      <3>2. CASE cache' = [cache EXCEPT ![data[m].chunk] = data[m].content]
        BY <2>1, <3>2 DEF TypeOK
      <3> QED
        BY <1>2, <3>1, <3>2, ZenonT(60) DEF CacheData
    <2>4. ~skipped => data[m].content # "bad" /\ verify
      BY <1>2 DEF CacheData, ReadersAreVerified
    <2>5. TypeOK'
      BY <2>1, <2>2, <2>3, ZenonT(60) DEF TypeOK
    <2>6. Recorded'
      BY <2>1, <2>2, ZenonT(60) DEF Recorded
    <2>7. CleanWithoutErr'
      BY <2>1, <2>3, <2>4, ZenonT(60) DEF CleanWithoutErr
    <2>8. ReadersAreVerified'
      BY <2>1, <2>2, <2>4 DEF ReadersAreVerified
    <2> QED
      BY <2>5, <2>6, <2>7, <2>8
  <1>3. CASE GetPassthroughFd(m)
    <2>1. TypeOK'
      <3>1. CASE whole # "none"
        BY <1>3, <3>1, ZenonT(60) DEF GetPassthroughFd, Serve, cacheVars, TypeOK
      <3>2. CASE whole = "none"
        <4>1. /\ pc' = [pc EXCEPT ![m] = "merge"]
              /\ left' = [left EXCEPT ![m] = Chunks]
              /\ data' = [data EXCEPT ![m] = [chunk |-> None, content |-> "good"]]
              /\ UNCHANGED <<served, layerVars, closed, cacheVars, cacherVars, label>>
          BY <1>3, <3>2 DEF GetPassthroughFd
        <4> QED
          BY <4>1, ZenonT(60) DEF cacheVars, TypeOK
      <3> QED
        BY <3>1, <3>2
    <2>2. Recorded' /\ CleanWithoutErr'
      BY <1>3, ZenonT(60) DEF GetPassthroughFd, cacheVars, TypeOK, Recorded, CleanWithoutErr
    <2>3. ReadersAreVerified'
      BY <1>3 DEF GetPassthroughFd, Serve, cacheVars, TypeOK, ReadersAreVerified
    <2> QED
      BY <2>1, <2>2, <2>3
  <1>4. CASE MergeCommit(m)
    BY <1>4, ZenonT(60) DEF MergeCommit, Serve, TypeOK, Recorded, CleanWithoutErr, ReadersAreVerified
  <1> QED
    BY <1>1, <1>2, <1>3, <1>4

\* The invariant is inductive.
THEOREM Inductive == Spec => []IInv
  <1>1. IInv /\ [Next]_vars => IInv'
    <2> SUFFICES ASSUME IInv, [Next]_vars PROVE IInv'
      OBVIOUS
    <2>1. CASE CacherStep
      BY <2>1, CacherPreserves
    <2>2. CASE \E m \in Mounts :
                 \/ Verify(m) \/ SkipVerify(m) \/ ProhibitFailure(m) \/ CompareTOC(m)
                 \/ AssignReader(m) \/ RootNode(m)
      BY <2>2, VerifyPreserves
    <2>3. CASE \E m \in Mounts, c \in Chunks :
                 ReadHit(m, c) \/ ReadMiss(m, c) \/ MergeChunk(m, c)
      BY <2>3, ReadChunkPreserves
    <2>4. CASE \E m \in Mounts :
                 VerifyChunk(m) \/ CacheData(m) \/ GetPassthroughFd(m) \/ MergeCommit(m)
      BY <2>4, ServePreserves
    <2>5. CASE UNCHANGED vars
      BY <2>5, ZenonT(60) DEF vars, layerVars, cacheVars, cacherVars, mountVars, IInv, TypeOK, Recorded,
                  CleanWithoutErr, ReadersAreVerified
    <2> QED
      BY <2>1, <2>2, <2>3, <2>4, <2>5 DEF Next, CacherStep
  <1> QED
    BY <1>1, InitIInv, PTL DEF Spec

\* Types hold for every number of chunks, cachers and mounts.
THEOREM TypeCorrect == Spec => []TypeOK
  BY Inductive, PTL DEF IInv

\* Once VerifyTOC has succeeded, nothing in the cache is unverified.
THEOREM CleanOnceVerified == Spec => []VerifiedCacheIsClean
  <1>1. IInv => VerifiedCacheIsClean
    BY ZenonT(60) DEF IInv, Recorded, CleanWithoutErr, ReadersAreVerified, VerifiedCacheIsClean
  <1> QED
    BY <1>1, Inductive, PTL

\* No mount ever serves unverified content, unless verification was skipped.
THEOREM OnlyVerifiedServed == Spec => []ServesVerified
  <1>1. IInv => ServesVerified
    BY ZenonT(60) DEF IInv, ReadersAreVerified, ServesVerified
  <1> QED
    BY <1>1, Inductive, PTL

\* After one mount has passed VerifyTOC none is refused for its contents.
THEOREM Agreement == Spec => []VerdictsAgree
  <1>1. IInv => VerdictsAgree
    BY DEF IInv, Recorded, VerdictsAgree
  <1> QED
    BY <1>1, Inductive, PTL

-----------------------------------------------------------------------------
(* The reader of the layer stays: Verify and VerifyTOC may store nil in it. *)

\* A mount whose VerifyTOC failed, other than for the contents, found the reader closed
\* or brought a wrong digest; so nil is stored over a verified reader only then.
ReaderInv ==
    /\ \A m \in Mounts :
         /\ pc[m] \in {"toc", "compare"} => label[m] # "skip"
         /\ pc[m] = "fail" => closed \/ label[m] = "wrong"
    /\ VerifiedReaderStays

\* Steps that neither move a mount nor touch the reader keep it.
LEMMA ReaderIdle ==
    ASSUME ReaderInv, UNCHANGED <<label, pc, lr, skipped>>, closed => closed'
    PROVE  ReaderInv'
  BY DEF ReaderInv, VerifiedReaderStays

\* Neither do the steps of a mount that reads.
LEMMA ReaderReads ==
    ASSUME IInv, ReaderInv, NEW m \in Mounts, NEW p,
           p \in {"refused", "mounted", "verify", "cacheData", "merge"},
           pc' = [pc EXCEPT ![m] = p], UNCHANGED <<label, lr, skipped, closed>>
    PROVE  ReaderInv'
  BY DEF ReaderInv, VerifiedReaderStays, IInv, TypeOK

\* Each step keeps the reader.
LEMMA ReaderStep == ASSUME IInv, ReaderInv, [Next]_vars PROVE ReaderInv'
  <1> USE DEF To, layerVars, mountVars
  <1>1. CASE CacherStep
    <2>1. UNCHANGED <<label, pc, lr, skipped>> /\ (closed => closed')
      BY <1>1 DEF CacherStep, Cache, Close, ReadAndCache, Judge, Commit, CacheAbort
    <2> QED
      BY <2>1, ReaderIdle
  <1>2. ASSUME NEW m \in Mounts, Verify(m) \/ SkipVerify(m) \/ CompareTOC(m) PROVE ReaderInv'
    BY <1>2 DEF Verify, SkipVerify, CompareTOC, ReaderInv, VerifiedReaderStays, IInv, TypeOK
  <1>3. ASSUME NEW m \in Mounts, ProhibitFailure(m) PROVE ReaderInv'
    BY <1>3 DEF ProhibitFailure, ReaderInv, VerifiedReaderStays, IInv, TypeOK
  <1>4. ASSUME NEW m \in Mounts, AssignReader(m) PROVE ReaderInv'
    BY <1>4, ZenonT(60) DEF AssignReader, ReaderInv, VerifiedReaderStays, IInv, TypeOK, Recorded,
                ReadersAreVerified
  <1>5. ASSUME NEW m \in Mounts, RootNode(m) PROVE ReaderInv'
    BY <1>5, ReaderReads, ZenonT(60) DEF RootNode
  <1>6. ASSUME NEW m \in Mounts, NEW c \in Chunks, ReadHit(m, c) PROVE ReaderInv'
    BY <1>6, ReaderIdle DEF ReadHit
  <1>7. ASSUME NEW m \in Mounts, NEW c \in Chunks, ReadMiss(m, c) PROVE ReaderInv'
    BY <1>7, ReaderReads, ZenonT(60) DEF ReadMiss
  <1>8. ASSUME NEW m \in Mounts, NEW c \in Chunks, MergeChunk(m, c) PROVE ReaderInv'
    <2>1. UNCHANGED <<label, lr, skipped, closed>>
      BY <1>8 DEF MergeChunk
    <2>2. UNCHANGED pc \/ pc' = [pc EXCEPT ![m] = "mounted"]
      BY <1>8 DEF MergeChunk
    <2> QED
      BY <2>1, <2>2, ReaderIdle, ReaderReads
  <1>9. ASSUME NEW m \in Mounts, VerifyChunk(m) PROVE ReaderInv'
    BY <1>9, ReaderReads, ZenonT(60) DEF VerifyChunk
  <1>10. ASSUME NEW m \in Mounts, CacheData(m) PROVE ReaderInv'
    BY <1>10, ReaderReads, ZenonT(60) DEF CacheData
  <1>11. ASSUME NEW m \in Mounts, GetPassthroughFd(m) PROVE ReaderInv'
    BY <1>11, ReaderIdle, ReaderReads DEF GetPassthroughFd
  <1>12. ASSUME NEW m \in Mounts, MergeCommit(m) PROVE ReaderInv'
    BY <1>12, ReaderReads, ZenonT(60) DEF MergeCommit
  <1>13. CASE UNCHANGED vars
    BY <1>13, ReaderIdle DEF vars
  <1> QED
    BY <1>1, <1>2, <1>3, <1>4, <1>5, <1>6, <1>7, <1>8, <1>9, <1>10, <1>11, <1>12, <1>13
       DEF Next, CacherStep

\* What VerifyTOC promises holds for every number of mounts: the verdicts agree, the
\* cache is clean, and no mount takes away the reader that another has verified.
THEOREM Verification == Spec => []VerificationHolds
  <1>1. Init => ReaderInv
    BY DEF Init, ReaderInv, VerifiedReaderStays
  <1>2. IInv /\ ReaderInv => VerificationHolds
    BY DEF IInv, Recorded, CleanWithoutErr, ReadersAreVerified, ReaderInv, VerificationHolds,
           VerdictsAgree, VerifiedCacheIsClean
  <1> QED
    BY <1>1, <1>2, Inductive, ReaderStep, PTL DEF Spec

-----------------------------------------------------------------------------
(* HTTPFetcher. *)

\* The types of the fetcher's state.
CallPC == {"idle", "begin", "request", "send", "refresh", "store", "failed"}
Call == [op : {"none", "fetch", "check"}, pc : CallPC,
         retry : BOOLEAN, several : BOOLEAN, sr : BOOLEAN, url : Nat, excused : BOOLEAN, disturbed : BOOLEAN]

FetcherTypeOK ==
    /\ up \in [Hosts -> BOOLEAN] /\ redirects \in BOOLEAN /\ multi \in BOOLEAN /\ authorizer \in BOOLEAN
    /\ exp \in Nat /\ token \in {"valid", "stale"}
    /\ host \in Nat /\ url \in Nat /\ singleRange \in BOOLEAN
    /\ call \in [Callers -> Call]

\* A call that is owed its result: nothing excuses it and nothing has disturbed it.
Owed(k) == k.pc # "idle" /\ ~k.excused /\ ~k.disturbed

\* What such a call can rely on: the registry answers, and no caller is about to store
\* a URL that has expired.
Serving ==
    /\ up[host] /\ (token = "valid" \/ authorizer)
    /\ \A d \in Callers : call[d].pc = "store" => call[d].url \notin 1 .. exp

\* No answer 400 is left for it: the mode is set, and it has read the mode.
RangeFits(k) == k.several /\ ~multi => singleRange /\ (k.pc # "begin" => k.sr)

\* What it has not met yet.  Its one retry is for an expired URL or for ranges that are
\* refused; once it is used, neither can come again, since the URL it read or stored is
\* valid and those that others store after it are too.
OnItsWay(k) ==
    /\ k.pc # "failed"
    /\ exp > 0 => RangeFits(k)
    /\ k.pc \in {"refresh", "store"} => exp > 0
    /\ k.op = "fetch" /\ ~k.retry =>
         /\ RangeFits(k) /\ url \notin 1 .. exp
         /\ k.pc = "send" => k.url \notin 1 .. exp
    /\ k.pc = "send" /\ k.url \notin 1 .. exp => url \notin 1 .. exp

\* The inductive invariant.
FetcherInv ==
    /\ FetcherTypeOK
    /\ host = 0 => \A c \in Callers : call[c].pc = "idle"
    /\ \A c \in Callers : Owed(call[c]) => Serving /\ OnItsWay(call[c])

\* What caller c does: its call becomes k, the registry stays as it is but for a token
\* that is renewed, and the URL and the mode change the way calls change them.
Frame(c) ==
    /\ host # 0 /\ UNCHANGED <<up, redirects, multi, authorizer, exp, host>>
    /\ token' \in {token, "valid"}
    /\ singleRange' \in BOOLEAN /\ (singleRange => singleRange')
    /\ url' = url \/ (call[c].pc = "store" /\ url' = call[c].url)
CallerStep(c, k) ==
    /\ call' = [call EXCEPT ![c] = k]
    /\ k.pc = "store" => k.url \notin 1 .. exp
    /\ Frame(c)

\* The calls of the others stay on their way, and the caller's own when the step keeps it.
LEMMA CallerKeeps ==
    ASSUME FetcherInv, NEW c \in Callers, NEW k \in Call, CallerStep(c, k),
           Owed(k) => Serving /\ OnItsWay(k)'
    PROVE  FetcherInv'
<1>1. FetcherTypeOK'
  <2>1. call[c].url \in Nat
    BY DEF FetcherInv, FetcherTypeOK, Call
  <2>2. call' \in [Callers -> Call] /\ url' \in Nat
    BY <2>1 DEF FetcherInv, FetcherTypeOK, CallerStep, Frame
  <2>3. singleRange' \in BOOLEAN /\ token' \in {"valid", "stale"}
    BY Zenon DEF FetcherInv, FetcherTypeOK, CallerStep, Frame
  <2> QED
    BY <2>2, <2>3, Zenon DEF FetcherInv, FetcherTypeOK, CallerStep, Frame
<1>2. host' # 0
    BY DEF CallerStep, Frame
<1>3. call'[c] = k /\ \A d \in Callers \ {c} : call'[d] = call[d]
    BY DEF FetcherInv, FetcherTypeOK, CallerStep, Frame
<1>4. ASSUME Serving PROVE Serving'
    BY <1>3, <1>4 DEF Serving, CallerStep, Frame, FetcherInv, FetcherTypeOK
<1>5. ASSUME NEW d \in Callers \ {c}, Owed(call[d]) PROVE OnItsWay(call[d])'
  <2>1. Serving /\ OnItsWay(call[d])
    BY <1>5 DEF FetcherInv
  <2>2. call'[d] = call[d] /\ exp' = exp
    BY <1>3 DEF CallerStep, Frame
  <2>3. RangeFits(call[d]) => RangeFits(call[d])'
    BY <2>2 DEF RangeFits, CallerStep, Frame
  <2>4. url \notin 1 .. exp => url' \notin 1 .. exp
    BY <2>1 DEF Serving, CallerStep, Frame
  <2> QED
    BY <2>1, <2>2, <2>3, <2>4 DEF OnItsWay
<1>6. ASSUME NEW d \in Callers, Owed(call'[d]) PROVE Serving' /\ OnItsWay(call[d])'
  <2>1. CASE d = c
    BY <2>1, <1>3, <1>4, <1>6 DEF OnItsWay, RangeFits
  <2>2. CASE d # c
    BY <2>2, <1>3, <1>4, <1>5, <1>6 DEF FetcherInv
  <2> QED
    BY <2>1, <2>2
<1> QED
    BY <1>1, <1>2, <1>6 DEF FetcherInv, Owed

\* What the registry does disturbs every call there is.
LEMMA DisturbKeeps ==
    ASSUME FetcherInv, FetcherTypeOK', Disturb, UNCHANGED host
    PROVE  FetcherInv'
<1>1. \A c \in Callers : call'[c] = [call[c] EXCEPT !.disturbed = call[c].pc # "idle"]
    BY DEF Disturb
<1>2. \A c \in Callers : call'[c].pc = call[c].pc /\ ~Owed(call'[c])
    BY <1>1 DEF FetcherInv, FetcherTypeOK, Call, Owed
<1> QED
    BY <1>2 DEF FetcherInv, Owed

\* There is no call at first.
LEMMA FetcherStarts == FetcherInit => FetcherInv
<1> SUFFICES ASSUME FetcherInit PROVE FetcherInv
    OBVIOUS
<1>1. Idle \in Call
    BY DEF Idle, Call, CallPC
<1>2. FetcherTypeOK
  <2>1. exp \in Nat /\ host \in Nat /\ url \in Nat /\ call \in [Callers -> Call]
    BY <1>1 DEF FetcherInit
  <2> QED
    BY <2>1, Zenon DEF FetcherInit, FetcherTypeOK
<1>3. \A c \in Callers : call[c].pc = "idle"
    BY DEF FetcherInit, Idle
<1> QED
    BY <1>2, <1>3 DEF FetcherInv, Owed

\* The call k that caller c begins, excused or not.
Begin(c, k) ==
    /\ host # 0 /\ call[c].pc = "idle"
    /\ \/ k.op = "fetch" /\ k.pc = "begin" /\ k.retry
       \/ k.op = "check" /\ k.pc = "request" /\ ~k.several
    /\ k.excused <=> Excused(k.several)
    /\ call' = [call EXCEPT ![c] = k]
    /\ UNCHANGED <<hostVars, host, url, singleRange>>

\* A call that begins without an excuse finds a registry that serves.
LEMMA BeginKeeps == ASSUME FetcherInv, NEW c \in Callers, NEW k \in Call, Begin(c, k) PROVE FetcherInv'
<1>1. CallerStep(c, k)
    BY DEF Begin, CallerStep, Frame, FetcherInv, FetcherTypeOK, hostVars
<1>2. ASSUME Owed(k) PROVE Serving
    BY <1>2 DEF Begin, Owed, Excused, Serving, FetcherInv, FetcherTypeOK
<1>3. ASSUME Owed(k) PROVE OnItsWay(k)'
    BY <1>3 DEF Begin, Owed, Excused, OnItsWay, RangeFits, hostVars, FetcherInv, FetcherTypeOK
<1> QED
    BY <1>1, <1>2, <1>3, CallerKeeps

\* Fetch and check begin so.
LEMMA FetchKeeps == ASSUME FetcherInv, NEW c \in Callers, Fetch(c) \/ Check(c) PROVE FetcherInv'
<1>1. Idle \in Call
    BY DEF Idle, Call, CallPC
<1>2. \A s \in BOOLEAN : Excused(s) \in BOOLEAN
    BY Zenon DEF Excused
<1>3. CASE Fetch(c)
  <2>1. PICK s \in BOOLEAN :
           call' = [call EXCEPT ![c] = [Idle EXCEPT !.op = "fetch", !.pc = "begin", !.retry = TRUE,
                                                    !.several = s, !.excused = Excused(s)]]
    BY <1>3, Zenon DEF Fetch
  <2>2. PICK k : k = [Idle EXCEPT !.op = "fetch", !.pc = "begin", !.retry = TRUE, !.several = s, !.excused = Excused(s)]
    BY Zenon
  <2>3. k \in Call
    BY <1>1, <1>2, <2>2, Zenon DEF Call, CallPC
  <2>4. k.op = "fetch" /\ k.pc = "begin" /\ k.retry /\ k.several = s /\ k.excused = Excused(s)
    BY <1>1, <2>2, Zenon DEF Call
  <2>5. Begin(c, k)
    BY <1>3, <2>1, <2>2, <2>4, Zenon DEF Fetch, Begin
  <2> QED
    BY <2>3, <2>5, BeginKeeps
<1>4. CASE Check(c)
  <2>1. PICK k : k = [Idle EXCEPT !.op = "check", !.pc = "request", !.excused = Excused(FALSE)]
    BY Zenon
  <2>2. k \in Call
    BY <1>1, <1>2, <2>1, Zenon DEF Call, CallPC
  <2>3. k.op = "check" /\ k.pc = "request" /\ k.several = FALSE /\ k.excused = Excused(FALSE)
    BY <1>1, <2>1, Zenon DEF Call, Idle
  <2>4. Begin(c, k)
    BY <1>4, <2>1, <2>3, Zenon DEF Check, Begin
  <2> QED
    BY <2>2, <2>4, BeginKeeps
<1> QED
    BY <1>3, <1>4

\* The mode and the URL are read.
LEMMA ReadKeeps == ASSUME FetcherInv, NEW c \in Callers, Prepare(c) \/ ReadURL(c) PROVE FetcherInv'
<1>1. host # 0 /\ call[c] \in Call /\ call \in [Callers -> Call] /\ url \in Nat /\ singleRange \in BOOLEAN
    BY DEF FetcherInv, FetcherTypeOK, Prepare, ReadURL
<1>2. Owed(call[c]) => Serving /\ OnItsWay(call[c])
    BY DEF FetcherInv
<1>3. CASE Prepare(c)
  <2>1. PICK k : k = [call[c] EXCEPT !.pc = "request", !.sr = singleRange]
    BY Zenon
  <2>2. k \in Call
    BY <1>1, <2>1, Zenon DEF Call, CallPC
  <2>3. call' = [call EXCEPT ![c] = k]
    BY <1>1, <1>3, <2>1, Zenon DEF Prepare
  <2>4. k.pc # "store"
    BY <1>1, <2>1 DEF Call
  <2>5. CallerStep(c, k)
    BY <1>1, <1>3, <2>3, <2>4, Zenon DEF Prepare, CallerStep, Frame, hostVars, FetcherInv, FetcherTypeOK
  <2>6. Owed(k) => Serving
    BY <1>1, <1>2, <1>3, <2>1 DEF Prepare, Owed, Call
  <2>7. ASSUME Owed(k) PROVE OnItsWay(k)'
    BY <1>1, <1>2, <1>3, <2>1, <2>7 DEF Prepare, Owed, OnItsWay, RangeFits, hostVars, Call
  <2> QED
    BY <2>2, <2>5, <2>6, <2>7, CallerKeeps
<1>4. CASE ReadURL(c)
  <2>1. PICK k : k = [call[c] EXCEPT !.pc = "send", !.url = url]
    BY Zenon
  <2>2. k \in Call
    BY <1>1, <2>1, Zenon DEF Call, CallPC
  <2>3. call' = [call EXCEPT ![c] = k]
    BY <1>1, <1>4, <2>1, Zenon DEF ReadURL
  <2>4. k.pc # "store"
    BY <1>1, <2>1 DEF Call
  <2>5. CallerStep(c, k)
    BY <1>1, <1>4, <2>3, <2>4, Zenon DEF ReadURL, CallerStep, Frame, hostVars, FetcherInv, FetcherTypeOK
  <2>6. Owed(k) => Serving
    BY <1>1, <1>2, <1>4, <2>1 DEF ReadURL, Owed, Call
  <2>7. ASSUME Owed(k) PROVE OnItsWay(k)'
    BY <1>1, <1>2, <1>4, <2>1, <2>7 DEF ReadURL, Owed, OnItsWay, RangeFits, hostVars, Call
  <2> QED
    BY <2>2, <2>5, <2>6, <2>7, CallerKeeps
<1> QED
    BY <1>3, <1>4

\* A call that has ended is owed nothing.
LEMMA IdleKeeps ==
    ASSUME FetcherInv, NEW c \in Callers, Frame(c), call' = [call EXCEPT ![c] = Idle]
    PROVE  FetcherInv'
<1>1. Idle \in Call /\ Idle.pc = "idle"
    BY DEF Idle, Call, CallPC
<1>2. CallerStep(c, Idle)
    BY <1>1 DEF CallerStep
<1> QED
    BY <1>1, <1>2, CallerKeeps DEF Owed

\* A call that nobody is to blame for does not fail.
LEMMA FailKeeps ==
    ASSUME FetcherInv, NEW c \in Callers, Frame(c), Fail(c), call[c].pc # "idle", ~Owed(call[c])
    PROVE  FetcherInv'
<1>1. Idle \in Call /\ call[c] \in Call
    BY DEF Idle, Call, CallPC, FetcherInv, FetcherTypeOK
<1>2. PICK k : k = [Idle EXCEPT !.pc = "failed", !.excused = call[c].excused, !.disturbed = call[c].disturbed]
    BY Zenon
<1>3. k \in Call
    BY <1>1, <1>2, Zenon DEF Call, CallPC
<1>4. k.pc = "failed" /\ k.excused = call[c].excused /\ k.disturbed = call[c].disturbed
    BY <1>1, <1>2, Zenon DEF Call
<1>5. CallerStep(c, k)
    BY <1>2, <1>4, Zenon DEF Fail, CallerStep
<1>6. ~Owed(k)
    BY <1>4, Zenon DEF Owed
<1> QED
    BY <1>3, <1>5, <1>6, CallerKeeps

\* An expired URL makes the call ask for a new one.
LEMMA RefreshKeeps ==
    ASSUME FetcherInv, NEW c \in Callers, Frame(c), GoTo(c, "refresh"), UNCHANGED <<url, singleRange>>,
           call[c].pc = "send", call[c].op = "fetch" => call[c].retry,
           Owed(call[c]) => exp > 0
    PROVE  FetcherInv'
<1>1. call[c] \in Call /\ call \in [Callers -> Call]
    BY DEF FetcherInv, FetcherTypeOK
<1>2. PICK k : k = [call[c] EXCEPT !.pc = "refresh"]
    BY Zenon
<1>3. k \in Call
    BY <1>1, <1>2, Zenon DEF Call, CallPC
<1>4. /\ k.pc = "refresh" /\ k.op = call[c].op /\ k.retry = call[c].retry /\ k.several = call[c].several
      /\ k.sr = call[c].sr /\ k.excused = call[c].excused /\ k.disturbed = call[c].disturbed
    BY <1>1, <1>2, Zenon DEF Call
<1>5. CallerStep(c, k)
    BY <1>1, <1>2, <1>4, Zenon DEF GoTo, CallerStep
<1>6. ASSUME Owed(k) PROVE Serving /\ OnItsWay(call[c]) /\ exp > 0
    BY <1>4, <1>6 DEF Owed, FetcherInv
<1>7. ASSUME Owed(k) PROVE OnItsWay(k)'
    BY <1>4, <1>6, <1>7 DEF OnItsWay, RangeFits, Frame
<1> QED
    BY <1>3, <1>5, <1>6, <1>7, CallerKeeps

\* The retry of a call whose URL is not expired and whose ranges fit.
LEMMA RetryKeeps ==
    ASSUME FetcherInv, NEW c \in Callers, Frame(c), NEW k \in Call, call' = [call EXCEPT ![c] = k],
           k.pc = "begin", Owed(k) => Owed(call[c]),
           Owed(k) => url' \notin 1 .. exp /\ (k.several /\ ~multi => singleRange')
    PROVE  FetcherInv'
<1>1. CallerStep(c, k)
    BY DEF CallerStep
<1>2. ASSUME Owed(k) PROVE Serving
    BY <1>2 DEF FetcherInv
<1>3. ASSUME Owed(k) PROVE OnItsWay(k)'
    BY <1>3 DEF OnItsWay, RangeFits, Frame
<1> QED
    BY <1>1, <1>2, <1>3, CallerKeeps

\* The answer to a fetch: an unexcused one has its retry left for what it meets.
LEMMA SendKeeps == ASSUME FetcherInv, NEW c \in Callers, Send(c) PROVE FetcherInv'
<1> DEFINE s == Status(call[c].url, call[c].several /\ ~call[c].sr)
<1>1. /\ host # 0 /\ call[c] \in Call /\ call \in [Callers -> Call]
      /\ url \in Nat /\ exp \in Nat /\ singleRange \in BOOLEAN /\ multi \in BOOLEAN
    BY DEF FetcherInv, FetcherTypeOK, Send
<1>2. Owed(call[c]) => Serving /\ OnItsWay(call[c])
    BY DEF FetcherInv
<1>3. call[c].pc = "send" /\ call[c].op = "fetch" /\ token' \in {token, "valid"}
      /\ UNCHANGED <<up, redirects, multi, authorizer, exp, host, url>>
    BY Zenon DEF Send, Renewed
<1>4. \/ call' = [call EXCEPT ![c] = Idle] /\ singleRange' = singleRange
      \/ s = 403 /\ call[c].retry /\ GoTo(c, "refresh") /\ singleRange' = singleRange
      \/ s = 400 /\ call' = [call EXCEPT ![c].pc = "begin", ![c].retry = FALSE] /\ singleRange' = TRUE
      \/ /\ s # 206 /\ ~(s = 403 /\ call[c].retry) /\ ~(s = 400 /\ call[c].retry /\ ~call[c].sr)
         /\ Fail(c) /\ singleRange' = singleRange
    BY Zenon DEF Send, Succeed, singleRangeMode
<1>5. ASSUME Owed(call[c])
      PROVE  s = IF call[c].url \in 1 .. exp THEN 403 ELSE IF (call[c].several /\ ~call[c].sr) /\ ~multi THEN 400 ELSE 206
  <2>1. call[c].url \in Nat /\ (call[c].several /\ ~call[c].sr) \in BOOLEAN
    BY <1>1 DEF Call
  <2>2. FetcherTypeOK /\ Serving
    BY <1>2, <1>5 DEF FetcherInv
  <2> QED
    BY <2>1, <2>2 DEF FetcherTypeOK, Serving, Status, RoundTrip
<1> HIDE DEF s
<1>6. Frame(c)
    BY <1>1, <1>3, <1>4, Zenon DEF Frame
<1>7. CASE call' = [call EXCEPT ![c] = Idle] /\ singleRange' = singleRange
    BY <1>6, <1>7, IdleKeeps, Zenon
<1>8. CASE s = 403 /\ call[c].retry /\ GoTo(c, "refresh") /\ singleRange' = singleRange
  <2>1. Owed(call[c]) => exp > 0
    BY <1>1, <1>5, <1>8
  <2> QED
    BY <1>3, <1>6, <1>8, <2>1, RefreshKeeps
<1>9. CASE s = 400 /\ call' = [call EXCEPT ![c].pc = "begin", ![c].retry = FALSE] /\ singleRange' = TRUE
  <2>1. PICK k : k = [call[c] EXCEPT !.pc = "begin", !.retry = FALSE]
    BY Zenon
  <2>2. k \in Call /\ call' = [call EXCEPT ![c] = k]
    BY <1>1, <1>9, <2>1, Zenon DEF Call, CallPC
  <2>3. k.pc = "begin" /\ k.excused = call[c].excused /\ k.disturbed = call[c].disturbed
    BY <1>1, <2>1, Zenon DEF Call
  <2>4. Owed(k) => Owed(call[c])
    BY <1>3, <2>3 DEF Owed
  <2>5. Owed(k) => url' \notin 1 .. exp
    BY <1>1, <1>2, <1>3, <1>5, <1>9, <2>4 DEF OnItsWay
  <2> QED
    BY <1>6, <1>9, <2>2, <2>3, <2>4, <2>5, RetryKeeps, Zenon
<1>10. CASE /\ s # 206 /\ ~(s = 403 /\ call[c].retry) /\ ~(s = 400 /\ call[c].retry /\ ~call[c].sr)
            /\ Fail(c) /\ singleRange' = singleRange
  <2>1. ~Owed(call[c])
    BY <1>1, <1>2, <1>3, <1>5, <1>10 DEF OnItsWay, RangeFits
  <2> QED
    BY <1>3, <1>6, <1>10, <2>1, FailKeeps
<1> QED
    BY <1>4, <1>7, <1>8, <1>9, <1>10, Zenon

\* The answer to a check, which has no fallback to use up.
LEMMA SendCheckKeeps == ASSUME FetcherInv, NEW c \in Callers, SendCheck(c) PROVE FetcherInv'
<1> DEFINE s == Status(call[c].url, FALSE)
<1>1. host # 0 /\ call[c] \in Call /\ exp \in Nat /\ singleRange \in BOOLEAN
    BY DEF FetcherInv, FetcherTypeOK, SendCheck
<1>2. call[c].pc = "send" /\ call[c].op = "check" /\ token' \in {token, "valid"}
      /\ UNCHANGED <<up, redirects, multi, authorizer, exp, host, url, singleRange>>
    BY Zenon DEF SendCheck, Renewed
<1>3. \/ call' = [call EXCEPT ![c] = Idle]
      \/ s = 403 /\ GoTo(c, "refresh")
      \/ s # 206 /\ s # 403 /\ Fail(c)
    BY Zenon DEF SendCheck, Succeed
<1>4. ASSUME Owed(call[c]) PROVE s = IF call[c].url \in 1 .. exp THEN 403 ELSE 206
  <2>1. call[c].url \in Nat /\ FetcherTypeOK /\ Serving
    BY <1>1, <1>4 DEF Call, FetcherInv
  <2> QED
    BY <2>1 DEF FetcherTypeOK, Serving, Status, RoundTrip
<1> HIDE DEF s
<1>5. Frame(c)
    BY <1>1, <1>2, Zenon DEF Frame
<1>6. CASE call' = [call EXCEPT ![c] = Idle]
    BY <1>5, <1>6, IdleKeeps, Zenon
<1>7. CASE s = 403 /\ GoTo(c, "refresh")
  <2>1. Owed(call[c]) => exp > 0
    BY <1>1, <1>4, <1>7
  <2> QED
    BY <1>2, <1>5, <1>7, <2>1, RefreshKeeps
<1>8. CASE s # 206 /\ s # 403 /\ Fail(c)
  <2>1. ~Owed(call[c])
    BY <1>4, <1>8
  <2> QED
    BY <1>2, <1>5, <1>8, <2>1, FailKeeps
<1> QED
    BY <1>3, <1>6, <1>7, <1>8, Zenon

\* A registry that serves gives a URL that is not expired.
LEMMA RefreshURLKeeps == ASSUME FetcherInv, NEW c \in Callers, RefreshURL(c) PROVE FetcherInv'
<1>1. host # 0 /\ call[c] \in Call /\ call \in [Callers -> Call] /\ exp \in Nat /\ singleRange \in BOOLEAN
    BY DEF FetcherInv, FetcherTypeOK, RefreshURL
<1>2. call[c].pc = "refresh" /\ token' \in {token, "valid"}
      /\ UNCHANGED <<up, redirects, multi, authorizer, exp, host, url, singleRange>>
    BY Zenon DEF RefreshURL, Renewed
<1>3. Frame(c)
    BY <1>1, <1>2, Zenon DEF Frame
<1>4. redirect \in {-1, 0, exp + 1}
    BY <1>1 DEF redirect
<1>5. CASE redirect = -1
  <2>1. Fail(c)
    BY <1>5 DEF RefreshURL
  <2>2. ~Owed(call[c])
    BY <1>1, <1>5 DEF redirect, RoundTrip, FetcherInv, FetcherTypeOK, Serving
  <2> QED
    BY <1>2, <1>3, <2>1, <2>2, FailKeeps
<1>6. CASE redirect # -1
  <2>1. PICK k : k = [call[c] EXCEPT !.pc = "store", !.url = redirect]
    BY Zenon
  <2>2. redirect \in Nat /\ redirect \notin 1 .. exp
    BY <1>1, <1>4, <1>6
  <2>3. k \in Call
    BY <1>1, <2>1, <2>2, Zenon DEF Call, CallPC
  <2>4. /\ k.pc = "store" /\ k.url = redirect /\ k.op = call[c].op /\ k.retry = call[c].retry /\ k.several = call[c].several
        /\ k.sr = call[c].sr /\ k.excused = call[c].excused /\ k.disturbed = call[c].disturbed
    BY <1>1, <2>1, Zenon DEF Call
  <2>5. call' = [call EXCEPT ![c] = k]
    BY <1>1, <1>6, <2>1, Zenon DEF RefreshURL
  <2>6. CallerStep(c, k)
    BY <1>3, <2>2, <2>4, <2>5, Zenon DEF CallerStep
  <2>7. ASSUME Owed(k) PROVE Serving /\ OnItsWay(call[c])
    BY <1>2, <2>4, <2>7 DEF Owed, FetcherInv
  <2>8. ASSUME Owed(k) PROVE OnItsWay(k)'
    BY <1>2, <2>4, <2>7, <2>8 DEF OnItsWay, RangeFits
  <2> QED
    BY <2>3, <2>6, <2>7, <2>8, CallerKeeps
<1> QED
    BY <1>5, <1>6

\* The new URL is stored: it is valid, as are those that the others are about to store.
LEMMA StoreURLKeeps == ASSUME FetcherInv, NEW c \in Callers, StoreURL(c) PROVE FetcherInv'
<1>1. /\ host # 0 /\ call[c] \in Call /\ call \in [Callers -> Call] /\ token \in {"valid", "stale"}
      /\ singleRange \in BOOLEAN /\ call[c].pc = "store" /\ url' = call[c].url
      /\ UNCHANGED <<hostVars, host, singleRange>>
    BY DEF FetcherInv, FetcherTypeOK, StoreURL
<1>2. Frame(c)
    BY <1>1, Zenon DEF Frame, hostVars
<1>3. CASE call[c].op = "check"
  <2>1. call' = [call EXCEPT ![c] = Idle]
    BY <1>3, Zenon DEF StoreURL
  <2> QED
    BY <1>2, <2>1, IdleKeeps, Zenon
<1>4. CASE call[c].op # "check"
  <2>1. PICK k : k = [call[c] EXCEPT !.pc = "begin", !.retry = FALSE, !.url = 0]
    BY Zenon
  <2>2. k \in Call
    <3>1. 0 \in Nat
      OBVIOUS
    <3> QED
      BY <1>1, <2>1, <3>1, Zenon DEF Call, CallPC
  <2>3. call' = [call EXCEPT ![c] = k]
    BY <1>4, <2>1, Zenon DEF StoreURL
  <2>4. /\ k.pc = "begin" /\ k.several = call[c].several
        /\ k.excused = call[c].excused /\ k.disturbed = call[c].disturbed
    BY <1>1, <2>1, Zenon DEF Call
  <2>5. Owed(k) => Owed(call[c])
    BY <1>1, <2>4 DEF Owed
  <2>6. Owed(k) => url' \notin 1 .. exp /\ (k.several /\ ~multi => singleRange')
    BY <1>1, <2>4, <2>5 DEF FetcherInv, Serving, OnItsWay, RangeFits
  <2> QED
    BY <1>2, <2>2, <2>3, <2>4, <2>5, <2>6, RetryKeeps, Zenon
<1> QED
    BY <1>3, <1>4

\* The failure of a call is returned.
LEMMA ReturnKeeps == ASSUME FetcherInv, NEW c \in Callers, Return(c) PROVE FetcherInv'
<1>1. host # 0 /\ singleRange \in BOOLEAN
    BY DEF FetcherInv, FetcherTypeOK, Return
<1>2. Frame(c) /\ call' = [call EXCEPT ![c] = Idle]
    BY <1>1, Zenon DEF Return, Frame, hostVars
<1> QED
    BY <1>2, IdleKeeps, Zenon

\* The fetcher is made while there is no call.
LEMMA NewHTTPFetcherKeeps == FetcherInv /\ NewHTTPFetcher => FetcherInv'
<1> SUFFICES ASSUME FetcherInv, NewHTTPFetcher PROVE FetcherInv'
    OBVIOUS
<1>1. \A c \in Callers : call'[c].pc = "idle"
    BY DEF FetcherInv, NewHTTPFetcher
<1>2. host' \in Nat /\ url' \in Nat /\ exp' \in Nat
    BY FetcherAssumption DEF FetcherInv, FetcherTypeOK, NewHTTPFetcher
<1>3. FetcherTypeOK'
    BY <1>2, Zenon DEF FetcherInv, FetcherTypeOK, NewHTTPFetcher
<1> QED
    BY <1>1, <1>3 DEF FetcherInv, Owed

\* What happens to the registry.
LEMMA RegistryKeeps == ASSUME FetcherInv, ExpireURL \/ ExpireToken \/ (\E h \in Hosts : Outage(h)) PROVE FetcherInv'
<1>1. Disturb /\ host' = host
    BY DEF ExpireURL, ExpireToken, Outage
<1>2. call' \in [Callers -> Call]
  <2>1. \A c \in Callers : call[c] \in Call
    BY DEF FetcherInv, FetcherTypeOK
  <2>2. \A c \in Callers : [call[c] EXCEPT !.disturbed = call[c].pc # "idle"] \in Call
    BY <2>1, Zenon DEF Call
  <2> QED
    BY <1>1, <2>2, Zenon DEF Disturb
<1>3. exp' \in Nat
    BY DEF FetcherInv, FetcherTypeOK, ExpireURL, ExpireToken, Outage
<1>4. up' \in [Hosts -> BOOLEAN]
  <2>1. ASSUME NEW h \in Hosts, Outage(h) PROVE up' \in [Hosts -> BOOLEAN]
    BY <2>1, Zenon DEF FetcherInv, FetcherTypeOK, Outage
  <2> QED
    BY <2>1, Zenon DEF FetcherInv, FetcherTypeOK, ExpireURL, ExpireToken
<1>5. FetcherTypeOK'
    BY <1>1, <1>2, <1>3, <1>4, Zenon DEF FetcherInv, FetcherTypeOK, ExpireURL, ExpireToken, Outage
<1> QED
    BY <1>1, <1>5, DisturbKeeps

\* The invariant of the fetcher, for any numbers of hosts, callers and expiries: every
\* call that is owed its result is on its way to it.
THEOREM FetcherInvariant == FetcherSpec => []FetcherInv
<1>1. ASSUME FetcherInv, [FetcherNext]_fetcherVars PROVE FetcherInv'
  <2>1. CASE UNCHANGED fetcherVars
    BY <1>1, <2>1, Zenon DEF fetcherVars, hostVars, FetcherInv, FetcherTypeOK, Owed, Serving, OnItsWay, RangeFits
  <2>2. ASSUME NEW c \in Callers, CallStep(c) PROVE FetcherInv'
    BY <1>1, <2>2, ReadKeeps, SendKeeps, SendCheckKeeps, RefreshURLKeeps, StoreURLKeeps, ReturnKeeps, Zenon DEF CallStep
  <2> QED
    BY <1>1, <2>1, <2>2, NewHTTPFetcherKeeps, FetchKeeps, RegistryKeeps, Zenon DEF FetcherNext
<1> QED
    BY <1>1, FetcherStarts, PTL DEF FetcherSpec

\* A fetch or a check fails only for what happens during it, or with one of the excuses
\* it had when it began (httpFetcher.fetch, check and refreshURL).
THEOREM FetchesRecover == FetcherSpec => []FetchRecovers
<1>1. FetcherInv => FetchRecovers
    BY DEF FetcherInv, Owed, OnItsWay, FetchRecovers
<1> QED
    BY <1>1, FetcherInvariant, PTL
=============================================================================
