------------------------------ MODULE MCReading ------------------------------
(* The parts that bring the bytes of a layer to a reader, for TLC: the verification of   *)
(* chunks, the blob of a layer with its cache, the file that passthrough merges, and the *)
(* fetcher below the blob.  A behaviour is one of them: sel says which.                  *)
EXTENDS VerifiableReader, HTTPFetcher, Sequences, TLC

CONSTANTS
    size, chunkSize, Offsets, Lengths, Piece, MaxLost, MaxRefresh,   \* of the blob
    BufferSizes, Workers                                             \* of passthrough

VARIABLES
    sel,   \* the component of this behaviour
    fetcher, single, stored, fetchedRegionSet, ended, refreshing, lost, op, fr, allData,
    cur, buf, flight, parts, fetched, copied,
    at, next,
    sizes, bufferSize, checked, tampered, cached, enable, buffer, infos, worker, out,
    entire

\* Up to four chunks of one size, the last of which may be shorter.
MergedFiles == {<<>>} \cup
    {[i \in 1 .. n |-> IF i = n THEN c[2] ELSE c[1]] : n \in 1 .. 4, c \in {p \in (1 .. 3) \X (1 .. 3) : p[2] <= p[1]}}

B == INSTANCE Blob WITH Procs <- Mounts, cache <- stored, closed <- ended, pc <- at
P == INSTANCE Passthrough WITH Files <- MergedFiles, verify <- checked, pc <- at

ASSUME B!BlobAssumption /\ P!PassthroughAssumption

blobVars == <<fetcher, single, stored, fetchedRegionSet, ended, refreshing, lost, op,
              fr, allData, cur, buf, flight, parts, fetched, copied>>
blobMergeVars == <<at, next>>
mergeVars == <<sizes, bufferSize, checked, tampered, cached, enable, buffer, infos,
               worker, out, entire>>
allVars == <<sel, vars, blobVars, blobMergeVars, mergeVars, fetcherVars>>

\* The variables of the other components have no value, those of VerifiableReader and of
\* HTTPFetcher rest in an initial state.
verifyOff == Init /\ label = [m \in Mounts |-> "right"]
blobOff == fetcher = 0 /\ single = 0 /\ stored = 0 /\ fetchedRegionSet = 0 /\ ended = 0
           /\ refreshing = 0 /\ lost = 0 /\ op = 0 /\ fr = 0 /\ allData = 0 /\ cur = 0
           /\ buf = 0 /\ flight = 0 /\ parts = 0 /\ fetched = 0 /\ copied = 0
blobMergeOff == at = 0 /\ next = 0
mergeOff == sizes = 0 /\ bufferSize = 0 /\ checked = 0 /\ tampered = 0 /\ cached = 0
            /\ enable = 0 /\ buffer = 0 /\ infos = 0 /\ worker = 0 /\ out = 0
            /\ entire = 0
httpOff == FetcherInit /\ up = [h \in Hosts |-> FALSE] /\ ~redirects /\ ~multi /\ ~authorizer

AllInit ==
    \/ sel = "verify" /\ Init /\ blobOff /\ blobMergeOff /\ mergeOff /\ httpOff
    \/ sel = "blob" /\ B!Init /\ verifyOff /\ mergeOff /\ httpOff
    \/ sel = "merge" /\ P!Init /\ verifyOff /\ blobOff /\ httpOff
    \/ sel = "http" /\ FetcherInit /\ verifyOff /\ blobOff /\ blobMergeOff /\ mergeOff

AllNext ==
    \/ sel = "verify" /\ Next /\ UNCHANGED <<sel, blobVars, blobMergeVars, mergeVars,
       fetcherVars>>
    \/ sel = "blob" /\ B!Next /\ UNCHANGED <<sel, vars, mergeVars, fetcherVars>>
    \/ sel = "merge" /\ P!Next /\ UNCHANGED <<sel, vars, blobVars, fetcherVars>>
    \/ sel = "http" /\ FetcherNext /\ UNCHANGED <<sel, vars, blobVars, blobMergeVars,
       mergeVars>>
    \/ sel \in {"verify", "blob", "merge"} /\ UNCHANGED allVars   \* these may stop

AllSpec == AllInit /\ [][AllNext]_allVars

Symmetry == Permutations(Mounts)

-----------------------------------------------------------------------------
(* Properties. *)

\* ServesVerified and VerificationHolds are those of VerifiableReader, FetchRecovers that
\* of HTTPFetcher.

\* A successful ReadAt has filled the buffer with the bytes it was asked for, from slices
\* within their buffers.
ReadIsExact == sel = "blob" => B!ReadIsExact /\ B!SlicesInBounds

\* fetchedRegionSet has exactly the regions that were fetched, sorted and merged, and a
\* blob that it says to be complete was cached.
FetchedRegionsAreExact == sel = "blob" => B!FetchedRegionsAreExact /\ B!CompleteIsCached

\* A merged file is the file: every byte in its place, verified and none missing.
EntireFileIsExact == sel = "merge" => P!EntireFileIsExact

\* The merge stays within its buffer ("Check if any chunk size exceeds merge buffer size
\* to avoid bounds out of range", reader.go:520).
MergeStaysInBounds == P!MergeStaysInBounds

\* The merge alone.
MergeSpec == sel = "merge" /\ AllSpec
=============================================================================
