---------------------------- MODULE LayerPrefetch ----------------------------
(***************************************************************************)
(* Prefetch, background fetch and Check of a mounted layer                 *)
(* (fs/layer/layer.go, filesystem.Check in fs/fs.go): the first Prefetch   *)
(* fetches the range that the landmark of the layer ends, caches its       *)
(* chunks and tells the waiter; a Check verifies the connection and waits  *)
(* for the prefetch, but not longer than the prefetch timeout.             *)
(*                                                                         *)
(* The blob is Chunks compressed chunks, chunk i at offset i - 1.          *)
(***************************************************************************)
EXTENDS Integers, FiniteSets, FiniteSetsExt

CONSTANTS NumChunks, Landmarks, Defaults, Prefetchers, Checkers

None == -1
No == -2

ASSUME PrefetchAssumption ==
    /\ NumChunks \in Nat \ {0}
    /\ Landmarks \subseteq {None, No} \cup 0 .. NumChunks /\ Defaults \subseteq Nat

Chunks == 1 .. NumChunks

VARIABLES
    landmark,      \* the offset of .prefetch.landmark, No: .no.prefetch.landmark, None: neither
    default,       \* the configured prefetch size
    registered, closed, connected,
    once,          \* prefetchOnce
    pf, prefetchErr, prefetchSize,
    fetched,       \* chunks in the cache of the blob
    cached,        \* chunks in the cache of the reader
    isDone, g,     \* the waiter and the goroutine that wait() starts for a checker
    chk,   \* a Check and what its wait returned
    bg

layerVars == <<landmark, default, registered, closed, connected>>
onceVars == <<once, pf, prefetchErr, prefetchSize>>
waiterVars == <<isDone, g>>
cacheVars == <<fetched, cached>>
prefetchVars == <<layerVars, onceVars, waiterVars, chk, cacheVars, bg>>

PrefetchTypeOK ==
    /\ landmark \in Landmarks
    /\ default \in Defaults /\ prefetchSize \in 0 .. NumChunks
    /\ {registered, closed, connected, isDone, prefetchErr} \subseteq BOOLEAN
    /\ once \in {"new", "running", "done"}
    /\ pf \in [Prefetchers -> {"new", "size", "blob", "decompress", "ended"}]
    /\ g \in [Checkers -> {"none", "started", "lock", "wait", "send"}]
    /\ chk \in [Checkers -> {"idle", "info", "check", "refresh", "sync", "waiting", "failed", "ok"}]
    /\ fetched \subseteq Chunks /\ cached \subseteq Chunks
    /\ bg \in {"new", "running", "ended"}

PrefetchInit ==
    /\ landmark \in Landmarks /\ default \in Defaults
    /\ registered = TRUE /\ closed = FALSE /\ connected = TRUE
    /\ once = "new" /\ pf = [p \in Prefetchers |-> "new"] /\ prefetchErr = FALSE /\ prefetchSize = 0
    /\ fetched = {} /\ cached = {}
    /\ isDone = FALSE /\ g = [c \in Checkers |-> "none"]
    /\ chk = [c \in Checkers |-> "idle"]
    /\ bg = "new"

\* Check and prefetch are prioritized tasks, during which no background task runs.
Prioritized == once = "running" \/ \E c \in Checkers : chk[c] # "idle"

Below(size) == {i \in Chunks : i - 1 < size}

-----------------------------------------------------------------------------
(* Prefetch. *)

Broadcast == [c \in Checkers |-> IF g[c] = "wait" THEN "send" ELSE g[c]]

\* The deferred functions: waiter.done, DonePrioritizedTask and the end of Once.
PrefetchReturns(p, err) ==
    /\ isDone' = TRUE /\ g' = Broadcast
    /\ once' = "done" /\ prefetchErr' = err /\ pf' = [pf EXCEPT ![p] = "ended"]

\* Only the first one does anything; the others wait for it to end.
Prefetch(p) ==
    /\ pf[p] = "new"
    /\ \/ once = "new" /\ once' = "running" /\ pf' = [pf EXCEPT ![p] = "size"]
       \/ once = "done" /\ pf' = [pf EXCEPT ![p] = "ended"] /\ UNCHANGED once
    /\ UNCHANGED <<layerVars, prefetchErr, prefetchSize, waiterVars, chk, cacheVars, bg>>

\* Mutant: the landmark bounds the configured size instead of replacing it.
TargetBounded == IF landmark >= 0 THEN Min({landmark, default}) ELSE Min({default, NumChunks})

\* The range to prefetch.
Target == IF landmark >= 0 THEN landmark ELSE Min({default, NumChunks})

PrefetchSize(p) ==
    /\ pf[p] = "size"
    /\ IF closed \/ landmark = No
       THEN PrefetchReturns(p, closed)
       ELSE pf' = [pf EXCEPT ![p] = "blob"] /\ UNCHANGED <<once, prefetchErr, waiterVars>>
    /\ UNCHANGED <<layerVars, prefetchSize, chk, cacheVars, bg>>

\* l.blob.Cache; a part may have been fetched when it fails.
PrefetchBlob(p) ==
    /\ pf[p] = "blob"
    /\ \/ /\ ~closed /\ (connected \/ Below(Target) \subseteq fetched)
          /\ fetched' = fetched \cup Below(Target) /\ prefetchSize' = Target
          /\ pf' = [pf EXCEPT ![p] = "decompress"] /\ UNCHANGED <<once, prefetchErr, waiterVars>>
       \/ /\ \E got \in SUBSET Below(Target) : fetched' = fetched \cup got
          /\ PrefetchReturns(p, TRUE) /\ UNCHANGED prefetchSize
    /\ UNCHANGED <<layerVars, chk, cached, bg>>

\* verifiableReader.Cache with the filter on the offset.
PrefetchDecompress(p) ==
    /\ pf[p] = "decompress"
    /\ \/ ~closed /\ cached' = cached \cup Below(prefetchSize) /\ PrefetchReturns(p, FALSE)
       \/ /\ \E got \in SUBSET Below(prefetchSize) : cached' = cached \cup got
          /\ PrefetchReturns(p, TRUE)
    /\ UNCHANGED <<layerVars, prefetchSize, chk, fetched, bg>>

-----------------------------------------------------------------------------
(* Background fetch, chunk by chunk while nothing prioritized runs. *)

BackgroundFetch ==
    /\ bg = "new"
    /\ bg' = IF closed THEN "ended" ELSE "running"
    /\ UNCHANGED <<layerVars, onceVars, waiterVars, chk, cacheVars>>

BackgroundRead ==
    /\ bg = "running" /\ ~Prioritized
    /\ \/ \E i \in Chunks \ cached :
            /\ ~closed /\ (connected \/ i \in fetched)
            /\ fetched' = fetched \cup {i} /\ cached' = cached \cup {i} /\ UNCHANGED bg
       \/ (cached = Chunks \/ closed \/ ~connected) /\ bg' = "ended" /\ UNCHANGED cacheVars
    /\ UNCHANGED <<layerVars, onceVars, waiterVars, chk>>

-----------------------------------------------------------------------------
(* Check of the mountpoint by checker c. *)

Check(c) ==
    /\ chk[c] = "idle"
    /\ chk' = [chk EXCEPT ![c] = IF registered THEN "info" ELSE "failed"]
    /\ UNCHANGED <<layerVars, onceVars, waiterVars, cacheVars, bg>>

CheckInfo(c) ==
    /\ chk[c] = "info"
    /\ chk' = [chk EXCEPT ![c] = IF fetched = Chunks THEN "sync" ELSE "check"]
    /\ UNCHANGED <<layerVars, onceVars, waiterVars, cacheVars, bg>>

CheckBlob(c) ==
    /\ chk[c] = "check"
    /\ chk' = [chk EXCEPT ![c] = IF ~closed /\ connected THEN "sync" ELSE "refresh"]
    /\ UNCHANGED <<layerVars, onceVars, waiterVars, cacheVars, bg>>

\* One of the sources answers, or none.
Refresh(c) ==
    /\ chk[c] = "refresh"
    /\ \/ ~closed /\ connected' = TRUE /\ chk' = [chk EXCEPT ![c] = "sync"]
       \/ chk' = [chk EXCEPT ![c] = "failed"] /\ UNCHANGED connected
    /\ UNCHANGED <<landmark, default, registered, closed, onceVars, waiterVars, cacheVars, bg>>

\* WaitForPrefetchCompletion, whose error is only logged.
WaitForPrefetch(c) ==
    /\ chk[c] = "sync"
    /\ IF closed THEN chk' = [chk EXCEPT ![c] = "ok"] /\ UNCHANGED g
       ELSE chk' = [chk EXCEPT ![c] = "waiting"] /\ g' = [g EXCEPT ![c] = "started"]
    /\ UNCHANGED <<layerVars, onceVars, isDone, cacheVars, bg>>

ReadIsDone(c) ==
    /\ g[c] = "started"
    /\ g' = [g EXCEPT ![c] = IF isDone THEN "send" ELSE "lock"]
    /\ UNCHANGED <<layerVars, onceVars, isDone, chk, cacheVars, bg>>

\* isDone is not read again under the lock of the condition variable.
CondWait(c) ==
    /\ g[c] = "lock"
    /\ g' = [g EXCEPT ![c] = "wait"]
    /\ UNCHANGED <<layerVars, onceVars, isDone, chk, cacheVars, bg>>

WaitReturns(c) ==
    /\ chk[c] = "waiting" /\ g[c] = "send"
    /\ g' = [g EXCEPT ![c] = "none"]
    /\ chk' = [chk EXCEPT ![c] = "ok"]
    /\ UNCHANGED <<layerVars, onceVars, isDone, cacheVars, bg>>

\* Mutant: the timer is only looked at until the goroutine of the wait has read isDone.
TimeoutOfWait(c) ==
    /\ chk[c] = "waiting" /\ g[c] = "started"
    /\ isDone' = TRUE /\ g' = [Broadcast EXCEPT ![c] = "none"]
    /\ chk' = [chk EXCEPT ![c] = "ok"]
    /\ UNCHANGED <<layerVars, onceVars, cacheVars, bg>>

\* The prefetch timeout: isDone is set as if the prefetch had ended, and the
\* goroutine of this wait stays behind for ever.
Timeout(c) ==
    /\ chk[c] = "waiting"
    /\ isDone' = TRUE /\ g' = [Broadcast EXCEPT ![c] = "none"]
    /\ chk' = [chk EXCEPT ![c] = "ok"]
    /\ UNCHANGED <<layerVars, onceVars, cacheVars, bg>>

CheckReturns(c) ==
    /\ chk[c] \in {"ok", "failed"}
    /\ chk' = [chk EXCEPT ![c] = "idle"]
    /\ UNCHANGED <<layerVars, onceVars, waiterVars, cacheVars, bg>>

-----------------------------------------------------------------------------
Unmount ==
    /\ registered
    /\ registered' = FALSE /\ closed' = TRUE
    /\ UNCHANGED <<landmark, default, connected, onceVars, waiterVars, chk, cacheVars, bg>>

\* The URL of the blob expires.
Disconnect ==
    /\ connected /\ connected' = FALSE
    /\ UNCHANGED <<landmark, default, registered, closed, onceVars, waiterVars, chk, cacheVars, bg>>

CheckStep(c) ==
    \/ CheckInfo(c) \/ CheckBlob(c) \/ Refresh(c) \/ WaitForPrefetch(c) \/ WaitReturns(c) \/ Timeout(c) \/ CheckReturns(c)

PrefetchNext ==
    \/ \E p \in Prefetchers : Prefetch(p) \/ PrefetchSize(p) \/ PrefetchBlob(p) \/ PrefetchDecompress(p)
    \/ BackgroundFetch \/ BackgroundRead
    \/ \E c \in Checkers : Check(c) \/ CheckStep(c) \/ ReadIsDone(c) \/ CondWait(c)
    \/ Unmount \/ Disconnect

\* A request to a registry ends by the timeout of its client, and timers fire.
PrefetchFairness == \A c \in Checkers : WF_prefetchVars(CheckStep(c))

PrefetchSpec == PrefetchInit /\ [][PrefetchNext]_prefetchVars /\ PrefetchFairness

-----------------------------------------------------------------------------
(* Properties. *)

\* A prefetch that ended well left every chunk below the landmark, or of the
\* configured size of a layer without one, in the cache, and nothing else when the
\* landmark forbids prefetching (Prefetch: "the range indicated by these files is
\* respected").
PrefetchHonoursLandmark ==
    /\ (once = "done" /\ ~prefetchErr /\ landmark >= 0) => Below(landmark) \subseteq cached
    /\ (once = "done" /\ ~prefetchErr /\ landmark = None) => Below(default) \subseteq cached
    /\ (landmark = No /\ bg = "new") => fetched = {}

\* A Check ends, also when the prefetch hangs, was never started, or told the waiter
\* between the read of isDone and the wait.
CheckEnds == \A c \in Checkers : chk[c] # "idle" ~> chk[c] = "idle"
=============================================================================
