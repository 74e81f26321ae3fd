----------------------------- MODULE Filesystem -----------------------------
(***************************************************************************)
(* fs/fs.go with the resolver of fs/layer/layer.go: concurrent mounts of   *)
(* the layers of an image, each of which resolves its own layer and        *)
(* pre-resolves the other ones, the two caches of resolved layers and      *)
(* blobs, timeouts, failures and unmounts.                                 *)
(*                                                                         *)
(* The caches behave as RefCounted: a value is closed in the step in which *)
(* it is neither cached nor held.  A request r has a mountpoint of its own *)
(* and two goroutines <<r, "target">> and <<r, "neighbor">>; a reference   *)
(* to a layer keeps the name of the goroutine that resolved it.  Layers    *)
(* and blobs are numbered in the order in which they are made.             *)
(***************************************************************************)
EXTENDS Naturals, FiniteSets, Functions

CONSTANTS Requests, Names, MaxLayers, MaxBlobs, None

ASSUME FilesystemAssumption ==
    MaxLayers \in Nat /\ MaxBlobs \in Nat /\ None \notin Nat \cup Names

Goroutines == Requests \X {"target", "neighbor"}
Layers == 1 .. MaxLayers
Blobs == 1 .. MaxBlobs

VARIABLES
    target,               \* the layer that a request mounts
    main,                 \* control of fs.Mount and fs.Unmount of a request
    go, name,             \* control of a goroutine, and the layer it resolves
    myBlob, myLayer,      \* the blob and the layer a goroutine has got
    resolveLock,          \* the holder of resolveLock for each name
    layerCache, blobCache,    \* the TTL caches
    holds,                \* holds[l]: the goroutines whose reference to l counts
    uses,                 \* uses[b]: the goroutines with a reference to b
    blobOf,               \* the blob of each layer made so far, None before
    blobs,                \* number of blobs made so far
    closedLayers, closedBlobs,
    registered,           \* fs.layer
    mounted               \* the layer the kernel serves at a mountpoint

procVars == <<target, main, go, name, myBlob, myLayer>>
resolverVars == <<layerCache, blobCache, holds, uses, closedLayers, closedBlobs>>
fsVars == <<procVars, resolverVars, resolveLock, blobOf, blobs, registered, mounted>>

\* Nothing is mounted or resolved.
FsIdle ==
    /\ main = [r \in Requests |-> "idle"]
    /\ go = [g \in Goroutines |-> "off"]
    /\ name = [g \in Goroutines |-> None]
    /\ myBlob = [g \in Goroutines |-> None]
    /\ myLayer = [g \in Goroutines |-> None]
    /\ resolveLock = [n \in Names |-> None]
    /\ layerCache = [n \in Names |-> None]
    /\ blobCache = [n \in Names |-> None]
    /\ holds = [l \in Layers |-> {}]
    /\ uses = [b \in Blobs |-> {}]
    /\ blobOf = [l \in Layers |-> None]
    /\ blobs = 0
    /\ closedLayers = {} /\ closedBlobs = {}
    /\ registered = [r \in Requests |-> None]
    /\ mounted = [r \in Requests |-> None]

FsInit == target \in [Requests -> Names] /\ FsIdle

Made == {l \in Layers : blobOf[l] # None}
Drop(cache, v) == [n \in Names |-> IF cache[n] = v THEN None ELSE cache[n]]

\* The caches lc and bc, the references h and u and the layers bo come into
\* effect.  OnEvicted closes the layers that died; a closed layer gives its
\* blob up with done(true), which drops it from its cache too.
Settle(lc, bc, h, u, bo, nblobs) ==
    LET dead == {l \in Layers : bo[l] # None /\ l \notin Range(lc) /\ h[l] = {}}
        freed == {bo[l] : l \in dead \ closedLayers}
        bc2 == [n \in Names |-> IF bc[n] \in freed THEN None ELSE bc[n]]
    IN /\ layerCache' = lc /\ holds' = h /\ closedLayers' = dead
       /\ blobCache' = bc2 /\ uses' = u
       /\ closedBlobs' = {b \in 1 .. nblobs : /\ b \notin Range(bc2) /\ u[b] = {}
                                             /\ \A l \in Layers \ dead : bo[l] # b}

Go(g, p) == go' = [go EXCEPT ![g] = p]
To(r, p) == main' = [main EXCEPT ![r] = p]

-----------------------------------------------------------------------------
(* Resolver.Resolve, run by a goroutine. *)

Lock(g) ==
    /\ go[g] = "lock" /\ resolveLock[name[g]] = None
    /\ resolveLock' = [resolveLock EXCEPT ![name[g]] = g]
    /\ Go(g, "get")
    /\ UNCHANGED <<target, main, name, myBlob, myLayer, resolverVars, blobOf, blobs,
                   registered, mounted>>

Unlock(g) == resolveLock' = [resolveLock EXCEPT ![name[g]] = None]

\* A cached layer that answers Check is the result; another one is evicted.
GetLayer(g) ==
    LET l == layerCache[name[g]] IN
    /\ go[g] = "get"
    /\ UNCHANGED <<target, main, name, myBlob, blobOf, blobs, registered, mounted>>
    /\ \/ /\ l # None
          /\ Go(g, "resolved") /\ Unlock(g)
          /\ myLayer' = [myLayer EXCEPT ![g] = l]
          /\ Settle(layerCache, blobCache, [holds EXCEPT ![l] = @ \cup {g}], uses, blobOf, blobs)
       \/ /\ Go(g, "blob")
          /\ Settle(Drop(layerCache, l), blobCache, holds, uses, blobOf, blobs)
          /\ UNCHANGED <<myLayer, resolveLock>>

\* resolveBlob, up to the request to the registry.
GetBlob(g) ==
    LET b == blobCache[name[g]] IN
    /\ go[g] = "blob"
    /\ UNCHANGED <<target, main, name, myLayer, resolveLock, blobOf, blobs, registered, mounted>>
    /\ \/ /\ b # None
          /\ Go(g, "meta")
          /\ myBlob' = [myBlob EXCEPT ![g] = b]
          /\ Settle(layerCache, blobCache, holds, [uses EXCEPT ![b] = @ \cup {g}], blobOf, blobs)
       \/ /\ Go(g, "fetch")
          /\ Settle(layerCache, Drop(blobCache, b), holds, uses, blobOf, blobs)
          /\ UNCHANGED myBlob

\* The registry answers: a new blob is added to the cache.
AddBlob(g) ==
    LET b == blobs + 1 IN
    /\ go[g] = "fetch" /\ b <= MaxBlobs
    /\ blobs' = b
    /\ Go(g, "meta")
    /\ myBlob' = [myBlob EXCEPT ![g] = b]
    /\ UNCHANGED blobOf
    /\ Settle(layerCache, [blobCache EXCEPT ![name[g]] = b], holds,
              [uses EXCEPT ![b] = {g}], blobOf, b)
    /\ UNCHANGED <<target, main, name, myLayer, resolveLock, registered, mounted>>

\* The registry does not know the layer, or it has no TOC: the blob that was
\* resolved is evicted.
ResolveFails(g) ==
    LET b == myBlob[g] IN
    /\ go[g] \in {"fetch", "meta"}
    /\ Go(g, "failed") /\ Unlock(g)
    /\ myBlob' = [myBlob EXCEPT ![g] = None]
    /\ UNCHANGED <<target, main, name, myLayer, blobOf, blobs, registered, mounted>>
    /\ Settle(layerCache, IF b = None THEN blobCache ELSE Drop(blobCache, b), holds,
              [c \in Blobs |-> uses[c] \ {g}], blobOf, blobs)

\* The new layer takes the reference to the blob over and is cached.
AddLayer(g) ==
    LET l == Cardinality(Made) + 1
        b == myBlob[g]
        made == [blobOf EXCEPT ![l] = b]
    IN /\ go[g] = "meta" /\ l <= MaxLayers
       /\ Go(g, "resolved") /\ Unlock(g)
       /\ blobOf' = made
       /\ myLayer' = [myLayer EXCEPT ![g] = l]
       /\ myBlob' = [myBlob EXCEPT ![g] = None]
       /\ Settle([layerCache EXCEPT ![name[g]] = l], blobCache, [holds EXCEPT ![l] = {g}],
                 [uses EXCEPT ![b] = @ \ {g}], made, blobs)
       /\ UNCHANGED <<target, main, name, blobs, registered, mounted>>

\* The ttl of a cached layer or blob is over.
Expire(n) ==
    /\ \/ /\ layerCache[n] # None
          /\ Settle([layerCache EXCEPT ![n] = None], blobCache, holds, uses, blobOf, blobs)
       \/ /\ blobCache[n] # None
          /\ Settle(layerCache, [blobCache EXCEPT ![n] = None], holds, uses, blobOf, blobs)
    /\ UNCHANGED <<procVars, resolveLock, blobOf, blobs, registered, mounted>>

\* Mutant: Close closes the layer also for its other users.
ReleaseAll(g, evict) ==
    LET l == myLayer[g] IN
    Settle(IF evict THEN Drop(layerCache, l) ELSE layerCache, blobCache,
           [holds EXCEPT ![l] = IF evict THEN {} ELSE @ \ {g}], uses, blobOf, blobs)

\* g gives its layer back; with evict it is dropped from the cache too.
Release(g, evict) ==
    LET l == myLayer[g] IN
    Settle(IF evict THEN Drop(layerCache, l) ELSE layerCache, blobCache,
           [holds EXCEPT ![l] = @ \ {g}], uses, blobOf, blobs)

-----------------------------------------------------------------------------
(* fs.Mount. *)

Target(r) == <<r, "target">>
Neighbor(r) == <<r, "neighbor">>

\* Both goroutines start; the other layer of the manifest is pre-resolved.
Mount(r) ==
    /\ main[r] = "idle"
    /\ To(r, "wait")
    /\ \E n \in Names \ {target[r]} :
         name' = [name EXCEPT ![Target(r)] = target[r], ![Neighbor(r)] = n]
    /\ go' = [go EXCEPT ![Target(r)] = "lock", ![Neighbor(r)] = "lock"]
    /\ UNCHANGED <<target, myBlob, myLayer, resolverVars, resolveLock, blobOf, blobs,
                   registered, mounted>>

\* A pre-resolved layer is only left in the cache.
NeighborDone(r) ==
    LET g == Neighbor(r) IN
    /\ go[g] \in {"resolved", "failed"}
    /\ Go(g, "end")
    /\ IF go[g] = "resolved" THEN Release(g, FALSE) ELSE UNCHANGED resolverVars
    /\ myLayer' = [myLayer EXCEPT ![g] = None]
    /\ UNCHANGED <<target, main, name, myBlob, resolveLock, blobOf, blobs,
                   registered, mounted>>

\* The goroutine and Mount meet at resultChan or errChan, both unbuffered.
Receive(r) ==
    LET g == Target(r) IN
    /\ main[r] = "wait" /\ go[g] \in {"resolved", "failed"}
    /\ Go(g, "end")
    /\ To(r, IF go[g] = "resolved" THEN "verify" ELSE "failed")
    /\ UNCHANGED <<target, name, myBlob, myLayer, resolverVars, resolveLock, blobOf, blobs,
                   registered, mounted>>

\* After 30 seconds Mount fails; nobody will receive the goroutine's result.
Timeout(r) ==
    /\ main[r] = "wait"
    /\ To(r, "failed")
    /\ UNCHANGED <<target, go, name, myBlob, myLayer, resolverVars, resolveLock, blobOf,
                   blobs, registered, mounted>>

\* Mutant: a failed verification returns without Done.
VerifyFailsKeep(r) ==
    /\ main[r] = "verify"
    /\ To(r, "failed")
    /\ UNCHANGED <<target, go, name, myBlob, myLayer, resolverVars, resolveLock, blobOf, blobs,
                   registered, mounted>>

\* Verification fails, or RootNode does: Done.
VerifyFails(r) ==
    /\ main[r] = "verify"
    /\ To(r, "failed")
    /\ Release(Target(r), FALSE)
    /\ UNCHANGED <<target, go, name, myBlob, myLayer, resolveLock, blobOf, blobs,
                   registered, mounted>>

\* The layer is verified (or verification is skipped) and registered.
Register(r) ==
    /\ main[r] = "verify"
    /\ To(r, "fuse")
    /\ registered' = [registered EXCEPT ![r] = myLayer[Target(r)]]
    /\ UNCHANGED <<target, go, name, myBlob, myLayer, resolverVars, resolveLock, blobOf,
                   blobs, mounted>>

Serve(r) ==
    /\ main[r] = "fuse"
    /\ To(r, "mounted")
    /\ mounted' = [mounted EXCEPT ![r] = myLayer[Target(r)]]
    /\ UNCHANGED <<target, go, name, myBlob, myLayer, resolverVars, resolveLock, blobOf,
                   blobs, registered>>

\* NewServer or WaitMount fails: Done, but the layer stays registered.
FuseFails(r) ==
    /\ main[r] = "fuse"
    /\ To(r, "failed")
    /\ Release(Target(r), FALSE)
    /\ UNCHANGED <<target, go, name, myBlob, myLayer, resolveLock, blobOf, blobs,
                   registered, mounted>>

-----------------------------------------------------------------------------
(* fs.Unmount, of a mountpoint that is registered. *)

\* Under layerMu: unregister, Close the reference (which may be a second time).
Unmount(r) ==
    /\ main[r] \in {"mounted", "failed"} /\ registered[r] # None
    /\ To(r, IF main[r] = "mounted" THEN "unmount" ELSE "done")
    /\ registered' = [registered EXCEPT ![r] = None]
    /\ Release(Target(r), TRUE)
    /\ UNCHANGED <<target, go, name, myBlob, myLayer, resolveLock, blobOf, blobs, mounted>>

\* unmount(2), forced if the mountpoint is busy; it may fail all the same.
UnmountKernel(r) ==
    /\ main[r] = "unmount"
    /\ To(r, "done")
    /\ mounted' \in {mounted, [mounted EXCEPT ![r] = None]}
    /\ UNCHANGED <<target, go, name, myBlob, myLayer, resolverVars, resolveLock, blobOf,
                   blobs, registered>>

FsNext ==
    \/ \E g \in Goroutines :
         \/ Lock(g) \/ GetLayer(g) \/ GetBlob(g) \/ AddBlob(g) \/ ResolveFails(g) \/ AddLayer(g)
    \/ \E n \in Names : Expire(n)
    \/ \E r \in Requests :
         \/ Mount(r) \/ NeighborDone(r) \/ Receive(r) \/ Timeout(r) \/ VerifyFails(r)
         \/ Register(r) \/ Serve(r) \/ FuseFails(r) \/ Unmount(r) \/ UnmountKernel(r)

FsSpec == FsInit /\ [][FsNext]_fsVars

-----------------------------------------------------------------------------
(* Properties. *)

\* A layer is closed before its blob, and a blob in a goroutine's hand is open.
BlobOutlivesLayer ==
    /\ \A l \in Made \ closedLayers : blobOf[l] \notin closedBlobs
    /\ \A g \in Goroutines : myBlob[g] # None => myBlob[g] \notin closedBlobs

\* What the kernel serves at a mountpoint is an open layer on an open blob,
\* until Unmount gives it up: no timer, failed mount of the same layer or
\* unmount of another mountpoint closes it.  No open layer or goroutine has a
\* closed blob.
MountedIsOpen ==
    /\ \A r \in Requests : main[r] = "mounted" =>
         /\ mounted[r] \notin closedLayers
         /\ blobOf[mounted[r]] \notin closedBlobs
    /\ BlobOutlivesLayer

\* Everything still open is reachable: a layer or blob that no cache holds is
\* in use by a mount or by a goroutine that still runs, except for the result
\* of a resolution that Mount no longer waits for (fs.go:291).
LayersDoNotLeak ==
    \A l \in Made \ closedLayers :
        \/ l \in Range(layerCache)
        \/ \E r \in Requests : registered[r] = l /\ main[r] \in {"fuse", "mounted"}
        \/ \E g \in Goroutines : g \in holds[l] /\ go[g] = "resolved"
        \/ \E r \in Requests : main[r] = "verify" /\ myLayer[Target(r)] = l
=============================================================================
