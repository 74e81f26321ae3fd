---------------------------- MODULE LayerManager ----------------------------
(***************************************************************************)
(* store/manager.go over the pool of store/refs.go: the layers of images   *)
(* that clients of the store's FUSE filesystem look up, use and release.   *)
(*                                                                         *)
(* A client wants one layer of one image, named by its TOC digest.  It     *)
(* calls one operation at a time and releases what it has used; several    *)
(* clients may want the same layer.  Layers are numbered references as     *)
(* layer.Resolver.Resolve hands them out; Done gives one back.  The node   *)
(* of the store's FUSE tree that remembers a looked-up layer is got[c].    *)
(***************************************************************************)
EXTENDS RefPool, Integers, Functions

CONSTANTS Clients, Tocs, Digests,
          Manifest,   \* the layers of each image, by their digests
          Toc,        \* the TOC digest of each layer
          MaxLayers   \* number of layers that get resolved

ASSUME ManagerAssumption ==
    /\ Manifest \in [Refs -> SUBSET Digests] /\ Toc \in [Digests -> Tocs]
    /\ MaxLayers \in Nat /\ Refs \cap Tocs = {} /\ IsFiniteSet(Clients) /\ None \notin Nat

Goroutines == Clients \X Digests
VARIABLES
    layer,        \* the cached layer per image and TOC digest
    refcounter,   \* its uses: a function on the tracked pairs
    resolveLayerCache,  \* outcome of resolving per image and digest
    resolveLock,  \* the goroutine that resolves an image's digest
    made,         \* number of layers resolved so far
    done,         \* the layers that were given back
    want,         \* the image and TOC digest of each client
    pc,           \* control of a client
    using,        \* clients between their use and their release
    got,          \* the layer a client has looked up
    safe,         \* clients that were using the layer when they looked it up
    go, mine      \* control of a goroutine of getLayer, and its layer

managerVars == <<layer, refcounter, resolveLayerCache, resolveLock, made, done>>
clientVars == <<want, pc, using, got, safe>>
goVars == <<go, mine>>
layerManagerVars == <<poolVars, managerVars, clientVars, goVars>>

ManagerInit ==
    /\ PoolInit
    /\ layer = [i \in Refs \X Tocs |-> None]
    /\ refcounter = [i \in {} |-> 0]
    /\ resolveLayerCache = [i \in Refs \X Digests |-> None]
    /\ resolveLock = [i \in Refs \X Digests |-> None]
    /\ made = 0 /\ done = {}
    /\ want \in [Clients -> Refs \X Tocs]
    /\ pc = [c \in Clients |-> "idle"]
    /\ using = {} /\ safe = {}
    /\ got = [c \in Clients |-> None]
    /\ go = [g \in Goroutines |-> "off"]
    /\ mine = [g \in Goroutines |-> None]

Ref(c) == want[c][1]
To(c, s) == pc' = [pc EXCEPT ![c] = s]
GoTo(g, s) == go' = [go EXCEPT ![g] = s]

-----------------------------------------------------------------------------
(* use and release: the pool first, then the manager's own counter. *)

Use(c) ==
    /\ pc[c] = "idle" /\ c \notin using
    /\ PoolUse(Ref(c))
    /\ To(c, "use")
    /\ UNCHANGED <<managerVars, want, using, got, safe, goVars>>

UseLayer(c) ==
    /\ pc[c] = "use"
    /\ refcounter' = IF want[c] \in DOMAIN refcounter
                     THEN [refcounter EXCEPT ![want[c]] = @ + 1]
                     ELSE [i \in DOMAIN refcounter \cup {want[c]} |->
                             IF i = want[c] THEN 1 ELSE refcounter[i]]
    /\ using' = using \cup {c}
    /\ To(c, "idle")
    /\ UNCHANGED <<poolVars, layer, resolveLayerCache, resolveLock, made, done, want, got,
                   safe, goVars>>

Release(c) ==
    /\ pc[c] = "idle" /\ c \in using
    /\ PoolRelease(Ref(c))
    /\ To(c, "release")
    /\ UNCHANGED <<managerVars, want, using, got, safe, goVars>>

\* The client is through with the layer, whatever release returns.
Forget(c) ==
    /\ using' = using \ {c} /\ safe' = safe \ {c}
    /\ got' = [got EXCEPT ![c] = None]
    /\ To(c, "idle")
    /\ UNCHANGED <<poolVars, resolveLock, made, want, goVars>>

\* release of pair i when its counter falls to n, with the layer given back
\* when n <= limit.  The deletion is of the TOC digest among the images.
Drop(i, n, limit) ==
    LET counted == [refcounter EXCEPT ![i] = n]
        left == IF n <= limit
                THEN Restrict(counted, {j \in DOMAIN counted : j[1] # i[2]}) ELSE counted
        last == n <= limit /\ \A j \in DOMAIN left : j[1] # i[1]
    IN /\ refcounter' = left
       /\ resolveLayerCache' = [j \in DOMAIN resolveLayerCache |->
                                  IF last /\ j[1] = i[1] THEN None ELSE resolveLayerCache[j]]
       /\ IF n <= limit /\ layer[i] # None
          THEN done' = done \cup {layer[i]} /\ layer' = [layer EXCEPT ![i] = None]
          ELSE UNCHANGED <<done, layer>>

\* Mutant: the layer goes while it has one more user.
ReleaseLayerEarly(c) ==
    /\ pc[c] = "release"
    /\ IF want[c] \in DOMAIN refcounter THEN Drop(want[c], refcounter[want[c]] - 1, 1)
       ELSE UNCHANGED <<refcounter, resolveLayerCache, done, layer>>
    /\ Forget(c)

ReleaseLayer(c) ==
    /\ pc[c] = "release"
    /\ IF want[c] \in DOMAIN refcounter THEN Drop(want[c], refcounter[want[c]] - 1, 0)
       ELSE UNCHANGED <<refcounter, resolveLayerCache, done, layer>>   \* not tracked
    /\ Forget(c)

-----------------------------------------------------------------------------
(* getLayer, and the part of getLayerInfo that changes state. *)

\* The goroutines of the client's last lookup have ended or are stuck.
Settled(c) == \A d \in Digests : go[<<c, d>>] = "off"

\* getLayer: a cached layer is returned, otherwise the image is loaded.
GetLayer(c) ==
    /\ pc[c] = "idle" /\ got[c] = None /\ Settled(c)
    /\ got' = [got EXCEPT ![c] = layer[want[c]]]
    /\ safe' = IF c \in using THEN safe \cup {c} ELSE safe
    /\ To(c, IF layer[want[c]] = None THEN "load" ELSE "idle")
    /\ UNCHANGED <<poolVars, managerVars, want, using, goVars>>

\* getLayer after loadRef: a goroutine per layer of the image.
Spawn(c) ==
    /\ To(c, "wait")
    /\ go' = [g \in Goroutines |-> IF g[1] # c THEN go[g]
                                   ELSE IF g[2] \in Manifest[Ref(c)] THEN "lock" ELSE "off"]
    /\ UNCHANGED mine

\* loadRef finds the files ...
ReadRef(c) ==
    /\ pc[c] = "load" /\ Ref(c) \in files
    /\ Spawn(c)
    /\ UNCHANGED <<poolVars, managerVars, want, using, got, safe>>

\* ... or fetches and writes them, for getLayer or for getLayerInfo, which
\* begins with it ...
FetchRef(c) ==
    /\ pc[c] \in {"load", "idle"} /\ Ref(c) \notin files
    /\ \/ WriteRef(Ref(c)) /\ To(c, IF pc[c] = "load" THEN "add" ELSE "addInfo")
       \/ UNCHANGED poolVars /\ To(c, "idle")
    /\ UNCHANGED <<managerVars, want, using, got, safe, goVars>>

\* ... and adds them to the cache of the pool.  getLayerInfo changes nothing
\* else.
LoadRef(c) ==
    /\ pc[c] \in {"add", "addInfo"}
    /\ FoldFunction(+, 0, sleeping) < MaxSleeping
    /\ AddRef(Ref(c))
    /\ IF pc[c] = "add" THEN Spawn(c) ELSE To(c, "idle") /\ UNCHANGED goVars
    /\ UNCHANGED <<managerVars, want, using, got, safe>>

-----------------------------------------------------------------------------
(* resolveLayer in a goroutine g = <<c, d>>. *)

Item(g) == <<Ref(g[1]), g[2]>>

\* The lock of the image's layer; an outcome that is known ends it at once.
ResolveLayer(g) ==
    /\ go[g] = "lock" /\ resolveLock[Item(g)] = None
    /\ GoTo(g, CASE resolveLayerCache[Item(g)] = None -> "resolve"
                 [] resolveLayerCache[Item(g)] = "ok" -> "get"
                 [] OTHER -> "off")
    /\ resolveLock' = IF resolveLayerCache[Item(g)] = None
                      THEN [resolveLock EXCEPT ![Item(g)] = g] ELSE resolveLock
    /\ UNCHANGED <<poolVars, layer, refcounter, resolveLayerCache, made, done, clientVars, mine>>

\* layer.Resolver.Resolve returns a layer.
ResolveReturns(g) ==
    /\ go[g] = "resolve" /\ made < MaxLayers
    /\ made' = made + 1
    /\ mine' = [mine EXCEPT ![g] = made + 1]
    /\ GoTo(g, "cache")
    /\ UNCHANGED <<poolVars, layer, refcounter, resolveLayerCache, resolveLock, done, clientVars>>

\* The deferred functions: the outcome is recorded, the lock is given up.
Record(g, outcome, s) ==
    /\ resolveLayerCache' = [resolveLayerCache EXCEPT ![Item(g)] = outcome]
    /\ resolveLock' = [resolveLock EXCEPT ![Item(g)] = None]
    /\ GoTo(g, s)
    /\ UNCHANGED <<poolVars, layer, refcounter, made, done, clientVars, mine>>

ResolveFails(g) == go[g] = "resolve" /\ Record(g, "err", "off")
ResolveRecords(g) == go[g] = "record" /\ Record(g, "ok", "get")

\* Mutant: the layer that is not needed is not given back.
CacheLayerKeep(g) ==
    LET i == <<Ref(g[1]), Toc[g[2]]>> IN
    /\ go[g] = "cache"
    /\ layer' = IF layer[i] = None THEN [layer EXCEPT ![i] = mine[g]] ELSE layer
    /\ GoTo(g, "record")
    /\ mine' = [mine EXCEPT ![g] = None]
    /\ UNCHANGED <<poolVars, refcounter, resolveLayerCache, resolveLock, made, done, clientVars>>

\* cacheLayer: the layer is cached, or given back when there is one already.
CacheLayer(g) ==
    LET i == <<Ref(g[1]), Toc[g[2]]>> IN
    /\ go[g] = "cache"
    /\ IF layer[i] = None
       THEN layer' = [layer EXCEPT ![i] = mine[g]] /\ UNCHANGED done
       ELSE done' = done \cup {mine[g]} /\ UNCHANGED layer
    /\ GoTo(g, "record")
    /\ mine' = [mine EXCEPT ![g] = None]
    /\ UNCHANGED <<poolVars, refcounter, resolveLayerCache, resolveLock, made, clientVars>>

\* Each goroutine looks for the wanted layer when its own one is resolved, and
\* sends it.  When getLayer has returned it is stuck in that for good, holding
\* nothing: the model forgets it then.
GetCachedLayer(g) ==
    LET l == IF pc[g[1]] = "wait" THEN layer[want[g[1]]] ELSE None IN
    /\ go[g] = "get"
    /\ mine' = [mine EXCEPT ![g] = l]
    /\ GoTo(g, IF l = None THEN "off" ELSE "send")
    /\ UNCHANGED <<poolVars, managerVars, clientVars>>

\* getLayer returns: whoever is sending is stuck from now on.
Return(c) ==
    /\ To(c, "idle")
    /\ go' = [g \in Goroutines |-> IF g[1] = c /\ go[g] = "send" THEN "off" ELSE go[g]]
    /\ mine' = [g \in Goroutines |-> IF g[1] = c /\ go[g] = "send" THEN None ELSE mine[g]]
    /\ UNCHANGED <<poolVars, managerVars, want, using, safe>>

\* The select of getLayer: a result, the timeout, or all are done without one.
Receive(g) ==
    /\ go[g] = "send" /\ pc[g[1]] = "wait"
    /\ got' = [got EXCEPT ![g[1]] = mine[g]]
    /\ Return(g[1])

Timeout(c) == pc[c] = "wait" /\ Return(c) /\ UNCHANGED got

AllDone(c) ==
    /\ pc[c] = "wait" /\ \A d \in Digests : go[<<c, d>>] = "off"
    /\ To(c, "idle")
    /\ UNCHANGED <<poolVars, managerVars, want, using, got, safe, goVars>>

SleepOver(k) == Wake(k) /\ UNCHANGED <<managerVars, clientVars, goVars>>

ManagerNext ==
    \/ \E c \in Clients :
         \/ Use(c) \/ UseLayer(c) \/ Release(c) \/ ReleaseLayer(c)
         \/ GetLayer(c) \/ ReadRef(c) \/ FetchRef(c) \/ LoadRef(c) \/ Timeout(c) \/ AllDone(c)
    \/ \E g \in Goroutines :
         \/ ResolveLayer(g) \/ ResolveReturns(g) \/ ResolveFails(g) \/ CacheLayer(g) \/ ResolveRecords(g)
         \/ GetCachedLayer(g) \/ Receive(g)
    \/ \E k \in Counters : SleepOver(k)

ManagerSpec == ManagerInit /\ [][ManagerNext]_layerManagerVars

-----------------------------------------------------------------------------
(* Properties. *)

\* The pool and the manager count the same uses, each from its own half of use
\* to its own half of release, however these halves interleave.
CountsAreUses ==
    /\ \A i \in Refs \X Tocs :
         Cardinality({c \in using : want[c] = i}) =
             IF i \in DOMAIN refcounter THEN refcounter[i] ELSE 0
    /\ \A r \in Refs :
         releaser[r].count = Cardinality({c \in Clients : /\ Ref(c) = r
                                                         /\ (c \in using \/ pc[c] = "use")
                                                         /\ pc[c] # "release"})

\* A layer that a client looked up while it was using it stays open until that
\* client's own release, whatever the other users of the layer do; and what
\* keeps it open, the counters of the uses, are exact.
UsedLayerIsOpen ==
    /\ CountsAreUses
    /\ \A c \in using \cap safe : got[c] # None => got[c] \notin done

\* Files of the pool have an owner that will remove them: a counter of their
\* image is alive, or a loadRef is about to add one.
MetadataHasOwner ==
    \A r \in files :
        \/ \E k \in live : k[1] = r
        \/ \E c \in Clients : Ref(c) = r /\ pc[c] \in {"add", "addInfo"}

\* Every layer that was resolved is given back, cached, or about to be cached:
\* none is lost when two goroutines resolve the same TOC or a lookup times out;
\* nor are the files of an image.
NothingLeaks ==
    /\ MetadataHasOwner
    /\ \A l \in 1 .. made :
         \/ l \in done \/ l \in Range(layer)
         \/ \E g \in Goroutines : go[g] = "cache" /\ mine[g] = l

\* release resets the resolve status of an image that nobody refers to any
\* more ("no reference to this image. So reset the resolve status as well."),
\* so that its layers can be resolved again.
ReleaseResetsStatus ==
    [][\A c \in Clients :
         ReleaseLayer(c) /\ (\A b \in using' : Ref(b) # Ref(c)) =>
             \A d \in Digests : resolveLayerCache'[<<Ref(c), d>>] = None]_layerManagerVars
=============================================================================
