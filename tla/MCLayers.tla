------------------------------ MODULE MCLayers ------------------------------
(* The owners of layers and of their chunks for TLC: the filesystem with its resolver,   *)
(* the nodes that serve a directory of a layer, and the chunk cache.  A behaviour is one *)
(* of them: sel says which.                                                              *)
EXTENDS Filesystem, DirectoryCache, LayerNode, TLC

VARIABLE sel   \* the component of this behaviour

MCNameOrder == <<Landmark, StateDir, "a">>

allVars == <<sel, fsVars, directoryCacheVars, nodeVars>>

\* The other components rest in an idle state.
fsOff == target = 0 /\ FsIdle
cacheOff == direct = FALSE /\ pass = FALSE /\ key = 0 /\ CacheIdle
nodeOff == NodeInit /\ ~isRoot /\ ids = NoFunction

AllInit ==
    \/ sel = "fs" /\ FsInit /\ cacheOff /\ nodeOff
    \/ sel = "cache" /\ CacheInit /\ fsOff /\ nodeOff
    \/ sel = "node" /\ NodeInit /\ fsOff /\ cacheOff

AllNext ==
    \/ sel = "fs" /\ FsNext /\ UNCHANGED <<sel, directoryCacheVars, nodeVars>>
    \/ sel = "cache" /\ CacheNext /\ UNCHANGED <<sel, fsVars, nodeVars>>
    \/ sel = "node" /\ NodeNext /\ UNCHANGED <<sel, fsVars, directoryCacheVars>>
    \/ sel \in {"fs", "cache"} /\ UNCHANGED allVars   \* these may stop

AllSpec == AllInit /\ [][AllNext]_allVars

Symmetry == Permutations(Clients) \cup Permutations(Names)
=============================================================================
