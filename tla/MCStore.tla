------------------------------- MODULE MCStore -------------------------------
(* The layer store for TLC: its layer manager and its FUSE tree.  A behaviour is one of  *)
(* them: sel says which.  The manager has an image with two layers that share a TOC      *)
(* digest, and one without layers, which only competes for the cache of the pool.        *)
EXTENDS StoreTree, LayerManager, TLC

CONSTANTS r1, r2, d1, d2, t1
VARIABLE sel   \* the component of this behaviour

MCManifest == r1 :> {d1, d2} @@ r2 :> {}
MCToc == d1 :> t1 @@ d2 :> t1

ASSUME RefPoolAssumption /\ StoreTreeAssumption

allVars == <<sel, layerManagerVars, vars>>

\* The component that is not selected rests in an initial state.
ManagerOff == ManagerInit /\ want = [c \in Clients |-> <<r1, t1>>]

AllInit ==
    \/ sel = "store" /\ ManagerInit /\ Init
    \/ sel = "tree" /\ Init /\ ManagerOff

AllNext ==
    \/ sel = "store" /\ ManagerNext /\ UNCHANGED <<sel, vars>>
    \/ sel = "tree" /\ Next /\ UNCHANGED <<sel, layerManagerVars>>
    \/ sel \in {"store", "tree"} /\ UNCHANGED allVars   \* these may stop

AllSpec == AllInit /\ [][AllNext]_allVars

Symmetry == Permutations(Clients)

\* The properties are those of StoreTree and of LayerManager.

\* The manager alone.
StoreSpec == sel = "store" /\ AllSpec
=============================================================================
