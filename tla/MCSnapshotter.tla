---------------------------- MODULE MCSnapshotter ----------------------------
EXTENDS Snapshotter, TLC

Symmetry == Permutations(Procs) \cup Permutations(Names)
=============================================================================
