SPECIFICATION Spec
CONSTANTS
    Procs = {p1, p2}
    Names = {n1, n2}
    Temps = {11, 12, 13}
    MaxId = 2
    MaxFaults = 1
    None = None
SYMMETRY Symmetry
INVARIANTS SnapshotHasDirectory RemoteIsMounted
 
