SPECIFICATION Spec
CONSTANTS
    Mountpoints = {1, 2}
    Calls = {c1, c2}
    AllowInvalidMounts = FALSE
    MaxMounts = 2
INVARIANTS  MountsAreProper
SYMMETRY Symmetry
