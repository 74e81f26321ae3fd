SPECIFICATION FairSpec
CONSTANTS
    Prio = {p1, p2}
    Bg = {b1, b2}
    Concurrency = 1
    MaxOrphans = 1
    NoOne = NoOne
INVARIANTS RunningIsPreempted
PROPERTIES BackgroundCompletes
