SPECIFICATION AllSpec
CONSTANTS
  Procs = {g1, g2, g3}
  Names = {n1, n2}
  Mutexes = {m1, m2, m3}
  NoProc = NoProc
  NoMutex = NoMutex
  Clients = {c1, c2}
  Keys = {k1, k2}
  Values = {v1, v2, v3}
  Nothing = Nothing
  LRUKeys = {k1, k2, k3}
  LRUValues = {v1, v2, v3, v4}
  MaxEntries = 2
  NumChunks = 2
  Landmarks <- MCLandmarks
  Defaults = {0, 3}
  Prefetchers = {f1, f2}
  Checkers = {h1}
INVARIANTS EvictedExactlyWhenDead PrefetchHonoursLandmark
PROPERTIES ImplementsLockService LockIsGranted CachesImplementRefCounted EntryLeaves CheckEnds
