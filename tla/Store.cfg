SPECIFICATION AllSpec
CONSTANTS
  Clients = {c1, c2}
  None = None
  r1 = r1
  r2 = r2
  d1 = d1
  d2 = d2
  t1 = t1
  Refs = {r1, r2}
  Manifest <- MCManifest
  Toc <- MCToc
  Digests = {d1, d2}
  Tocs = {t1}
  refCacheEntry = 1
  MaxSleeping = 1
  MaxLayers = 2
  Requests = {c1, c2}
  MaxNodes = 4
  MaxGens = 2
SYMMETRY Symmetry
INVARIANTS UsedLayerIsOpen  NodeIdsDistinct ReachableIsOpen
