SPECIFICATION AllSpec
CONSTANTS
  Chunks = {k1, k2}
  NoDigest = {k2}
  Cachers = {w1}
  Mounts = {m1, m2}
  None = None
  size = 7
  chunkSize = 3
  Offsets = {1, 8}
  Lengths = {2, 6}
  Piece = 2
  MaxLost = 1
  MaxRefresh = 1
  BufferSizes = {2, 3, 4}
  Workers = 2
  Hosts = {1, 2}
  Callers = {m1, m2}
  MaxExpiries = 1
SYMMETRY Symmetry
INVARIANTS ServesVerified VerificationHolds  FetchedRegionsAreExact EntireFileIsExact FetchRecovers
