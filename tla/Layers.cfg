SPECIFICATION AllSpec
CONSTANTS
  Clients = {c1, c2}
  Requests = {c1, c2}
  Names = {a, b}
  Keys = {a, b}
  None = None
  Nil = Nil
  MaxLayers = 3
  MaxBlobs = 2
  Bufs = {1, 2, 3}
  Files = {1, 2, 3}
  DataEntries = 1
  FdEntries = 1
  NameOrder <- MCNameOrder
  NodeRequests = {c1, c2}
  Landmark = "mark"
  StateDir = "state"
  IdBits = 3
  FirstIds = {0, 2}
  baseInode = 1
SYMMETRY Symmetry
INVARIANTS MountedIsOpen  ReadersSeeTheirChunk CommittedFilesAreWhole NodeAnswers InodesDistinct
