SPECIFICATION AllSpec
CONSTANTS
  MaxEntries = 3
  Tars <- MCTars
  FaultyTars <- MCFaultyTars
  Prios <- MCPrios
  ChunkSize = 2
  MinChunkSizes = {0, 5}
  Formats = {"gzip", "zstdchunked", "externaltoc"}
  Procs = 2
  Readers = {1, 2}
  Callers = {c1, c2}
  Tocs <- MCTocs
  Jobs = {j1, j2}
  Layers = {l1, l2}
  Parts = 2
  MaxInterrupts = 1
  NoJob = NoJob
  NoLayer = NoLayer
  p1 = p1
  p2 = p2
  Fds = {f1, f2}
  MaxOpens = 3
  None = None
  MaxReads = 2
  MaxLines = 3
  Limit = 2
INVARIANTS ReadsBack  TreesAgree NoFileLeft  ConversionRecovers  RecordIsPrefixOfOpens CloserIsSet 
