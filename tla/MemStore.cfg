CONSTANTS
  MaxChunk = 4
  ChunkSize = 2
  Hash = {h, e}
  EMPTY = e
  Size = 5
  PathTo <- MCPathTo
  Requests <- MCRequests
  Batch = {b1}
  Global = global
  Slot = {s1, s2}
  MaxGen = 2
  NoTag = NoTag
  Name = {1, 2}
  NoValue = NoValue
  Task = {t1, t2}
  Client = {c1}
  Scenarios <- MCScenarios
  MaxHandle = 2
  Items = {h}
  ReadHash = h
  Lengths = {2}
  Offsets <- MCOffsets
  MaxPos = 4
SPECIFICATION ReaderSpec
SYMMETRY Symmetry
INVARIANT ReadsBacked
INVARIANT HeldImportsComplete
INVARIANT WaitersNotForgotten
INVARIANT ListExact
INVARIANT ReaderInStep
CHECK_DEADLOCK FALSE
