CONSTANTS
  MaxChunk = 3
  ChunkSize = 2
  MaxOffset = 5
  Root = "root"
  Children <- MCChildren
  SizeOf <- MCSizeOf
  HashSize = 1
  Requests <- MCRequests
  Sources <- UnsizedSources
  Targets <- MCTargets
  Modes = {"None", "InterceptLog", "Disabled"}
  WireCap = 1
  BufferCap = 1
  Faults = {}
SPECIFICATION Spec
INVARIANT BlamesRightly
CHECK_DEADLOCK FALSE
