CONSTANTS
  MaxChunk = 3
  ChunkSize = 2
  MaxOffset = 5
  Root = "root"
  Children <- MCChildren
  SizeOf <- MCSizeOf
  HashSize = 1
  Requests <- MCRequests
  Sources <- MCSources
  Targets <- MCTargets
  Modes = {"None", "InterceptLog", "Disabled"}
  WireCap = 1
  BufferCap = 1
  Faults = {"lose", "refuse", "events", "throttle", "cancel", "import"}
SPECIFICATION LiveSpec
INVARIANT OkMeansDelivered
INVARIANT BlamesRightly
INVARIANT UpdatesExact
PROPERTY TransferEnds
CHECK_DEADLOCK FALSE
