CONSTANTS
  MaxChunk = 3
  ChunkSize = 2
  MaxOffset = 4
  Root = "root"
  Children <- MCChildren
  SizeOf <- MCSizeOf
  HashSize = 2
  Downloads <- MCDownloads
  Provider = {"p", "q"}
  Offers <- MCOffers
  ChanCap = 1
  OutCap = 1
  MaxParallel = 2
  ReceiverCap = 1
  Faults = {"abort"}
SPECIFICATION Spec
INVARIANT OkIsAlwaysComplete
CHECK_DEADLOCK FALSE
