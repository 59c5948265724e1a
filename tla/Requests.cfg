CONSTANTS
  MaxChunk = 3
  ChunkSize = 2
  MaxOffset = 6
  Root = "root"
  Children <- MCChildren
  SizeOf <- MCSizeOf
  HashSize = 2
  RangeChoices <- MCRangeChoices
  Offsets = {0, 1, 2, 3}
  MaxAdds = 3
SPECIFICATION Spec
INVARIANT RequestExact
INVARIANT CompleteExact
INVARIANT FetchExact
CHECK_DEADLOCK FALSE
