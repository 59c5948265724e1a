CONSTANTS
  MaxChunk = 4
  ChunkSize = 2
  Size = 5
  Leaves <- MCLeaves
  Capacity = 2
SPECIFICATION LiveSpec
INVARIANT SeenIsStored
PROPERTY CompletionSeen
CHECK_DEADLOCK FALSE
