CONSTANTS
  Chunk = {1, 2}
  Last = 2
  InlineOutboard = FALSE
  Scenarios <- Collected
  MaxQueue = 2
  Size = {1}
  Path = {"p"}
  Absent = Absent
  NoFile = NoFile
  Dirty = Dirty
  Linked = Linked
SPECIFICATION LiveSpec
INVARIANT ImportStored
PROPERTY ImportEnds
