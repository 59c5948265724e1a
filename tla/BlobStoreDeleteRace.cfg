CONSTANTS
  Chunk = {1, 2}
  Last = 2
  InlineOutboard = FALSE
  Scenarios <- Race
  MaxQueue = 2
  Size = {1}
  Path = {"p"}
  Absent = Absent
  NoFile = NoFile
  Dirty = Dirty
  Linked = Linked
SPECIFICATION Spec
INVARIANT OwnedInPlace
