CONSTANTS
  Hash = {h1}
  Client = {c1, c2}
  Absent = Absent
  Size = {1}
  Path = {"p", "q"}
  Usages <- MCUsages
  MaxQueue = 2
  MaxWriteBatch = 2
  Events = {"crash", "io"}
SPECIFICATION LiveSpec
INVARIANT NeverInconsistent
INVARIANT NoOrphanRows
PROPERTY UpdateNeverDowngrades
PROPERTY KeepsPromise
PROPERTY AskedIsAnswered
