CONSTANTS
  node1 = node1
  node2 = node2
  call1 = call1
  call2 = call2
  call3 = call3
  Node = {node1, node2}
  Call = {call1, call2, call3}
  Target <- MCTarget
  MaxConnections = 1
  InboxCap = 3
  QueueCap = 2
  MaxActors = 3
  MaxCloses = 1
SPECIFICATION Spec
INVARIANT IdleUnused
CHECK_DEADLOCK FALSE
