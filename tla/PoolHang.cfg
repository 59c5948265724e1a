CONSTANTS
  node1 = node1
  node2 = node2
  call1 = call1
  call2 = call2
  call3 = call3
  Node = {node1, node2}
  Call = {call1, call2, call3}
  Target <- MCTarget
  MaxConnections = 1
  InboxCap = 3
  QueueCap = 1
  MaxActors = 3
  MaxCloses = 0
SPECIFICATION LiveSpec
PROPERTY GetReturns
CHECK_DEADLOCK FALSE
