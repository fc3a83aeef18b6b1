\* Two publishers, a buffer that never fills, one connection.
CONSTANTS
  p1 = p1
  p2 = p2
  Publishers <- MCTwoPublishers
  MaxEvents = 2
  BufSize = 2
  MaxConnects = 1
SPECIFICATION Spec
INVARIANT LiveTailInOrder
CHECK_DEADLOCK FALSE
