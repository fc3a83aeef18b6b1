\* Two publishers, a buffer of one, two connections.
CONSTANTS
  p1 = p1
  p2 = p2
  Publishers <- MCTwoPublishers
  MaxEvents = 3
  BufSize = 1
  MaxConnects = 2
SPECIFICATION Spec
INVARIANT TypeOK
INVARIANT NoSendOnClosedChannel
CHECK_DEADLOCK FALSE
