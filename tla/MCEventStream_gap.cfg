\* One publisher, a buffer that never fills, one connection.
CONSTANTS
  p1 = p1
  p2 = p2
  Publishers <- MCOnePublisher
  MaxEvents = 3
  BufSize = 3
  MaxConnects = 1
SPECIFICATION Spec
INVARIANT NoGapOnLiveStream
CHECK_DEADLOCK FALSE
