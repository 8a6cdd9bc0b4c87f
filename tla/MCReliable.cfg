\* The counter wraps around within the connection.
CONSTANTS
  IdSpace = 16
  IdsReserved = 0
  FreshWindow = 5
  AckBack = 5
  MaxNoAck = 2
  AckFlush = 1
  TimeoutLimit = 0
  StartId = 12
  MaxId = 21
  MaxLag = 2
  MaxRingSpan = 12
  MaxBehind = 4
  Lossy = FALSE
SPECIFICATION Spec
INVARIANTS NothingLost AtMostOnce
CHECK_DEADLOCK FALSE
