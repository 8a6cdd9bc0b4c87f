\* Lossy network and weak assumptions on the two main loops: liveness.
CONSTANTS
  IdSpace = 16
  IdsReserved = 1
  FreshWindow = 5
  AckBack = 2
  MaxNoAck = 1
  AckFlush = 1
  TimeoutLimit = 1
  StartId = 0
  MaxId = 4
  MaxLag = 3
  MaxRingSpan = 12
  MaxBehind = 4
  Lossy = TRUE
SPECIFICATION FairSpec
PROPERTIES EventuallyHandled ImplementsService
CHECK_DEADLOCK FALSE
