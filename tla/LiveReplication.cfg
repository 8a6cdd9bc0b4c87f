\* A lossy network, one object that changes.
CONSTANTS
  NumIds = 1
  MaxObjects = 1
  MaxSessions = 1
  MaxChanges = 1
  MaxMessages = 3
  MaxNoAck = 2
  QuietLogout = TRUE
  Lossy = TRUE
SPECIFICATION FairSpec
PROPERTIES EventuallyCreated EventuallyDestroyed EventuallySynced
CHECK_DEADLOCK FALSE
