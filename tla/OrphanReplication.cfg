\* An occupant leaves while a destroy message is being collected for it.
CONSTANTS
  NumIds = 1
  MaxObjects = 1
  MaxSessions = 2
  MaxChanges = 0
  MaxMessages = 4
  MaxNoAck = 2
  QuietLogout = FALSE
  Lossy = FALSE
SPECIFICATION Spec
INVARIANTS NoStarvedCreations
CHECK_DEADLOCK FALSE
