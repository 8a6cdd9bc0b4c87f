\* Two objects that change have the same id one after the other, while the
\* occupant of the slot changes too and packets get lost.
CONSTANTS
  NumIds = 1
  MaxObjects = 2
  MaxSessions = 2
  MaxChanges = 2
  MaxMessages = 4
  MaxNoAck = 3
  QuietLogout = TRUE
  Lossy = TRUE
SPECIFICATION Spec
INVARIANTS CountersExact KnownObjectsAgree
PROPERTIES ImplementsStore
CHECK_DEADLOCK FALSE
