\* Three turns or brakes of one player.
SPECIFICATION FairSpec
CONSTANTS
  MaxCommands = 3
  MaxTurns = 4
  Sides <- BothSides
  AdjacentIds <- LastMayBeApart
  TurnMemory = 0
  None = None
INVARIANTS FollowsCommands
PROPERTIES OnlyForward AllUsed Agreement
