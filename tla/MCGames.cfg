SPECIFICATION FairSpec
CONSTANTS
  Clients = {c1}
  MaxRounds = 2
  MaxLogins = 2
  MaxReports = 2
  MaxSyncs = 1
  Patient = TRUE
INVARIANTS ClientsFollow ObjectsHaveAGrid
PROPERTIES NobodyLeftBehind RoundsGoOn
CHECK_DEADLOCK FALSE
