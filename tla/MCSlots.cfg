\* Three machines for two slots with one login each; one client comes back.
SPECIFICATION FairSpec
CONSTANTS
  c1 = c1
  c2 = c2
  c3 = c3
  m1 = m1
  m2 = m2
  m3 = m3
  Clients = {c1, c2, c3}
  Machines = {m1, m2, m3}
  MachineOf <- EachItsOwn
  MaxClients = 2
  SoftLimit = 0
  HardLimit = 1
  MaxAttempts <- FirstTwice
  MaxGrants = 3
  MaxKicks = 1
  Patient = TRUE
  Heard = {c1}
  NoAddress = NoAddress
INVARIANTS SameIPLimit
PROPERTIES PlayersStay LoginsSettle
CHECK_DEADLOCK FALSE
