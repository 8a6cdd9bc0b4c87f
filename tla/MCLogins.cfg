\* One client that comes and goes, with two processes on the way.
SPECIFICATION FairSpec
CONSTANTS
  c1 = c1
  c2 = c2
  m1 = m1
  m2 = m2
  Clients = {c1}
  Machines = {m1}
  MachineOf <- Alone
  Jobs = {p1, p2}
  Slots = {1, 2}
  Work = {"fetch", "query", "authorize", "check"}
  Nobody = Nobody
INVARIANTS MainStandsStill OneThreadPerSync LoginsOfThosePresent OwnAnswersOnly
PROPERTIES LoginsEnd
