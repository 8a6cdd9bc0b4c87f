\* Three clients on up to three machines, two votes, one after the other; the first client's list.
SPECIFICATION Spec
SYMMETRY SymMachines
CONSTANTS
  MaxClients = 3
  Machines = {m1, m2, m3}
  Watched <- FirstSlot
  MayWatch <- LastSlot
  MinVoters = 2
  Bias = 0
  MaxVotes = 1
  MaxVotesPerVoter = 1
  MaxAge = 1
  MaxItems = 2
  None = None
INVARIANTS BallotsOfThosePresent MajorityDecides KickHitsTheAccused ShownIsOpen
