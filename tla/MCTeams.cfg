SPECIFICATION Spec
CONSTANTS
    Player = {p1, p2, p3, p4}
    Team = {t1, t2, t3}
    None = None
    AutoTeam = TRUE
    MaxTeams = 2
    MaxPlayers = 2
    MaxImbalance = 1
    Favorite = 1
    GiveUp = 10
    MaxWishes = 2
    MaxEmpty = 1
    MaxMarks = 1
    MaxLocked = 1
SYMMETRY symmetry
INVARIANTS NothingDangles
PROPERTIES LocksHold NobodyThrownOut RoundsStartBalanced PassesEnd
