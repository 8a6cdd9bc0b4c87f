-------------------------------- MODULE Teams --------------------------------
(***************************************************************************)
(* Teams on the server: players log in and out, wish for teams, lock them  *)
(* and invite others; before a round the wishes are granted one by one     *)
(* (ePlayerNetID::Update) and the teams are balanced (eTeam::Enforce).     *)
(* The loops of those two functions run as small steps of the phases       *)
(* below, with nothing else in between; everything else happens in phase   *)
(* "play".                                                                 *)
(*                                                                         *)
(* Scope: TEAMS_MIN and TEAM_MIN_PLAYERS are 0 and no computer players     *)
(* join, so the listed teams are the ones with members; teams are          *)
(* eliminated by size; ALLOW_TEAM_CHANGE is on.  The order of a team's     *)
(* members and of the list of teams is left open: where the code breaks a  *)
(* tie by it, any of the candidates may be taken.                          *)
(***************************************************************************)
EXTENDS Naturals, Sequences, FiniteSets

CONSTANTS
    Player,        \* the players
    Team,          \* the team objects; an unreferenced one is used again
    None,          \* no team
    AutoTeam,      \* AUTO_TEAM: players get a team without asking
    MaxTeams,      \* TEAMS_MAX
    MaxPlayers,    \* TEAM_MAX_PLAYERS
    MaxImbalance,  \* TEAM_MAX_IMBALANCE
    Favorite,      \* TEAM_FAVORITE_PLAYERS: default teams are filled up to it
    GiveUp,        \* rounds of Enforce before it gives up
    MaxWishes,     \* bound: pending wishes
    MaxEmpty,      \* bound: teams without members somebody wishes for
    MaxLocked,     \* bound: locked teams
    MaxMarks       \* bound: invitations and suspensions together

ASSUME TeamsAssumption ==
    /\ IsFiniteSet(Player) /\ IsFiniteSet(Team) /\ None \notin Team
    /\ AutoTeam \in BOOLEAN
    /\ {MaxTeams, MaxPlayers, MaxImbalance, Favorite, GiveUp} \subseteq Nat \ {0}

VARIABLES
    players,    \* the players logged in, in the order of se_PlayerNetIDs
    current,    \* the team a player is in
    next,       \* the team it wishes to be in
    locked,     \* the locked teams
    invited,    \* the teams a player is invited to
    suspended,  \* the suspended players
    phase,      \* what the server is doing
    at,         \* how far a loop over the players has come
    assigned,   \* somebody's team changed in this pass
    victim,     \* the team being dissolved
    tries       \* the rounds Enforce has done

vars == <<players, current, next, locked, invited, suspended,
          phase, at, assigned, victim, tries>>
loop == <<phase, at, assigned, victim, tries>>

Present == {players[j] : j \in DOMAIN players}
Members(cur, t) == {p \in Player : cur[p] = t}
Size(cur, t) == Cardinality(Members(cur, t))
Listed(cur) == {t \in Team : Members(cur, t) # {}}
Referenced(cur, nxt) == {t \in Team : \E p \in Player : t \in {cur[p], nxt[p]}}

Invitations == {i \in Player \X Team : i[2] \in invited[i[1]]}

(* A faulty variant, for the mutation test: invitations outlive the team.  *)
StoreKeepingInvitations(cur, nxt, inv) ==
    /\ current' = cur
    /\ next' = nxt
    /\ invited' = inv
    /\ locked' = locked \cap Referenced(cur, nxt)

(***************************************************************************)
(* New team pointers are stored.  A team nobody refers to any more is      *)
(* destroyed, and its invitations with it; a lock lives in the team.       *)
(***************************************************************************)
StoreWith(cur, nxt, inv) ==
    /\ current' = cur
    /\ next' = nxt
    /\ invited' = [p \in Player |-> inv[p] \cap Referenced(cur, nxt)]
    /\ locked' = locked \cap Referenced(cur, nxt)

Store(cur, nxt) == StoreWith(cur, nxt, invited)

(* The team objects p may get as a new team: free ones, or the new team it *)
(* got last, which goes with the wish for it.                              *)
Fresh(p) ==
    {t \in Team \ Referenced(current, [next EXCEPT ![p] = None]) :
        t \notin locked /\ \A q \in Player : t \notin invited[q]}

-----------------------------------------------------------------------------
(***************************************************************************)
(* Who may join                                                            *)
(***************************************************************************)

(* A chain of wishes leads from team t to p's team: all may move at once.  *)
Swap(cur, p, t) ==
    /\ cur[p] # None
    /\ \A W \in SUBSET Team :
          /\ t \in W
          /\ \A q \in Player : cur[q] \in W /\ next[q] # None => next[q] \in W
          => cur[p] \in W

(* The sizes team t is compared to: those of the open teams, and of the    *)
(* team p leaves behind, unless that one vanishes.                         *)
Others(cur, p) ==
    {Size(cur, u) : u \in Listed(cur) \ locked}
        \cup (IF cur[p] = None THEN {} ELSE {Size(cur, cur[p]) - 1} \ {0})

Room(cur, p, t, imbalance) ==
    /\ Size(cur, t) < MaxPlayers
    /\ \A n \in Others(cur, p) : n + imbalance > Size(cur, t)

(* PlayerMayJoin, for a player who is not suspended.                       *)
Fits(cur, p, t, imbalance) ==
    \/ cur[p] = t
    \/ /\ t \in locked => t \in invited[p]
       /\ Room(cur, p, t, imbalance) \/ Swap(cur, p, t)

PlayerMayJoin(p, t) ==
    current[p] = t \/ (p \notin suspended /\ Fits(current, p, t, MaxImbalance))

(* UpdateTeamForce: the player leaves, or enters its team if it may.       *)
UpdateTeam(cur, p, t, imbalance) ==
    IF t = None \/ Fits(cur, p, t, imbalance)
    THEN [cur EXCEPT ![p] = t] ELSE cur

-----------------------------------------------------------------------------
(***************************************************************************)
(* Wishes                                                                  *)
(***************************************************************************)

(* SetTeam, and UpdateTeam at once for a player without a team.            *)
Wish(p, t) ==
    Store(IF current[p] = None THEN UpdateTeam(current, p, t, MaxImbalance) ELSE current,
          [next EXCEPT ![p] = t])

NewTeamAllowed == Cardinality(Listed(current)) < MaxTeams

MayCreate(p) ==
    /\ NewTeamAllowed
    /\ current[p] # None => Size(current, current[p]) # 1

CreateNewTeam(p) ==
    IF MayCreate(p) THEN \E t \in Fresh(p) : Wish(p, t)
                    ELSE Store(current, next)

(* The smallest open team, if the player may join it and it is not large   *)
(* enough already; None where FindDefaultTeam finds none.                  *)
Open == Listed(current) \ locked
FindDefaultTeam(p) ==
    LET smallest == {t \in Open : \A u \in Open : Size(current, t) <= Size(current, u)}
        good(t) == /\ Fits(current, p, t, MaxImbalance)
                   /\ NewTeamAllowed => Size(current, t) < Favorite
    IN  {t \in smallest : good(t)}
            \cup (IF \A t \in smallest : good(t) THEN {} ELSE {None})
            \cup (IF smallest = {} THEN {None} ELSE {})

SetDefaultTeam(p) ==
    \E t \in FindDefaultTeam(p) :
        \/ t = None /\ CreateNewTeam(p)
        \/ t # None /\ t = next[p] /\ Store(current, next)
        \/ t # None /\ t # next[p] /\ Wish(p, t)

(* A player logs in; it gets a team with AUTO_TEAM.                        *)
Login(p) ==
    /\ phase = "play"
    /\ p \notin Present
    /\ players' = Append(players, p)
    /\ IF AutoTeam THEN SetDefaultTeam(p) ELSE Store(current, next)
    /\ UNCHANGED <<suspended, loop>>

(* A player leaves the server: the last of the list takes its place there. *)
Logout(p) ==
    /\ phase = "play"
    /\ \E j \in DOMAIN players :
          /\ players[j] = p
          /\ players' = [i \in 1 .. Len(players) - 1 |->
                            IF i = j THEN players[Len(players)] ELSE players[i]]
    /\ StoreWith([current EXCEPT ![p] = None], [next EXCEPT ![p] = None],
                 [invited EXCEPT ![p] = {}])
    /\ suspended' = suspended \ {p}
    /\ UNCHANGED loop

(* The client asks for a team that is listed, or for none; in the warmup   *)
(* it may move at once, unless it has asked for that team before.          *)
ReceiveTeamChange(p, t, warmup) ==
    /\ phase = "play"
    /\ p \in Present \ suspended
    /\ t \in Listed(current) \cup {None}
    /\ LET nxt == [next EXCEPT ![p] = t]
       IN  Store(IF warmup /\ t \notin {None, next[p]}
                 THEN UpdateTeam(current, p, t, MaxImbalance) ELSE current, nxt)
    /\ UNCHANGED <<players, suspended, loop>>

(* The client asks for a new team.                                         *)
ReceiveNewTeam(p) ==
    /\ phase = "play"
    /\ p \in Present \ suspended
    /\ IF MayCreate(p)
       THEN CreateNewTeam(p)
       ELSE IF AutoTeam /\ next[p] = None THEN SetDefaultTeam(p)
                                          ELSE Store(current, next)
    /\ UNCHANGED <<players, suspended, loop>>

(* The client asks for any team, or the server gives one to a player that  *)
(* has none.                                                               *)
ReceiveAutoTeam(p) ==
    /\ phase = "play"
    /\ p \in Present \ suspended
    /\ next[p] = None \/ (AutoTeam /\ current[p] = None)
    /\ SetDefaultTeam(p)
    /\ UNCHANGED <<players, suspended, loop>>

(* Players who only chat or watch are taken out of their team.             *)
RemoveIdle(p) ==
    /\ phase = "play"
    /\ current[p] # None
    /\ Store([current EXCEPT ![p] = None], [next EXCEPT ![p] = None])
    /\ UNCHANGED <<players, suspended, loop>>

(***************************************************************************)
(* Locks, invitations and suspensions                                      *)
(***************************************************************************)

(* The team a player manages: its own, or the only one it is invited to.   *)
Managed(p) ==
    IF current[p] # None THEN {current[p]}
    ELSE IF Cardinality(invited[p]) = 1 THEN invited[p] ELSE {}

SetLocked(p, lock) ==
    /\ phase = "play"
    /\ \E t \in Managed(p) :
          IF lock THEN locked' = locked \cup {t}
                  ELSE locked' = locked \ {t}
    /\ UNCHANGED <<players, current, next, invited, suspended, loop>>

Invite(p, q) ==
    /\ phase = "play"
    /\ q \in Present
    /\ \E t \in Managed(p) : invited' = [invited EXCEPT ![q] = @ \cup {t}]
    /\ UNCHANGED <<players, current, next, locked, suspended, loop>>

(* An invitation is taken back; a member of a locked team is sent away,    *)
(* which takes effect with the next update.                                *)
UnInvite(p, q) ==
    /\ phase = "play"
    /\ q \in Present
    /\ \E t \in Managed(p) :
          StoreWith(current,
                    IF current[q] = t /\ t \in locked THEN [next EXCEPT ![q] = None] ELSE next,
                    [invited EXCEPT ![q] = @ \ {t}])
    /\ UNCHANGED <<players, suspended, loop>>

(* A suspension begins, or one that runs goes on for other rounds, when it *)
(* is given again or UpdateSuspensions counts it down.                     *)
Suspend(p) ==
    /\ phase = "play"
    /\ p \in Present
    /\ suspended' = suspended \cup {p}
    /\ Store(current, [next EXCEPT ![p] = None])
    /\ UNCHANGED <<players, loop>>

(* Once a round: a suspended player that still has a team leaves it;       *)
(* otherwise its suspension runs on (Suspend) or ends.                     *)
UpdateSuspension(p) ==
    /\ phase = "play"
    /\ p \in suspended
    /\ current[p] # None /\ next[p] = None
    /\ Store([current EXCEPT ![p] = None], next)
    /\ UNCHANGED <<players, suspended, loop>>

EndSuspension(p) ==
    /\ phase = "play"
    /\ p \in suspended
    /\ suspended' = suspended \ {p}
    /\ IF AutoTeam THEN SetDefaultTeam(p) ELSE Store(current, next)
    /\ UNCHANGED <<players, loop>>

-----------------------------------------------------------------------------
(***************************************************************************)
(* ePlayerNetID::Update: wishes are granted, those who came first first,   *)
(* until a pass changes nothing                                            *)
(***************************************************************************)

BeginUpdate ==
    /\ phase = "play"
    /\ phase' = "assign"
    /\ at' = 1
    /\ assigned' = FALSE
    /\ UNCHANGED <<players, current, next, locked, invited, suspended, victim, tries>>

(* The wish of the player can be granted.                                  *)
Grantable(p) ==
    /\ next[p] # current[p]
    /\ p \notin suspended
    /\ next[p] = None \/ PlayerMayJoin(p, next[p])

(* The next player of the pass whose wish can be granted moves.            *)
AssignOne ==
    /\ phase = "assign"
    /\ \E j \in at .. Len(players) :
          /\ Grantable(players[j])
          /\ \A i \in at .. j - 1 : ~Grantable(players[i])
          /\ Store(UpdateTeam(current, players[j], next[players[j]], MaxImbalance), next)
          /\ at' = j + 1
    /\ assigned' = TRUE
    /\ UNCHANGED <<players, suspended, phase, victim, tries>>

(* The pass ends: another one if somebody moved, else the late comers.     *)
EndPass ==
    /\ phase = "assign"
    /\ \A j \in at .. Len(players) : ~Grantable(players[j])
    /\ IF assigned THEN at' = 1 /\ phase' = phase
                   ELSE at' = Len(players) /\ phase' = "default"
    /\ assigned' = FALSE
    /\ UNCHANGED <<players, current, next, locked, invited, suspended, victim, tries>>

Waiting(p) == next[p] # None /\ current[p] = None /\ p \notin suspended

DefaultKeepingWish(p) ==
    \E t \in FindDefaultTeam(p) :
        IF t = None
        THEN IF NewTeamAllowed
             THEN \E u \in Fresh(p) \ {next[p]} : Store([current EXCEPT ![p] = u], next)
             ELSE Store(current, next)
        ELSE IF t = next[p] THEN Store(current, next)
                            ELSE Store([current EXCEPT ![p] = t], next)

(* A faulty variant: the passes start again though nobody found a team.    *)
DefaultOneAgain ==
    /\ phase = "default"
    /\ \E j \in 1 .. at :
          LET p == players[j]
          IN  /\ Waiting(p)
              /\ \A i \in j + 1 .. at : ~Waiting(players[i])
              /\ DefaultKeepingWish(p)
              /\ at' = 1 /\ phase' = "assign"
    /\ UNCHANGED <<players, suspended, assigned, victim, tries>>

(* A player without a team whose wish cannot be granted gets any team, the *)
(* late comers first, and keeps its wish; then the passes start again.     *)
DefaultOne ==
    /\ phase = "default"
    /\ \E j \in 1 .. at :
          LET p == players[j]
          IN  /\ Waiting(p)
              /\ \A i \in j + 1 .. at : ~Waiting(players[i])
              /\ DefaultKeepingWish(p)
              /\ IF current'[p] = None THEN at' = j - 1 /\ phase' = phase
                                       ELSE at' = 1 /\ phase' = "assign"
    /\ UNCHANGED <<players, suspended, assigned, victim, tries>>

(* Nobody is left: wishes that are in vain are deleted.  Before a round    *)
(* the teams are then balanced; an update may also come at other times.    *)
InVain(p) ==
    /\ next[p] \notin {None, current[p]}
    /\ p \in suspended \/ Size(current, next[p]) = 0 \/ MaxPlayers <= 1

DeleteWishes ==
    /\ phase = "default"
    /\ \A j \in 1 .. at : ~Waiting(players[j])
    /\ Store(current, [p \in Player |-> IF InVain(p) THEN current[p] ELSE next[p]])
    /\ phase' \in {"enforce", "play"}
    /\ at' = 1
    /\ UNCHANGED <<players, suspended, assigned, victim, tries>>

-----------------------------------------------------------------------------
(***************************************************************************)
(* eTeam::Enforce: teams are dissolved, split or evened out, a step at a   *)
(* time, until the limits are met                                          *)
(***************************************************************************)

Largest == {t \in Listed(current) :
                \A u \in Listed(current) : Size(current, u) <= Size(current, t)}

(* The smallest team; locked ones are not looked at.                       *)
Smallest == {t \in Open : \A u \in Open : Size(current, t) <= Size(current, u)}

(* A faulty variant: one team too many is let pass.                        *)
TooManyByTwo == Cardinality(Listed(current)) > MaxTeams + 1 /\ Open # {}

TooMany == Cardinality(Listed(current)) > MaxTeams /\ Open # {}

TooLarge == \E t \in Largest : Size(current, t) > MaxPlayers

Unbalanced ==
    \E t \in Largest, u \in Smallest :
        /\ \/ Size(current, t) > Size(current, u) + MaxImbalance
           \/ Size(current, t) > MaxPlayers
        /\ Size(current, u) < MaxPlayers

(* A faulty variant: the team is not asked (AddPlayerDirty).               *)
SetTeamForceUnasked(cur, p, t, imbalance) ==
    Store([cur EXCEPT ![p] = t], [next EXCEPT ![p] = t])

(* SetTeamForce and UpdateTeamForce: the player is put into a team, which  *)
(* refuses it if it may not join.                                          *)
SetTeamForce(cur, p, t, imbalance) ==
    Store(IF p \in suspended THEN cur ELSE UpdateTeam(cur, p, t, imbalance),
          [next EXCEPT ![p] = t])

(* Too many teams: the smallest one is dissolved, player by player.        *)
PickVictim ==
    /\ victim' \in Smallest
    /\ UNCHANGED <<current, next, locked, invited>>

MoveToSmallest ==
    /\ \E t \in Largest, u \in Smallest, p \in Player :
          /\ current[p] = t
          /\ SetTeamForce(current, p, u, MaxImbalance)
    /\ UNCHANGED victim

MoveToNewTeam ==
    /\ \E t \in Largest, p \in Player :
          /\ current[p] = t
          /\ \E u \in Fresh(p) : SetTeamForce(current, p, u, MaxImbalance)
    /\ UNCHANGED victim

Enforce ==
    /\ phase = "enforce"
    /\ victim = None
    /\ tries < GiveUp
    /\ tries' = tries + 1
    /\ \/ TooMany /\ PickVictim
       \/ ~TooMany /\ Unbalanced /\ MoveToSmallest
       \/ ~TooMany /\ ~Unbalanced /\ TooLarge /\ MoveToNewTeam
    /\ UNCHANGED <<players, suspended, phase, at, assigned>>

Balanced == ~TooMany /\ ~Unbalanced /\ ~TooLarge

(* A faulty variant: a team with one place left is taken for full.         *)
DissolveFull ==
    /\ phase = "enforce"
    /\ victim # None
    /\ IF Members(current, victim) = {}
       THEN victim' = None /\ UNCHANGED <<current, next, locked, invited>>
       ELSE /\ \E p \in Members(current, victim) :
                  LET out == [current EXCEPT ![p] = None]
                      seats == {t \in Listed(current) \ {victim} :
                                    Size(current, t) + 1 < MaxPlayers}
                  IN  IF seats = {}
                      THEN Store(out, [next EXCEPT ![p] = None])
                      ELSE \E t \in seats :
                              /\ \A u \in seats : Size(current, t) <= Size(current, u)
                              /\ SetTeamForce(out, p, t, MaxPlayers)
            /\ UNCHANGED victim
    /\ UNCHANGED <<players, suspended, phase, at, assigned, tries>>

(* The smallest other team with room gets a player of the dissolved one,   *)
(* however unbalanced they are; without one the player is thrown out.      *)
Dissolve ==
    /\ phase = "enforce"
    /\ victim # None
    /\ IF Members(current, victim) = {}
       THEN victim' = None /\ UNCHANGED <<current, next, locked, invited>>
       ELSE /\ \E p \in Members(current, victim) :
                  LET out == [current EXCEPT ![p] = None]
                      seats == {t \in Listed(current) \ {victim} :
                                    Size(current, t) < MaxPlayers}
                  IN  IF seats = {}
                      THEN Store(out, [next EXCEPT ![p] = None])
                      ELSE \E t \in seats :
                              /\ \A u \in seats : Size(current, t) <= Size(current, u)
                              /\ SetTeamForce(out, p, t, MaxPlayers)
            /\ UNCHANGED victim
    /\ UNCHANGED <<players, suspended, phase, at, assigned, tries>>

StartRound ==
    /\ phase = "enforce"
    /\ victim = None
    /\ Balanced \/ tries = GiveUp
    /\ phase' = "play"
    /\ tries' = 0
    /\ UNCHANGED <<players, current, next, locked, invited, suspended, at, assigned, victim>>

-----------------------------------------------------------------------------
Init ==
    /\ players = <<>>
    /\ current = [p \in Player |-> None]
    /\ next = [p \in Player |-> None]
    /\ locked = {}
    /\ invited = [p \in Player |-> {}]
    /\ suspended = {}
    /\ phase = "play" /\ at = 1 /\ assigned = FALSE
    /\ victim = None /\ tries = 0

Update == AssignOne \/ EndPass \/ DefaultOne \/ DeleteWishes \/ Enforce \/ Dissolve \/ StartRound

(* The players whose wish is still to be granted.                          *)
Pending(cur, nxt) == {p \in Player : nxt[p] # cur[p]}

Request(p) ==
    \/ Login(p) \/ Logout(p)
    \/ \E t \in Team \cup {None}, w \in BOOLEAN : ReceiveTeamChange(p, t, w)
    \/ ReceiveNewTeam(p) \/ ReceiveAutoTeam(p) \/ RemoveIdle(p)
    \/ \E lock \in BOOLEAN : SetLocked(p, lock)
    \/ \E q \in Player : Invite(p, q) \/ UnInvite(p, q)
    \/ Suspend(p) \/ UpdateSuspension(p) \/ EndSuspension(p)

(* The bounds.  Invitations to an open team change nothing, so they are    *)
(* only given for locked ones.                                             *)
Requests ==
    /\ \E p \in Player : Request(p)
    /\ Cardinality(Pending(current', next')) <= MaxWishes
    /\ Cardinality(Referenced(current', next') \ Listed(current')) <= MaxEmpty
    /\ Cardinality(locked') <= MaxLocked
    /\ Cardinality(Invitations') + Cardinality(suspended') <= MaxMarks
    /\ \A i \in Invitations' : i[2] \in locked'

Next == Requests \/ BeginUpdate \/ Update

Spec == Init /\ [][Next]_vars

-----------------------------------------------------------------------------
TypeOK ==
    /\ players \in Seq(Player)
    /\ current \in [Player -> Team \cup {None}]
    /\ next \in [Player -> Team \cup {None}]
    /\ locked \subseteq Team
    /\ invited \in [Player -> SUBSET Team]
    /\ suspended \subseteq Player
    /\ phase \in {"play", "assign", "default", "enforce"}
    /\ at \in Nat /\ tries \in 0 .. GiveUp
    /\ assigned \in BOOLEAN
    /\ victim \in Team \cup {None}

(* Teams, locks and invitations belong to players who are there and to     *)
(* team objects somebody refers to: eTeam's destructor revokes the         *)
(* invitations, so that no player is invited to the team that gets its     *)
(* place.                                                                  *)
NothingDangles ==
    /\ \A p \in Player \ Present :
          current[p] = None /\ next[p] = None /\ invited[p] = {} /\ p \notin suspended
    /\ \A p \in Player : invited[p] \subseteq Referenced(current, next)
    /\ locked \subseteq Referenced(current, next)

(* Nobody enters a locked team uninvited, by whichever way: its own wish,  *)
(* a swap, a default team, or the balancing of the teams.                  *)
LocksHold ==
    [][\A p \in Player :
          current'[p] # current[p] /\ current'[p] \in locked => current'[p] \in invited[p]]_vars

(* A player loses its team to the balancing only if it is suspended, no    *)
(* other team has room, or one that has is locked against it: the code     *)
(* puts it into the smallest one whether that is locked or not.            *)
NobodyThrownOut ==
    [][phase = "enforce" =>
          \A p \in Player : current[p] # None /\ current'[p] = None =>
              \/ p \in suspended
              \/ \E t \in locked : Size(current, t) < MaxPlayers /\ t \notin invited[p]
              \/ \A t \in Listed(current) \ {current[p]} : Size(current, t) >= MaxPlayers]_vars

(* A round starts with no more teams than allowed, unless all are locked,  *)
(* none of them too large, and none much larger than an open one; unless a *)
(* suspended player is still in a team and cannot be moved.                *)
RoundsStartBalanced ==
    [][phase = "enforce" /\ phase' = "play" =>
          \/ \E p \in suspended : current[p] # None
          \/ /\ Cardinality(Listed(current)) <= MaxTeams \/ Open = {}
             /\ \A t \in Team : Size(current, t) <= MaxPlayers
             /\ \A t \in Team, u \in Open :
                    Size(current, t) <= Size(current, u) + MaxImbalance]_vars

(* The passes over the players come to their end: every step of them       *)
(* leaves fewer ungranted wishes, or as many and fewer players without a   *)
(* team, or else less of the loop to do.                                   *)
Ungranted == {p \in Present \ suspended : next[p] # current[p]}
Teamless == {p \in Present : current[p] = None}
LoopLeft == IF phase = "default" THEN at
            ELSE Len(players) + (IF assigned THEN 2 ELSE 1)
Rank == (Cardinality(Ungranted) * (Len(players) + 1) + Cardinality(Teamless))
            * (Len(players) + 3) + LoopLeft
PassesEnd ==
    [][{phase, phase'} \subseteq {"assign", "default"} => Rank' < Rank]_vars
=============================================================================
