----------------------------- MODULE Teams_proofs -----------------------------
(***************************************************************************)
(* Proofs about Teams: type correctness, that teams, locks and invitations *)
(* belong to somebody, that locks hold, that the balancing throws nobody   *)
(* out who could be put into a team, that the passes over the players come *)
(* to their end, and that rounds start balanced unless the balancing gives *)
(* up; for any number of players and teams and any limits.                 *)
(***************************************************************************)
EXTENDS Teams, FiniteSetTheorems, TLAPS

Assignments == [Player -> Team \cup {None}]

(* Player q has no part in the game.                                       *)
Aside(cur, nxt, inv, q) == cur[q] = None /\ nxt[q] = None /\ inv[q] = {}

(* Who enters a team that is locked is invited to it.                      *)
Lawful(cur) ==
  \A q \in Player :
    cur[q] # current[q] /\ cur[q] \in locked => cur[q] \in invited[q]

(* What may be stored when only the players in P take part in the game.    *)
Storable(cur, nxt, inv, P) ==
  /\ cur \in Assignments /\ nxt \in Assignments
  /\ inv \in [Player -> SUBSET Team]
  /\ \A q \in Player \ P : Aside(cur, nxt, inv, q)
  /\ Lawful(cur)

(* What a step has stored then.                                            *)
Stored(P) ==
  /\ current' \in Assignments /\ next' \in Assignments
  /\ invited' \in [Player -> SUBSET Team]
  /\ locked' \subseteq Team
  /\ locked' \subseteq Referenced(current', next')
  /\ \A q \in Player : invited'[q] \subseteq Referenced(current', next')
  /\ \A q \in Player \ P : Aside(current', next', invited', q)
  /\ Lawful(current')

(* Nobody is in the list of players twice.                                 *)
NoDoubles == \A i, j \in DOMAIN players : players[i] = players[j] => i = j

(* The loops of the update stay within the list of players.                *)
LoopBounds ==
  /\ phase \in {"play", "assign", "default", "enforce"}
  /\ at \in Nat /\ tries \in 0 .. GiveUp
  /\ victim \in Team \cup {None}
  /\ phase = "assign" => at >= 1
  /\ phase = "default" => at <= Len(players)
LoopOK == LoopBounds /\ assigned \in BOOLEAN

Inv == TypeOK /\ NothingDangles /\ NoDoubles /\ LoopOK

(* What every step does.                                                   *)
Sound ==
  /\ Stored(Present')
  /\ players' \in Seq(Player) /\ NoDoubles'
  /\ suspended' \subseteq Present'
  /\ LoopOK'

-----------------------------------------------------------------------------
(* Destroying unreferenced teams leaves nothing behind.                    *)
LEMMA StoreStores ==
  ASSUME NEW cur, NEW nxt, NEW inv, NEW P, locked \subseteq Team,
         Storable(cur, nxt, inv, P), StoreWith(cur, nxt, inv)
  PROVE  Stored(P)
<1>1. /\ current' = cur /\ next' = nxt
      /\ invited' = [q \in Player |-> inv[q] \cap Referenced(cur, nxt)]
      /\ locked' = locked \cap Referenced(cur, nxt)
  BY DEF StoreWith
<1>2. invited' \in [Player -> SUBSET Team]
  BY <1>1 DEF Storable
<1>3. \A q \in Player \ P : Aside(current', next', invited', q)
  BY <1>1 DEF Storable, Aside
<1>4. Lawful(current')
  BY <1>1 DEF Storable
<1> QED
  BY <1>1, <1>2, <1>3, <1>4 DEF Storable, Stored

(* What is there may be stored again.                                      *)
LEMMA PresentStorable ==
  ASSUME Inv, NEW P, Present \subseteq P
  PROVE  Storable(current, next, invited, P) /\ locked \subseteq Team
BY DEF Inv, TypeOK, NothingDangles, Storable, Assignments, Aside, Lawful

(* A step that stores nothing new keeps all that.                          *)
LEMMA UnchangedStored ==
  ASSUME Inv, NEW P, Present \subseteq P,
         UNCHANGED <<current, next, locked, invited>>
  PROVE  Stored(P)
<1>1. Storable(current, next, invited, P) /\ locked \subseteq Team
  BY PresentStorable
<1> QED
  BY <1>1 DEF Inv, NothingDangles, Storable, Stored

(* A wish may be stored.                                                   *)
LEMMA WishStorable ==
  ASSUME NEW cur, NEW P, NEW p \in P, NEW t \in Team \cup {None}, p \in Player,
         Storable(cur, next, invited, P)
  PROVE  Storable(cur, [next EXCEPT ![p] = t], invited, P)
BY DEF Storable, Assignments, Aside

(* UpdateTeam takes a player out of its team or into one that may take it. *)
LEMMA UpdateStorable ==
  ASSUME NEW cur, NEW nxt, NEW inv, NEW P, NEW p \in P, p \in Player,
         NEW t \in Team \cup {None}, NEW n,
         None \notin locked,
         Storable(cur, nxt, inv, P),
         cur[p] \in {current[p], None}
  PROVE  Storable(UpdateTeam(cur, p, t, n), nxt, inv, P)
<1>1. \/ UpdateTeam(cur, p, t, n) = cur
      \/ UpdateTeam(cur, p, t, n) = [cur EXCEPT ![p] = t]
  BY DEF UpdateTeam
<1>2. CASE UpdateTeam(cur, p, t, n) = cur
  BY <1>2
<1>3. CASE /\ UpdateTeam(cur, p, t, n) # cur
           /\ UpdateTeam(cur, p, t, n) = [cur EXCEPT ![p] = t]
  <2> DEFINE new == [cur EXCEPT ![p] = t]
  <2>1. cur[p] # t
    BY <1>3 DEF Storable, Assignments
  <2>2. t = None \/ (t \in locked => t \in invited[p])
    BY <1>3, <2>1 DEF UpdateTeam, Fits
  <2>3. new \in Assignments /\ new[p] = t /\ \A q \in Player \ {p} : new[q] = cur[q]
    BY DEF Storable, Assignments
  <2>4. Lawful(new)
    BY <2>2, <2>3 DEF Lawful, Storable
  <2>5. \A q \in Player \ P : Aside(new, nxt, inv, q)
    BY <2>3 DEF Storable, Aside
  <2> HIDE DEF new
  <2>6. Storable(new, nxt, inv, P)
    BY <2>3, <2>4, <2>5 DEF Storable
  <2> QED
    BY <1>3, <2>6 DEF new
<1> QED
  BY <1>1, <1>2, <1>3

-----------------------------------------------------------------------------
(* A wish may be stored, and a player without a team moves at once.        *)
LEMMA WishStored ==
  ASSUME Inv, NEW P, Present \subseteq P, NEW p \in P, p \in Player,
         NEW t \in Team \cup {None}, Wish(p, t)
  PROVE  Stored(P)
<1> DEFINE cur == IF current[p] = None
                  THEN UpdateTeam(current, p, t, MaxImbalance) ELSE current
<1>1. Storable(current, next, invited, P) /\ locked \subseteq Team
  BY PresentStorable
<1>2. Storable(UpdateTeam(current, p, t, MaxImbalance), next, invited, P)
  BY <1>1, UpdateStorable, TeamsAssumption
<1>3. Storable(cur, next, invited, P)
  BY <1>1, <1>2
<1>4. StoreWith(cur, [next EXCEPT ![p] = t], invited)
  BY DEF Wish, Store
<1> HIDE DEF cur
<1>5. Storable(cur, [next EXCEPT ![p] = t], invited, P)
  BY <1>3, WishStorable
<1> QED
  BY <1>1, <1>4, <1>5, StoreStores

(* What is there may be stored, and destroys nothing that is referred to.  *)
LEMMA SameStored ==
  ASSUME Inv, NEW P, Present \subseteq P, Store(current, next)
  PROVE  Stored(P)
BY PresentStorable, StoreStores DEF Store

LEMMA CreateStored ==
  ASSUME Inv, NEW P, Present \subseteq P, NEW p \in P, p \in Player,
         CreateNewTeam(p)
  PROVE  Stored(P)
<1>1. CASE MayCreate(p)
  <2>1. PICK t \in Fresh(p) : Wish(p, t)
    BY <1>1 DEF CreateNewTeam
  <2>2. t \in Team \cup {None}
    BY DEF Fresh
  <2> QED
    BY <2>1, <2>2, WishStored
<1>2. CASE ~ MayCreate(p)
  BY <1>2, SameStored DEF CreateNewTeam
<1> QED
  BY <1>1, <1>2

LEMMA SetDefaultStored ==
  ASSUME Inv, NEW P, Present \subseteq P, NEW p \in P, p \in Player,
         SetDefaultTeam(p)
  PROVE  Stored(P)
<1>1. PICK t \in FindDefaultTeam(p) :
        \/ t = None /\ CreateNewTeam(p)
        \/ t # None /\ t = next[p] /\ Store(current, next)
        \/ t # None /\ t # next[p] /\ Wish(p, t)
  BY DEF SetDefaultTeam
<1>2. t \in Team \cup {None}
  BY DEF FindDefaultTeam, Open, Listed
<1>3. CASE t = None /\ CreateNewTeam(p)
  BY <1>3, CreateStored
<1>4. CASE Store(current, next)
  BY <1>4, SameStored
<1>5. CASE Wish(p, t)
  BY <1>2, <1>5, WishStored
<1> QED
  BY <1>1, <1>3, <1>4, <1>5

(* A player that leaves its team or is put into one may be stored.         *)
LEMMA LeaveStorable ==
  ASSUME NEW cur, NEW nxt, NEW inv, NEW P, NEW p \in Player, None \notin locked,
         Storable(cur, nxt, inv, P)
  PROVE  Storable([cur EXCEPT ![p] = None], nxt, inv, P)
BY DEF Storable, Assignments, Aside, Lawful

(* Whoever has a team is there.                                            *)
LEMMA MembersPresent ==
  ASSUME Inv, NEW p \in Player, current[p] # None
  PROVE  p \in Present
BY DEF Inv, NothingDangles

LEMMA ForceStored ==
  ASSUME Inv, NEW cur, NEW n, NEW p \in Present, NEW t \in Team, p \in Player,
         Storable(cur, next, invited, Present),
         cur[p] \in {current[p], None}, SetTeamForce(cur, p, t, n)
  PROVE  Stored(Present)
<1> DEFINE new == IF p \in suspended THEN cur ELSE UpdateTeam(cur, p, t, n)
<1>1. locked \subseteq Team /\ None \notin locked
  BY TeamsAssumption DEF Inv, TypeOK
<1>2. Storable(UpdateTeam(cur, p, t, n), next, invited, Present)
  BY <1>1, UpdateStorable
<1>3. Storable(new, next, invited, Present)
  BY <1>2
<1>4. StoreWith(new, [next EXCEPT ![p] = t], invited)
  BY DEF SetTeamForce, Store
<1> HIDE DEF new
<1>5. Storable(new, [next EXCEPT ![p] = t], invited, Present)
  BY <1>3, WishStorable
<1> QED
  BY <1>1, <1>4, <1>5, StoreStores

(* A free team is not locked: a player may be put into it.                 *)
LEMMA PutStorable ==
  ASSUME Inv, NEW p \in Present, p \in Player, NEW t \in Team \ locked
  PROVE  Storable([current EXCEPT ![p] = t], next, invited, Present)
<1>1. Storable(current, next, invited, Present)
  BY PresentStorable
<1> QED
  BY <1>1 DEF Storable, Assignments, Aside, Lawful

-----------------------------------------------------------------------------
(* Most steps leave the list of players alone.                             *)
LEMMA SamePlayersSound ==
  ASSUME Inv, LoopOK', Stored(Present), UNCHANGED players,
         suspended' \subseteq Present
  PROVE  Sound
<1>1. Present' = Present
  BY DEF Present
<1>2. players' \in Seq(Player) /\ NoDoubles'
  BY DEF Inv, TypeOK, NoDoubles
<1> QED
  BY <1>1, <1>2 DEF Sound

LEMMA SuspendedPresent ==
  ASSUME Inv
  PROVE  suspended \subseteq Present
BY DEF Inv, TypeOK, NothingDangles

LEMMA QuietSound ==
  ASSUME Inv, LoopOK', Stored(Present), UNCHANGED <<players, suspended>>
  PROVE  Sound
BY SamePlayersSound, SuspendedPresent

LEMMA LoopKept ==
  ASSUME Inv, UNCHANGED loop, phase = "play"
  PROVE  LoopOK'
BY DEF Inv, LoopOK, LoopBounds, loop

(* A new player is added to the end of the list.                           *)
LEMMA LoginSound ==
  ASSUME Inv, NEW p \in Player, Login(p)
  PROVE  Sound
<1>1. players \in Seq(Player) /\ players' = Append(players, p) /\ p \notin Present
  BY DEF Inv, TypeOK, Login
<1>2. /\ players' \in Seq(Player) /\ Len(players') = Len(players) + 1
      /\ \A i \in 1 .. Len(players) : players'[i] = players[i]
      /\ players'[Len(players) + 1] = p
  BY <1>1
<1>3. NoDoubles'
  BY <1>1, <1>2 DEF NoDoubles, Present, Inv
<1>4. Present \subseteq Present' /\ p \in Present'
  BY <1>1, <1>2 DEF Present
<1>5. Stored(Present')
  <2>1. SetDefaultTeam(p) \/ Store(current, next)
    BY DEF Login
  <2> QED
    BY <1>4, <2>1, SetDefaultStored, SameStored
<1>6. suspended' \subseteq Present'
  BY <1>4 DEF Login, Inv, TypeOK, NothingDangles
<1>7. LoopOK'
  BY LoopKept DEF Login
<1> QED
  BY <1>2, <1>3, <1>5, <1>6, <1>7 DEF Sound

(* The place of a player that leaves is taken by the last of the list.     *)
LEMMA LogoutSound ==
  ASSUME Inv, NEW p \in Player, Logout(p)
  PROVE  Sound
<1>1. PICK j \in DOMAIN players :
        /\ players[j] = p
        /\ players' = [i \in 1 .. Len(players) - 1 |->
                         IF i = j THEN players[Len(players)] ELSE players[i]]
  BY DEF Logout
<1>2. players \in Seq(Player) /\ Len(players) >= 1 /\ j \in 1 .. Len(players)
  BY <1>1 DEF Inv, TypeOK
<1> DEFINE n == Len(players)
<1>3. n \in Nat /\ n >= 1 /\ DOMAIN players = 1 .. n
      /\ \A i \in 1 .. n : players[i] \in Player
  BY <1>2
<1>4. DOMAIN players' = 1 .. n - 1
  BY <1>1
<1>5. \A i \in 1 .. n - 1 : players'[i] = IF i = j THEN players[n] ELSE players[i]
  BY <1>1
<1> HIDE DEF n
<1>6. players' \in Seq(Player)
  <2>1. players' \in [1 .. n - 1 -> Player]
    BY <1>1, <1>2, <1>3 DEF n
  <2> QED
    BY <1>3, <2>1
<1>7. \A i, k \in 1 .. n : players[i] = players[k] => i = k
  BY <1>3 DEF Inv, NoDoubles
<1>8. NoDoubles'
  BY <1>2, <1>3, <1>4, <1>5, <1>7 DEF NoDoubles, n
<1>9. Present' = Present \ {p}
  <2>1. \A q \in Present' : q \in Present /\ q # p
    BY <1>1, <1>2, <1>3, <1>4, <1>5, <1>7 DEF Present, n
  <2>2. ASSUME NEW q \in Present, q # p PROVE q \in Present'
    <3>1. PICK k \in 1 .. n : players[k] = q
      BY <1>3 DEF Present
    <3>2. CASE k = n
      <4>1. j \in 1 .. n - 1
        BY <1>1, <1>2, <1>3, <2>2, <3>1, <3>2 DEF n
      <4> QED
        BY <1>4, <1>5, <3>1, <3>2, <4>1 DEF Present
    <3>3. CASE k # n
      <4>1. k \in 1 .. n - 1 /\ k # j
        BY <1>1, <1>3, <2>2, <3>1, <3>3
      <4> QED
        BY <1>4, <1>5, <3>1, <4>1 DEF Present
    <3> QED
      BY <3>2, <3>3
  <2> QED
    BY <2>1, <2>2
<1>10. Stored(Present')
  <2>1. locked \subseteq Team /\ Storable(current, next, invited, Present)
    BY PresentStorable
  <2>2. Storable([current EXCEPT ![p] = None], [next EXCEPT ![p] = None],
                 [invited EXCEPT ![p] = {}], Present \ {p})
    BY <2>1, TeamsAssumption DEF Storable, Assignments, Aside, Lawful
  <2> QED
    BY <1>9, <2>1, <2>2, StoreStores DEF Logout
<1>11. suspended' \subseteq Present'
  BY <1>9 DEF Logout, Inv, TypeOK, NothingDangles
<1>12. LoopOK'
  BY LoopKept DEF Logout
<1> QED
  BY <1>6, <1>8, <1>10, <1>11, <1>12 DEF Sound

(* The requests that change wishes and teams.                              *)
LEMMA ReceiveTeamChangeSound ==
  ASSUME Inv, NEW p \in Player, NEW t \in Team \cup {None}, NEW w \in BOOLEAN,
         ReceiveTeamChange(p, t, w)
  PROVE  Sound
<1> DEFINE cur == IF w /\ t \notin {None, next[p]}
                  THEN UpdateTeam(current, p, t, MaxImbalance) ELSE current
<1>1. Storable(current, next, invited, Present) /\ locked \subseteq Team
  BY PresentStorable
<1>2. p \in Present
  BY DEF ReceiveTeamChange
<1>3. Storable(UpdateTeam(current, p, t, MaxImbalance), next, invited, Present)
  BY <1>1, <1>2, UpdateStorable, TeamsAssumption
<1>4. Storable(cur, next, invited, Present)
  BY <1>1, <1>3
<1>5. StoreWith(cur, [next EXCEPT ![p] = t], invited)
  BY DEF ReceiveTeamChange, Store
<1> HIDE DEF cur
<1>6. Storable(cur, [next EXCEPT ![p] = t], invited, Present)
  BY <1>2, <1>4, WishStorable
<1>7. Stored(Present)
  BY <1>1, <1>5, <1>6, StoreStores
<1> QED
  BY <1>7, QuietSound, LoopKept DEF ReceiveTeamChange

LEMMA ReceiveNewTeamSound ==
  ASSUME Inv, NEW p \in Player, ReceiveNewTeam(p)
  PROVE  Sound
<1>1. p \in Present
  BY DEF ReceiveNewTeam
<1>2. CreateNewTeam(p) \/ SetDefaultTeam(p) \/ Store(current, next)
  BY DEF ReceiveNewTeam
<1>3. Stored(Present)
  BY <1>1, <1>2, CreateStored, SetDefaultStored, SameStored
<1> QED
  BY <1>3, QuietSound, LoopKept DEF ReceiveNewTeam

LEMMA ReceiveAutoTeamSound ==
  ASSUME Inv, NEW p \in Player, ReceiveAutoTeam(p)
  PROVE  Sound
<1>1. p \in Present /\ SetDefaultTeam(p)
  BY DEF ReceiveAutoTeam
<1>2. Stored(Present)
  BY <1>1, SetDefaultStored
<1> QED
  BY <1>2, QuietSound, LoopKept DEF ReceiveAutoTeam

LEMMA RemoveIdleSound ==
  ASSUME Inv, NEW p \in Player, RemoveIdle(p)
  PROVE  Sound
<1>1. Storable(current, next, invited, Present) /\ locked \subseteq Team
  BY PresentStorable
<1>2. p \in Present
  BY MembersPresent DEF RemoveIdle
<1>3. Storable([current EXCEPT ![p] = None], next, invited, Present)
  BY <1>1, LeaveStorable, TeamsAssumption
<1>4. Storable([current EXCEPT ![p] = None], [next EXCEPT ![p] = None], invited, Present)
  BY <1>2, <1>3, WishStorable
<1>5. Stored(Present)
  BY <1>1, <1>4, StoreStores DEF RemoveIdle, Store
<1> QED
  BY <1>5, QuietSound, LoopKept DEF RemoveIdle

-----------------------------------------------------------------------------
(* Locks, invitations and suspensions.                                     *)
LEMMA ManagedReferenced ==
  ASSUME Inv, NEW p \in Player
  PROVE  Managed(p) \subseteq Team \cap Referenced(current, next)
<1>1. CASE current[p] # None
  BY <1>1 DEF Inv, TypeOK, Managed, Referenced
<1>2. CASE current[p] = None
  BY <1>2 DEF Inv, TypeOK, NothingDangles, Managed
<1> QED
  BY <1>1, <1>2

LEMMA SetLockedSound ==
  ASSUME Inv, NEW p \in Player, NEW lock \in BOOLEAN, SetLocked(p, lock)
  PROVE  Sound
<1>1. PICK t \in Managed(p) :
        IF lock THEN locked' = locked \cup {t} ELSE locked' = locked \ {t}
  BY DEF SetLocked
<1>2. /\ locked' \subseteq Team
      /\ locked' \subseteq Referenced(current, next)
  BY <1>1, ManagedReferenced DEF Inv, TypeOK, NothingDangles
<1>3. UNCHANGED <<current, next, invited>>
  BY DEF SetLocked
<1>4. Storable(current, next, invited, Present)
  BY PresentStorable
<1>5. Stored(Present)
  BY <1>2, <1>3, <1>4 DEF Inv, NothingDangles, Storable, Stored
<1> QED
  BY <1>5, QuietSound, LoopKept DEF SetLocked

LEMMA InviteSound ==
  ASSUME Inv, NEW p \in Player, NEW q \in Player, Invite(p, q)
  PROVE  Sound
<1>1. PICK t \in Managed(p) : invited' = [invited EXCEPT ![q] = @ \cup {t}]
  BY DEF Invite
<1>2. t \in Team /\ t \in Referenced(current, next)
  BY ManagedReferenced
<1>3. q \in Present /\ UNCHANGED <<current, next, locked>>
  BY DEF Invite
<1>4. invited \in [Player -> SUBSET Team]
  BY DEF Inv, TypeOK
<1>5. invited' \in [Player -> SUBSET Team]
  BY <1>1, <1>2, <1>4
<1>6. \A r \in Player : invited'[r] \subseteq Referenced(current', next')
  BY <1>1, <1>2, <1>3, <1>4 DEF Inv, NothingDangles
<1>7. \A r \in Player \ Present : Aside(current', next', invited', r)
  BY <1>1, <1>3, <1>4 DEF Inv, NothingDangles, Aside
<1>8. Stored(Present)
  BY <1>3, <1>5, <1>6, <1>7
     DEF Inv, TypeOK, NothingDangles, Assignments, Lawful, Stored
<1> QED
  BY <1>8, QuietSound, LoopKept DEF Invite

LEMMA UnInviteSound ==
  ASSUME Inv, NEW p \in Player, NEW q \in Player, UnInvite(p, q)
  PROVE  Sound
<1>1. PICK t \in Managed(p) :
        StoreWith(current,
                  IF current[q] = t /\ t \in locked
                  THEN [next EXCEPT ![q] = None] ELSE next,
                  [invited EXCEPT ![q] = @ \ {t}])
  BY DEF UnInvite
<1> DEFINE nxt == IF current[q] = t /\ t \in locked
                  THEN [next EXCEPT ![q] = None] ELSE next
           inv == [invited EXCEPT ![q] = @ \ {t}]
<1>2. Storable(current, next, invited, Present) /\ locked \subseteq Team
  BY PresentStorable
<1>3. Storable(current, next, inv, Present)
  BY <1>2 DEF Storable, Aside
<1> HIDE DEF inv
<1>4. Storable(current, nxt, inv, Present)
  BY <1>3 DEF Storable, Assignments, Aside
<1>5. Stored(Present)
  BY <1>1, <1>2, <1>4, StoreStores DEF inv
<1> QED
  BY <1>5, QuietSound, LoopKept DEF UnInvite

LEMMA SuspendSound ==
  ASSUME Inv, NEW p \in Player, Suspend(p)
  PROVE  Sound
<1>1. Storable(current, next, invited, Present) /\ locked \subseteq Team
  BY PresentStorable
<1>2. p \in Present
  BY DEF Suspend
<1>3. Storable(current, [next EXCEPT ![p] = None], invited, Present)
  BY <1>1, <1>2, WishStorable
<1>4. Stored(Present)
  BY <1>1, <1>3, StoreStores DEF Suspend, Store
<1> QED
  BY <1>2, <1>4, SamePlayersSound, SuspendedPresent, LoopKept DEF Suspend

LEMMA UpdateSuspensionSound ==
  ASSUME Inv, NEW p \in Player, UpdateSuspension(p)
  PROVE  Sound
<1>1. Storable(current, next, invited, Present) /\ locked \subseteq Team
  BY PresentStorable
<1>2. Storable([current EXCEPT ![p] = None], next, invited, Present)
  BY <1>1, LeaveStorable, TeamsAssumption
<1>3. Stored(Present)
  BY <1>1, <1>2, StoreStores DEF UpdateSuspension, Store
<1> QED
  BY <1>3, QuietSound, LoopKept DEF UpdateSuspension

LEMMA EndSuspensionSound ==
  ASSUME Inv, NEW p \in Player, EndSuspension(p)
  PROVE  Sound
<1>1. p \in Present
  BY SuspendedPresent DEF EndSuspension
<1>2. SetDefaultTeam(p) \/ Store(current, next)
  BY DEF EndSuspension
<1>3. Stored(Present)
  BY <1>1, <1>2, SetDefaultStored, SameStored
<1> QED
  BY <1>3, SamePlayersSound, SuspendedPresent, LoopKept DEF EndSuspension

LEMMA RequestSound ==
  ASSUME Inv, NEW p \in Player, Request(p)
  PROVE  Sound
BY LoginSound, LogoutSound, ReceiveTeamChangeSound, ReceiveNewTeamSound,
   ReceiveAutoTeamSound, RemoveIdleSound, SetLockedSound, InviteSound,
   UnInviteSound, SuspendSound, UpdateSuspensionSound, EndSuspensionSound
   DEF Request

-----------------------------------------------------------------------------
(* The loops of the update.                                                *)
LEMMA LoopStepSound ==
  ASSUME Inv, BeginUpdate \/ EndPass \/ StartRound
  PROVE  Sound
<1>1. UNCHANGED <<players, current, next, locked, invited, suspended>>
  BY DEF BeginUpdate, EndPass, StartRound
<1>2. players \in Seq(Player) /\ Len(players) \in Nat
  BY DEF Inv, TypeOK
<1>3. GiveUp \in Nat
  BY TeamsAssumption
<1>4. LoopOK'
  <2>1. LoopBounds'
    <3>1. CASE BeginUpdate
      BY <3>1 DEF Inv, LoopOK, LoopBounds, BeginUpdate
    <3>2. CASE EndPass
      BY <1>1, <1>2, <3>2 DEF Inv, LoopOK, LoopBounds, EndPass
    <3>3. CASE StartRound
      BY <1>3, <3>3 DEF Inv, LoopOK, LoopBounds, StartRound
    <3> QED
      BY <3>1, <3>2, <3>3
  <2>2. assigned' \in BOOLEAN
    BY Zenon DEF Inv, LoopOK, BeginUpdate, EndPass, StartRound
  <2> QED
    BY <2>1, <2>2 DEF LoopOK
<1> QED
  BY <1>1, <1>4, UnchangedStored, QuietSound

LEMMA AssignOneSound ==
  ASSUME Inv, AssignOne
  PROVE  Sound
<1>1. PICK j \in at .. Len(players) :
        /\ Store(UpdateTeam(current, players[j], next[players[j]], MaxImbalance), next)
        /\ at' = j + 1
  BY DEF AssignOne
<1> DEFINE p == players[j]
<1>2. players \in Seq(Player) /\ phase = "assign"
  BY DEF Inv, TypeOK, AssignOne
<1>3. j \in DOMAIN players /\ j \in Nat
  BY <1>1, <1>2 DEF Inv, LoopOK, LoopBounds
<1>4. p \in Player /\ p \in Present
  BY <1>2, <1>3 DEF Present
<1> HIDE DEF p
<1>5. next[p] \in Team \cup {None}
  BY <1>4 DEF Inv, TypeOK
<1>6. Storable(current, next, invited, Present) /\ locked \subseteq Team
  BY PresentStorable
<1>7. Storable(UpdateTeam(current, p, next[p], MaxImbalance), next, invited, Present)
  BY <1>4, <1>5, <1>6, UpdateStorable, TeamsAssumption
<1>8. Stored(Present)
  BY <1>1, <1>6, <1>7, StoreStores DEF Store, p
<1>9. LoopOK'
  BY <1>1, <1>3 DEF Inv, LoopOK, LoopBounds, AssignOne
<1> QED
  BY <1>8, <1>9, QuietSound DEF AssignOne

LEMMA DefaultStored ==
  ASSUME Inv, NEW p \in Present, p \in Player, DefaultKeepingWish(p)
  PROVE  Stored(Present)
<1>1. locked \subseteq Team
  BY DEF Inv, TypeOK
<1>2. \/ Store(current, next)
      \/ \E u \in Team \ locked : Store([current EXCEPT ![p] = u], next)
  BY DEF DefaultKeepingWish, FindDefaultTeam, Open, Listed, Fresh
<1>3. CASE Store(current, next)
  BY <1>3, SameStored
<1>4. ASSUME NEW u \in Team \ locked, Store([current EXCEPT ![p] = u], next)
      PROVE  Stored(Present)
  BY <1>1, <1>4, PutStorable, StoreStores DEF Store
<1> QED
  BY <1>2, <1>3, <1>4

LEMMA DefaultOneSound ==
  ASSUME Inv, DefaultOne
  PROVE  Sound
<1>1. PICK j \in 1 .. at :
        /\ DefaultKeepingWish(players[j])
        /\ \/ at' = j - 1 /\ phase' = phase
           \/ at' = 1 /\ phase' = "assign"
  BY DEF DefaultOne
<1>2. players \in Seq(Player) /\ Len(players) \in Nat /\ phase = "default"
  BY DEF Inv, TypeOK, DefaultOne
<1>3. j \in DOMAIN players /\ j \in Nat
  BY <1>1, <1>2 DEF Inv, LoopOK, LoopBounds
<1>4. players[j] \in Player /\ players[j] \in Present
  BY <1>2, <1>3 DEF Present
<1>5. Stored(Present)
  BY <1>1, <1>4, DefaultStored
<1>6. LoopOK'
  BY <1>1, <1>2, <1>3 DEF Inv, LoopOK, LoopBounds, DefaultOne
<1> QED
  BY <1>5, <1>6, QuietSound DEF DefaultOne

LEMMA DeleteWishesSound ==
  ASSUME Inv, DeleteWishes
  PROVE  Sound
<1> DEFINE nxt == [p \in Player |-> IF InVain(p) THEN current[p] ELSE next[p]]
<1>1. Storable(current, next, invited, Present) /\ locked \subseteq Team
  BY PresentStorable
<1>2. Storable(current, nxt, invited, Present)
  BY <1>1 DEF Storable, Assignments, Aside
<1>3. Store(current, nxt)
  BY DEF DeleteWishes
<1> HIDE DEF nxt
<1>4. Stored(Present)
  BY <1>1, <1>2, <1>3, StoreStores DEF Store
<1>5. LoopOK'
  BY DEF Inv, LoopOK, LoopBounds, DeleteWishes
<1> QED
  BY <1>4, <1>5, QuietSound DEF DeleteWishes

LEMMA EnforceSound ==
  ASSUME Inv, Enforce
  PROVE  Sound
<1>1. Storable(current, next, invited, Present)
  BY PresentStorable
<1>2. GiveUp \in Nat /\ tries \in 0 .. GiveUp /\ tries < GiveUp /\ tries' = tries + 1
  BY TeamsAssumption DEF Inv, LoopOK, LoopBounds, Enforce
<1>3. CASE PickVictim
  <2>1. Stored(Present) /\ victim' \in Team
    BY <1>3, UnchangedStored DEF PickVictim, Smallest, Open, Listed
  <2>2. LoopOK'
    BY <1>2, <2>1 DEF Inv, LoopOK, LoopBounds, Enforce
  <2> QED
    BY <2>1, <2>2, QuietSound DEF Enforce
<1>4. CASE MoveToSmallest \/ MoveToNewTeam
  <2>1. PICK p \in Player, u \in Team :
          current[p] \in Team /\ SetTeamForce(current, p, u, MaxImbalance)
    BY <1>4 DEF MoveToSmallest, MoveToNewTeam, Largest, Smallest, Open, Listed, Fresh
  <2>2. p \in Present
    BY <2>1, MembersPresent, TeamsAssumption
  <2>3. Stored(Present)
    BY <1>1, <2>1, <2>2, ForceStored
  <2>4. LoopOK'
    BY <1>2, <1>4 DEF Inv, LoopOK, LoopBounds, Enforce, MoveToSmallest, MoveToNewTeam
  <2> QED
    BY <2>3, <2>4, QuietSound DEF Enforce
<1> QED
  BY <1>3, <1>4 DEF Enforce

LEMMA DissolveSound ==
  ASSUME Inv, Dissolve
  PROVE  Sound
<1>1. Storable(current, next, invited, Present) /\ locked \subseteq Team
  BY PresentStorable
<1>2. CASE Members(current, victim) = {}
  <2>1. LoopOK'
    BY <1>2 DEF Inv, LoopOK, LoopBounds, Dissolve
  <2> QED
    BY <1>2, <2>1, UnchangedStored, QuietSound DEF Dissolve
<1>3. CASE Members(current, victim) # {}
  <2>1. PICK p \in Members(current, victim) :
          \/ Store([current EXCEPT ![p] = None], [next EXCEPT ![p] = None])
          \/ \E t \in Listed(current) :
                SetTeamForce([current EXCEPT ![p] = None], p, t, MaxPlayers)
    BY <1>3 DEF Dissolve
  <2> DEFINE out == [current EXCEPT ![p] = None]
  <2>2. p \in Player /\ p \in Present
    BY MembersPresent DEF Dissolve, Members
  <2>3. Storable(out, next, invited, Present) /\ out[p] = None
    BY <1>1, <2>2, LeaveStorable, TeamsAssumption DEF Storable, Assignments
  <2> HIDE DEF out
  <2>4. ASSUME Store(out, [next EXCEPT ![p] = None])
        PROVE  Stored(Present)
    <3>1. Storable(out, [next EXCEPT ![p] = None], invited, Present)
      BY <2>2, <2>3, WishStorable
    <3> QED
      BY <1>1, <2>4, <3>1, StoreStores DEF Store
  <2>5. ASSUME NEW t \in Listed(current), SetTeamForce(out, p, t, MaxPlayers)
        PROVE  Stored(Present)
    BY <2>2, <2>3, <2>5, ForceStored DEF Listed
  <2>6. Stored(Present)
    BY <2>1, <2>4, <2>5 DEF out
  <2>7. LoopOK'
    BY <1>3 DEF Inv, LoopOK, LoopBounds, Dissolve
  <2> QED
    BY <2>6, <2>7, QuietSound DEF Dissolve
<1> QED
  BY <1>2, <1>3

-----------------------------------------------------------------------------
(* The theorems.                                                           *)
LEMMA SoundInv ==
  ASSUME Sound
  PROVE  Inv'
<1>1. Present' \subseteq Player
  BY DEF Sound, Present
<1>2. TypeOK'
  BY <1>1 DEF Sound, Stored, LoopOK, LoopBounds, Assignments, TypeOK
<1>3. NothingDangles'
  BY DEF Sound, Stored, Aside, NothingDangles
<1> QED
  BY <1>2, <1>3 DEF Sound, Inv

LEMMA NextSound ==
  ASSUME Inv, Next
  PROVE  Sound
BY RequestSound, LoopStepSound, AssignOneSound, DefaultOneSound,
   DeleteWishesSound, EnforceSound, DissolveSound
   DEF Next, Requests, Update

LEMMA InitInv == Init => Inv
<1> SUFFICES ASSUME Init PROVE Inv
  OBVIOUS
<1>0. GiveUp \in Nat
  BY TeamsAssumption
<1>1. LoopOK
  <2>1. LoopBounds
    BY <1>0 DEF Init, LoopBounds
  <2>2. assigned \in BOOLEAN
    BY Zenon DEF Init
  <2> QED
    BY <2>1, <2>2 DEF LoopOK
<1>2. TypeOK
  <2>1. players \in Seq(Player)
    BY DEF Init
  <2> QED
    BY <1>1, <2>1 DEF Init, LoopOK, LoopBounds, TypeOK
<1>3. NothingDangles
  BY DEF Init, NothingDangles
<1>4. NoDoubles
  BY DEF Init, NoDoubles
<1> QED
  BY <1>1, <1>2, <1>3, <1>4 DEF Inv

LEMMA InvStep == Inv /\ [Next]_vars => Inv'
<1> SUFFICES ASSUME Inv, [Next]_vars PROVE Inv'
  OBVIOUS
<1>1. CASE Next
  BY <1>1, NextSound, SoundInv
<1>2. CASE UNCHANGED vars
  BY <1>2 DEF vars, Inv, TypeOK, NothingDangles, NoDoubles, LoopOK, LoopBounds, Present
<1> QED
  BY <1>1, <1>2

LEMMA InvAlways == Spec => []Inv
BY InitInv, InvStep, PTL DEF Spec

(* Every variable keeps its type, whatever the players ask for and however *)
(* far the loops of the update have come.                                  *)
THEOREM TypeCorrect == Spec => []TypeOK
<1>1. Inv => TypeOK
  BY DEF Inv
<1> QED
  BY <1>1, InvAlways, PTL

(* Nothing of a player stays behind when it leaves, and no lock and no     *)
(* invitation outlives its team (eTeam's destructor).                      *)
THEOREM NothingStaysBehind == Spec => []NothingDangles
<1>1. Inv => NothingDangles
  BY DEF Inv
<1> QED
  BY <1>1, InvAlways, PTL

(* Nobody gets into a locked team uninvited, by whichever of the ways a    *)
(* player's team is stored.                                                *)
THEOREM LocksAreHeld == Spec => LocksHold
<1>1. Inv /\ [Next]_vars =>
        [\A p \in Player :
           current'[p] # current[p] /\ current'[p] \in locked
             => current'[p] \in invited[p]]_vars
  <2> SUFFICES ASSUME Inv, Next
               PROVE  \A p \in Player :
                        current'[p] # current[p] /\ current'[p] \in locked
                          => current'[p] \in invited[p]
    OBVIOUS
  <2>1. Lawful(current')
    BY NextSound DEF Sound, Stored
  <2> QED
    BY <2>1 DEF Lawful
<1> QED
  BY <1>1, InvAlways, PTL DEF Spec, LocksHold
-----------------------------------------------------------------------------
(* The balancing takes nobody's team away who could be put into another.   *)
LEMMA SizeInNat ==
  ASSUME NEW cur, NEW t
  PROVE  Size(cur, t) \in Nat
<1>1. IsFiniteSet(Player)
  BY TeamsAssumption
<1>2. Members(cur, t) \in SUBSET Player
  BY DEF Members
<1>3. IsFiniteSet(Members(cur, t))
  BY <1>1, <1>2, FS_Subset
<1> QED
  BY <1>3, FS_CardinalityType DEF Size

(* With the imbalance that Dissolve allows, a place is all a team needs.   *)
LEMMA PlaceIsRoom ==
  ASSUME NEW cur, NEW p \in Player, NEW t, cur[p] = None,
         Size(cur, t) < MaxPlayers
  PROVE  Room(cur, p, t, MaxPlayers)
<1>1. MaxPlayers \in Nat /\ Size(cur, t) \in Nat
  BY SizeInNat, TeamsAssumption
<1>2. ASSUME NEW n \in Others(cur, p) PROVE n + MaxPlayers > Size(cur, t)
  <2>1. PICK u \in Team : n = Size(cur, u)
    BY <1>2 DEF Others, Listed
  <2>2. n \in Nat
    BY <2>1, SizeInNat
  <2> QED
    BY <1>1, <2>2
<1> QED
  BY <1>2 DEF Room

(* No step of Enforce takes a player out of the game.                      *)
LEMMA EnforceKeeps ==
  ASSUME Inv, Enforce, NEW q \in Player, current[q] # None
  PROVE  current'[q] # None
<1>1. CASE PickVictim
  BY <1>1 DEF PickVictim
<1>2. CASE MoveToSmallest \/ MoveToNewTeam
  <2>1. PICK p \in Player, u \in Team : SetTeamForce(current, p, u, MaxImbalance)
    BY <1>2 DEF MoveToSmallest, MoveToNewTeam, Smallest, Open, Listed, Fresh
  <2>2. \/ current' = current
        \/ current' = [current EXCEPT ![p] = u]
    BY <2>1 DEF SetTeamForce, UpdateTeam, Store, StoreWith
  <2>3. u # None
    BY TeamsAssumption
  <2> QED
    BY <2>2, <2>3 DEF Inv, TypeOK
<1> QED
  BY <1>1, <1>2 DEF Enforce

(* A player is thrown out by Dissolve for one of these reasons only.       *)
Refused(p) ==
  \/ p \in suspended
  \/ \E t \in locked : Size(current, t) < MaxPlayers /\ t \notin invited[p]
  \/ \A t \in Listed(current) \ {current[p]} : Size(current, t) >= MaxPlayers

LEMMA DissolveRefuses ==
  ASSUME Inv, Dissolve, NEW q \in Player, current[q] # None, current'[q] = None
  PROVE  Refused(q)
<1> DEFINE out(p) == [current EXCEPT ![p] = None]
           seats == {t \in Listed(current) \ {victim} : Size(current, t) < MaxPlayers}
<1>0. current \in [Player -> Team \cup {None}]
  BY DEF Inv, TypeOK
<1>1. Members(current, victim) # {}
  <2>1. CASE Members(current, victim) = {}
    BY <2>1 DEF Dissolve
  <2> QED
    BY <2>1
<1>2. PICK p \in Members(current, victim) :
        IF seats = {}
        THEN Store(out(p), [next EXCEPT ![p] = None])
        ELSE \E t \in seats : SetTeamForce(out(p), p, t, MaxPlayers)
  BY <1>1 DEF Dissolve
<1>3. p \in Player /\ current[p] = victim
  BY DEF Members
<1>4. CASE seats = {}
  <2>1. current' = out(p)
    BY <1>2, <1>4 DEF Store, StoreWith
  <2>2. q = p
    BY <1>0, <2>1
  <2>3. \A t \in Listed(current) \ {victim} : Size(current, t) \in Nat
    BY SizeInNat
  <2>4. \A t \in Listed(current) \ {victim} : Size(current, t) >= MaxPlayers
    BY <1>4, <2>3, TeamsAssumption
  <2> QED
    BY <1>3, <2>2, <2>4 DEF Refused
<1>5. CASE seats # {}
  <2>1. PICK t \in seats : SetTeamForce(out(p), p, t, MaxPlayers)
    BY <1>2, <1>5
  <2>2. t \in Team /\ t # victim /\ t # None /\ Size(current, t) < MaxPlayers
    BY TeamsAssumption DEF Listed
  <2>3. current' = IF p \in suspended THEN out(p) ELSE UpdateTeam(out(p), p, t, MaxPlayers)
    BY <2>1 DEF SetTeamForce, Store, StoreWith
  <2>4. \A r \in Player : r # p => current'[r] = current[r]
    BY <1>0, <1>3, <2>3 DEF UpdateTeam
  <2>5. q = p
    BY <2>4
  <2>6. CASE p \in suspended
    BY <2>5, <2>6 DEF Refused
  <2>7. CASE p \notin suspended
    <3>1. ~ Fits(out(p), p, t, MaxPlayers)
      BY <1>0, <1>3, <2>2, <2>3, <2>5, <2>7 DEF UpdateTeam
    <3>2. Members(out(p), t) = Members(current, t) /\ out(p)[p] = None
      BY <1>0, <1>3, <2>2 DEF Members
    <3>3. Room(out(p), p, t, MaxPlayers)
      BY <1>3, <2>2, <3>2, PlaceIsRoom DEF Size
    <3>4. t \in locked /\ t \notin invited[p]
      BY <3>1, <3>3 DEF Fits
    <3> QED
      BY <2>2, <2>5, <3>4 DEF Refused
  <2> QED
    BY <2>6, <2>7
<1> QED
  BY <1>4, <1>5

(* The balancing is the only thing that goes on in its phase.              *)
LEMMA EnforcePhase ==
  ASSUME Next, phase = "enforce"
  PROVE  Enforce \/ Dissolve \/ (StartRound /\ UNCHANGED current)
<1>1. ~ Requests
  BY DEF Requests, Request, Login, Logout, ReceiveTeamChange, ReceiveNewTeam,
         ReceiveAutoTeam, RemoveIdle, SetLocked, Invite, UnInvite, Suspend,
         UpdateSuspension, EndSuspension
<1>2. ~ (BeginUpdate \/ AssignOne \/ EndPass \/ DefaultOne \/ DeleteWishes)
  BY DEF BeginUpdate, AssignOne, EndPass, DefaultOne, DeleteWishes
<1> QED
  BY <1>1, <1>2 DEF Next, Update, StartRound

(* The balancing throws a player out only for a reason: it is suspended,   *)
(* no other team has a place, or a locked one that has was not meant for   *)
(* it (eTeam::Enforce; UpdateTeamForce asks the team).                     *)
THEOREM FairBalancing == Spec => NobodyThrownOut
<1>1. Inv /\ [Next]_vars =>
        [phase = "enforce" =>
           \A p \in Player : current[p] # None /\ current'[p] = None =>
             \/ p \in suspended
             \/ \E t \in locked : Size(current, t) < MaxPlayers /\ t \notin invited[p]
             \/ \A t \in Listed(current) \ {current[p]} :
                  Size(current, t) >= MaxPlayers]_vars
  <2> SUFFICES ASSUME Inv, Next, phase = "enforce", NEW p \in Player,
                      current[p] # None, current'[p] = None
               PROVE  Refused(p)
    BY DEF Refused
  <2> QED
    BY EnforcePhase, EnforceKeeps, DissolveRefuses
<1> QED
  BY <1>1, InvAlways, PTL DEF Spec, NobodyThrownOut

-----------------------------------------------------------------------------
(* The passes over the players come to their end.                          *)
(* The numbers the rank is made of are finite.                             *)
LEMMA PresentFinite ==
  ASSUME Inv
  PROVE  /\ IsFiniteSet(Present) /\ Len(players) \in Nat
         /\ Cardinality(Present) <= Len(players)
<1>1. players \in Seq(Player) /\ Len(players) \in Nat
      /\ DOMAIN players = 1 .. Len(players)
  BY DEF Inv, TypeOK
<1>2. players \in Surjection(1 .. Len(players), Present)
  BY <1>1 DEF Surjection, Present
<1>3. /\ IsFiniteSet(1 .. Len(players))
      /\ Cardinality(1 .. Len(players)) = Len(players)
  BY <1>1, FS_Interval
<1> QED
  BY <1>1, <1>2, <1>3, FS_Surjection

LEMMA CountsFinite ==
  ASSUME Inv
  PROVE  /\ IsFiniteSet(Ungranted) /\ Cardinality(Ungranted) \in Nat
         /\ IsFiniteSet(Teamless) /\ Cardinality(Teamless) \in 0 .. Len(players)
<1>1. Ungranted \in SUBSET Present /\ Teamless \in SUBSET Present
  BY DEF Ungranted, Teamless
<1>2. /\ IsFiniteSet(Ungranted) /\ IsFiniteSet(Teamless)
      /\ Cardinality(Teamless) <= Cardinality(Present)
  BY <1>1, PresentFinite, FS_Subset
<1>3. /\ Cardinality(Ungranted) \in Nat /\ Cardinality(Teamless) \in Nat
      /\ Cardinality(Present) \in Nat
  BY <1>2, PresentFinite, FS_CardinalityType
<1> QED
  BY <1>2, <1>3, PresentFinite

(* The rank is the order of the triples of its parts.                      *)
LEMMA TripleOrder ==
  ASSUME NEW n \in Nat, NEW u \in Nat, NEW v \in Nat, NEW t \in 0 .. n, NEW s \in 0 .. n,
         NEW a \in 0 .. n + 2, NEW b \in 0 .. n + 2,
         \/ v < u
         \/ v = u /\ s < t
         \/ v = u /\ s = t /\ b < a
  PROVE  (v * (n + 1) + s) * (n + 3) + b < (u * (n + 1) + t) * (n + 3) + a
<1> DEFINE x == u * (n + 1) + t
           y == v * (n + 1) + s
<1>1. x \in Nat /\ y \in Nat
  OBVIOUS
<1>2. CASE v = u /\ s = t
  BY <1>2
<1>3. CASE ~ (v = u /\ s = t)
  <2>1. y + 1 <= x
    <3>1. CASE v = u
      BY <1>3, <3>1
    <3>2. CASE v < u
      <4>1. PICK k \in Nat : u = v + 1 + k
        <5>1. u - v - 1 \in Nat /\ u = v + 1 + (u - v - 1)
          BY <3>2
        <5> QED
          BY <5>1
      <4>2. u * (n + 1) = v * (n + 1) + (n + 1) + k * (n + 1)
        BY <4>1
      <4>3. k * (n + 1) \in Nat /\ v * (n + 1) \in Nat
        BY <4>1
      <4> QED
        BY <4>2, <4>3
    <3> QED
      BY <1>3, <3>1, <3>2
  <2> HIDE DEF x, y
  <2>2. PICK k \in Nat : x = y + 1 + k
    <3>1. x - y - 1 \in Nat /\ x = y + 1 + (x - y - 1)
      BY <1>1, <2>1
    <3> QED
      BY <3>1
  <2>3. x * (n + 3) = y * (n + 3) + (n + 3) + k * (n + 3)
    BY <1>1, <2>2
  <2>4. k * (n + 3) \in Nat /\ y * (n + 3) \in Nat
    BY <1>1, <2>2
  <2>5. y * (n + 3) + b < x * (n + 3) + a
    BY <2>3, <2>4
  <2> QED
    BY <2>5 DEF x, y
<1> QED
  BY <1>2, <1>3

(* What a step does to the parts of the rank.                              *)
Lower ==
  \/ Cardinality(Ungranted') < Cardinality(Ungranted)
  \/ /\ Cardinality(Ungranted') = Cardinality(Ungranted)
     /\ Cardinality(Teamless') < Cardinality(Teamless)
  \/ /\ Cardinality(Ungranted') = Cardinality(Ungranted)
     /\ Cardinality(Teamless') = Cardinality(Teamless)
     /\ LoopLeft' < LoopLeft

(* What is left of the loop is counted from the number of players.         *)
LEMMA LoopLeftBounded ==
  ASSUME Inv, phase \in {"assign", "default"}
  PROVE  LoopLeft \in 0 .. Len(players) + 2
BY PresentFinite DEF Inv, LoopOK, LoopBounds, LoopLeft

(* The ranges of the rank's parts, also after a step.                      *)
LEMMA RankParts ==
  Inv => /\ Cardinality(Ungranted) \in Nat /\ Cardinality(Teamless) \in 0 .. Len(players)
         /\ phase \in {"assign", "default"} => LoopLeft \in 0 .. Len(players) + 2
BY CountsFinite, LoopLeftBounded

LEMMA LowerRank ==
  ASSUME Inv, Inv', UNCHANGED players, {phase, phase'} \subseteq {"assign", "default"},
         Lower
  PROVE  Rank' < Rank
<1> DEFINE n == Len(players)
           u == Cardinality(Ungranted)
           t == Cardinality(Teamless)
           a == LoopLeft
<1>1. n \in Nat /\ u \in Nat /\ t \in 0 .. n /\ a \in 0 .. n + 2
  BY PresentFinite, CountsFinite, LoopLeftBounded
<1>3. (u \in Nat /\ t \in 0 .. n /\ (phase \in {"assign", "default"} => a \in 0 .. n + 2))'
  BY RankParts, PTL
<1>5. (a \in 0 .. n + 2)'
  BY <1>3
<1>6. n' = n
  OBVIOUS
<1>7. Rank = (u * (n + 1) + t) * (n + 3) + a
  BY DEF Rank
<1>8. Rank' = (u' * (n + 1) + t') * (n + 3) + a'
  BY <1>6 DEF Rank
<1>9. \/ u' < u
      \/ u' = u /\ t' < t
      \/ u' = u /\ t' = t /\ a' < a
  BY DEF Lower
<1>10. u' \in Nat /\ t' \in 0 .. n /\ a' \in 0 .. n + 2
  BY <1>3, <1>5, <1>6
<1> HIDE DEF u, t, a, n
<1> QED
  BY <1>1, <1>7, <1>8, <1>9, <1>10, TripleOrder

(* A player whose wish is granted gets the team it wishes for.             *)
LEMMA AssignOneLowers ==
  ASSUME Inv, AssignOne
  PROVE  Lower
<1>1. PICK j \in at .. Len(players) :
        /\ Grantable(players[j])
        /\ Store(UpdateTeam(current, players[j], next[players[j]], MaxImbalance), next)
  BY DEF AssignOne
<1> DEFINE p == players[j]
<1>2. players \in Seq(Player) /\ phase = "assign"
  BY DEF Inv, TypeOK, AssignOne
<1>3. j \in DOMAIN players
  BY <1>1, <1>2 DEF Inv, LoopOK, LoopBounds
<1>4. p \in Player /\ p \in Present
  BY <1>2, <1>3 DEF Present
<1> HIDE DEF p
<1>5. next[p] # current[p] /\ p \notin suspended
  BY <1>1 DEF Grantable, p
<1>6. next[p] = None \/ Fits(current, p, next[p], MaxImbalance)
  BY <1>1, <1>5 DEF Grantable, PlayerMayJoin, p
<1>7. current' = [current EXCEPT ![p] = next[p]] /\ next' = next
  BY <1>1, <1>6 DEF UpdateTeam, Store, StoreWith, p
<1>8. current \in [Player -> Team \cup {None}]
  BY DEF Inv, TypeOK
<1>9. Present' = Present /\ suspended' = suspended /\ Present \subseteq Player
  BY <1>2 DEF AssignOne, Present
<1>10. Ungranted' = Ungranted \ {p} /\ p \in Ungranted
  BY <1>4, <1>5, <1>7, <1>8, <1>9 DEF Ungranted
<1>11. Cardinality(Ungranted') = Cardinality(Ungranted) - 1
  BY <1>10, CountsFinite, FS_RemoveElement
<1> QED
  BY <1>11, CountsFinite DEF Lower

(* The end of a pass leaves less of the loop to do.                        *)
LEMMA EndPassLowers ==
  ASSUME Inv, EndPass, phase' \in {"assign", "default"}
  PROVE  Lower
<1>1. UNCHANGED <<players, current, next, suspended>>
  BY DEF EndPass
<1>2. Ungranted' = Ungranted /\ Teamless' = Teamless
  BY <1>1 DEF Ungranted, Teamless, Present
<1>3. LoopLeft' < LoopLeft
  <2>1. CASE assigned
    BY <1>1, <2>1, PresentFinite DEF EndPass, LoopLeft
  <2>2. CASE ~ assigned
    BY <1>1, <2>2, PresentFinite DEF EndPass, LoopLeft
  <2> QED
    BY <2>1, <2>2
<1> QED
  BY <1>2, <1>3 DEF Lower

(* A late comer gets another team than it wishes for, or none.             *)
LEMMA DefaultOneLowers ==
  ASSUME Inv, DefaultOne
  PROVE  Lower
<1>1. PICK j \in 1 .. at :
        /\ Waiting(players[j])
        /\ DefaultKeepingWish(players[j])
        /\ IF current'[players[j]] = None THEN at' = j - 1 /\ phase' = phase
           ELSE at' = 1 /\ phase' = "assign"
  BY DEF DefaultOne
<1> DEFINE p == players[j]
<1>2. players \in Seq(Player) /\ Len(players) \in Nat /\ phase = "default"
      /\ at <= Len(players) /\ at \in Nat
  BY DEF Inv, TypeOK, DefaultOne, LoopOK, LoopBounds
<1>3. j \in DOMAIN players /\ j \in 1 .. at
  BY <1>1, <1>2
<1>4. p \in Player /\ p \in Present
  BY <1>2, <1>3 DEF Present
<1>5. IF current'[p] = None THEN at' = j - 1 /\ phase' = phase
      ELSE at' = 1 /\ phase' = "assign"
  BY <1>1
<1>6. next[p] # None /\ current[p] = None /\ p \notin suspended
  BY <1>1 DEF Waiting
<1>7. \/ Store(current, next)
      \/ \E t \in Team \ {next[p]} : Store([current EXCEPT ![p] = t], next)
  BY <1>1 DEF DefaultKeepingWish, FindDefaultTeam, Open, Listed, Fresh
<1> HIDE DEF p
<1>8. /\ current \in [Player -> Team \cup {None}]
      /\ UNCHANGED <<players, suspended, assigned>>
      /\ Present' = Present /\ Present \subseteq Player
  BY <1>2 DEF Inv, TypeOK, DefaultOne, Present
<1>9. CASE Store(current, next)
  <2>1. current' = current /\ next' = next
    BY <1>9 DEF Store, StoreWith
  <2>2. Ungranted' = Ungranted /\ Teamless' = Teamless
    BY <1>8, <2>1 DEF Ungranted, Teamless
  <2>3. at' = j - 1 /\ phase' = phase
    BY <1>5, <1>6, <2>1
  <2>4. LoopLeft' < LoopLeft
    BY <1>2, <1>3, <2>3 DEF LoopLeft
  <2> QED
    BY <2>2, <2>4 DEF Lower
<1>10. ASSUME NEW t \in Team \ {next[p]}, Store([current EXCEPT ![p] = t], next)
       PROVE  Lower
  <2>1. current' = [current EXCEPT ![p] = t] /\ next' = next
    BY <1>10 DEF Store, StoreWith
  <2>2. t # None
    BY TeamsAssumption
  <2>3. Ungranted' = Ungranted
    BY <1>4, <1>6, <1>8, <2>1, <2>2 DEF Ungranted
  <2>4. Teamless' = Teamless \ {p} /\ p \in Teamless
    BY <1>4, <1>6, <1>8, <2>1, <2>2 DEF Teamless
  <2>5. Cardinality(Teamless') = Cardinality(Teamless) - 1
    BY <2>4, CountsFinite, FS_RemoveElement
  <2> QED
    BY <2>3, <2>5, CountsFinite DEF Lower
<1> QED
  BY <1>7, <1>9, <1>10

(* Within the passes there is nothing else.                                *)
LEMMA PassPhases ==
  ASSUME Next, {phase, phase'} \subseteq {"assign", "default"}
  PROVE  (AssignOne \/ EndPass \/ DefaultOne) /\ UNCHANGED players
<1>1. ~ Requests
  BY DEF Requests, Request, Login, Logout, ReceiveTeamChange, ReceiveNewTeam,
         ReceiveAutoTeam, RemoveIdle, SetLocked, Invite, UnInvite, Suspend,
         UpdateSuspension, EndSuspension
<1>2. ~ (BeginUpdate \/ DeleteWishes \/ Enforce \/ Dissolve \/ StartRound)
  BY DEF BeginUpdate, DeleteWishes, Enforce, Dissolve, StartRound
<1> QED
  BY <1>1, <1>2 DEF Next, Update, AssignOne, EndPass, DefaultOne

(* The passes of ePlayerNetID::Update come to their end: its loops have no *)
(* counter, but each of their steps lowers the rank.                       *)
THEOREM UpdateComesToItsEnd == Spec => PassesEnd
<1>1. Inv /\ Inv' /\ [Next]_vars =>
        [{phase, phase'} \subseteq {"assign", "default"} => Rank' < Rank]_vars
  <2> SUFFICES ASSUME Inv, Inv', Next, {phase, phase'} \subseteq {"assign", "default"}
               PROVE  Rank' < Rank
    OBVIOUS
  <2>1. Lower
    BY PassPhases, AssignOneLowers, EndPassLowers, DefaultOneLowers
  <2> QED
    BY <2>1, PassPhases, LowerRank
<1> QED
  BY <1>1, InvAlways, InvStep, PTL DEF Spec, PassesEnd

-----------------------------------------------------------------------------
(* Induction up to a number, for a set: the numbers below the first one    *)
(* missing would all have a successor among them, in one place less.       *)
LEMMA SetInduction ==
  ASSUME NEW n \in Nat, NEW S, 0 \in S, \A k \in 0 .. n : k # n /\ k \in S => k + 1 \in S
  PROVE  \A k \in 0 .. n : k \in S
<1> SUFFICES ASSUME NEW m \in 0 .. n, m \notin S PROVE FALSE
  OBVIOUS
<1> DEFINE T == S \cap (0 .. m)
           f == [k \in T |-> k + 1]
<1>1. IsFiniteSet(0 .. m)
  BY FS_Interval
<1>2. T \in SUBSET (0 .. m)
  OBVIOUS
<1>3. IsFiniteSet(T) /\ 0 \in T
  BY <1>1, <1>2, FS_Subset
<1>4. IsFiniteSet(T \ {0}) /\ Cardinality(T \ {0}) = Cardinality(T) - 1
      /\ Cardinality(T) \in Nat
  BY <1>3, FS_RemoveElement, FS_CardinalityType
<1>5. \A k \in T : k + 1 \in T \ {0}
  OBVIOUS
<1>6. f \in [T -> T \ {0}]
  BY <1>5
<1>7. \A x, y \in T : f[x] = f[y] => x = y
  OBVIOUS
<1> HIDE DEF f, T
<1>8. Cardinality(T \ {0}) < Cardinality(T)
  BY <1>4
<1>9. \E x, y \in T : x # y /\ f[x] = f[y]
  BY <1>3, <1>4, <1>6, <1>8, FS_PigeonHole
<1> QED
  BY <1>7, <1>9

(* Of some teams one is the largest, by any measure that is bounded.       *)
LEMMA LargestExists ==
  ASSUME NEW n \in Nat, NEW L, L # {}, NEW f, \A t \in L : f[t] \in 0 .. n
  PROVE  \E t \in L : \A u \in L : f[u] <= f[t]
<1> SUFFICES ASSUME \A t \in L : \E u \in L : ~ (f[u] <= f[t]) PROVE FALSE
  OBVIOUS
<1> DEFINE S == {k \in 0 .. n + 1 : \E t \in L : f[t] >= k}
<1>1. 0 \in S
  OBVIOUS
<1>2. ASSUME NEW k \in 0 .. n + 1, k # n + 1, k \in S PROVE k + 1 \in S
  <2>1. PICK t \in L : f[t] >= k
    BY <1>2
  <2>2. PICK u \in L : ~ (f[u] <= f[t])
    OBVIOUS
  <2>3. f[u] >= k + 1
    BY <2>1, <2>2
  <2> QED
    BY <1>2, <2>3
<1> HIDE DEF S
<1>3. \A k \in 0 .. n + 1 : k \in S
  <2>1. n + 1 \in Nat /\ \A k \in 0 .. n + 1 : k # n + 1 /\ k \in S => k + 1 \in S
    BY <1>2
  <2> HIDE DEF S
  <2> QED
    BY <1>1, <2>1, SetInduction
<1>4. n + 1 \in S
  BY <1>3
<1> QED
  BY <1>4 DEF S

(* No team has more members than there are players.                        *)
LEMMA SizeBounded ==
  ASSUME NEW cur, NEW t
  PROVE  Cardinality(Player) \in Nat /\ Size(cur, t) \in 0 .. Cardinality(Player)
<1>1. IsFiniteSet(Player) /\ Members(cur, t) \in SUBSET Player
  BY TeamsAssumption DEF Members
<1>2. Cardinality(Members(cur, t)) <= Cardinality(Player) /\ Cardinality(Player) \in Nat
  BY <1>1, FS_Subset, FS_CardinalityType
<1> QED
  BY <1>2, SizeInNat DEF Size

(* There is a largest team, if there is any.                               *)
LEMMA LargestTeam ==
  ASSUME Listed(current) # {}
  PROVE  \E t \in Largest : \A u \in Listed(current) : Size(current, u) <= Size(current, t)
<1> DEFINE f == [t \in Listed(current) |-> Size(current, t)]
<1>1. \A t \in Listed(current) : f[t] = Size(current, t)
  OBVIOUS
<1> HIDE DEF f
<1>2. Cardinality(Player) \in Nat /\ \A t \in Listed(current) : f[t] \in 0 .. Cardinality(Player)
  BY <1>1, SizeBounded
<1>3. \E t \in Listed(current) : \A u \in Listed(current) : f[u] <= f[t]
  BY <1>2, LargestExists
<1>4. \E t \in Listed(current) : \A u \in Listed(current) : Size(current, u) <= Size(current, t)
  BY <1>1, <1>3
<1> QED
  BY <1>4 DEF Largest

(* There is a smallest open team, if there is any.                         *)
LEMMA SmallestTeam ==
  ASSUME Open # {}
  PROVE  \E t \in Smallest : \A u \in Open : Size(current, t) <= Size(current, u)
<1> DEFINE n == Cardinality(Player)
           f == [t \in Open |-> n - Size(current, t)]
<1>1. \A t \in Open : f[t] = n - Size(current, t)
  OBVIOUS
<1>2. n \in Nat /\ \A t \in Open : Size(current, t) \in 0 .. n
  BY SizeBounded
<1> HIDE DEF f, n
<1>3. \A t \in Open : f[t] \in 0 .. n
  BY <1>1, <1>2
<1>4. \E t \in Open : \A u \in Open : f[u] <= f[t]
  BY <1>2, <1>3, LargestExists
<1>5. \E t \in Open : \A u \in Open : Size(current, t) <= Size(current, u)
  BY <1>1, <1>2, <1>4
<1> QED
  BY <1>5 DEF Smallest

(* What Enforce compares, the largest and the smallest team, is enough.    *)
LEMMA BalancedWithinLimits ==
  ASSUME Inv, Balanced
  PROVE  /\ Cardinality(Listed(current)) <= MaxTeams \/ Open = {}
         /\ \A t \in Team : Size(current, t) <= MaxPlayers
         /\ \A t \in Team, u \in Open :
              Size(current, t) <= Size(current, u) + MaxImbalance
<1>1. /\ MaxTeams \in Nat /\ MaxPlayers \in Nat /\ MaxImbalance \in Nat
      /\ \A t : Size(current, t) \in Nat
  BY SizeInNat, TeamsAssumption
<1>2. Cardinality(Listed(current)) <= MaxTeams \/ Open = {}
  <2>1. Listed(current) \in SUBSET Team
    BY DEF Listed
  <2>2. Cardinality(Listed(current)) \in Nat
    BY <2>1, FS_Subset, FS_CardinalityType, TeamsAssumption
  <2> QED
    BY <1>1, <2>2 DEF Balanced, TooMany
<1>3. \A t \in Team \ Listed(current) : Size(current, t) = 0
  BY FS_EmptySet DEF Listed, Size
<1>4. \A t \in Team : Size(current, t) <= MaxPlayers
  <2>1. ASSUME NEW t \in Listed(current) PROVE Size(current, t) <= MaxPlayers
    <3>1. PICK l \in Largest : Size(current, t) <= Size(current, l)
      BY LargestTeam
    <3>2. Size(current, l) <= MaxPlayers
      BY <1>1, <3>1 DEF Balanced, TooLarge
    <3> QED
      BY <1>1, <3>1, <3>2
  <2> QED
    BY <1>1, <1>3, <2>1
<1>5. ASSUME NEW t \in Team, NEW u \in Open
      PROVE  Size(current, t) <= Size(current, u) + MaxImbalance
  <2>1. CASE t \notin Listed(current)
    BY <1>1, <1>3, <2>1
  <2>2. CASE t \in Listed(current)
    <3>1. PICK l \in Largest : Size(current, t) <= Size(current, l)
      BY <2>2, LargestTeam
    <3>2. PICK v \in Smallest : Size(current, v) <= Size(current, u)
      BY SmallestTeam
    <3>3. Size(current, v) < MaxPlayers => Size(current, l) <= Size(current, v) + MaxImbalance
      BY <1>1, <3>1, <3>2 DEF Balanced, Unbalanced
    <3>4. Size(current, t) <= MaxPlayers
      BY <1>4
    <3>5. /\ Size(current, t) \in Nat /\ Size(current, l) \in Nat
          /\ Size(current, v) \in Nat /\ Size(current, u) \in Nat
      BY <1>1
    <3> QED
      BY <1>1, <3>1, <3>2, <3>3, <3>4, <3>5
  <2> QED
    BY <2>1, <2>2
<1> QED
  BY <1>2, <1>4, <1>5

(* Enforce gives up although there are teams to balance, and no suspended  *)
(* player keeps them from being balanced.                                  *)
GivesUpEarly ==
  tries = GiveUp /\ ~ Balanced /\ ~ \E p \in suspended : current[p] # None

(* Rounds start within the limits, for any number of players and teams,    *)
(* unless eTeam::Enforce, which stops after some rounds in any case, stops *)
(* too early: its comparing the largest and the smallest team is enough    *)
(* for all of them.  Whether its rounds are enough is left to TLC.         *)
THEOREM BalancedUnlessGivenUp ==
  Spec => ([]~GivesUpEarly => RoundsStartBalanced)
<1>1. Inv /\ ~GivesUpEarly /\ [Next]_vars =>
        [phase = "enforce" /\ phase' = "play" =>
          \/ \E p \in suspended : current[p] # None
          \/ /\ Cardinality(Listed(current)) <= MaxTeams \/ Open = {}
             /\ \A t \in Team : Size(current, t) <= MaxPlayers
             /\ \A t \in Team, u \in Open :
                    Size(current, t) <= Size(current, u) + MaxImbalance]_vars
  <2> SUFFICES ASSUME Inv, ~GivesUpEarly, Next, phase = "enforce", phase' = "play",
                      ~ \E p \in suspended : current[p] # None
               PROVE  Balanced
    BY BalancedWithinLimits
  <2>1. StartRound
    BY EnforcePhase DEF Enforce, Dissolve
  <2> QED
    BY <2>1 DEF StartRound, GivesUpEarly
<1> QED
  BY <1>1, InvAlways, PTL DEF Spec, RoundsStartBalanced
=============================================================================
