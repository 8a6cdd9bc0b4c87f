-------------------------- MODULE CycleTurns_proofs --------------------------
(***************************************************************************)
(* Proofs about CycleTurns, for any number of destinations and whatever    *)
(* order they arrive in: type correctness, that the server executes        *)
(* destinations in their order and none twice, and that it drives as the   *)
(* client did as long as nobody gives up waiting.                          *)
(***************************************************************************)
EXTENDS CycleTurns, SequenceTheorems, WellFoundedInduction, TLAPS

(* The types, without the history variable.                                *)
Types ==
  /\ cycle \in Drivers
  /\ pending \in Seq({-1, 1}) /\ Len(pending) <= MaxCommands
  /\ commands \in Seq(Commands) /\ Len(commands) <= MaxCommands
  /\ sim \in Followers \cup {None}
  /\ inFlight \subseteq 1 .. Len(commands)
  /\ sync \in Syncs \cup {None}
  /\ server \in Followers
  /\ list \subseteq 1 .. Len(commands) /\ used \subseteq list

(* A destination arrives once, and followers follow those there are.       *)
Consistent ==
  /\ inFlight \cap list = {}
  /\ sim # None => sim.current <= Len(commands)

Core == Types /\ InOrder /\ Consistent
Inv  == Core /\ gaveUp \in BOOLEAN

(* The step inside OnlyForward.                                            *)
Forward == server'.last # server.last => server'.last > server.last

(* A set of natural numbers has a least one.                               *)
LEMMA LeastNumber ==
  ASSUME NEW S \in SUBSET Nat, S # {}
  PROVE  \E m \in S : \A n \in S : m <= n
<1> DEFINE Less == {ss \in Nat \X Nat : ss[1] < ss[2]}
<1>1. IsWellFoundedOn(Less, Nat)
  BY NatLessThanWellFounded DEF OpToRel
<1> HIDE DEF Less
<1>2. PICK m \in S : \A n \in S : <<n, m>> \notin Less
  BY <1>1, WFMin
<1>3. ASSUME NEW n \in S PROVE m <= n
  <2>1. m \in Nat /\ n \in Nat /\ <<n, m>> \notin Less
    BY <1>2
  <2>2. ~ (n < m)
    BY <2>1, Zenon DEF Less
  <2> QED
    BY <2>1, <2>2
<1> QED
  BY <1>3

(* The number after i in a list of destinations.                           *)
LEMMA NextInList ==
  ASSUME NEW l \in SUBSET Nat, NEW i \in Nat, \E j \in l : j > i
  PROVE  /\ NextIn(l, i) \in l /\ NextIn(l, i) > i
         /\ \A j \in l : j > i => NextIn(l, i) <= j
<1> DEFINE S == {j \in l : j > i}
<1>1. S \in SUBSET Nat /\ S # {}
  OBVIOUS
<1>2. \E m \in S : \A n \in S : m <= n
  BY <1>1, LeastNumber
<1>3. Min(S) \in S /\ \A n \in S : Min(S) <= n
  BY <1>2 DEF Min
<1>4. NextIn(l, i) = Min(S)
  BY <1>1 DEF NextIn
<1> QED
  BY <1>3, <1>4

LEMMA NextInNone ==
  ASSUME NEW l, NEW i, ~ \E j \in l : j > i
  PROVE  NextIn(l, i) = 0
BY DEF NextIn

LEMMA NextInOrZero ==
  ASSUME NEW l \in SUBSET Nat, NEW i \in Nat
  PROVE  NextIn(l, i) \in l \/ NextIn(l, i) = 0
<1>1. CASE \E j \in l : j > i
  BY <1>1, NextInList
<1>2. CASE ~ \E j \in l : j > i
  BY <1>2, NextInNone
<1> QED
  BY <1>1, <1>2

(* The greater one of two numbers.                                         *)
LEMMA MaxOfTwo ==
  ASSUME NEW a \in Int, NEW b \in Int
  PROVE  Max({a, b}) \in {a, b} /\ Max({a, b}) >= a /\ Max({a, b}) >= b
<1>1. \E m \in {a, b} : \A n \in {a, b} : m >= n
  OBVIOUS
<1> QED
  BY <1>1 DEF Max

-----------------------------------------------------------------------------
(* What the functions of a turn return.                                    *)
LEMMA Bounds == MaxCommands \in Nat /\ MaxTurns \in Nat \ {0}
BY TurnsAssumption

LEMMA NumberType ==
  ASSUME NEW l \in SUBSET (1 .. MaxCommands), NEW i \in Nat
  PROVE  NextIn(l, i) \in Numbers
<1>1. l \in SUBSET Nat /\ 1 .. MaxCommands \subseteq Numbers /\ 0 \in Numbers
  BY Bounds DEF Numbers
<1>2. CASE \E j \in l : j > i
  <2>1. NextIn(l, i) \in l
    BY <1>1, <1>2, NextInList
  <2> QED
    BY <1>1, <2>1
<1>3. CASE ~ \E j \in l : j > i
  BY <1>1, <1>3, NextInNone
<1> QED
  BY <1>2, <1>3

LEMMA CountType ==
  ASSUME NEW n \in 1 .. MaxTurns
  PROVE  CountTurn(n) \in 1 .. MaxTurns
BY Bounds DEF CountTurn

LEMMA TurnedDriver ==
  ASSUME NEW d \in Drivers, NEW side \in {-1, 0, 1}
  PROVE  Turned(d, side) \in Drivers
<1>1. (d.heading + side) % 4 \in 0 .. 3
  BY DEF Drivers, Headings
<1> QED
  BY <1>1, CountType DEF Turned, Drivers, Headings

LEMMA TurnedFollower ==
  ASSUME NEW f \in Followers, NEW side \in {-1, 0, 1}
  PROVE  /\ Turned(f, side) \in Followers
         /\ Turned(f, side).current = f.current /\ Turned(f, side).last = f.last
<1>1. (f.heading + side) % 4 \in 0 .. 3
  BY DEF Followers, Headings
<1> QED
  BY <1>1, CountType DEF Turned, Followers, Headings

LEMMA AdvanceType ==
  ASSUME NEW f \in Followers, NEW i \in Numbers, NEW l \in SUBSET (1 .. MaxCommands)
  PROVE  /\ Advance(f, i, l) \in Followers
         /\ Advance(f, i, l).last = i /\ Advance(f, i, l).current = NextIn(l, i)
<1>1. NextIn(l, i) \in Numbers
  BY NumberType DEF Numbers
<1> QED
  BY <1>1 DEF Advance, Followers

LEMMA FollowType ==
  ASSUME NEW f \in Followers, NEW i, commands[i] \in Commands
  PROVE  /\ Follow(f, i) \in Followers
         /\ Follow(f, i).current = f.current /\ Follow(f, i).last = f.last
<1>1. SideOf(f, i) \in {-1, 0, 1}
  BY DEF SideOf
<1>2. CASE SideOf(f, i) # 0
  BY <1>1, <1>2, TurnedFollower DEF Follow
<1>3. CASE SideOf(f, i) = 0
  <2>1. commands[i].braking \in BOOLEAN
    BY DEF Commands
  <2> QED
    BY <1>3, <2>1 DEF Follow, Followers
<1> QED
  BY <1>2, <1>3

LEMMA CaughtUpType ==
  ASSUME NEW f \in Followers, NEW i, commands[i] \in Commands
  PROVE  /\ CaughtUp(f, i) \in Followers
         /\ CaughtUp(f, i).current = f.current /\ CaughtUp(f, i).last = f.last
<1>1. f.turns \in 1 .. MaxTurns /\ commands[i].turns \in 1 .. MaxTurns
  BY DEF Followers, Commands
<1> DEFINE a == f.turns
           b == commands[i].turns - 1
<1>2. a \in 1 .. MaxTurns /\ b \in 0 .. MaxTurns /\ a \in Int /\ b \in Int
  BY <1>1, Bounds
<1> HIDE DEF a, b
<1>3. Max({a, b}) \in 1 .. MaxTurns
  BY <1>2, MaxOfTwo, Bounds
<1> QED
  BY <1>3 DEF CaughtUp, Followers, a, b

LEMMA GivenUpType ==
  ASSUME NEW f \in Followers, NEW i \in Numbers, commands[i] \in Commands,
         NEW l \in SUBSET (1 .. MaxCommands), NEW g \in GivenUp(f, i, l)
  PROVE  /\ g \in Followers
         /\ \/ g.last = i /\ g.current = NextIn(l, i)
            \/ g.last = f.last /\ g.current = f.current
<1> DEFINE h == CaughtUp(f, i)
<1>1. h \in Followers /\ h.current = f.current /\ h.last = f.last
  BY CaughtUpType
<1>2. g \in {h} \cup Improvised(h, i, l)
  BY DEF GivenUp
<1> HIDE DEF h
<1>3. CASE g = h
  BY <1>1, <1>3
<1>4. ASSUME NEW s \in Guesses(h, i), g = Turned(h, s)
      PROVE  g \in Followers /\ g.last = f.last /\ g.current = f.current
  <2>1. s \in {-1, 0, 1}
    BY DEF Guesses
  <2> QED
    BY <1>1, <1>4, <2>1, TurnedFollower
<1>5. CASE g = Advance(h, i, l)
  BY <1>1, <1>5, AdvanceType
<1> QED
  BY <1>2, <1>3, <1>4, <1>5 DEF Improvised

-----------------------------------------------------------------------------
(* The server.                                                             *)

(* The current destination is the first that has not been used.            *)
LEMMA CurrentIsFirst ==
  ASSUME Core, server.current # 0
  PROVE  /\ server.current \in list \ used
         /\ \A j \in list \ used : server.current <= j
<1> DEFINE L == list \ used
<1>1. L \in SUBSET Nat /\ \A j \in L : j > 0
  BY DEF Core, Types
<1>2. server.current = NextIn(L, 0)
  BY DEF Core, InOrder
<1> HIDE DEF L
<1>3. \E j \in L : j > 0
  BY <1>2, NextInNone
<1>4. server.current \in L /\ \A j \in L : server.current <= j
  BY <1>1, <1>2, <1>3, NextInList
<1> QED
  BY <1>4 DEF L

LEMMA NothingLeft ==
  ASSUME Core, server.current = 0
  PROVE  list \ used = {}
<1> DEFINE L == list \ used
<1>1. L \in SUBSET Nat /\ \A j \in L : j > 0
  BY DEF Core, Types
<1>2. NextIn(L, 0) = 0
  BY DEF Core, InOrder
<1> HIDE DEF L
<1>3. ~ \E j \in L : j > 0
  BY <1>1, <1>2, NextInList
<1> QED
  BY <1>1, <1>3 DEF L

(* What is first in a set is next after 0.                                 *)
LEMMA FirstIsNext ==
  ASSUME NEW l \in SUBSET Nat, \A j \in l : j > 0,
         NEW i \in l, \A j \in l : i <= j
  PROVE  NextIn(l, 0) = i
<1>1. \E j \in l : j > 0
  OBVIOUS
<1>2. /\ NextIn(l, 0) \in l
      /\ \A j \in l : j > 0 => NextIn(l, 0) <= j
  BY <1>1, NextInList
<1> DEFINE n == NextIn(l, 0)
<1>3. n \in Nat /\ i \in Nat /\ n <= i /\ i <= n
  BY <1>2
<1> QED
  BY <1>3

(* Using the first destination leaves the one after it as the first.       *)
LEMMA NextAfterFirst ==
  ASSUME NEW l \in SUBSET Nat, \A j \in l : j > 0,
         NEW i \in l, \A j \in l : i <= j
  PROVE  NextIn(l, i) = NextIn(l \ {i}, 0)
<1>1. \A j \in l : j > i <=> j \in l \ {i} /\ j > 0
  OBVIOUS
<1>2. {j \in l : j > i} = {j \in l \ {i} : j > 0}
  BY <1>1
<1>3. (\E j \in l : j > i) <=> (\E j \in l \ {i} : j > 0)
  BY <1>1
<1> QED
  BY <1>2, <1>3 DEF NextIn

LEMMA UseUpCore ==
  ASSUME Core, server.current # 0,
         NEW f \in Followers, UseUp(f, server.current),
         UNCHANGED <<client, network>>
  PROVE  Core' /\ Forward
<1> DEFINE i == server.current
           L == list \ used
           u == used \cup {i}
           g == Advance(f, i, L)
           deleted == {j \in list : \A k \in list :
                         k <= j => k \in u /\ k \notin {g.current, g.last}}
<1>1. server' = g /\ used' = u \ deleted /\ list' = list \ deleted
  BY DEF UseUp
<1>2. i \in L /\ \A j \in L : i <= j
  BY CurrentIsFirst
<1>3. /\ list \in SUBSET Nat /\ used \subseteq list /\ list \subseteq 1 .. MaxCommands
      /\ list \subseteq 1 .. Len(commands)
      /\ \A j \in list : j > 0
  BY Bounds DEF Core, Types
<1>4. i \in Nat /\ i > 0 /\ L \in SUBSET Nat /\ \A j \in L : j > 0
  BY <1>2, <1>3
<1>a. i \in 1 .. MaxCommands /\ L \in SUBSET (1 .. MaxCommands)
  BY <1>2, <1>3
<1>b. i \in Numbers
  BY <1>a, Bounds DEF Numbers
<1>5. g \in Followers /\ g.last = i /\ g.current = NextIn(L, i)
  BY <1>a, <1>b, AdvanceType
<1>6. deleted \subseteq u /\ deleted \subseteq list /\ i \notin deleted
  BY <1>2, <1>3, <1>5
<1> HIDE DEF g, deleted
<1>7. list' \ used' = L \ {i}
  BY <1>1, <1>6
<1>8. NextIn(L, i) = NextIn(L \ {i}, 0)
  BY <1>2, <1>4, NextAfterFirst
<1>9. \A a \in used, b \in L : a < b
  BY DEF Core, InOrder
<1>10. i \in used' /\ \A a \in used' : a <= i
  BY <1>1, <1>2, <1>3, <1>4, <1>6, <1>9
<1>11. \A a \in used', b \in L \ {i} : a < b
  <2>1. ASSUME NEW a \in used', NEW b \in L \ {i} PROVE a < b
    <3>1. a \in Nat /\ b \in Nat /\ i \in Nat /\ a <= i /\ i <= b /\ b # i
      BY <1>1, <1>2, <1>3, <1>4, <1>10
    <3> QED
      BY <3>1
  <2> QED
    BY <2>1
<1>12. InOrder'
  <2>1. server'.current = NextIn(L \ {i}, 0) /\ server'.last = i
    BY <1>1, <1>5, <1>8
  <2>2. server'.current = NextIn(list' \ used', 0)
    BY <1>7, <2>1
  <2>3. \A a \in used', b \in list' \ used' : a < b
    BY <1>7, <1>11
  <2>4. server'.last # 0 /\ server'.last \in used'
        /\ \A a \in used' : a <= server'.last
    BY <1>4, <1>10, <2>1
  <2> QED
    BY <2>2, <2>3, <2>4 DEF InOrder
<1>13. Types'
  <2>1. server' \in Followers
    BY <1>1, <1>5
  <2>2. list' \subseteq 1 .. Len(commands) /\ used' \subseteq list'
    BY <1>1, <1>2, <1>3, <1>6
  <2> QED
    BY <2>1, <2>2 DEF Core, Types, client, network
<1>14. Consistent'
  BY <1>1 DEF Core, Consistent, client, network
<1>15. Forward
  <2>1. server.last = 0 \/ server.last \in used
    BY DEF Core, InOrder
  <2>2. server'.last = i
    BY <1>1, <1>5
  <2> QED
    BY <1>2, <1>3, <1>4, <1>9, <2>1, <2>2 DEF Forward
<1> QED
  BY <1>12, <1>13, <1>14, <1>15 DEF Core

LEMMA UseDestinationCore ==
  ASSUME Core, UseDestination
  PROVE  Core' /\ Forward
<1> DEFINE i == server.current
<1>1. /\ i # 0 /\ UseUp(Follow(server, i), i)
      /\ UNCHANGED <<client, network>>
  BY DEF UseDestination
<1>2. server \in Followers /\ commands \in Seq(Commands) /\ i \in 1 .. Len(commands)
  BY <1>1, CurrentIsFirst DEF Core, Types
<1>3. Follow(server, i) \in Followers
  BY <1>2, FollowType
<1> QED
  BY <1>1, <1>3, UseUpCore

LEMMA LosePatienceCore ==
  ASSUME Core, LosePatience
  PROVE  Core' /\ Forward
<1> DEFINE i == server.current
<1>1. PICK f \in GivenUp(server, i, list \ used) :
        IF f.last = i THEN UseUp(f, i) ELSE server' = f /\ UNCHANGED <<list, used>>
  BY DEF LosePatience
<1>2. i # 0 /\ UNCHANGED <<client, network>>
  BY DEF LosePatience
<1>3. /\ server \in Followers /\ commands \in Seq(Commands)
      /\ i \in 1 .. Len(commands) /\ Len(commands) <= MaxCommands
      /\ list \ used \subseteq 1 .. Len(commands)
  BY <1>2, CurrentIsFirst DEF Core, Types
<1>a. i \in Numbers /\ list \ used \in SUBSET (1 .. MaxCommands)
  BY <1>3, Bounds DEF Numbers
<1>b. commands[i] \in Commands
  BY <1>3
<1> HIDE DEF i
<1>4. /\ f \in Followers
      /\ \/ f.last = i
         \/ f.last = server.last /\ f.current = server.current
  BY <1>3, <1>a, <1>b, GivenUpType
<1>5. CASE f.last = i
  BY <1>1, <1>2, <1>4, <1>5, UseUpCore DEF i
<1>6. CASE f.last # i
  <2>1. /\ server'.current = server.current /\ server'.last = server.last
        /\ server' \in Followers /\ UNCHANGED <<list, used>>
    BY <1>1, <1>4, <1>6
  <2>2. InOrder'
    BY <2>1 DEF Core, InOrder
  <2>3. Types' /\ Consistent'
    BY <1>2, <2>1 DEF Core, Types, Consistent, client, network
  <2> QED
    BY <2>1, <2>2, <2>3 DEF Core, Forward
<1> QED
  BY <1>5, <1>6

(* A destination that comes before the current one takes its place.        *)
LEMMA ReceiveDestinationCore ==
  ASSUME Core, NEW i \in 1 .. MaxCommands, ReceiveDestination(i)
  PROVE  Core' /\ Forward
<1>1. /\ i \in inFlight /\ inFlight' = inFlight \ {i}
      /\ UNCHANGED <<client, sync, used>>
  BY DEF ReceiveDestination
<1>2. /\ list \in SUBSET Nat /\ used \subseteq list /\ i \notin list
      /\ i \in 1 .. Len(commands) /\ list \subseteq 1 .. Len(commands)
      /\ i \in Nat /\ i > 0 /\ \A j \in list : j > 0
  BY <1>1 DEF Core, Types, Consistent
<1>3. CASE TooLate(i)
  <2>1. UNCHANGED <<server, list>>
    BY <1>3 DEF ReceiveDestination
  <2> QED
    BY <1>1, <2>1
       DEF Core, Types, InOrder, Consistent, Forward, client
<1>4. CASE ~ TooLate(i)
  <2> DEFINE L == list \ used
             M == L \cup {i}
             n == NextIn(list, i)
             c == server.current
  <2>1. /\ list' = list \cup {i}
        /\ server' = [server EXCEPT !.current = CurrentAfter(i)]
    BY <1>4 DEF ReceiveDestination
  <2>2. server \in Followers
    BY DEF Core, Types
  <2>3. /\ server' \in Followers /\ server'.last = server.last
        /\ server'.current = CurrentAfter(i)
    <3>1. CurrentAfter(i) \in Numbers
      BY <2>2, Bounds DEF CurrentAfter, Followers, Numbers
    <3> QED
      BY <2>1, <2>2, <3>1 DEF Followers
  <2>4. list' \ used' = M
    BY <1>1, <1>2, <2>1
  <2>5. \A a \in used, b \in L : a < b
    BY DEF Core, InOrder
  <2>6. n \notin used
    BY <1>4 DEF TooLate
  <2>7. (\E j \in list : j > i)
          => n \in L /\ n > i /\ \A j \in list : j > i => n <= j
    BY <1>2, <2>6, NextInList
  <2>8. (~ \E j \in list : j > i) => n = 0
    BY NextInNone
  <2> HIDE DEF n
  <2>9. ASSUME NEW a \in used PROVE a < i
    <3>1. a \in Nat /\ a \in list /\ a # i
      BY <1>2
    <3>2. CASE a > i
      <4>1. n \in L /\ n <= a /\ n \in Nat
        BY <1>2, <2>7, <3>1, <3>2
      <4> QED
        BY <2>5, <3>1, <4>1
    <3> QED
      BY <1>2, <3>1, <3>2
  <2>10. \A a \in used', b \in M : a < b
    BY <1>1, <2>5, <2>9
  <2>11. M \in SUBSET Nat /\ \A j \in M : j > 0
    BY <1>2
  <2>12. CurrentAfter(i) \in M /\ \A j \in M : CurrentAfter(i) <= j
    <3>1. CASE c = 0
      <4>1. L = {} /\ CurrentAfter(i) = i
        BY <3>1, NothingLeft DEF CurrentAfter
      <4> QED
        BY <1>2, <4>1
    <3>2. CASE c # 0 /\ c = n
      <4>1. c \in L /\ (\A j \in L : c <= j) /\ CurrentAfter(i) = i
        BY <3>2, CurrentIsFirst DEF CurrentAfter, n
      <4>2. c > i
        BY <2>7, <2>8, <3>2
      <4>3. ASSUME NEW j \in L PROVE i <= j
        <5>1. c \in Nat /\ j \in Nat /\ c <= j
          BY <1>2, <4>1
        <5> QED
          BY <1>2, <4>2, <5>1
      <4> QED
        BY <1>2, <4>1, <4>3
    <3>3. CASE c # 0 /\ c # n
      <4>1. c \in L /\ (\A j \in L : c <= j) /\ CurrentAfter(i) = c
        BY <3>3, CurrentIsFirst DEF CurrentAfter, n
      <4>2. c \in Nat /\ c \in list /\ c # i
        BY <1>2, <4>1
      <4>3. c < i
        <5>1. CASE c > i
          <6>1. n \in L /\ n \in Nat /\ n <= c /\ c <= n
            BY <1>2, <2>7, <4>1, <4>2, <5>1
          <6> QED
            BY <3>3, <4>2, <6>1
        <5> QED
          BY <1>2, <4>2, <5>1
      <4> QED
        BY <1>2, <4>1, <4>2, <4>3
    <3> QED
      BY <3>1, <3>2, <3>3
  <2>13. NextIn(M, 0) = CurrentAfter(i)
    BY <2>11, <2>12, FirstIsNext
  <2> HIDE DEF L, M, c
  <2>14. InOrder'
    <3>1. server'.current = NextIn(list' \ used', 0)
      BY <2>3, <2>4, <2>13
    <3>2. \A a \in used', b \in list' \ used' : a < b
      BY <2>4, <2>10
    <3>3. IF server'.last = 0 THEN used' = {}
          ELSE server'.last \in used' /\ \A a \in used' : a <= server'.last
      BY <1>1, <2>3 DEF Core, InOrder
    <3> QED
      BY <3>1, <3>2, <3>3 DEF InOrder
  <2>15. Types'
    BY <1>1, <1>2, <2>1, <2>3 DEF Core, Types, client
  <2>16. Consistent'
    BY <1>1, <2>1 DEF Core, Consistent, client
  <2> QED
    BY <2>3, <2>14, <2>15, <2>16 DEF Core, Forward
<1> QED
  BY <1>3, <1>4

LEMMA WriteSyncCore ==
  ASSUME Core, WriteSync
  PROVE  Core' /\ Forward
<1>1. UNCHANGED <<client, inFlight, serverv>>
  BY DEF WriteSync
<1>2. server \in Followers
  BY DEF Core, Types
<1>3. sync' \in Syncs
  BY <1>2 DEF WriteSync, Followers, Syncs
<1> QED
  BY <1>1, <1>3
     DEF Core, Types, InOrder, Consistent, Forward, client, serverv

-----------------------------------------------------------------------------
(* The client.                                                             *)

(* What a step has to keep that leaves the server and what it has alone.   *)
LEMMA ClientCore ==
  ASSUME Core, UNCHANGED serverv, Types', Consistent'
  PROVE  Core' /\ Forward
BY DEF Core, InOrder, Forward, serverv

LEMMA AddDestinationTypes ==
  ASSUME Core, NEW d \in Drivers, AddDestination(d), UNCHANGED <<sync, serverv>>,
         pending' \in Seq({-1, 1}), Len(pending') <= MaxCommands
  PROVE  Types' /\ Consistent'
<1> DEFINE n == Len(commands)
<1>1. /\ commands \in Seq(Commands) /\ n \in Nat /\ n < MaxCommands
      /\ sim \in Followers \cup {None} /\ inFlight \subseteq 1 .. n
      /\ list \subseteq 1 .. n
  BY DEF Core, Types, AddDestination
<1>2. PICK adjacent \in AdjacentIds[n + 1] :
        commands' = Append(commands,
          [heading |-> d.heading, braking |-> d.braking, turns |-> d.turns,
           adjacent |-> adjacent])
  BY DEF AddDestination
<1>3. adjacent \in BOOLEAN
  <2>1. n + 1 \in 1 .. MaxCommands
    BY <1>1, Bounds
  <2>2. AdjacentIds[n + 1] \in SUBSET BOOLEAN
    BY <2>1, TurnsAssumption
  <2> QED
    BY <2>2
<1>4. [heading |-> d.heading, braking |-> d.braking, turns |-> d.turns,
       adjacent |-> adjacent] \in Commands
  BY <1>3 DEF Drivers, Commands
<1>5. commands' \in Seq(Commands) /\ Len(commands') = n + 1
  BY <1>1, <1>2, <1>4
<1>6. inFlight' = inFlight \cup {n + 1} /\ cycle' = d
      /\ sim' = IF sim # None /\ sim.current = 0
                THEN [sim EXCEPT !.current = n + 1] ELSE sim
  BY DEF AddDestination
<1> HIDE DEF n
<1>7. inFlight' \subseteq 1 .. Len(commands') /\ inFlight' \cap list' = {}
  BY <1>1, <1>5, <1>6 DEF Core, Consistent, serverv
<1>8. sim' \in Followers \cup {None}
  <2>1. n + 1 \in Numbers
    BY <1>1, Bounds DEF Numbers
  <2> QED
    BY <1>1, <1>6, <2>1 DEF Followers
<1>9. sim' # None => sim'.current <= Len(commands')
  <2>1. CASE sim # None /\ sim.current = 0
    <3>1. sim'.current = n + 1
      BY <1>1, <1>6, <2>1 DEF Followers
    <3> QED
      BY <1>1, <1>5, <3>1
  <2>2. CASE ~ (sim # None /\ sim.current = 0)
    <3>1. sim' = sim
      BY <1>6, <2>2
    <3>2. ASSUME sim # None PROVE sim.current <= n + 1
      <4>1. sim.current \in Nat /\ sim.current <= n
        BY <1>1, <3>2, Bounds DEF Core, Consistent, Followers, Numbers, n
      <4> QED
        BY <1>1, <4>1
    <3> QED
      BY <1>5, <3>1, <3>2
  <2> QED
    BY <2>1, <2>2
<1>10. list' \subseteq 1 .. Len(commands') /\ used' \subseteq list'
  BY <1>1, <1>5 DEF Core, Types, serverv
<1>11. Len(commands') <= MaxCommands
  BY <1>1, <1>5, Bounds
<1> QED
  BY <1>5, <1>6, <1>7, <1>8, <1>9, <1>10, <1>11
     DEF Core, Types, Consistent, serverv

LEMMA PressCore ==
  ASSUME Core, NEW side \in Sides, Press(side)
  PROVE  Core' /\ Forward
<1>1. /\ side \in {-1, 1} /\ pending \in Seq({-1, 1})
      /\ commands \in Seq(Commands) /\ Len(commands) + Len(pending) < MaxCommands
      /\ UNCHANGED <<sync, serverv>>
  BY TurnsAssumption DEF Core, Types, Press
<1>2. CASE AddDestination(Turned(cycle, side)) /\ UNCHANGED pending
  <2>1. Turned(cycle, side) \in Drivers
    BY <1>1, TurnedDriver DEF Core, Types
  <2>2. pending' \in Seq({-1, 1}) /\ Len(pending') <= MaxCommands
    BY <1>2 DEF Core, Types
  <2> QED
    BY <1>1, <1>2, <2>1, <2>2, AddDestinationTypes, ClientCore
<1>3. CASE pending' = Queued(side) /\ UNCHANGED <<cycle, commands, inFlight, sim>>
  <2>1. Append(pending, side) \in Seq({-1, 1})
        /\ Len(Append(pending, side)) = Len(pending) + 1
    BY <1>1
  <2>2. pending # <<>> => /\ Front(pending) \in Seq({-1, 1})
                          /\ Len(Front(pending)) = Len(pending) - 1
    <3> SUFFICES ASSUME pending # <<>>
                 PROVE  /\ Front(pending) \in Seq({-1, 1})
                        /\ Len(Front(pending)) = Len(pending) - 1
      OBVIOUS
    <3> DEFINE k == Len(pending) - 1
    <3>1. k \in Nat /\ \A j \in 1 .. k : pending[j] \in {-1, 1}
      BY <1>1
    <3> HIDE DEF k
    <3>2. /\ SubSeq(pending, 1, k) \in Seq({-1, 1})
          /\ Len(SubSeq(pending, 1, k)) = IF 1 <= k THEN k - 1 + 1 ELSE 0
      BY <3>1, SubSeqProperties
    <3>3. Len(SubSeq(pending, 1, k)) = k
      BY <3>1, <3>2
    <3>4. Front(pending) = SubSeq(pending, 1, k)
      BY DEF Front, k
    <3> QED
      BY <3>2, <3>3, <3>4 DEF k
  <2>3. Len(pending) > TurnMemory => pending # <<>>
    BY <1>1, TurnsAssumption
  <2>4. pending' \in Seq({-1, 1}) /\ Len(pending') <= Len(pending) + 1
    BY <1>1, <1>3, <2>1, <2>2, <2>3 DEF Queued
  <2>5. Len(pending') <= MaxCommands
    BY <1>1, <2>4, Bounds
  <2> QED
    BY <1>1, <1>3, <2>4, <2>5, ClientCore
       DEF Core, Types, Consistent, serverv
<1> QED
  BY <1>2, <1>3 DEF Press

LEMMA TurnPendingCore ==
  ASSUME Core, TurnPending
  PROVE  Core' /\ Forward
<1>1. /\ pending \in Seq({-1, 1}) /\ pending # <<>>
      /\ Len(pending) <= MaxCommands
      /\ UNCHANGED <<sync, serverv>>
  BY DEF Core, Types, TurnPending
<1>2. /\ Head(pending) \in {-1, 1} /\ Tail(pending) \in Seq({-1, 1})
      /\ Len(Tail(pending)) <= MaxCommands
  BY <1>1, Bounds
<1>3. Turned(cycle, Head(pending)) \in Drivers
  BY <1>2, TurnedDriver DEF Core, Types
<1>4. AddDestination(Turned(cycle, Head(pending))) /\ pending' = Tail(pending)
  BY DEF TurnPending
<1> QED
  BY <1>1, <1>2, <1>3, <1>4, AddDestinationTypes, ClientCore

LEMMA BrakeCore ==
  ASSUME Core, Brake
  PROVE  Core' /\ Forward
<1>1. [cycle EXCEPT !.braking = ~ @] \in Drivers
  BY DEF Core, Types, Drivers
<1>2. pending' \in Seq({-1, 1}) /\ Len(pending') <= MaxCommands
  BY DEF Core, Types, Brake
<1> QED
  BY <1>1, <1>2, AddDestinationTypes, ClientCore DEF Brake

(* A replay starts somewhere in the client's list.                         *)
LEMMA ReadSyncCore ==
  ASSUME Core, ReadSync
  PROVE  Core' /\ Forward
<1> DEFINE l == 1 .. Len(commands)
           n == ReplayFrom(sync)
<1>1. sync \in Syncs /\ commands \in Seq(Commands) /\ Len(commands) <= MaxCommands
  BY DEF Core, Types, ReadSync
<1>2. l \in SUBSET Nat /\ l \in SUBSET (1 .. MaxCommands) /\ sync.last \in Nat
  BY <1>1, Bounds DEF Syncs, Numbers
<1>3. n = NextIn(l, sync.last)
  BY DEF ReplayFrom
<1>4. n \in Numbers
  BY <1>2, <1>3, NumberType
<1>5. n <= Len(commands)
  <2>1. n \in l \/ n = 0
    BY <1>2, <1>3, NextInOrZero
  <2> QED
    BY <1>1, <2>1
<1>6. /\ sim' = [heading |-> sync.heading, braking |-> sync.braking,
                 turns |-> sync.turns, current |-> n, last |-> 0]
      /\ sync' = None
      /\ UNCHANGED <<cycle, pending, commands, inFlight, serverv>>
  BY DEF ReadSync
<1> HIDE DEF n
<1>7. sim' \in Followers /\ sim'.current = n
  BY <1>1, <1>4, <1>6, Bounds DEF Syncs, Followers, Numbers
<1> QED
  BY <1>5, <1>6, <1>7, ClientCore DEF Core, Types, Consistent, serverv

LEMMA ExtrapolateCore ==
  ASSUME Core, Extrapolate
  PROVE  Core' /\ Forward
<1> DEFINE i == sim.current
           l == 1 .. Len(commands)
<1>1. /\ sim # None /\ i # 0 /\ sim \in Followers
      /\ commands \in Seq(Commands) /\ Len(commands) <= MaxCommands
      /\ i <= Len(commands)
      /\ UNCHANGED <<cycle, pending, commands, network, serverv>>
  BY DEF Core, Types, Consistent, Extrapolate
<1>2. i \in Numbers /\ i \in Nat /\ i \in 1 .. Len(commands)
  BY <1>1, Bounds DEF Followers, Numbers
<1>3. commands[i] \in Commands /\ l \in SUBSET (1 .. MaxCommands)
  BY <1>1, <1>2, Bounds
<1>4. sim' \in GivenUp(sim, i, l) \/ sim' = Advance(Follow(sim, i), i, l)
  BY DEF Extrapolate
<1> HIDE DEF i
<1>5. NextIn(l, i) \in l \/ NextIn(l, i) = 0
  <2>1. l \in SUBSET Nat
    BY <1>1
  <2> QED
    BY <1>2, <2>1, NextInOrZero
<1>6. /\ sim' \in Followers
      /\ sim'.current \in {i, NextIn(l, i)}
  <2>1. CASE sim' \in GivenUp(sim, i, l)
    BY <1>1, <1>2, <1>3, <2>1, GivenUpType DEF i
  <2>2. CASE sim' = Advance(Follow(sim, i), i, l)
    <3>1. Follow(sim, i) \in Followers
      BY <1>1, <1>3, FollowType
    <3> QED
      BY <1>2, <1>3, <2>2, <3>1, AdvanceType
  <2> QED
    BY <1>4, <2>1, <2>2
<1>7. sim'.current <= Len(commands)
  BY <1>1, <1>2, <1>5, <1>6
<1> QED
  BY <1>1, <1>6, <1>7, ClientCore
     DEF Core, Types, Consistent, network, serverv

LEMMA SyncFromExtrapolatorCore ==
  ASSUME Core, SyncFromExtrapolator
  PROVE  Core' /\ Forward
<1>1. /\ sim \in Followers /\ cycle \in Drivers /\ sim' = None
      /\ UNCHANGED <<pending, commands, network, serverv>>
  BY DEF Core, Types, SyncFromExtrapolator
<1>2. PICK t \in {cycle.turns, sim.turns} :
        cycle' = [cycle EXCEPT !.heading = sim.heading, !.turns = t]
  BY DEF SyncFromExtrapolator
<1>3. cycle' \in Drivers
  BY <1>1, <1>2 DEF Drivers, Followers
<1> QED
  BY <1>1, <1>3, ClientCore DEF Core, Types, Consistent, network, serverv

-----------------------------------------------------------------------------
(* The theorems.                                                           *)
LEMMA NextCore ==
  ASSUME Core, Next
  PROVE  Core' /\ Forward
BY PressCore, BrakeCore, TurnPendingCore, ReadSyncCore, ExtrapolateCore,
   SyncFromExtrapolatorCore, ReceiveDestinationCore, UseDestinationCore,
   LosePatienceCore, WriteSyncCore
   DEF Next, Input

LEMMA GaveUpStep ==
  ASSUME gaveUp \in BOOLEAN, [Next]_vars
  PROVE  gaveUp' \in BOOLEAN
<1>1. gaveUp' = gaveUp \/ gaveUp' = TRUE
  BY Zenon DEF Next, Input, Press, Brake, TurnPending, ReadSync, Extrapolate,
     SyncFromExtrapolator, ReceiveDestination, UseDestination, LosePatience,
     WriteSync, vars
<1> QED
  BY <1>1, Zenon

LEMMA InitInv == Init => Inv
<1> SUFFICES ASSUME Init PROVE Inv
  OBVIOUS
<1>1. Start \in Drivers
  BY Bounds DEF Start, Drivers, Headings
<1>2. server \in Followers /\ server.current = 0 /\ server.last = 0
  BY Bounds DEF Init, Followers, Headings, Numbers
<1>3. Types
  BY <1>1, <1>2, Bounds DEF Init, Types
<1>4. NextIn({}, 0) = 0
  BY NextInNone
<1>5. InOrder
  BY <1>2, <1>4 DEF Init, InOrder
<1>6. Consistent
  BY DEF Init, Consistent
<1>7. gaveUp \in BOOLEAN
  BY Zenon DEF Init
<1> QED
  BY <1>3, <1>5, <1>6, <1>7 DEF Inv, Core

LEMMA InvStep == Inv /\ [Next]_vars => Inv'
<1> SUFFICES ASSUME Inv, [Next]_vars PROVE Inv'
  OBVIOUS
<1>1. Core'
  <2>1. CASE Next
    BY <2>1, NextCore DEF Inv
  <2>2. CASE UNCHANGED vars
    BY <2>2 DEF Inv, Core, Types, InOrder, Consistent, vars, client, network, serverv
  <2> QED
    BY <2>1, <2>2
<1>2. gaveUp' \in BOOLEAN
  BY GaveUpStep DEF Inv
<1> QED
  BY <1>1, <1>2 DEF Inv

LEMMA InvAlways == Spec => []Inv
BY InitInv, InvStep, PTL DEF Spec

(* All variables keep their types: no follower ever waits for a            *)
(* destination that is not there, and no count leaves its range.           *)
THEOREM TypeCorrect == Spec => []TypeOK
<1>1. Inv => TypeOK
  BY DEF Inv, Core, Types, TypeOK
<1> QED
  BY <1>1, InvAlways, PTL

(* The server heads for the first destination it has not used, and has     *)
(* used none that comes after one it has not.                              *)
THEOREM ListsInOrder == Spec => []InOrder
<1>1. Inv => InOrder
  BY DEF Inv, Core
<1> QED
  BY <1>1, InvAlways, PTL

(* No destination is executed after a later one, and none twice.           *)
THEOREM NeverBack == Spec => OnlyForward
<1>1. Inv /\ [Next]_vars =>
        [server'.last # server.last => server'.last > server.last]_vars
  BY NextCore DEF Inv, Forward
<1> QED
  BY <1>1, InvAlways, PTL DEF Spec, OnlyForward

-----------------------------------------------------------------------------
(* Nobody's patience ends: everybody drives as commanded.                  *)

(* Where the client was when it had given k destinations.                  *)
CommandOf(k) == IF k = 0 THEN Start ELSE commands[k]
Given == 0 .. Len(commands)

Matches(f, c) ==
  f.heading = c.heading /\ f.braking = c.braking /\ f.turns = c.turns

Beside(h) == {(h + 1) % 4, (h - 1) % 4}

(* Of two destinations the later one counts more turns, unless both head   *)
(* the same way; with one turn between them they are at right angles.      *)
Later(b, c) ==
  /\ b.turns <= c.turns
  /\ b.turns = c.turns => b.heading = c.heading
  /\ b.turns + 1 = c.turns => c.heading \in Beside(b.heading)

(* The player has braked, or turned, never both.                           *)
OneStep(b, c) ==
  \/ c.turns = b.turns /\ c.heading = b.heading /\ c.braking # b.braking
  \/ c.turns = b.turns + 1 /\ c.heading \in Beside(b.heading)
     /\ c.braking = b.braking

Counted    == \A k \in Given : CommandOf(k).turns <= k + 1
Stepwise   == \A k \in Given :
                k + 1 \in Given => OneStep(CommandOf(k), CommandOf(k + 1))
InSequence == \A j, k \in Given : j <= k => Later(CommandOf(j), CommandOf(k))

(* Each cycle drives as the client did when it gave some destination.      *)
ClientDrives == Matches(cycle, CommandOf(Len(commands)))
ServerDrives == Matches(server, CommandOf(server.last))
SyncDrives ==
  sync # None => sync.last \in Given /\ Matches(sync, CommandOf(sync.last))

(* A replay skips nothing.                                                 *)
Replayed == IF sim.current = 0 THEN Len(commands) ELSE sim.current - 1
SimDrives == sim # None => Matches(sim, CommandOf(Replayed))

Driven ==
  /\ Counted /\ Stepwise /\ InSequence
  /\ ClientDrives /\ ServerDrives /\ SyncDrives /\ SimDrives

DriveInv == Inv /\ (~ gaveUp => Driven)

LEMMA StartMatches ==
  /\ Start \in Drivers /\ Start.heading = 0 /\ Start.braking = FALSE
  /\ Start.turns = 1
BY Bounds DEF Start, Drivers, Headings

LEMMA CommandType ==
  ASSUME Core, NEW k \in Given
  PROVE  /\ CommandOf(k).heading \in Headings /\ CommandOf(k).braking \in BOOLEAN
         /\ CommandOf(k).turns \in 1 .. MaxTurns
         /\ k \in Nat
<1>1. k \in Nat /\ commands \in Seq(Commands)
  BY DEF Given, Core, Types
<1>2. CASE k = 0
  BY <1>1, <1>2, StartMatches DEF CommandOf, Drivers
<1>3. CASE k # 0
  <2>1. commands[k] \in Commands
    BY <1>1, <1>3 DEF Given
  <2> QED
    BY <1>1, <1>3, <2>1 DEF CommandOf, Commands
<1> QED
  BY <1>2, <1>3

(* Around the compass.                                                     *)
LEMMA Compass ==
  ASSUME NEW h \in Headings
  PROVE  /\ (h + 1) % 4 \in Headings /\ (h - 1) % 4 \in Headings
         /\ (h - ((h + 1) % 4)) % 2 # 0 /\ (h - ((h - 1) % 4)) % 2 # 0
         /\ (h + 1) % 4 # (h - 1) % 4
         /\ (h - h) % 2 = 0 /\ (h + 1) % 4 # h /\ (h - 1) % 4 # h
         /\ (h + (-1)) % 4 = (h - 1) % 4
BY DEF Headings

(* A driver that makes a turn, and counts it.                              *)
LEMMA TurnStep ==
  ASSUME NEW b, b.heading \in Headings, b.turns \in 1 .. MaxTurns,
         b \in Drivers \/ b \in Followers,
         b.turns < MaxTurns, NEW side \in {-1, 1}
  PROVE  /\ Turned(b, side).turns = b.turns + 1
         /\ Turned(b, side).braking = b.braking
         /\ Turned(b, side).heading = (b.heading + side) % 4
         /\ Turned(b, side).heading \in Beside(b.heading)
<1>1. CountTurn(b.turns) = b.turns + 1
  BY DEF CountTurn
<1>2. (b.heading + side) % 4 \in Beside(b.heading)
  BY Compass DEF Beside
<1> QED
  BY <1>1, <1>2 DEF Turned, Drivers, Followers

(* Without a missing turn, a follower at destination b comes to            *)
(* destination c, which is the next one or some later one.                 *)
LEMMA FollowMatches ==
  ASSUME NEW f \in Followers, NEW i, commands[i] \in Commands,
         NEW b, Matches(f, b), Later(b, commands[i]),
         OneStep(b, commands[i]) \/ ~ Adjacent(f, i),
         ~ Missed(f, i)
  PROVE  Matches(Follow(f, i), commands[i])
<1> DEFINE c == commands[i]
<1>1. /\ f.heading \in Headings /\ f.braking \in BOOLEAN /\ f.turns \in 1 .. MaxTurns
      /\ c.heading \in Headings /\ c.braking \in BOOLEAN /\ c.turns \in 1 .. MaxTurns
  BY DEF Followers, Commands
<1>2. /\ f.turns <= c.turns
      /\ f.turns = c.turns => f.heading = c.heading
      /\ f.turns + 1 = c.turns => c.heading \in Beside(f.heading)
      /\ \/ c.turns = f.turns /\ c.heading = f.heading /\ c.braking # f.braking
         \/ c.turns = f.turns + 1 /\ c.heading \in Beside(f.heading)
            /\ c.braking = f.braking
         \/ ~ Adjacent(f, i)
  BY DEF Matches, Later, OneStep
<1>3. /\ ~ LooksMissed(f, c) \/ Adjacent(f, i)
      /\ ~ (f.turns < c.turns - 1)
  BY DEF Missed
<1>4. /\ f.heading = c.heading => Parallel(f, c)
      /\ c.heading \in Beside(f.heading) => ~ Parallel(f, c)
  BY <1>1, Compass DEF Parallel, Beside
<1>5. f.turns = c.turns \/ f.turns + 1 = c.turns
  <2> HIDE DEF c
  <2> QED
    BY <1>1, <1>2, <1>3, Bounds
<1>6. f.turns = c.turns => f.heading = c.heading /\ f.braking # c.braking
  <2> HIDE DEF c
  <2>1. ASSUME f.turns = c.turns PROVE f.braking # c.braking
    <3>1. f.heading = c.heading /\ Parallel(f, c)
      BY <1>2, <1>4, <2>1
    <3>2. ~ (c.turns = f.turns + 1)
      BY <1>1, <2>1, Bounds
    <3> QED
      BY <1>2, <1>3, <3>1, <3>2 DEF LooksMissed
  <2> QED
    BY <1>2, <2>1
<1>7. f.turns + 1 = c.turns =>
        c.heading \in Beside(f.heading) /\ f.braking = c.braking
        /\ ~ LooksMissed(f, c)
  <2> HIDE DEF c
  <2>1. ASSUME f.turns + 1 = c.turns
        PROVE  f.braking = c.braking /\ ~ LooksMissed(f, c)
    <3>1. c.heading \in Beside(f.heading) /\ ~ Parallel(f, c)
      BY <1>2, <1>4, <2>1
    <3>2. ~ (c.turns = f.turns)
      BY <1>1, <2>1, Bounds
    <3> QED
      BY <1>1, <1>2, <1>3, <3>1, <3>2 DEF LooksMissed
  <2> QED
    BY <1>2, <2>1
<1>8. CASE f.turns = c.turns
  <2>1. SideOf(f, i) = 0
    BY <1>6, <1>8 DEF SideOf, WantsTurn
  <2>2. Follow(f, i) = [f EXCEPT !.braking = c.braking]
    BY <2>1 DEF Follow
  <2> HIDE DEF c
  <2> QED
    BY <1>6, <1>8, <2>2 DEF Matches, Followers, c
<1>9. CASE f.turns + 1 = c.turns
  <2>1. WantsTurn(f, i)
    BY <1>7, <1>9 DEF WantsTurn
  <2>2. SideOf(f, i) = IF c.heading = (f.heading - 1) % 4 THEN -1 ELSE 1
    BY <2>1 DEF SideOf
  <2>3. Follow(f, i) = Turned(f, SideOf(f, i)) /\ SideOf(f, i) \in {-1, 1}
    BY <2>2 DEF Follow
  <2>4. f.turns < MaxTurns
    <3> HIDE DEF c
    <3> QED
      BY <1>1, <1>9, Bounds
  <2>5. /\ Follow(f, i).turns = f.turns + 1 /\ Follow(f, i).braking = f.braking
        /\ Follow(f, i).heading = (f.heading + SideOf(f, i)) % 4
    BY <1>1, <2>3, <2>4, TurnStep
  <2>6. (f.heading + SideOf(f, i)) % 4 = c.heading
    <3> HIDE DEF c
    <3>1. c.heading = (f.heading + 1) % 4 \/ c.heading = (f.heading - 1) % 4
      BY <1>7, <1>9 DEF Beside
    <3> QED
      BY <1>1, <2>2, <3>1, Compass
  <2> QED
    BY <1>7, <1>9, <2>5, <2>6 DEF Matches
<1> QED
  BY <1>5, <1>8, <1>9

-----------------------------------------------------------------------------
(* The steps, as long as nobody has given up.                              *)

(* What the client has given stays.                                        *)
LEMMA NothingGiven ==
  ASSUME Core, Driven, UNCHANGED commands
  PROVE  /\ Given' = Given /\ \A k : CommandOf(k)' = CommandOf(k)
         /\ Counted' /\ Stepwise' /\ InSequence'
<1>1. Given' = Given /\ \A k : CommandOf(k)' = CommandOf(k)
  BY DEF Given, CommandOf
<1> QED
  BY <1>1 DEF Driven, Counted, Stepwise, InSequence

LEMMA LastGiven ==
  ASSUME Core
  PROVE  server.last \in Given
<1>1. /\ server.last = 0 \/ server.last \in used
      /\ used \subseteq 1 .. Len(commands) /\ commands \in Seq(Commands)
  BY DEF Core, Types, InOrder
<1>2. Len(commands) \in Nat
  BY <1>1
<1>3. 0 \in Given /\ 1 .. Len(commands) \subseteq Given
  BY <1>2 DEF Given
<1> QED
  BY <1>1, <1>3

LEMMA AddDestinationDriven ==
  ASSUME Core, Driven, NEW d \in Drivers, AddDestination(d),
         OneStep(cycle, d), UNCHANGED <<sync, serverv>>
  PROVE  Driven'
<1>0. PICK n : n = Len(commands)
  OBVIOUS
<1>1. /\ commands \in Seq(Commands) /\ n \in Nat /\ n < MaxCommands
      /\ sim \in Followers \cup {None} /\ cycle \in Drivers
  BY <1>0 DEF Core, Types, AddDestination
<1>2. PICK adjacent \in AdjacentIds[n + 1] :
        commands' = Append(commands,
          [heading |-> d.heading, braking |-> d.braking, turns |-> d.turns,
           adjacent |-> adjacent])
  BY <1>0 DEF AddDestination
<1>3. cycle' = d
      /\ sim' = IF sim # None /\ sim.current = 0
                THEN [sim EXCEPT !.current = n + 1] ELSE sim
  BY <1>0 DEF AddDestination
<1>a. adjacent \in BOOLEAN
  <2>1. n + 1 \in 1 .. MaxCommands
    BY <1>1, Bounds
  <2>2. AdjacentIds[n + 1] \in SUBSET BOOLEAN
    BY <2>1, TurnsAssumption
  <2> QED
    BY <2>2
<1>4. [heading |-> d.heading, braking |-> d.braking, turns |-> d.turns,
       adjacent |-> adjacent] \in Commands
  BY <1>a DEF Drivers, Commands
<1>5. /\ Len(commands') = n + 1 /\ \A k \in 1 .. n : commands'[k] = commands[k]
      /\ commands'[n + 1] = [heading |-> d.heading, braking |-> d.braking,
                             turns |-> d.turns, adjacent |-> adjacent]
  BY <1>0, <1>1, <1>2, <1>4
<1>6. Matches(cycle, CommandOf(n))
  BY <1>0 DEF Driven, ClientDrives
<1>7. /\ n \in Given /\ Given' = Given \cup {n + 1} /\ n + 1 \notin Given
      /\ \A k \in Given : k \in Nat /\ k <= n
  BY <1>0, <1>1, <1>5 DEF Given
<1>8. \A k \in Given : CommandOf(k)' = CommandOf(k)
  BY <1>0, <1>5 DEF Given, CommandOf
<1>9. CommandOf(n + 1)' = commands'[n + 1]
  BY <1>1 DEF CommandOf
<1>10. Matches(d, CommandOf(n + 1)')
  BY <1>5, <1>9 DEF Matches
<1>11. OneStep(CommandOf(n), CommandOf(n + 1)')
  BY <1>6, <1>10 DEF OneStep, Matches
<1>12. \A k \in Given : /\ CommandOf(k).heading \in Headings
                        /\ CommandOf(k).turns \in 1 .. MaxTurns
  BY CommandType
<1> DEFINE last == CommandOf(n)
           new  == CommandOf(n + 1)'
<1>13. /\ last.turns \in Nat /\ last.turns <= n + 1 /\ OneStep(last, new)
       /\ \A k \in Given : Later(CommandOf(k), last) /\ CommandOf(k).turns \in Nat
  BY <1>7, <1>11, <1>12, Bounds DEF Driven, Counted, InSequence
<1> HIDE DEF last, new
<1>14. new.turns <= n + 2 /\ new.turns \in Nat /\ last.turns <= new.turns
  BY <1>1, <1>13 DEF OneStep
<1>15. ASSUME NEW k \in Given PROVE Later(CommandOf(k), new)
  <2> DEFINE b == CommandOf(k)
  <2>1. Later(b, last) /\ b.turns \in Nat
    BY <1>13
  <2> HIDE DEF b
  <2>2. CASE new.turns = last.turns /\ new.heading = last.heading
    BY <1>13, <2>1, <2>2 DEF Later
  <2>3. CASE new.turns = last.turns + 1 /\ new.heading \in Beside(last.heading)
    BY <1>13, <2>1, <2>3 DEF Later
  <2> QED
    BY <1>13, <2>2, <2>3 DEF OneStep, b
<1>16. Later(new, new)
  BY <1>14 DEF Later
<1>17. Counted'
  <2>1. \A k \in Given : CommandOf(k).turns <= k + 1
    BY DEF Driven, Counted
  <2>2. ASSUME NEW k \in Given' PROVE (CommandOf(k)').turns <= k + 1
    <3>1. CASE k \in Given
      BY <1>8, <2>1, <3>1
    <3>2. CASE k = n + 1
      BY <1>1, <1>14, <3>2 DEF new
    <3> QED
      BY <1>7, <3>1, <3>2
  <2> QED
    BY <2>2 DEF Counted
<1>18. Stepwise'
  <2>1. \A k \in Given : k + 1 \in Given => OneStep(CommandOf(k), CommandOf(k + 1))
    BY DEF Driven, Stepwise
  <2>2. ASSUME NEW k \in Given', k + 1 \in Given'
        PROVE  OneStep(CommandOf(k)', CommandOf(k + 1)')
    <3>1. k \in Given /\ (k + 1 \in Given \/ k = n)
      BY <1>1, <1>7, <2>2
    <3>2. CASE k + 1 \in Given
      BY <1>8, <2>1, <3>1, <3>2
    <3>3. CASE k = n
      BY <1>8, <1>11, <3>1, <3>3
    <3> QED
      BY <3>1, <3>2, <3>3
  <2> QED
    BY <2>2 DEF Stepwise
<1>19. InSequence'
  <2>1. \A j, k \in Given : j <= k => Later(CommandOf(j), CommandOf(k))
    BY DEF Driven, InSequence
  <2>2. ASSUME NEW j \in Given', NEW k \in Given', j <= k
        PROVE  Later(CommandOf(j)', CommandOf(k)')
    <3>1. CASE k \in Given
      <4>1. j \in Given
        BY <1>1, <1>7, <2>2, <3>1
      <4> QED
        BY <1>8, <2>1, <2>2, <3>1, <4>1
    <3>2. CASE k = n + 1
      BY <1>7, <1>8, <1>15, <1>16, <3>2 DEF new
    <3> QED
      BY <1>7, <3>1, <3>2
  <2> QED
    BY <2>2 DEF InSequence
<1>20. ClientDrives'
  BY <1>3, <1>5, <1>10 DEF ClientDrives, Matches
<1>21. server.last \in Given
  BY LastGiven
<1>22. ServerDrives' /\ SyncDrives'
  BY <1>7, <1>8, <1>21 DEF Driven, ServerDrives, SyncDrives, serverv
<1>23. SimDrives'
  <2> SUFFICES ASSUME sim' # None PROVE Matches(sim', CommandOf(Replayed)')
    BY DEF SimDrives
  <2>1. sim # None /\ sim \in Followers /\ Matches(sim, CommandOf(Replayed))
    BY <1>1, <1>3 DEF Driven, SimDrives
  <2>2. Replayed' = Replayed /\ Replayed \in Given /\ Matches(sim', sim)
    <3>1. CASE sim.current = 0
      <4>1. /\ sim'.current = n + 1 /\ sim'.heading = sim.heading
            /\ sim'.braking = sim.braking /\ sim'.turns = sim.turns
        BY <1>3, <2>1, <3>1 DEF Followers
      <4>2. n + 1 # 0 /\ n + 1 - 1 = n
        BY <1>1
      <4> QED
        BY <1>0, <1>7, <3>1, <4>1, <4>2 DEF Replayed, Matches
    <3>2. CASE sim.current # 0
      <4>1. sim' = sim /\ sim.current \in Nat /\ sim.current <= n
        BY <1>0, <1>3, <2>1, <3>2, Bounds DEF Followers, Numbers, Core, Consistent
      <4>2. sim.current - 1 \in Given
        BY <1>0, <1>1, <3>2, <4>1 DEF Given
      <4> QED
        BY <3>2, <4>1, <4>2 DEF Replayed, Matches
    <3> QED
      BY <3>1, <3>2
  <2> QED
    BY <1>8, <2>1, <2>2 DEF Matches
<1> QED
  BY <1>17, <1>18, <1>19, <1>20, <1>22, <1>23 DEF Driven

(* There is room to count the client's turns.                              *)
LEMMA TurnedBeside ==
  ASSUME Core, Driven, NEW side \in {-1, 1}, Len(commands) < MaxCommands
  PROVE  OneStep(cycle, Turned(cycle, side))
<1>1. cycle \in Drivers /\ commands \in Seq(Commands)
  BY DEF Core, Types
<1>2. /\ cycle.heading \in Headings /\ cycle.turns \in 1 .. MaxTurns
      /\ Len(commands) \in Nat
  BY <1>1 DEF Drivers
<1>3. cycle.turns <= Len(commands) + 1
  BY <1>2 DEF Driven, Counted, ClientDrives, Matches, Given
<1>4. cycle.turns < MaxTurns
  BY <1>2, <1>3, TurnsAssumption
<1> QED
  BY <1>1, <1>2, <1>4, TurnStep DEF OneStep

LEMMA PressDriven ==
  ASSUME Core, Driven, NEW side \in Sides, Press(side)
  PROVE  Driven'
<1>1. /\ side \in {-1, 1} /\ UNCHANGED <<sync, serverv>> /\ cycle \in Drivers
      /\ pending \in Seq({-1, 1}) /\ commands \in Seq(Commands)
      /\ Len(commands) + Len(pending) < MaxCommands
  BY TurnsAssumption DEF Core, Types, Press
<1>2. CASE AddDestination(Turned(cycle, side))
  <2>1. Len(commands) < MaxCommands
    BY <1>1, Bounds
  <2> QED
    BY <1>1, <1>2, <2>1, TurnedBeside, TurnedDriver, AddDestinationDriven
<1>3. CASE UNCHANGED <<cycle, commands, inFlight, sim>>
  <2>1. /\ Given' = Given /\ \A k : CommandOf(k)' = CommandOf(k)
        /\ Counted' /\ Stepwise' /\ InSequence'
    BY <1>3, NothingGiven
  <2>2. Replayed' = Replayed
    BY <1>3 DEF Replayed
  <2> QED
    BY <1>1, <1>3, <2>1, <2>2
       DEF Driven, ClientDrives, ServerDrives, SyncDrives, SimDrives, serverv
<1> QED
  BY <1>2, <1>3 DEF Press

LEMMA TurnPendingDriven ==
  ASSUME Core, Driven, TurnPending
  PROVE  Driven'
<1>1. /\ pending \in Seq({-1, 1}) /\ pending # <<>>
      /\ UNCHANGED <<sync, serverv>> /\ cycle \in Drivers
      /\ AddDestination(Turned(cycle, Head(pending)))
  BY DEF Core, Types, TurnPending
<1>2. Head(pending) \in {-1, 1} /\ Len(commands) < MaxCommands
  BY <1>1 DEF AddDestination
<1> QED
  BY <1>1, <1>2, TurnedBeside, TurnedDriver, AddDestinationDriven

LEMMA BrakeDriven ==
  ASSUME Core, Driven, Brake
  PROVE  Driven'
<1> DEFINE d == [cycle EXCEPT !.braking = ~ @]
<1>1. cycle \in Drivers /\ UNCHANGED <<sync, serverv>> /\ AddDestination(d)
  BY DEF Core, Types, Brake
<1>2. /\ d \in Drivers /\ d.turns = cycle.turns /\ d.heading = cycle.heading
      /\ d.braking = ~ cycle.braking /\ cycle.braking \in BOOLEAN
  BY <1>1 DEF Drivers
<1> HIDE DEF d
<1>3. d.braking # cycle.braking
  BY <1>2
<1>4. OneStep(cycle, d)
  BY <1>2, <1>3 DEF OneStep
<1> QED
  BY <1>1, <1>2, <1>4, AddDestinationDriven

(* In the client's list nothing is missing.                                *)
LEMMA NextGiven ==
  ASSUME NEW n \in Nat, NEW k \in 0 .. n
  PROVE  NextIn(1 .. n, k) = IF k < n THEN k + 1 ELSE 0
<1>1. CASE k < n
  <2>1. 1 .. n \in SUBSET Nat /\ k \in Nat /\ k + 1 \in 1 .. n
    BY <1>1
  <2>2. \E j \in 1 .. n : j > k
    BY <2>1
  <2>3. /\ NextIn(1 .. n, k) \in 1 .. n /\ NextIn(1 .. n, k) > k
        /\ NextIn(1 .. n, k) <= k + 1
    <3>1. k + 1 > k
      BY <2>1
    <3> QED
      BY <2>1, <2>2, <3>1, NextInList
  <2> DEFINE m == NextIn(1 .. n, k)
  <2>4. m \in Int /\ m > k /\ m <= k + 1
    BY <2>3
  <2> HIDE DEF m
  <2>5. m = k + 1
    BY <2>1, <2>4
  <2> QED
    BY <1>1, <2>5 DEF m
<1>2. CASE ~ (k < n)
  <2>1. ~ \E j \in 1 .. n : j > k
    BY <1>2
  <2> QED
    BY <1>2, <2>1, NextInNone
<1> QED
  BY <1>1, <1>2

(* What a replay has come to.                                              *)
LEMMA ReplayedType ==
  ASSUME Core, sim # None
  PROVE  /\ sim \in Followers /\ Len(commands) \in Nat
         /\ sim.current \in Nat /\ sim.current <= Len(commands)
         /\ Replayed \in Given
<1>1. /\ sim \in Followers /\ commands \in Seq(Commands)
      /\ sim.current <= Len(commands)
  BY DEF Core, Types, Consistent
<1>2. sim.current \in Nat /\ Len(commands) \in Nat
  BY <1>1, Bounds DEF Followers, Numbers
<1>3. Replayed \in 0 .. Len(commands)
  BY <1>1, <1>2 DEF Replayed
<1> QED
  BY <1>1, <1>2, <1>3 DEF Given

LEMMA ReadSyncDriven ==
  ASSUME Core, Driven, ReadSync
  PROVE  Driven'
<1> DEFINE n == Len(commands)
           k == sync.last
           c == ReplayFrom(sync)
<1>1. /\ sync # None /\ sync' = None
      /\ sim' = [heading |-> sync.heading, braking |-> sync.braking,
                 turns |-> sync.turns, current |-> c, last |-> 0]
      /\ UNCHANGED <<cycle, commands, serverv>>
  BY DEF ReadSync
<1>2. k \in 0 .. n /\ Matches(sync, CommandOf(k)) /\ n \in Nat
  BY <1>1 DEF Driven, SyncDrives, Given, Core, Types
<1>3. c = IF k < n THEN k + 1 ELSE 0
  BY <1>2, NextGiven DEF ReplayFrom
<1>4. /\ Given' = Given /\ \A j : CommandOf(j)' = CommandOf(j)
      /\ Counted' /\ Stepwise' /\ InSequence'
  BY <1>1, NothingGiven
<1>5. Matches(sim', sync) /\ sim'.current = c
  BY <1>1 DEF Matches
<1>6. Len(commands') = n
  BY <1>1
<1> HIDE DEF c, n, k
<1>7. Replayed' = k
  <2>1. Replayed' = IF sim'.current = 0 THEN Len(commands') ELSE sim'.current - 1
    BY DEF Replayed
  <2> QED
    BY <1>2, <1>3, <1>5, <1>6, <2>1
<1>8. SimDrives'
  BY <1>2, <1>4, <1>5, <1>7 DEF SimDrives, Matches
<1>9. ClientDrives' /\ ServerDrives' /\ SyncDrives'
  BY <1>1, <1>4 DEF Driven, ClientDrives, ServerDrives, SyncDrives, serverv
<1> QED
  BY <1>4, <1>8, <1>9 DEF Driven

LEMMA ExtrapolateDriven ==
  ASSUME Core, Driven, Extrapolate, ~ gaveUp'
  PROVE  Driven'
<1> DEFINE i == sim.current
           l == 1 .. Len(commands)
           f == Follow(sim, i)
<1>1. /\ sim # None /\ i # 0 /\ ~ Missed(sim, i)
      /\ sim' = Advance(f, i, l)
      /\ UNCHANGED <<cycle, commands, sync, serverv>>
  BY Zenon DEF Extrapolate, network
<1>2. /\ sim \in Followers /\ Len(commands) \in Nat
      /\ i \in Nat /\ i <= Len(commands) /\ Replayed \in Given
  BY <1>1, ReplayedType
<1>3. Replayed = i - 1 /\ i \in Given /\ i \in l /\ i - 1 + 1 = i
  BY <1>1, <1>2 DEF Replayed, Given
<1>4. commands[i] \in Commands /\ CommandOf(i) = commands[i]
  BY <1>1, <1>3 DEF Core, Types, CommandOf
<1>5. Matches(sim, CommandOf(i - 1))
  BY <1>1, <1>3 DEF Driven, SimDrives
<1>6. OneStep(CommandOf(i - 1), commands[i])
  BY <1>2, <1>3, <1>4 DEF Driven, Stepwise
<1>7. Later(CommandOf(i - 1), commands[i])
  BY <1>2, <1>3, <1>4 DEF Driven, InSequence
<1>8. Matches(f, commands[i]) /\ f \in Followers
  BY <1>1, <1>2, <1>4, <1>5, <1>6, <1>7, FollowMatches, FollowType
<1> HIDE DEF f
<1>9. /\ Matches(sim', commands[i]) /\ sim'.current = NextIn(l, i)
  BY <1>1, <1>8 DEF Advance, Followers, Matches
<1>10. NextIn(l, i) = IF i < Len(commands) THEN i + 1 ELSE 0
  BY <1>2, NextGiven
<1>11. Replayed' = i
  <2>1. Replayed' = IF sim'.current = 0 THEN Len(commands') ELSE sim'.current - 1
    BY DEF Replayed
  <2>2. Len(commands') = Len(commands)
    BY <1>1
  <2> HIDE DEF i, l
  <2> QED
    BY <1>2, <1>9, <1>10, <2>1, <2>2
<1>12. /\ Given' = Given /\ \A j : CommandOf(j)' = CommandOf(j)
       /\ Counted' /\ Stepwise' /\ InSequence'
  BY <1>1, NothingGiven
<1> HIDE DEF i
<1>13. SimDrives'
  BY <1>4, <1>9, <1>11, <1>12 DEF SimDrives
<1>14. ClientDrives' /\ ServerDrives' /\ SyncDrives'
  BY <1>1, <1>12 DEF Driven, ClientDrives, ServerDrives, SyncDrives, serverv
<1> QED
  BY <1>12, <1>13, <1>14 DEF Driven

LEMMA SyncFromExtrapolatorDriven ==
  ASSUME Core, Driven, SyncFromExtrapolator
  PROVE  Driven'
<1>1. /\ sim # None /\ sim.current = 0 /\ sim' = None
      /\ UNCHANGED <<commands, sync, serverv>> /\ cycle \in Drivers
  BY DEF Core, Types, SyncFromExtrapolator, network
<1>2. PICK t \in {cycle.turns, sim.turns} :
        cycle' = [cycle EXCEPT !.heading = sim.heading, !.turns = t]
  BY DEF SyncFromExtrapolator
<1>3. Matches(sim, CommandOf(Len(commands)))
      /\ Matches(cycle, CommandOf(Len(commands)))
  BY <1>1 DEF Driven, SimDrives, Replayed, ClientDrives
<1>4. Matches(cycle', cycle)
  BY <1>1, <1>2, <1>3 DEF Matches, Drivers
<1>5. /\ Given' = Given /\ \A j : CommandOf(j)' = CommandOf(j)
      /\ Counted' /\ Stepwise' /\ InSequence'
  BY <1>1, NothingGiven
<1>6. ClientDrives'
  BY <1>1, <1>3, <1>4, <1>5 DEF ClientDrives, Matches
<1>7. ServerDrives' /\ SyncDrives' /\ SimDrives'
  BY <1>1, <1>5 DEF Driven, ServerDrives, SyncDrives, SimDrives, serverv
<1> QED
  BY <1>5, <1>6, <1>7 DEF Driven

LEMMA ReceiveDestinationDriven ==
  ASSUME Core, Driven, NEW i \in 1 .. MaxCommands, ReceiveDestination(i)
  PROVE  Driven'
<1>1. UNCHANGED <<client, sync, used>> /\ server \in Followers
  BY DEF ReceiveDestination, Core, Types
<1>2. server' = server \/ server' = [server EXCEPT !.current = CurrentAfter(i)]
  BY DEF ReceiveDestination
<1>3. Matches(server', server) /\ server'.last = server.last
  BY <1>1, <1>2 DEF Matches, Followers
<1>4. /\ Given' = Given /\ \A j : CommandOf(j)' = CommandOf(j)
      /\ Counted' /\ Stepwise' /\ InSequence'
  BY <1>1, NothingGiven DEF client
<1>5. ServerDrives'
  BY <1>3, <1>4 DEF Driven, ServerDrives, Matches
<1>6. Replayed' = Replayed
  BY <1>1 DEF Replayed, client
<1>7. ClientDrives' /\ SyncDrives' /\ SimDrives'
  BY <1>1, <1>4, <1>6
     DEF Driven, ClientDrives, SyncDrives, SimDrives, client
<1> QED
  BY <1>4, <1>5, <1>7 DEF Driven

(* A destination that overtook others is one turn, or a change of the      *)
(* brakes, from where the server is: nothing is lost.                      *)
LEMMA UseDestinationDriven ==
  ASSUME Core, Driven, UseDestination
  PROVE  Driven'
<1> DEFINE i == server.current
           k == server.last
           f == Follow(server, i)
<1>1. /\ i # 0 /\ ~ Missed(server, i) /\ UseUp(f, i)
      /\ UNCHANGED <<client, network>>
  BY DEF UseDestination
<1>2. /\ server \in Followers /\ commands \in Seq(Commands)
      /\ i \in 1 .. Len(commands)
      /\ k = 0 \/ k \in used
      /\ \A a \in used : a < i
  <2>1. /\ server \in Followers /\ commands \in Seq(Commands)
        /\ list \subseteq 1 .. Len(commands)
    BY DEF Core, Types
  <2>2. i \in list \ used
    BY <1>1, CurrentIsFirst
  <2>3. (k = 0 \/ k \in used) /\ \A a \in used, b \in list \ used : a < b
    BY Zenon DEF Core, InOrder
  <2> QED
    BY <2>1, <2>2, <2>3
<1>3. i \in 1 .. Len(commands) /\ i \in Given /\ k \in Given /\ Len(commands) \in Nat
  <2>1. i \in 1 .. Len(commands) /\ Len(commands) \in Nat
    BY <1>2
  <2> QED
    BY <2>1, LastGiven DEF Given
<1>4. k \in Nat /\ i \in Nat /\ k < i
  BY <1>2, <1>3 DEF Given
<1>5. commands[i] \in Commands /\ CommandOf(i) = commands[i]
  BY <1>1, <1>2, <1>3 DEF CommandOf
<1>6. Matches(server, CommandOf(k)) /\ Later(CommandOf(k), commands[i])
  BY <1>3, <1>4, <1>5 DEF Driven, ServerDrives, InSequence
<1>7. OneStep(CommandOf(k), commands[i]) \/ ~ Adjacent(server, i)
  <2>1. CASE k = i - 1
    <3>1. k + 1 = i
      BY <1>4, <2>1
    <3> QED
      BY <1>3, <1>5, <3>1 DEF Driven, Stepwise
  <2>2. CASE k # i - 1
    BY <2>2 DEF Adjacent
  <2> QED
    BY <2>1, <2>2
<1>8. Matches(f, commands[i]) /\ f \in Followers
  BY <1>1, <1>2, <1>5, <1>6, <1>7, FollowMatches, FollowType
<1> HIDE DEF f
<1>9. server' = Advance(f, i, list \ used)
  BY <1>1 DEF UseUp
<1>10. Matches(server', commands[i]) /\ server'.last = i
  BY <1>8, <1>9 DEF Advance, Followers, Matches
<1>11. /\ Given' = Given /\ \A j : CommandOf(j)' = CommandOf(j)
       /\ Counted' /\ Stepwise' /\ InSequence'
  BY <1>1, NothingGiven DEF client
<1> HIDE DEF i
<1>12. ServerDrives'
  BY <1>5, <1>10, <1>11 DEF ServerDrives
<1>13. Replayed' = Replayed
  BY <1>1 DEF Replayed, client
<1>14. ClientDrives' /\ SyncDrives' /\ SimDrives'
  BY <1>1, <1>11, <1>13
     DEF Driven, ClientDrives, SyncDrives, SimDrives, client, network
<1> QED
  BY <1>11, <1>12, <1>14 DEF Driven

LEMMA WriteSyncDriven ==
  ASSUME Core, Driven, WriteSync
  PROVE  Driven'
<1>1. /\ UNCHANGED <<client, serverv>>
      /\ sync' = [heading |-> server.heading, braking |-> server.braking,
                  turns |-> server.turns, last |-> server.last]
  BY DEF WriteSync
<1>2. Matches(sync', server) /\ sync'.last = server.last /\ server.last \in Given
  BY <1>1, LastGiven DEF Matches
<1>3. /\ Given' = Given /\ \A j : CommandOf(j)' = CommandOf(j)
      /\ Counted' /\ Stepwise' /\ InSequence'
  BY <1>1, NothingGiven DEF client
<1>4. SyncDrives'
  BY <1>2, <1>3 DEF Driven, ServerDrives, SyncDrives, Matches
<1>5. Replayed' = Replayed
  BY <1>1 DEF Replayed, client
<1>6. ClientDrives' /\ ServerDrives' /\ SimDrives'
  BY <1>1, <1>3, <1>5
     DEF Driven, ClientDrives, ServerDrives, SimDrives, client, serverv
<1> QED
  BY <1>3, <1>4, <1>6 DEF Driven

LEMMA NextDriven ==
  ASSUME Core, Driven, Next, ~ gaveUp'
  PROVE  Driven'
<1>1. ~ LosePatience
  BY Zenon DEF LosePatience
<1> QED
  BY <1>1, PressDriven, BrakeDriven, TurnPendingDriven, ReadSyncDriven,
     ExtrapolateDriven, SyncFromExtrapolatorDriven, ReceiveDestinationDriven,
     UseDestinationDriven, WriteSyncDriven
     DEF Next, Input

LEMMA InitDriven == Init => Driven
<1> SUFFICES ASSUME Init PROVE Driven
  OBVIOUS
<1>1. /\ cycle = Start /\ commands = <<>> /\ sim = None /\ sync = None
      /\ server = [heading |-> 0, braking |-> FALSE, turns |-> 1,
                   current |-> 0, last |-> 0]
  BY DEF Init
<1>2. Len(commands) = 0 /\ Given = {0} /\ CommandOf(0) = Start
  BY <1>1 DEF Given, CommandOf
<1>3. Counted
  BY <1>2, StartMatches DEF Counted
<1>4. Stepwise
  BY <1>2 DEF Stepwise
<1>5. InSequence
  BY <1>2, StartMatches DEF InSequence, Later
<1>6. ClientDrives /\ SyncDrives /\ SimDrives
  BY <1>1, <1>2 DEF ClientDrives, Matches, SyncDrives, SimDrives
<1>7. server.heading = 0 /\ server.braking = FALSE /\ server.turns = 1
      /\ server.last = 0
  BY <1>1
<1>8. ServerDrives
  BY <1>2, <1>7, StartMatches DEF ServerDrives, Matches
<1> QED
  BY <1>3, <1>4, <1>5, <1>6, <1>8 DEF Driven

LEMMA DriveInvStep == DriveInv /\ [Next]_vars => DriveInv'
<1> SUFFICES ASSUME DriveInv, [Next]_vars PROVE DriveInv'
  OBVIOUS
<1>1. Inv'
  BY InvStep DEF DriveInv
<1>2. ASSUME ~ gaveUp' PROVE Driven'
  <2>1. ~ gaveUp
    <3>1. gaveUp' = gaveUp \/ gaveUp' = TRUE
      BY Zenon DEF Next, Input, Press, Brake, TurnPending, ReadSync, Extrapolate,
         SyncFromExtrapolator, ReceiveDestination, UseDestination, LosePatience,
         WriteSync, vars
    <3> QED
      BY <1>2, <3>1, Zenon
  <2>2. Core /\ Driven
    BY <2>1, Zenon DEF DriveInv, Inv
  <2>3. CASE Next
    BY <1>2, <2>2, <2>3, NextDriven
  <2>4. CASE UNCHANGED vars
    <3>1. /\ Given' = Given /\ \A j : CommandOf(j)' = CommandOf(j)
          /\ Counted' /\ Stepwise' /\ InSequence'
      BY <2>2, <2>4, NothingGiven DEF vars, client
    <3>2. Replayed' = Replayed
      BY <2>4 DEF Replayed, vars, client
    <3> QED
      BY <2>2, <2>4, <3>1, <3>2
         DEF Driven, ClientDrives, ServerDrives, SyncDrives, SimDrives,
             vars, client, network, serverv
  <2> QED
    BY <2>3, <2>4
<1> QED
  BY <1>1, <1>2, Zenon DEF DriveInv

(* As long as nobody's patience ends, the server's cycle drives as the     *)
(* client's did when it gave the last destination used.                    *)
THEOREM DrivesAsCommanded == Spec => []FollowsCommands
<1>1. Init => DriveInv
  BY InitInv, InitDriven, Zenon DEF DriveInv
<1>2. DriveInv => FollowsCommands
  <2> SUFFICES ASSUME DriveInv, ~ gaveUp, server.last # 0
               PROVE  LET c == commands[server.last]
                      IN  /\ server.heading = c.heading
                          /\ server.braking = c.braking
                          /\ server.turns = c.turns
    BY Zenon DEF FollowsCommands
  <2>1. ServerDrives
    BY Zenon DEF DriveInv, Driven
  <2> QED
    BY <2>1 DEF ServerDrives, Matches, CommandOf
<1> QED
  BY <1>1, <1>2, DriveInvStep, PTL DEF Spec
=============================================================================
