----------------------------- MODULE CycleTurns -----------------------------
(***************************************************************************)
(* How the turns and brakes of one player reach the server and how the     *)
(* server's view comes back (gCycle.cpp, gCycleMovement.cpp).  The client  *)
(* drives at once and sends each turn or brake as a destination: where the *)
(* cycle was, where it was heading to, and how many turns it had made.     *)
(* Destinations are messages that arrive once each, but in any order; the  *)
(* server executes them by message id and, before it uses one, guesses     *)
(* whether an earlier one is still missing: then it waits, and when its    *)
(* patience ends it makes up a turn.  Its syncs, of which only the latest  *)
(* counts, correct the client: an extrapolator replays the destinations    *)
(* the server has not executed yet, and the client takes its heading over. *)
(*                                                                         *)
(* Positions and times are left out.  What depends on them is a choice:    *)
(* when a turn is due, to which side a made up turn goes, when patience    *)
(* ends, whether a sync is taken for older than the last one.  The cycle   *)
(* stays alive, and the grid has four directions.                          *)
(***************************************************************************)
EXTENDS Integers, Sequences, FiniteSetsExt, SequencesExt

CONSTANTS
  MaxCommands,   \* bound on the destinations of the client
  Sides,         \* the turns the player makes: to the left -1, right 1
  MaxTurns,      \* bound on the turns counted, above all counts compared
  AdjacentIds,   \* whether each destination's message id may, or must, be
                 \* the next after the one before it
  TurnMemory,    \* sg_cycleTurnMemory
  None

VARIABLES
  cycle,       \* client: its cycle, a Driver
  pending,     \* client: pendingTurns, turns that must wait for the delay
  commands,    \* client: destinationList, in the order they were given
  sim,         \* client: extrapolator_, a Follower, or None
  inFlight,    \* the destinations on their way, by number
  sync,        \* the latest sync on its way, or None
  server,      \* server: its cycle, a Follower
  list,        \* server: destinationList
  used,        \* server: those of them with hasBeenUsed
  gaveUp       \* history: somebody's patience ended

client  == <<cycle, pending, commands, sim>>
network == <<inFlight, sync>>
serverv == <<server, list, used>>
vars    == <<client, network, serverv, gaveUp>>

Headings == 0 .. 3
Numbers  == 0 .. MaxCommands   \* of destinations; none is 0
Drivers  == [heading : Headings, braking : BOOLEAN, turns : 1 .. MaxTurns]
Commands == [heading : Headings, braking : BOOLEAN, turns : 1 .. MaxTurns,
             adjacent : BOOLEAN]
(* A cycle that follows destinations: currentDestination, lastDestination. *)
Followers == [heading : Headings, braking : BOOLEAN, turns : 1 .. MaxTurns,
              current : Numbers, last : Numbers]
Syncs == [heading : Headings, braking : BOOLEAN, turns : 1 .. MaxTurns,
          last : Numbers]

ASSUME TurnsAssumption ==
  /\ MaxCommands \in Nat /\ TurnMemory \in Nat
  /\ Sides \subseteq {-1, 1}
  /\ MaxTurns \in Nat /\ MaxTurns > MaxCommands
  /\ AdjacentIds \in [1 .. MaxCommands -> SUBSET BOOLEAN]
  /\ None \notin Followers \cup Syncs

Start == [heading |-> 0, braking |-> FALSE, turns |-> 1]

Init ==
  /\ cycle = Start /\ pending = <<>> /\ commands = <<>>
  /\ sim = None
  /\ inFlight = {} /\ sync = None
  /\ server = [heading |-> 0, braking |-> FALSE, turns |-> 1,
               current |-> 0, last |-> 0]
  /\ list = {} /\ used = {}
  /\ gaveUp = FALSE

-----------------------------------------------------------------------------
(* Turning.                                                                *)

CountTurn(n) == IF n < MaxTurns THEN n + 1 ELSE n

(* gCycleMovement::DoTurn and eAxis::Turn; a turn by 0 does not turn, but  *)
(* counts.                                                                 *)
Turned(d, side) ==
  [d EXCEPT !.heading = (@ + side) % 4, !.turns = CountTurn(@)]

(* Next in destinationList after number i.                                 *)
NextIn(l, i) ==
  IF \E j \in l : j > i THEN Min({j \in l : j > i}) ELSE 0

-----------------------------------------------------------------------------
(* Timestep: following the current destination c, for any Follower f.      *)

Parallel(f, c) == (f.heading - c.heading) % 2 = 0

(* The last destination used is the one before this, by message id.        *)
Adjacent(f, i) == f.last # 0 /\ f.last = i - 1 /\ commands[i].adjacent

(* A turn changes the heading, a brake does not; otherwise one is missing. *)
LooksMissed(f, c) == Parallel(f, c) <=> f.braking = c.braking

(* Faulty test: does not count.                                            *)
MissedUncounted(f, i) == LooksMissed(f, commands[i]) /\ ~ Adjacent(f, i)

(* Have we missed a destination before this one?                           *)
Missed(f, i) ==
  \/ LooksMissed(f, commands[i]) /\ ~ Adjacent(f, i)
  \/ f.turns < commands[i].turns - 1

(* Does this destination ask for a turn?                                   *)
WantsTurn(f, i) ==
  LET c == commands[i]
  IN  /\ f.braking = c.braking
      /\ ~ (LooksMissed(f, c) /\ Adjacent(f, i) /\ f.heading = c.heading)

(* turnTo, when nothing was missed: the side that comes closer.            *)
SideOf(f, i) ==
  IF ~ WantsTurn(f, i) THEN 0
  ELSE IF commands[i].heading = (f.heading - 1) % 4 THEN -1 ELSE 1

(* turnTo, when something was missed: the side the destination lies on.    *)
Guesses(f, i) == IF WantsTurn(f, i) THEN {-1, 1} ELSE {0}

(* The destination is done; the list is the one it comes from.             *)
Advance(f, i, l) == [f EXCEPT !.last = i, !.current = NextIn(l, i)]

(* Nothing was missed: turn, or brake.                                     *)
Follow(f, i) ==
  IF SideOf(f, i) # 0 THEN Turned(f, SideOf(f, i))
  ELSE [f EXCEPT !.braking = commands[i].braking]

(* More than one turn is missing: they are counted, and not made.          *)
CaughtUp(f, i) ==
  [f EXCEPT !.turns = Max({@, commands[i].turns - 1})]

(* Exactly one is missing: a made up turn, unless the destination lies     *)
(* ahead; then it is taken as done.                                        *)
Improvised(f, i, l) ==
  {Turned(f, s) : s \in Guesses(f, i)} \cup {Advance(f, i, l)}

(* What patience at its end makes of the follower.                         *)
GivenUp(f, i, l) ==
  LET g == CaughtUp(f, i)
  IN  IF Missed(g, i) THEN Improvised(g, i, l) ELSE {g}

-----------------------------------------------------------------------------
(* The client.                                                             *)

(* AddDestination: the command is stored and broadcast.  It is adjacent if *)
(* no other message was made since the last one.  An extrapolator that was *)
(* done has something to do again.                                         *)
AddDestination(d) ==
  /\ Len(commands) < MaxCommands
  /\ cycle' = d
  /\ \E adjacent \in AdjacentIds[Len(commands) + 1] :
       commands' = Append(commands,
         [heading |-> d.heading, braking |-> d.braking, turns |-> d.turns,
          adjacent |-> adjacent])
  /\ inFlight' = inFlight \cup {Len(commands) + 1}
  /\ sim' = IF sim # None /\ sim.current = 0
            THEN [sim EXCEPT !.current = Len(commands) + 1] ELSE sim

(* DoTurn queues a turn that comes too early; in a full queue opposite     *)
(* turns cancel.                                                           *)
Queued(side) ==
  IF Len(pending) > TurnMemory /\ Last(pending) # side
  THEN Front(pending) ELSE Append(pending, side)

(* gCycle::Act: the player turns, at once or later.                        *)
Press(side) ==
  /\ Len(commands) + Len(pending) < MaxCommands
  /\ \/ AddDestination(Turned(cycle, side)) /\ UNCHANGED pending
     \/ pending' = Queued(side) /\ UNCHANGED <<cycle, commands, inFlight, sim>>
  /\ UNCHANGED <<sync, serverv, gaveUp>>

(* Timestep: a turn that had to wait is due.                               *)
TurnPending ==
  /\ pending # <<>>
  /\ AddDestination(Turned(cycle, Head(pending)))
  /\ pending' = Tail(pending)
  /\ UNCHANGED <<sync, serverv, gaveUp>>

(* gCycle::Act: the player brakes, or stops braking.                       *)
Brake ==
  /\ Len(commands) + Len(pending) < MaxCommands
  /\ AddDestination([cycle EXCEPT !.braking = ~ @])
  /\ UNCHANGED <<pending, sync, serverv, gaveUp>>

(* Faulty replay: from the first destination on.                           *)
ReplayAll(s) == NextIn(1 .. Len(commands), 0)

(* GetDestinationBefore, and the one after it.                             *)
ReplayFrom(s) == NextIn(1 .. Len(commands), s.last)

(* ReadSync, and ResetExtrapolator in the Timestep after it: a new replay,  *)
(* whatever has become of the one before.                                  *)
ReadSync ==
  /\ sync # None
  /\ sync' = None
  /\ sim' = [heading |-> sync.heading, braking |-> sync.braking,
             turns |-> sync.turns, current |-> ReplayFrom(sync), last |-> 0]
  /\ UNCHANGED <<cycle, pending, commands, inFlight, serverv, gaveUp>>

(* Extrapolate: the extrapolator executes a destination or gives up        *)
(* waiting, as the server does.  It uses no destination up.                *)
Extrapolate ==
  /\ sim # None /\ sim.current # 0
  /\ LET i == sim.current
         l == 1 .. Len(commands)
     IN  IF Missed(sim, i)
         THEN sim' \in GivenUp(sim, i, l) /\ gaveUp' = TRUE
         ELSE sim' = Advance(Follow(sim, i), i, l) /\ UNCHANGED gaveUp
  /\ UNCHANGED <<cycle, pending, commands, network, serverv>>

(* SyncFromExtrapolator takes the heading, and the number of turns unless  *)
(* the player is turning just now.  The brakes stay.                       *)
SyncFromExtrapolator ==
  /\ sim # None /\ sim.current = 0
  /\ \E t \in {cycle.turns, sim.turns} :
       cycle' = [cycle EXCEPT !.heading = sim.heading, !.turns = t]
  /\ sim' = None
  /\ UNCHANGED <<pending, commands, network, serverv, gaveUp>>

-----------------------------------------------------------------------------
(* The server.                                                             *)

(* Faulty insertion: whatever comes late is kept.                          *)
TooLateNever(i) == FALSE

(* The next destination has been used, so this one never will be.          *)
TooLate(i) == NextIn(list, i) \in used

(* Faulty notification: an earlier destination waits behind the current.   *)
CurrentKept(i) == IF server.current = 0 THEN i ELSE server.current

(* OnNotifyNewDestination: go back if the new one comes first.             *)
CurrentAfter(i) ==
  IF server.current \in {0, NextIn(list, i)} THEN i ELSE server.current

(* sg_CycleDestinationSyncHandler and AddDestination.                      *)
ReceiveDestination(i) ==
  /\ i \in inFlight
  /\ inFlight' = inFlight \ {i}
  /\ IF TooLate(i) THEN UNCHANGED <<server, list>>
     ELSE /\ list' = list \cup {i}
          /\ server' = [server EXCEPT !.current = CurrentAfter(i)]
  /\ UNCHANGED <<client, sync, used, gaveUp>>

(* Marks the destination as used and skips others that have been.  Used    *)
(* destinations at the head of the list that are neither the current nor   *)
(* the last one are deleted, which the code does in the next Timestep.     *)
UseUp(f, i) ==
  LET g == Advance(f, i, list \ used)
      u == used \cup {i}
      deleted == {j \in list : \A k \in list :
                    k <= j => k \in u /\ k \notin {g.current, g.last}}
  IN  /\ server' = g
      /\ used' = u \ deleted /\ list' = list \ deleted

(* Timestep: the current destination is close, and nothing was missed.     *)
UseDestination ==
  LET i == server.current
  IN  /\ i # 0 /\ ~ Missed(server, i)
      /\ UseUp(Follow(server, i), i)
      /\ UNCHANGED <<client, network, gaveUp>>

(* Timestep: something is missing, and the server has waited long enough.  *)
LosePatience ==
  LET i == server.current
  IN  /\ i # 0 /\ Missed(server, i)
      /\ \E f \in GivenUp(server, i, list \ used) :
           IF f.last = i THEN UseUp(f, i)
           ELSE server' = f /\ UNCHANGED <<list, used>>
      /\ gaveUp' = TRUE
      /\ UNCHANGED <<client, network>>

(* WriteSync.  A sync replaces the one before it, which is lost or would   *)
(* be taken for old.                                                       *)
WriteSync ==
  /\ sync' = [heading |-> server.heading, braking |-> server.braking,
              turns |-> server.turns, last |-> server.last]
  /\ UNCHANGED <<client, inFlight, serverv, gaveUp>>

-----------------------------------------------------------------------------
Input == Brake \/ \E side \in Sides : Press(side)

Next ==
  \/ Input \/ TurnPending \/ ReadSync
  \/ Extrapolate \/ SyncFromExtrapolator
  \/ \E i \in 1 .. MaxCommands : ReceiveDestination(i)
  \/ UseDestination \/ LosePatience \/ WriteSync

Spec == Init /\ [][Next]_vars

(* A destination that only brakes seems to come after a turn that is       *)
(* missing: the side to turn to is 0, and as long as the destination does  *)
(* not lie ahead the made up turns change nothing.                         *)
Idles(f) ==
  /\ f.current # 0
  /\ Missed(CaughtUp(f, f.current), f.current)
  /\ ~ WantsTurn(f, f.current)

(* Messages arrive, syncs are written on and on and some get through, and  *)
(* cycles are simulated: turns fall due and patience ends.  Nothing makes  *)
(* the player act, and nothing ends idling.                                *)
FairSpec ==
  /\ Spec
  /\ WF_vars(TurnPending)
  /\ WF_vars(\E i \in 1 .. MaxCommands : ReceiveDestination(i))
  /\ WF_vars(UseDestination \/ (LosePatience /\ ~ Idles(server)))
  /\ WF_vars(WriteSync) /\ WF_vars(ReadSync)
  /\ WF_vars((Extrapolate /\ ~ Idles(sim)) \/ SyncFromExtrapolator)

-----------------------------------------------------------------------------
(* The types of all variables.                                             *)
TypeOK ==
  /\ cycle \in Drivers
  /\ pending \in Seq({-1, 1}) /\ Len(pending) <= MaxCommands
  /\ commands \in Seq(Commands) /\ Len(commands) <= MaxCommands
  /\ sim \in Followers \cup {None}
  /\ inFlight \subseteq 1 .. Len(commands)
  /\ sync \in Syncs \cup {None}
  /\ server \in Followers
  /\ list \subseteq 1 .. Len(commands) /\ used \subseteq list
  /\ gaveUp \in BOOLEAN

(* The server drives towards the first destination it has not used, every  *)
(* destination it has used comes before all it has not, and the last one   *)
(* it used stays in its list, to tell which destinations come too late.    *)
InOrder ==
  /\ server.current = NextIn(list \ used, 0)
  /\ \A i \in used, j \in list \ used : i < j
  /\ IF server.last = 0 THEN used = {}
     ELSE server.last \in used /\ \A i \in used : i <= server.last

(* Turns and brakes are executed in the order in which the player made     *)
(* them and none is executed twice, in whatever order they arrive.         *)
OnlyForward == [][server'.last # server.last => server'.last > server.last]_vars

(* As long as nobody runs out of patience, the server's cycle drives as    *)
(* the client's did after the last destination used: a destination that    *)
(* overtook others is used before them only if nothing is lost by it.      *)
FollowsCommands ==
  ~ gaveUp /\ server.last # 0 =>
    LET c == commands[server.last]
    IN  /\ server.heading = c.heading
        /\ server.braking = c.braking
        /\ server.turns = c.turns

(* The server's cycle waits for a turn that is not missing.                *)
Stranded == Idles(server)

(* In the end every destination has been used or came too late, unless the *)
(* server is stranded before it.                                           *)
AllUsed == <>[](inFlight = {} /\ (list \subseteq used \/ Stranded))

(* When the player has stopped turning, client and server come to agree on *)
(* the heading, whatever was made up on either side; unless the server is  *)
(* stranded.                                                               *)
Agreement == <>[](cycle.heading = server.heading \/ Stranded)
=============================================================================
