# Armagetron Advanced: TLA+ models, checks and proofs

This directory holds TLA+ specifications of what the server and the clients of
Armagetron Advanced do to agree: on who is connected, which objects exist, which
settings hold, which state a round is in and who is logged in, on the turns a player
has made, on votes, and on who plays in which team. Each module is a translation of
the C++ code under `src/src`; `PROJECT.json` maps every definition to the lines it
stands for.

1. [The system](#1-the-system): parts, state, interactions, hard behaviours
2. [The plan](#2-the-plan)
3. [Modules and code](#3-modules-and-code)
4. [What the runs check](#4-what-the-runs-check), with bounds and fairness
5. [What is proved](#5-what-is-proved)
6. [Where code and comments disagree](#6-where-code-and-comments-disagree)
7. [What is not modelled](#7-what-is-not-modelled)
8. [Running the checks](#8-running-the-checks)

## 1. The system

A game is one server process and up to `MAXCLIENTS` client processes, joined by
UDP packets. Each process is a single main thread that goes around one loop
(`MainLoop` and `gGame::GameLoop` in `tron/gGame.cpp`): read packets, call their
handlers, simulate, send. What waits, waits by nesting: `sn_Sync` reads and sends
packets in a loop of its own inside a handler. Background threads exist for the
authentication of players only, and hand their results back to the main thread.

The difficulty is therefore not shared memory but an unreliable network, ids that
are reused, state that is cached on the other side, waits that nest, and peers
that vanish or come back in the middle of everything.

### 1.1 Components, their state and operations

| Component | State | Operations | Talks to |
|---|---|---|---|
| Reliable messages (`nNetwork.cpp`) | `current_id`, `send_queue`, `sn_pendingAcks`, `timeouts`; `highest_ack`, `lastacks`, `acks_` | `Send`, `sn_SendPlanned`, `nWaitForAck::Resend`, `Ackt`, `rec_peer`, `sn_SendAcks`, total timeout | everything above it, through message handlers |
| Connections and login slots (`nNetwork.cpp`) | `peers`, `lastPeers`, `sn_Connections[].socket`, `sameIP`, `sn_myNetID`, `current_state` | login, denial, acceptance, logout, kick, timeout, `sn_Connect`, `sn_SetNetState` | every component's login and logout callbacks (`nCallbackLoginLogout`) |
| Network objects (`nNetObject.cpp`) | `sn_netObjects`, `knowsAbout[MAXCLIENTS]` per object, destroyers and their count, `sn_Destroyed`, `lastSyncID_` | creation, sync, destruction, `SyncAll`, `AckExtraAction`, `sn_DoDestroy`, id pool | reliable messages; all game classes |
| Version control, watched settings (`nNetwork.cpp`, `nConfig.cpp`) | `sn_currentVersion`, each connection's version, settings with `nonDefault_`, `reverted_`, saved values | `sn_UpdateCurrentVersion`, `AdaptVersion`, `OnVersionChange`, `CheckChange`, `s_SendConfig`, handlers on the client | login slots (kicks), console |
| Game states (`gGame.cpp`, `sn_Sync` in `nNetObject.cpp`) | `state`, `stateNext`, `client_gamestate`, `sync_ack`; each client's copy of the game object | `StateUpdate`, `SetState`, `SyncState`, `sn_Sync`, `ReadSync`, `sg_ClientStateHandler` | network objects carry the announcements |
| Postponed functions, background tasks (`tToDo.cpp`, `tRecorder.cpp`, `tBackgroundProcess.h`) | `tToDos`, `st_toDoCurrent`, `st_backgroundSyncEvents`, entry and exit mutexes | `st_ToDo`, `st_ToDoOnce`, `st_DoToDo`, `Enter`, `Leave`, `Sync`, `FinishAll` | authentication |
| Authentication (`nAuthentication.cpp`, `ePlayer.cpp`) | login processes on each machine, `loginWanted`, requests and answers | fetch, query, answer, authorise, finish, reset on login and logout | background tasks, players |
| Message cache (`nProtoBuf.cpp`) | per connection and descriptor a queue of messages and a map of ids | compress against a message the peer has, restore, purge | reliable messages |
| Votes (`eVoter.cpp`) | voters per machine, items with ballots and totals | propose, vote, evaluate, time out, execute | login slots (kicks), settings |
| Teams and players (`eTeam.cpp`, `ePlayer.cpp`) | `currentTeam`, `nextTeam`, member lists, locks, invitations, suspensions | wish, join, leave, lock, invite, suspend, grant wishes, enforce limits, swap | network objects, votes, settings |
| Cycles' turns (`gCycle.cpp`, `gCycleMovement.cpp`) | `pendingTurns`, `destinationList`, `currentDestination`, `turns`, the extrapolator | turn, brake, send and receive destinations, guess at missing ones, sync, replay | network objects |
| Walls, zones, AI (`tron/`, `engine/`) | a plane of floating point geometry | simulation | network objects |

The remaining components (sockets, server lists, bandwidth, machines and bans,
recorder, configuration, user interface, rendering, sound, resources, containers)
are listed with their state of modelling in `PROJECT.json`.

### 1.2 What is hard about each of them, and what makes it correct

*Reliable messages.* Sixteen bit ids wrap around while copies of messages and
acks are still on the way; the counter is one for all peers of a process and is
never reset, the receiver's memory is reset at every login. Correct means: a
message posted to a connection that stands is handled exactly once, and an ack
ends only the wait for its own message.

*Login slots.* Logins, denials and logouts are not acknowledged, so each can
arrive late, again, or never; one address can hold a slot under an id its client
does not know. Correct means: no machine over its limit, no client that plays loses
its slot to what comes late, no login without an answer, and in the end a slot that
server and client agree on, or none.

*Network objects.* A message names its object by an id that may meanwhile belong
to another object; creations, syncs and destroy orders overtake each other; the
server's picture of a client lives on counters that every lost wait has to
correct. Correct means: what the server believes a client knows the client has,
state never goes back, ghosts disappear, nothing starves behind a gate.

*Version control.* Updating the agreed version kicks clients and changes
settings, and both update the version again in the middle of the loops that
caused them. Correct means: old clients and settings they cannot follow are
never together, and a setting that was reverted for somebody comes back.

*Game states.* The server may wait, but a round must go on although clients
hang, come and go; reports and announcements travel in any order. Correct
means: nobody is ahead of the server, nobody is left behind unless he is too
slow, grids are of the current round when objects are sent onto them.

*Background tasks and logins.* Two mutexes per object and a list lock pass
between threads so that the main thread stands still while a background thread
runs; a login may outlive its player. Correct means: no two threads run the
game's code at once, nothing stops for good, each login ends, and is that of a
player who is present.

*Cycles' turns.* A player's turns travel to the server as destinations, arrive in
any order and while the server's cycle is somewhere else; the server waits for a
missing one for a while, makes up a turn if it does not come, and may then get it
after all; its syncs come back to a client that has made further turns. Correct
means: turns are executed in order and none is lost on the way by itself, and
client and server agree again when nothing is under way.

*Votes.* The number of voters is counted at another time than the votes; an
accepted vote throws voters out in the middle of the walk through all votes; the
accused may leave and his slot go to somebody else; the end of a vote may reach a
client before the vote. Correct means: only ballots of those present count,
majorities decide, the kick hits the accused, clients show what is open.

*Teams.* A wish that was allowed when made may not be when granted, wishes depend
on each other, and the balancing before a round asks a team for room after it has
taken the player out of another one. Correct means: the loops end, locks hold in all
of them, rounds start within the limits, nobody is thrown out without need, and
nothing of a player or a team stays behind.

*Message cache* (planned, section 2): stale entries under reused ids.

`PROJECT.json` lists these as hazards, at the line where each bites.

## 2. The plan

The modules follow the layers: messages first, since all others rely on what
they deliver, then what is built on them.

| Order | Module | Abstract view it relies on or offers | State |
|---|---|---|---|
| 1 | `MessageIds`, `ReliableMessages` | implements `MessageService` | modelled, safety and the refinement's safety proved |
| 2 | `ObjectReplication` | takes messages as delivered once, in any order; implements `ReplicatedStore` | modelled, safety and the refinement proved |
| 3 | `VersionControl` | one network per client, in any order | modelled, safety proved |
| 4 | `GameStates` | announcements are the newest syncs of 2 | modelled, order, grids and waits proved |
| 5 | `TaskQueue`, `Logins` | `Logins` extends `TaskQueue` with the steps of its threads | modelled, hand-over and logins proved |
| 6 | `SlotLimits`, `LoginSlots` | logins of 1 that ask for no ack | modelled, limits proved |
| 7 | `CycleTurns` | destinations of 1 in any order, syncs of 2 of which the newest counts | modelled, order and driving proved |
| 8 | `Votes` | messages of 1, kicks of 6 as a client's leaving | modelled, safety proved |
| 9 | `Teams` | none: all on the server | modelled, locks, balancing and the passes' end proved |
| 10 | `MessageCache` | on 1: which messages are acknowledged | next |
| 11 | id pool and objects owned by clients, as an extension of 2 | an id belongs to one owner | next |
| 12 | the heap of `tHeap.cpp` as a pure algorithm; the outcome of rounds | | if time allows |

Compositions: `ReliableMessages` is shown to implement `MessageService`, which is
what modules 2 to 5, 7 and 8 assume of the network. `Votes` has the players' coming
and going of `LoginSlots` as actions of its own: an accepted vote kicks clients
while the server walks through the list of votes.

Two abstract specifications are stated and implemented, `MessageService` and
`ReplicatedStore`. Worth stating next: a barrier for `GameStates`; a lock that only
one thread at a time owns for `TaskQueue`.

Every safety property that a passing run checks is a theorem. Worth proving next, in
this order:

* for which sizes of teams ten rounds are enough for `Enforce`, unless a suspended
  player is in the way. They are not for all: a team of thirty against one of a single
  player takes fourteen moves;
* that `QuietLogout`, `Patient` and `OneClientEach` are not only sufficient, but
  which weaker conditions on the environment would do;
* refinement of the abstract specifications above.

The number of runs is kept at twelve, so that all of them together take about
twenty minutes; a run for a new component takes the place of one for a
disagreement that is then told in section 6 only.

## 3. Modules and code

Names of variables and actions are those of the source where TLA+ allows it. An
action is a whole handler: what the handler calls, sorts, resets or sends is part
of the action. Operators marked *Faulty* or *Mutant* in the modules are not part
of the model; they stand for plausible bugs, and each property is known to fail
when one of them takes the place of the original.

### 3.1 `MessageIds`, `ReliableMessages`, `MessageService`

One direction of one connection. Messages are named by their full counter value
(`messageIDBig_`), the code compares `Wire(id)` only.

| Code | Model |
|---|---|
| `nMessageBase` constructor, skipping the reserved ids | `NextId`, `PostMessage`, `OtherPeersMessage` |
| `sn_SendPlanned1`, one turn | `SendPlanned` |
| `nWaitForAck::Resend`, total timeout, `AckAllPeer` | `Resend`, `TotalTimeout`, `Disconnect` |
| send queue overflow in `nMessage_planned_send::execute` | `SendQueueOverflow` |
| duplicate check, ring and ack queue of `rec_peer` | `IsNew`, `QueueAck`, `ReceiveMessage` |
| `sn_SendAcks`, `sn_AckHandler`, `nWaitForAck::Ackt` | `SendAcks`, `ReceiveAcks`, `Acked` |
| the network | copies stay in `dataNet` and `ackNet` until they are too old or `Lose...` takes them |

Left out of the test for "surely new": that login messages are, as long as
`highest_ack` is 0 (`nNetwork.cpp:2694`; handshakes are in `LoginSlots`), and that id 0
never is (`nNetwork.cpp:2690`; it is not given out).
Left to chance: which planned message is the most urgent one (priorities are
floating point) and when a resend is due. The pace of the environment is bounded
by `MaxLag`, `MaxRingSpan` and `MaxBehind`: how many ids may be handed out, to any
peer, while a copy is under way, while the ring remembers an id, and since the
newest handled one. Without such bounds sixteen bits cannot be enough: a copy
that stays on its way for a whole lap looks like a new message.

`MessageService` is the abstract specification: post, deliver once, close.

### 3.2 `ObjectReplication`

The server and one connection slot, whose occupants come and go.

| Code | Model |
|---|---|
| constructor, `RequestSync`, destructor on the server | `CreateObject`, `ChangeObject`, `DestroyObject` |
| `nNetObject::SyncAll` | `SendDestroyer`, `SendCreation`, `SendSync` with `MayCreate`, `MaySync` |
| `nWaitForAck`, `nWaitForAckDestroy`, `nDontWaitForAck` | `pendingAcks`, by `kind`; `SendAndWait`, `StopWaiting`, `Resend` |
| `AckExtraAction` | `Learn`, in `ReceiveAck` |
| login, logout, `sn_ReadyObjectsHandler`, `ClearKnows` | `Login`, `Logout`, `ReadyObjects` |
| `HandleIncoming`, `PreCheck`, `SyncIsNew` | `HandleObject` |
| `net_destroy_handler`, `sn_DoDestroy`, received-complete callback | `Receive`, `DoDestroy`, `ReceivedComplete` |

Objects are numbered for good and share `NumIds` ids in turn, as `inc_id` gives
them out. A freed id rests in `sn_freedIDs` while about a thousand others are
freed; that shows in the model as: an id is not given out again while messages
that `AckExtraAction` follows up are pending for it (`IdFree`). A destroy order
for the old object may still be under way, which is what the gate in `SyncAll` is
for. Messages are numbered without wrapping around; `ReliableMessages` is where
wrapping is studied, and a client handles each number once. A logout with a
destroy message being collected (`QuietLogout = FALSE`) is studied on its own
(section 6).

`ReplicatedStore` is the abstract specification: objects are created, change and are
destroyed; a client's copy appears in some state its object was in, is refreshed to
a newer one, and disappears only when the object is dead or the client is replaced by
the next. Nothing of ids, messages, acks or the server's notes is in it. The mapping
takes what is under an id on the client for a copy of the object it is of
(`Replica`).

### 3.3 `VersionControl`

| Code | Model |
|---|---|
| `sn_UpdateCurrentVersion`: its loop, its end | `UpdateWith`: `MergeClients` of turns `MergeClient`, `Announce` |
| `nVersion::Merge`, the limits | `Merge`, `Native` |
| `nConfItemVersionWatcher::AdaptVersion`, `OnVersionChange` | `AdaptVersion`, `CanAdaptVersion`; `Adapted`, `AdaptItem` with `RevertItem`, `RestoreItem` |
| `nConfItemVersionWatcher::OnChange`, `CheckChange`, `Set` | `WatcherChange`, `CheckChange`, `SetValue` |
| `sn_DisconnectUser` in the loop, and otherwise | `Kick`, `Logout`, both with `Disconnected` |
| `sn_LoginHandler`, settings set by the administrator | `Login`, `ChangeItem`, `ChangeLimits` |
| client: `s_GetConfigProtoBuf`, `sn_VersionControlHandler` | `ReceiveSetting`, `ReceiveVersion` |

A version update runs to its end before the next packet is read, but it is recursive:
it kicks clients and changes settings, and both update the version again. The module
passes the server's state through the operators as a record, and they take the updates
nested in them as an argument, a function on such records. `Updates[n]` is that
function for updates of which at most `n` nest, built on `Updates[n - 1]`, and `Update`
is `Updates[MaxNesting]`. An update without a level left sets `failed`, and so does
one whose assertion that a common range is left does not hold; nothing happens any more
then. That `MaxNesting` levels, one for each client and each setting and one more, are
always enough is a theorem (`NothingFails`): the code's recursion ends.

Kicks do not nest (`mayKick`), as in the code. `kicked` and `wanted` are history for
the properties. Messages to a client are kept as a sequence for each setting and one
for the versions, and any of them may arrive next; a setting that arrives makes
older ones under way irrelevant, because `s_GetConfigProtoBuf` drops them. That it
takes an older one after all when it has taken none for 100 seconds
(`nConfig.cpp:125`) is left out: `ClientsAgreeOnSettings` is about messages that are
less late than that.

### 3.4 `GameStates`

| Code | Model |
|---|---|
| `gGame::StateUpdate`, `sg_AbeforeB` | `StateUpdate`, `TransferSettings`, `StepTo`, `GoalAfter`, `AbeforeB` |
| `SetState` and `SyncState` with its loop | `EnterState`, `SyncEnds`, `Behind`, `SyncAgain`, `LeaveSetState` |
| `sn_Sync` on the server, `sn_SyncAckHandler` | `SendSyncs`, `SyncOver`, `ReceiveSyncAck` |
| `sn_SyncHandler` on a client (a nested `sn_Sync`) | `ReceiveSync`, `ClientSynced` |
| creation and syncs of the game object, `gGame::ReadSync` | `Announce`, `ReceiveNews` |
| the client's `StateUpdate`, its report, `sg_ClientStateHandler` | `ClientStateUpdate`, `Report`, `ReceiveReport` |
| `LoginCallback`, a client that stops responding | `LoginCallback`, `Login`, `Logout`, `Hang` |
| `GridIsReady` | `GridIsReady` |

`pc` says where in a nested wait the server is. With `Patient` waits time out only
for clients that hang or that nobody has asked; without it they may always.
Simplifications: the two requests with which `SyncState` begins are one; what a
state does to players, teams, settings and the map is left out, except making and
deleting the grid; the loop that pushes objects in `TRANSFER_OBJECTS` and the wait
for chatting players are left out; the ack of the game object's creation comes
with its arrival; messages to a client that hangs are not kept; equal requests in
flight are merged (`MaxSyncs`); leaving the game (`goon`) is left out.

### 3.5 `TaskQueue` and `Logins`

`TaskQueue` has one action per lock operation. The main thread's place is `main`,
a background thread is what it still has to do, a sequence of steps. `Logins`
extends it with the programs of the threads of a login process and with the
players, machines and messages around them.

| Code | Model |
|---|---|
| `ScheduleForeground`: `Pending().add`, `st_ToDoOnce(FinishAll)` | `AddTask`, `ListTask`, `ListOnce` |
| `tBackgroundSyncEvent::Enter`, `Leave` | `TakeList`, `TakeExit`, `TakeEntry`, `OpenEntry`, `OpenExit` |
| `st_DoToDo`, `FinishAll` | `CallFinishAll`, `TakeTask`, `NoTasksLeft`, `ForgetCurrent`, `NothingToDo`, `LeaveToDo` |
| `st_SyncBackgroundThreads`, `Sync` | `StartSync`, `SyncNext`, `AwaitExit`, `CloseEntry`, `EndSync` |
| `nLoginProcess::Init`, `sn_Reset` | `Start`, `Killed` in `Join` and `Leave` |
| `FetchInfoFromAuthority`, `QueryFromClient`, `Authorize` | `FetchInfo`, `Query`, `Authorize`, `Check` |
| `HandlePasswordAnswer`, `ProcessClientAnswer`, `Finish`, `ResultCallback`, `RequestScheduledLogins` | `ReceiveAnswer`, `Finish`, `Schedule` |
| client: `HandlePasswordRequest`, `FinishHandlePasswordRequest` | `ReceiveRequest`, `Answer` |

Left out of `TaskQueue`: the branch for playing recordings back, other postponed
functions than `FinishAll`, nested calls of `st_DoToDo` (they happen in waits inside
handlers), functions postponed from signal handlers. A call of `st_DoToDo` that
finds nothing is a stutter. In `Logins` a user "refuses" by cancelling or by
answering for another server address, which have the same effect; what the authority
says is left to chance; an answer to another request than the process's own cannot
be right, as it was scrambled with another salt. Process ids are not reused; wishes
beyond their number are kept. A player who comes always wants a login (`WantLogin`),
which is more than `ePlayer.cpp:1433` does. Resolving addresses in the thread
(`SERVER_DNS`) and the expiry of machines are left out.

### 3.6 `LoginSlots`

| Code | Model |
|---|---|
| `sn_LoginHandler` | `ReceiveLogin`: `Grant`, `Full` or `Banned` |
| `CountSameConnection`, `CountSameIP`, `GetFreeSlot` | `NotLoggedIn`, `SameMachine`, `IsFreeSlot` |
| `sn_DisconnectUserNoWarn`, `sn_KickUser`, total timeout, `sn_LogoutHandler` | `Disconnect`, `Kick`, `Timeout`, `ReceiveLogout` |
| `rec_peer`, for packets from nobody's address | `StrayPacket` |
| `sn_Connect`, handlers of acceptance and denial, `sn_SetNetState` | `Connect`, `ReceiveAccepted`, `ReceiveDenied`, `Leave`, `GoStandalone`, `ClientTimeout` |

`SlotLimits`, which `LoginSlots` extends, says what a slot holds and who plays in it,
and states the two safety properties.

Every attempt to connect has an address of its own, because `sn_Connect` resets
the sockets; copies of a login stay under way for ever. `sameIP` keeps the counts
of the time of login, as the static array of `CountSameIP` does, stale ones
included. Denials, logouts and logins may arrive any number of times, or never;
an acceptance arrives at most once (`ReliableMessages`). What was sent to a socket
that is closed is not kept. The server is a dedicated one (a player on the
server itself would count against the limit) and `MAX_CLIENTS` does not change.
Left out: turtle mode, which makes packets of unknown senders vanish more often;
redirections; the three formats of logins `sn_Connect` tries in turn; clients of
incompatible versions (`VersionControl`). `StrayPacket` denies whatever a stranger
sends; `nMessageBase::Handle` drops some messages of strangers without a word, which
is the case of the action not taken. `kicks` and `MaxKicks` tell kicks apart from
other ends of a session, for `PlayersStay`.

What no property says, because it is not so: that a machine has one slot (with a
hard limit of two or more, a client that comes back while the slot of its earlier
session stands has two, until that one times out); that a slot given to a login that
came late is ever used (it is the timeout alone that frees it); that a denial ends only
the login it is about (`sn_LoginDeniedHandler` does not look: one that comes after
a later copy of the same login was granted a slot ends that session).

### 3.7 `CycleTurns`

One player's cycle: the client that steers it, the server, and the extrapolator
in which the client replays its newer commands on an old sync.

| Code | Model |
|---|---|
| `gCycle::DoTurn`, `gCycle::Act`, the queue of `gCycleMovement::DoTurn` | `Press`, `Queued`, `TurnPending`, `Brake` |
| `AddDestination`, `gDestination::InsertIntoList` | `AddDestination`, `NextIn` |
| `sg_CycleDestinationSyncHandler`, `OnNotifyNewDestination` | `ReceiveDestination`, `TooLate`, `CurrentAfter` |
| `gCycleMovement::Timestep` at a destination | `UseDestination`, `LosePatience` with `LooksMissed`, `Adjacent`, `Guesses`, `Follow`, `CaughtUp`, `Improvised`, `GivenUp` |
| `WriteSync`, `ReadSync`, `GetDestinationBefore` | `WriteSync`, `ReadSync`, `ReplayFrom` |
| `Extrapolate`, `SyncFromExtrapolator` | `Extrapolate`, `SyncFromExtrapolator` |

Positions and times are left out; what they decide is a choice: when a queued turn
can be made, when the server reaches a destination, when its patience ends, when
the extrapolator has caught up. The cycle stays alive and the grid has four
directions; client and server are of the present version. Only the newest sync
under way is kept, as older ones are dropped when they arrive. Two commands are
adjacent if the id of one's message is one more than the other's, as the code
assumes. The extrapolator does not correct brakes, so `Agreement` speaks about headings
and counts of turns. `MaxTurns` bounds the commands.

### 3.8 `Votes`

| Code | Model |
|---|---|
| `eVoter::HandleChat`, `AcceptNewVote`, `CheckValid`, `ReBroadcast` | `Propose`, `MayPropose`, `NewItem`, `TotalOf`, `Informed` |
| `eVoteItem::GetControlMessage` | `ReceiveBallot`, `Count` |
| `Evaluate`, of server controlled items, too; the walk through all items | `Evaluated` with `TooFew`, `Rejected`, `Accepted`, `TimedOut`; `AfterLooks`, `AllEvaluated` |
| `DoExecuteHarm`, `se_VoteKickUser` | `Executed`, `Culprits` |
| `RemoveFromGame` of players and voters | `Removed`, `Withdrawn`, `Without`, `MachinesOf` |
| `se_Cleanup` on login; leaving; spectating | `Login`, `PlayerLeaves`, `Leave`, `Watch`, `Play` |
| client: `se_HandleNewServerVote`, `HandleChanged`, `Vote`, the menu | `ReceiveNew`, `ReceiveChange`, `Vote`, `Look` |

What the server does in one go is a chain of operators on a record of its state,
because an execution changes the list of items that the caller is walking through
(`AfterLooks`, a function of how far it has come). The voters of several machines go
in one step, which makes no difference as nothing looks in between. Ballots of any
client may come at any time, also of one that was never told of the vote, which is
more than the clients do. Only clients take note of changes of votes
(`ReceiveChange`): the handler does not look at the net state, but only servers send
them. The slot of an accused whose object the server still has when its client leaves
becomes 0 in the code, which is nobody's; in the model the object goes with its client
and the observer of it is cleared (`Unobserved`), and the kick hits nobody either way.
A vote may be refused at will (spam, a recent vote on the
same player). Left out: votes that run commands or silence somebody, and players of
old clients that go on as legacy spectators. Votes that suspend end like kicks,
except for what they do.

What the model showed about details, none of which contradicts a comment: the count
of those asked has a machine twice if it has another client than the proposer's;
those who log in later may vote but are not counted, so the number of abstentions
that is printed can be negative; one player who leaves takes the ballots of
the whole machine along, while its client has forgotten the item and cannot vote
again; on a dedicated server votes are looked at only when somebody votes or proposes;
one that is decided by a kick inside that walk waits for the next look; and
leaving and coming back resets the limit of votes per voter.

### 3.9 `Teams`

| Code | Model |
|---|---|
| `eTeam::PlayerMayJoin` | `PlayerMayJoin`, `Fits`: lock, `Room`, `Swap` |
| `SetTeamWish`, `UpdateTeam`, `CreateNewTeam` | `Wish`, `UpdateTeam`, `MayCreate`, `CreateNewTeam` |
| `SetDefaultTeam`, `FindDefaultTeam` | `SetDefaultTeam`, `FindDefaultTeam` |
| `ReceiveControlNet`: change, new team, auto team | `ReceiveTeamChange`, `ReceiveNewTeam`, `ReceiveAutoTeam` |
| `se_Lock`, `se_Invite`, `UnInvite`, `Suspend`, `UpdateSuspensions` | `SetLocked`, `Invite`, `UnInvite`, `Suspend`, `UpdateSuspension`, `EndSuspension` |
| `ePlayerNetID::Update`, its loop over wishes | `BeginUpdate`, `AssignOne`, `EndPass`, `DefaultOne`, `DeleteWishes` |
| `eTeam::Enforce` | `Enforce` with `PickVictim`, `MoveToSmallest`, `MoveToNewTeam`; `Dissolve`; `StartRound` |
| references to team objects, `~eTeam` | `Store`, `StoreWith` |

The loops of `Update` and `Enforce` run as small steps of the phases "assign",
"default" and "enforce", with nothing else in between; all the rest happens in
"play". An update may or may not be followed by the balancing. `TEAMS_MIN` and
`TEAM_MIN_PLAYERS` are 0 and there are no computer players, so the listed teams are
those with members; teams are eliminated by size; `ALLOW_TEAM_CHANGE` is on; a team
object that nobody refers to may come back as a new team. Ties are broken at will,
how long a suspension lasts and whether it is warmup are choices. Positions in a
team, colours, scores, access levels and scrambling are left out. `Suspend` is
also the step of a suspension that runs on for another round, which clears the wish of
its player once more (`ePlayer.cpp:10381`).

That the passes over the players end is stated as an action property (`PassesEnd`: a
rank falls with every step), which unlike a liveness property may be checked with
symmetry and needs no fairness.

## 4. What the runs check

Each property is stated in a comment above it in its module. `MC...` modules hold
constants only; no run replaces a definition.

| Run | Configuration | States | What it shows |
|---|---|---|---|
| `reliable_safety` | `MCReliable.cfg` | 109,573 | ids wrap around inside a connection with copies and late acks: nothing lost, nothing handled twice, acks honest |
| `reliable_live` | `LiveReliable.cfg` | 1,338 | on a lossy network everything is handled or the connection ends; `MessageService` is implemented |
| `replication_safety` | `MCReplication.cfg` | 1,889,462 | two objects under one id, two occupants of a slot, losses: counters exact, knowledge right; `ReplicatedStore` is implemented |
| `replication_live` | `LiveReplication.cfg` | 3,271 | creations, acknowledged syncs and destructions get through |
| `version_safety` | `MCVersion.cfg` | 1,317,946 | three clients of three versions, two settings, two lower limits: see 1.2 |
| `games` | `MCGames.cfg` | 176,195 | two rounds with a client that logs in, hangs, leaves and returns |
| `logins` | `MCLogins.cfg` | 272,746 | a client that comes and goes with two login processes |
| `login_slots` | `MCSlots.cfg` | 159,208 | three machines, two slots, one login each; one client comes back: limits hold, who plays stays, logins come to an end |
| `cycles` | `MCCycle.cfg` | 457,953 | three turns or brakes that overtake one another, lost patience, late syncs: executed in order, and agreed upon in the end |
| `votes` | `MCVotes.cfg` | 596,772 | three clients on up to three machines and two votes: ballots, majorities, kicks and the list one client shows |
| `teams` | `MCTeams.cfg` | 221,156 | four players, three team objects: locks, loops that end, limits |
| `replication_orphan` | `OrphanReplication.cfg` | | a disagreement, section 6 |

### 4.1 Bounds, and why they are enough

* `MCReliable`: an id space of 16, a ring of five, a fresh window of five. The
  connection starts at id 12 and ends at 21, so the counter passes the end of the
  space and the value 0, which is never given out, and the ring overflows. The
  ratios are those of the code where they matter: the pace bounds are below one lap,
  the ring is smaller than the window is than the space, and the ring holds one more
  than twice the lag of a copy (`KeepsPace`, section 5). With a ring of four TLC
  finds a message handled twice, if the connection lasts long enough.
* `LiveReliable`: four ids from the start of the counter, one resend before the
  total timeout, a network that loses. Liveness of a message depends on its own
  copies and acks only.
* `MCReplication`: one id for two objects gives every interleaving of messages for a
  former and a present holder; two changes let syncs overtake each other; two
  sessions reach a slot taken over; four messages are a creation, a sync, a destroy
  order and the creation of the next holder.
* `MCVersion`: the lowest, a middle and the highest version; one setting of each
  behaviour that acts, introduced in different versions, three values so that a
  saved value differs from both the default and a later wish; one client followed,
  since clients take part in no message but their own.
* `MCGames`: one client. Clients act on each other through the server's waits only,
  and a wait for two is a wait for the slower one. Two rounds give the change of
  grids; two reports in flight are needed for one to overtake the other; two logins
  reach a slot taken over in any state.
* `MCLogins`: two processes, so that one killed by a logout still runs threads while
  the next one works; two threads per process so that a second one could exist.
* `MCSlots`: with a limit of one per machine and a client that comes back, the ghost
  of its first attempt competes with the second; three machines for two slots make
  the server full. `SoftLimit = 0` makes a full server throw somebody out. Three grants
  and a kick suffice for a slot that is lost before the answer arrives and given
  again, to the same client or another one. (Four have a million states, too many
  for the liveness property.) `Heard` has the client that comes back: nothing is assumed
  of the messages of the others, and the property is about this one.
* `MCCycle`: three commands are one that is late, one that overtakes it and one that
  follows; with them guesses go wrong in both ways, and a brake can be in each
  place.
* `MCVotes`: three voters are the fewest among whom a majority is neither one nor
  all; one client may watch, one client's list is followed. Two votes, one at a
  time: the second reuses what the first left. (With two votes open at a time, two
  machines and no list followed, the same properties hold.)
* `MCTeams`: four players make a team of two and two others, or two teams of two, so
  that sizes, imbalance, swaps and a third team matter; limits of two teams and two
  players are exceeded by single steps; one locked team and one invitation or
  suspension at a time; two wishes pending, so that one waits for the other.

Some cases a property allows for, or a hazard describes, are beyond these instances.
`LiveReplication` has one object, so a creation never waits for the destroy message of
a former holder there; that the gate opens again is the safety property `CountersExact`
with `EventuallyDestroyed`: the count it looks at is the number of destroy messages
that are waited for. `MCLogins` has one client, so no login process is killed by the
coming and going of another client of its machine, and `MCVotes` one vote at a time,
so no look at one vote changes another; the theorems `PresentOnly` and `BallotsStand`
are about any number. Four properties exempt what the code does not promise:
`CurrentSupportedUnlessKicked` everything after the first kick, `NobodyLeftBehind`
clients whose reports came out of order, `ShownIsOpen` votes whose end has overtaken
older news of them, `AtMostOnce` copies older than the window (`KeepsPace`).

Counters that bound a run (`MaxObjects`, `MaxMessages`, `MaxRounds`, `MaxLogins`,
`MaxGrants`, ...) are guards of the actions that count. Runs that may use a bound
up stop there, hence `CHECK_DEADLOCK FALSE`; `version_safety`,
`logins`, `cycles`, `votes` and `teams` check deadlock.

### 4.2 Fairness, and why the code justifies it

| Module | Assumed | Because |
|---|---|---|
| `ReliableMessages`, `ObjectReplication` | weak fairness of sending and resending | `sn_SendPlanned`, `nWaitForAck::Resend` and `SyncAll` are called in every turn of the main loop |
| | strong fairness of receiving | the network may lose any copy, but a message that is sent over and over gets through |
| `GameStates` | weak fairness of the server's own steps and of messages in flight | main loop; `ReliableMessages` shows that messages arrive |
| | strong fairness of `ClientStateUpdate`, `Report`, `ClientSynced` | a client is one thread: what a nested `sn_Sync` interrupts goes on when it returns |
| | strong fairness of `LeaveSetState` | the clock that ends the wait runs on while other waits come between |
| `Logins` | weak fairness of the main thread and of the clients' users | they are loops; a user answers or leaves |
| | strong fairness of background threads | a thread that waits for the list's lock gets it in one of the pauses between two `st_DoToDo` |
| | strong fairness of `Answered` | the main loop looks for messages before each `st_DoToDo` |
| `LoginSlots`, of the clients in `Heard` | strong fairness of a login arriving where it is answered, of the acceptance as long as the slot is the client's, of a denial as long as there is no slot to be had | `sn_Connect` sends the login four times a second, the acceptance is sent until it is acknowledged, each copy of a login that finds no slot is denied again |
| | weak fairness of the client's timeout | it has a message that waits for an ack: its request for ids (`first_fill_ids`), later what its player does |
| `CycleTurns` | weak fairness of turns falling due, destinations and syncs arriving, the server's and the extrapolator's simulation | main loops; destinations are acknowledged messages, syncs are written on and on; patience ends by the clock, unless it only idles (`Idles`) |

Nobody has to log in, log out, hang, want anything or end a round, and no single
copy of a message has to arrive. That a client leaves after five seconds without an
answer (`sn_Connect`) is not used: `LoginsSettle` says that there is an answer for one
that waits. The last line on `LoginSlots` is an assumption about users for as long
as they are connected: a client whose player does nothing at all has nothing to wait
for and would not notice that it was thrown out.

## 5. What is proved

TLC looks at one small instance; the theorems hold for all values of the constants
that the modules' assumptions admit. They are proved in `..._proofs` modules.

| Theorem | Says | Inductive invariant |
|---|---|---|
| `ReliableMessages_proofs`: `TypeCorrect`, `NoMessageLost`, `AcksAreHonest` | types and limits of window and ring; a posted message is queued, awaited or handled while the connection stands; a wait ends because of the receiver or with the connection | `TypeOK /\ PostedIds /\ HandledIds /\ Recent /\ NothingLost` |
| ... `HandledOnce`, `ProtocolImplementsService` | if `KeepsPace`: no message is handled twice; every step is one of `MessageService` or a stutter | the above with `InTurn /\ Covered /\ NotBehind /\ Newest` |
| `ObjectReplication_proofs`: `TypeCorrect`, `CountersCorrect` | types, so at most two acknowledged messages per object under way; the counters of window and gate are the numbers of waits | `TypeOK /\ NoOrphans /\ CountersExact` |
| ... `ClientAgrees`, `NeverOlder`, `ReplicationImplementsStore` | if `QuietLogout`: what the server believes a client knows the client has; its copies do not go back; every step is one of `ReplicatedStore` or a stutter | the above with `Mirror`, and with `Announced` |
| `Connections_proofs`: `NothingFails`, `CorrectUntilFailure` | if `RoomToBlock`: no assertion of an update fails, and its recursion ends; without it, the invariants hold until one fails | `Types`, `RoomToBlock => ~ server.failed`, `server.failed \/ Rest` |
| ... `VersionTypeCorrect`, `CurrentIsSupported`, `OldClientsStayOut`, `RevertingIsTemporary`, `SettingsReachClients` | if `RoomToBlock`: types; the agreed version suits all; old clients are kept out or settings revert for them; clients get the server's settings | the same |
| `GameStates_proofs`: `TypeCorrect`, `NoClientRunsAhead` | types; grid and state of a client belong to a goal the server announced | `TypeOK /\ ServerOrder /\ NewsOrder /\ ClientOrder` |
| ... `ObjectsNeedAGrid`, `NobodyIsLeftBehind` | if `Patient`: who gets objects has the grid of this round; a wait ends when all that respond have come so far | the above with `GridInv` |
| `Logins_proofs`: `TypeCorrect`, `StandsStill`, `PresentOnly` | types; no background thread is inside unless the main thread waits for it; login processes are those of players who are there | `LoginInv`: types, `Locks`, `Present` |
| ... `OneThreadEach`, `AnswersAreOwn` | with one client per machine: one thread per sync object; answers are to the process's own question | the above with `Questioning` |
| `Connections_proofs` (for `LoginSlots`): `TypeCorrect`, `MachinesWithinLimit` | types; no machine is over the hard limit | `TypeOK`, `TypeOK /\ SameIPLimit` |
| ... `WhoPlaysStays` | if `Patient`: a client that plays keeps its slot until it is kicked or a full server gives it away | `TypeOK /\ SessionsOver` |
| `CycleTurns_proofs`: `TypeCorrect`, `ListsInOrder`, `NeverBack` | types; the server heads for the first destination it has not used; none is executed after a later one or twice | `TypeOK /\ InOrder /\ Consistent` |
| ... `DrivesAsCommanded` | as long as no patience ends, the server's cycle drives as the client's did at the last destination used | the above with `~ gaveUp => Driven` |
| `Votes_proofs`: `TypeCorrect`, `BallotsStand`, `MajorityRules`, `OnlyTheAccused`, `ClientsHearOfTheEnd` | types; ballots are of those present; majorities decide; a kick hits the accused; who shows a vote that is over is told so | `TypeOK`, each item `Fine`, each passed vote `Just`, `ClientsInv` |
| `Teams_proofs`: `TypeCorrect`, `NothingStaysBehind`, `LocksAreHeld` | types; nothing of a player or a team outlives it; nobody enters a locked team uninvited | `TypeOK /\ NothingDangles /\ NoDoubles /\ LoopOK` |
| ... `FairBalancing`, `UpdateComesToItsEnd`, `BalancedUnlessGivenUp` | nobody is thrown out without need; the passes over the players end; rounds start within the limits unless `Enforce` gives up too early | the same |

*Reliable messages.* `NothingLost` is not inductive: an ack names sixteen bits, and
whether it is for the message that waits under them depends on what else can
still be on the wire. `Recent` says that whatever is awaited or under way was
numbered within less than a lap of the counter, and the lemma `WireInjective` that
ids less than a lap apart look different on the wire. So an ack that ends a wait
is for that message, and it exists because the message was handled
(`HandledIds`). The lap comes from `MaxLag <= MaxRingSpan < IdSpace`, which the module
assumes.

That nothing is handled twice needs more, and `KeepsPace` says what: `2 * MaxLag <
AckBack`, that what is handled stays within `FreshWindow` of the counter, that lag and
window fit into the id space, and that the connection does not start where the value 0
of a fresh `highest_ack` would be taken for a recent id (section 6). Then `highest_ack`
stands for the highest id handled (`Newest`, with `Base` for the 0 it starts with), what
is above it really is new, and what is not is in the ring as long as a copy can be
around (`Covered`). The latter is the pigeonhole principle: ids that push a message out
of the ring arrive after it and differ; those posted before it was are at most `MaxLag`
behind it, those posted after it are at most `MaxLag` ahead if a copy is still around,
and there are more than `2 * MaxLag` of them. The bound is sharp: in an instance with
`AckBack = 4` and `MaxLag = 2` a message is handled twice. The code has 1000 for
`ACKBACK` and a send window of 100 per peer, so it keeps the pace unless copies are
under way for 500 ids. The refinement then is a matter of actions: handling delivers,
`NothingLost` and honest acks make all others stutter.

*Network objects.* `destroyersCount` and the per-object count of pending acks move
in four places each, and `CountersExact` equates them with the sizes of sets of
waits. It needs `NoOrphans`: no wait of a former occupant of the slot survives.
That in turn needs `QuietLogout`, the assumption that section 6 shows to be
necessary.

`KnownObjectsAgree` speaks about the moment in which an ack arrives; `Mirror` about
all that leads there. Its center is `Orders`: for an id there is at most one destroy
order, collected, under way or kept by the client, never one for an object that
exists and has been sent, and always with something left to destroy or still to
come. `Latest` says that whatever is sent about an id is about its last holder or an
older one, `Copies` that a creation finds the id unused, `Ages` that numbers of
messages, objects and states grow together, which gives `NeverOlder` as well.

For the refinement each handler of the client is one action of the store: a creation
message finds no copy under its id and carries a state of its object (`StoreAppears`),
an update that `sn_Update` lets through is a newer one of the copy it finds, not of
another holder of the id (`StoreRefreshes`, from `Ages`), and the orders that
`sn_DoDestroy` carries out are for the dead (`StoreDisappears`). The last needs one
more invariant, `Announced`: an object that exists and that the client has is one the
server has begun to tell it about; for such an object `Orders` excludes any order.
Everything the server sends, resends or learns from acks is a stutter.

*Version control.* What an update does is said by relations between the server's states
before and after: `Step` for every part of it (clients only leave, blocking settings
stay, a client that knows a setting knows the new value or will), `Moves` for what in
addition holds when nobody is kicked, `Updated` for a whole update. The relations
compose, so what holds of the nested updates (`Sound`) holds of the loop over the
clients and of the loop over the settings (`MergedMoves`, `AdaptedMoves`), and of
the update around them (`UpdateWithSound`); `UpdatesSound` is the induction on the
level. The difficulty is that a nested update runs while its caller has stored half
of a change. `Steady` says which halves there are: a watcher knows whether its setting
has the default value (`Known`), or has just been told that it will (`Held`). When
nobody has to be kicked (`Fit`), every nested update agrees on the same range
(`Agreed`) and so can only do work that its caller has not yet done.

That updates end uses the same facts with a count: the settings that are `Wrong`
under the agreed range, of which a nested update finds one less, when everybody stays;
the clients that are left and all settings otherwise, as an update that follows a
kick has a client less (`Enough`, `UpdatesAmple`).

Between events the server is at `Rest`: `Quiet` whoever was kicked, `Told` for the
clients' knowledge of the settings, and `Undisturbed` until somebody has been kicked,
since section 6 shows that the agreed range need not be right afterwards.
`RoomToBlock`, the hypothesis that no `MAX_PROTOCOL_VERSION` an administrator sets is
below the first version a blocking setting asks for, holds with its default, 0 for no
limit; section 6 says what happens otherwise, and `CorrectUntilFailure` does not assume
it. These proofs and those of `LoginSlots` share a module, as both are about a server's
clients: the second part of `Connections_proofs` instantiates `LoginSlots`.

*Login slots.* The limit holds because a slot that is given away counts for its new
owner only. That who plays stays rests on `SessionsOver`: a logout under way is from
an attempt that was made and that nobody listens for any more, so it never comes
from the address of a client that answers, whoever has the slot it names by then.

*Game states.* A client's goal comes from an announcement, an announcement from
the server's goal at the time it was made, and the server's goal only grows; the
invariant has one conjunct per link of this chain.

The other two theorems are about what the server knows of a client, and need to know
where in a round every message can be. `ServerWalk` lists the eleven waits of a round.
For a client that responds, `Tokens` says that a request, its answer and its being
counted exclude each other, `Heard` that the client's goal is the server's or the one
before and the newest is on its way, and `Follows` which states it can be in and which
reports of them can be under way, wait by wait: early reports are `Purged` by the waits
for creation and transfer of objects, those with a grid are of this round (`Marks`),
old grids are gone when reports come in order (`Ordered`). `Patient` is the hypothesis
that a wait times out only for a client that hangs; a wait that times out for a slow one
leaves it behind, and the code means it to.

*Background tasks and logins.* `Locks` relates the remaining program of each thread,
which is a suffix of one of the few it can be given, to who holds the list and the
two mutexes, and to the place of the main thread. It needs nothing of the logins.
`Questioning` follows a question: the process that asks has no thread that works,
its request, the client's dialogue and the answer exclude each other, and who is due
to be finished asks no more. It needs `OneClientEach`: section 6 shows what two
clients of one machine do to each other.

*Login slots.* Every step either gives one free slot to an address that has none,
takes slots back, or leaves them alone (lemma `Steps`). The limit is then a matter of
cardinalities: granting adds one to a set that was below the limit, after the
kicks that make room.

*Cycles' turns.* `OnlyForward` compares a destination with the one used before it, so
it needs `InOrder`: all used destinations come before all others, and the current
one is the first of the others. A late destination keeps that: if a used one came
after it, then so does the next in the list, and that one is used, which is what
`TooLate` asks (lemma `ReceiveDestinationCore`). `Consistent` adds that a destination
arrives once and that a replay follows none that does not exist yet.

`FollowsCommands` is about a server that waits for missing destinations as long as it
takes. `Driven` says that each of the client, the server, the sync and the extrapolator
drives as the client did at some destination (`CommandOf`); that commands are single
turns or brakes; and that two destinations with the same count of turns head the same
way, so that what looks adjacent is. Then a destination is used only in the situation
the client gave it in, and the server's taking the count of turns for the measure of
what is missing is right.

*Teams.* Every action ends in storing new team pointers, and the lemmas say for each
way to get at them that they may be stored (`Storable`: only players who are there
take part, and who enters a locked team is invited), and that what is stored refers
to no team that was destroyed (`Stored`). `NoDoubles` is for a player that leaves:
its place in the list is taken by the last one, and nobody else loses his. `LoopOK`
keeps the loops of the update within the list.

For `FairBalancing` a player's team is followed from the largest team to where it is
refused; what the refusing team's size says needs cardinalities, as teams are sets
of players. That the passes end is shown by a rank of three numbers, the ungranted
wishes, the players without a team and what the loop has left, whose lexicographic
order is one of numbers (`TripleOrder`) because the last two are bounded by the
list. `Enforce` compares only the largest and the smallest team;
`BalancedUnlessGivenUp` says that this is enough for all of them. Its hypothesis
`[]~GivesUpEarly` excludes one thing: that ten rounds end with teams out of balance
and no suspended player in one. With four players TLC finds that this never happens
(`RoundsStartBalanced` is checked without the hypothesis).

*Votes.* An accepted vote throws voters out in the middle of the walk through all
votes, so the theorems are about a record of the server's state at any point of the
walk, and follow by induction over how far it has come. `Fine` says of an open vote
that its ballots, its proposer and its accused are those of machines that are there,
and keeps the count of those asked; removing a set of machines or players keeps that
(`Without`, `Unobserved`). `Just` says of a passed vote why it passed and whom it
hit; it never changes afterwards. A client has heard of an open vote, or its end is
on the way (`ClientsInv`); what is under way for a client ends with it.

*Induction.* The library's theorems on induction cannot be used (they take operators as
parameters). Induction up to a number is proved here for sets, from the pigeonhole
principle (`SetInduction`): it shows that the functions over the loops are well defined
(`LooksDefined`, `MergedTurns`, `AdaptedTurns`), what updates do on every level
(`UpdatesTotal`, `UpdatesSound`, `UpdatesAmple`), and that a finite set of teams has a
largest one (`LargestExists`).

The hypotheses of theorems (`KeepsPace`, `QuietLogout`, `RoomToBlock`, `Patient`,
`OneClientEach`) are about constants, and each holds in the run that checks the
invariant or action property in question, so TLC and the prover speak about the same
thing. Only `reliable_live`, which has four messages, makes its ring smaller than
`KeepsPace` wants, so that it overflows. The type invariants are theorems and no
longer part of the runs.

Only model-checked:

* all liveness properties: `EventuallyHandled`, the part of `ImplementsService` that is
  about fairness, `EventuallyCreated`, `EventuallyDestroyed`, `EventuallySynced`,
  `RoundsGoOn`, `LoginsEnd`, `LoginsSettle`, `AllUsed` and `Agreement`,
  because the prover has no fairness. Where the safety behind one is proved, like the
  falling rank of the passes in `Teams`, it is a theorem;
* that ten rounds suffice for `Enforce`, with the four players of `teams`.

## 6. Where code and comments disagree

One run expects a violation and shows the first of these.

* `replication_orphan` (`NoStarvedCreations`, `network/nNetObject.cpp:2029`). A
  client logs out while destroyed ids are being collected for it. Its waits have
  been forgotten already when the logout callback sends the collected ids and sets
  `destroyersCount` to 0, so this wait stays, is resent to the next occupant of the
  slot, and its end brings the count to -1. `SyncAll` then refuses creations
  although no destroy message is unacknowledged, the condition its comment (line
  1708) states. The leftover order also reaches the next client: with `QuietLogout =
  FALSE` and six messages `MCReplication.cfg` violates `KnownObjectsAgree`, as the
  client destroys a later holder of the id that the server believes it has. In the
  program that id would have to come around again before the leftover is
  acknowledged and forgotten, which the rest of a freed id makes unlikely.

The following are not runs of their own; where constants are named, TLC shows them
with these.

* `network/nNetwork.cpp:533`. When the merge of the clients' versions meets an
  incompatible client it kicks it, starts again from the native range and goes on
  with the remaining slots only. Clients in the slots already passed no longer
  count, and the result is not "the version currently supported by all connected
  players" (`nNetwork.h:174`). Without such a kick the property holds
  (`CurrentSupportedUnlessKicked`, checked in `version_safety`). `MCVersion.cfg`
  with `Followed = {}` and `Values = {0, 1}` violates `CurrentSupportedByAll`.
* `network/nConfig.cpp:645`. `AdaptVersion` asserts (`tVERIFY`) that a blocking setting
  leaves a common range, but nothing keeps `MAX_PROTOCOL_VERSION` from being set below
  what a blocking setting in use asks for, or such a setting from being changed under
  such a limit: the next update ends the server with an internal error
  (`tools/tError.h:45`). `MCVersion.cfg` with `Followed = {}` and `MaxVersions = {0, 1}`
  violates `~ server.failed`. `RoomToBlock` excludes it.
* `tron/gGame.cpp:2918`. The clients' reports of their state may overtake each
  other, and the last to arrive counts. A client that joins in the middle of a round
  reports all states at once; if an early report is lost and resent, the server
  holds it to be without a grid for the rest of the round and sends it no cycles.
  `MCGames.cfg` violates `PlayersGetObjects` with `Spec`; no run checks it.
* `tools/tRecorder.h:367`. "Create one of these per background thread", but a login
  process has one sync object, and every answer from its machine starts a thread,
  also while another one runs. With two players behind one address both threads can
  be in `Enter` at once; then each waits for what the other one holds, and the main
  thread for both. `MCLogins.cfg` with two clients on one machine (`MachineOf <-
  Together`) violates `OneThreadPerSync`.
* `tron/gCycleMovement.cpp:2518`. When patience with a missing destination ends, the
  server makes up the turn that seems to be missing, to the side it has guessed. If
  the destination at hand is a brake there is no side: `Turn( 0 )` counts a turn and
  turns nowhere, again and again, and the cycle does not go on to later destinations
  until the missing one arrives; if none is missing (brakes alone can make it look
  so) it never does. `Stranded` in `CycleTurns` names these states, `AllUsed`
  excludes them.
* Also in `CycleTurns`: when patience with two missing turns ends, a brake that
  comes after them may be used with the cycle heading the opposite way, because
  headings are compared as parallels; a command that arrives after the next one has
  been used is deleted, so a late brake is never applied and the brakes of client
  and server differ until the next one. `FollowsCommands` says what is left.
* `engine/eTeam.cpp:1003`. The balancing puts players of a dissolved team into the
  smallest other one, also if that is locked and refuses them. They are then without
  a team for the round, though an open team may have room. `NobodyThrownOut` allows
  for this.
* `engine/ePlayer.cpp:8520`. `TEAMS_MAX` is compared when a team is wished for, but
  the team counts when its founder joins it, and a wish for an emptied team lists
  that one again: until the balancing there can be more teams than allowed.
* A swap of teams (`eTeam.cpp:1424`) is allowed player by player, on the strength of
  the others' wishes. If one of them is then refused because of a lock, the first
  has moved all the same and the team has more than `TEAM_MAX_PLAYERS` members
  ("Maximum number of players per team", `english_base.txt:209`) until the
  balancing.
* If the member of the largest team that is to move is suspended, `Enforce` takes
  the same one ten times and gives up. `RoundsStartBalanced` allows for this.
* `ePlayer.cpp:7739`: "start with the players that came in earlier", but
  `se_PlayerNetIDs` is not in that order once somebody has left, because
  `tList::Remove` moves the last element into the gap.
* `ePlayer.cpp:8024` keeps bare pointers to players who are to be scrambled, across
  the frames in which the server waits for players; scrambling is not modelled.
* `nProtoBuf.cpp:1317` purges old messages by their ids as sixteen bits: once the
  counter has wrapped, a message with one of the last ids at the head of the queue
  is never older than the limit. The message cache is not modelled yet.
* `nNetwork.cpp:2692` calls a message with an id above `highest_ack` "surely new".
  `highest_ack` is 0 after a login while the peer's counter is anywhere, and ids of
  10000 and more are not within the window above 0 and leave it at 0: what the ring
  forgets is then new again. With `StartId = 3` in `MCReliable.cfg` TLC finds
  `AtMostOnce` violated: message 5 overtakes 4 and is too far above 0 to count, so that
  only the ring has it; 4 then raises `highest_ack` to 4, next to which a late copy of 5
  is surely new and handled again. `KeepsPace` excludes such starts.
* `tBackgroundProcess.h:76` promises to "schedule a task for execution in the next
  tToDo call". `st_ToDoOnce` (`tToDo.cpp:52`) does nothing while `FinishAll` is the
  current function, also when `FinishAll` has already found its queue empty. The
  task waits until another one is scheduled. `Stranded` in `TaskQueue` names these
  states, `LoginsEnd` excludes them.
* `english_base.txt:739` says of `MAX_CLIENTS_SAME_IP_SOFT` that "more logins will
  get kicked when the server is full". What counts is the number of a machine's
  clients at the time of each one's login (`sameIP` in `nNetwork.cpp:1557`): a
  client may be kicked although the others of its machine have left. `SameIPLimit`
  is about the hard limit, which is counted anew.

## 7. What is not modelled

* Planned: the message cache, the id pool and objects that belong to
  clients (section 2).
* Floating point over time or space: movement, walls, zones, AI, bandwidth and
  priorities, the game clock, the decay of bans and of spam levels. Where the protocol
  depends on them the models choose freely: any planned message may be the most
  urgent one, a round may end at any time, an authority may say anything.
* Input, output and formats: sockets, name resolution, packets as bytes, server
  lists, settings files, recordings, maps and resources, user interface, sound.
* Sequential data structures (containers, strings, reference counts), except where a
  model uses them as sets, functions or sequences.

What is simplified inside the modelled components is said in section 3. In
`ObjectReplication` the network is one slot wide, because the code keeps everything
about a slot in arrays indexed by it; `GameStates`, `VersionControl` and `LoginSlots`,
where clients act on each other through the server, take any number of clients.

## 8. Running the checks

    tlasany ReliableMessages.tla
    tlc -workers 2 -config MCReliable.cfg ReliableMessages.tla
    tlapm ReliableMessages_proofs.tla

`PROJECT.json` names module, configuration and properties of each run under `runs`, and
under `mutants` for each property a changed definition that breaks it. The longest
run (`replication_safety`) takes a few minutes, the others a minute or two; `tlapm`
needs between one and a few minutes for each module of proofs; the largest are
`Connections_proofs`, which takes several minutes, `Logins_proofs` and
`ObjectReplication_proofs`.
