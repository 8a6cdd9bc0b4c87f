----------------------------- MODULE GameStates -----------------------------
(***************************************************************************)
(* How a server leads its clients through the states of a round            *)
(* (gGame.cpp): StateUpdate walks from one state to the next while the     *)
(* state lies before stateNext on a circle; the server announces stateNext *)
(* with the game object and waits in SyncState, which calls sn_Sync        *)
(* (nNetObject.cpp), for the clients to report that they have followed.    *)
(*                                                                         *)
(* Every message arrives once, in any order (MessageService); an           *)
(* announcement older than the newest one seen is dropped                  *)
(* (ObjectReplication, StateAdvances).  Any wait may time out.             *)
(***************************************************************************)
EXTENDS Integers, FiniteSets

CONSTANTS
  Clients,      \* connection slots
  MaxRounds,    \* bound on the rounds played
  MaxLogins,    \* bound on the logins
  MaxReports,   \* bound on a client's reports in flight
  MaxSyncs,     \* bound on equal sync messages in flight (more are merged)
  Patient       \* waits time out only for clients that hang

ASSUME GameAssumption ==
  /\ MaxRounds \in Nat /\ MaxLogins \in Nat
  /\ MaxReports \in Nat \ {0} /\ MaxSyncs \in Nat \ {0}
  /\ Patient \in BOOLEAN

VARIABLES
  state, stateNext,  \* server: the state, and the one to go to
  pc,                \* server: "run", or where in a wait it is
  next,              \* server: SetState's second argument during the wait
  client_gamestate,  \* server: the last report of each client
  sync_ack,          \* server: the SyncAcks of the current sn_Sync
  lastReport,        \* server: the number of that report
  disordered,        \* clients whose reports came out of order
  owed,              \* server: clients the game object must be sent to
  connected,         \* server: the slots in use
  round, epoch,      \* round of stateNext; changes of stateNext so far
  logins,            \* logins so far
  hung,              \* clients that no longer respond
  game,              \* clients that have received the game object
  cState, cNext,     \* client: state and stateNext
  unreported,        \* client: the new state is not yet reported
  cReports,          \* client: how many reports it sent
  syncing,           \* client: inside sn_SyncHandler
  cEpoch, cRound,    \* client: the newest announcement; that of cNext
  gridRound,         \* client: the round its grid belongs to, 0 without grid
  news,              \* announcements on their way to each client
  reports,           \* client states on their way to the server
  syncs, syncAcks    \* Sync and SyncAck messages on their way

view    == <<client_gamestate, lastReport, disordered>>
server  == <<state, stateNext, pc, next, view, sync_ack, owed, round, epoch>>
players == <<connected, logins, hung>>
client  == <<game, cState, cNext, unreported, cReports, syncing, cEpoch,
             cRound, gridRound>>
network == <<news, reports, syncs, syncAcks>>
vars    == <<server, players, client, network>>

-----------------------------------------------------------------------------
(* The states, numbered around a circle.                                   *)
CREATED == 0
TRANSFER_SETTINGS == 7
CREATE_GRID == 10
CREATE_OBJECTS == 20
TRANSFER_OBJECTS == 30
CAMERA == 35
SYNCING == 40
PLAY == 50
DELETE_OBJECTS == 60
DELETE_GRID == 70
STATE_MAX == 80

States == {CREATED, TRANSFER_SETTINGS, CREATE_GRID, CREATE_OBJECTS,
           TRANSFER_OBJECTS, CAMERA, SYNCING, PLAY, DELETE_OBJECTS,
           DELETE_GRID}

(* Faulty comparison: on a line.                                           *)
StraightAbeforeB(a, b) == a < b

(* sg_AbeforeB: B is less than three quarters of the circle ahead of A.    *)
AbeforeB(a, b) == (STATE_MAX + a - b) % STATE_MAX > STATE_MAX \div 4

(* Faulty step: no CAMERA, and no way out of PLAY.                         *)
StepToSkipping(s) ==
  CASE s \in {CREATED, TRANSFER_SETTINGS} -> CREATE_GRID
    [] s = CREATE_GRID      -> CREATE_OBJECTS
    [] s = CREATE_OBJECTS   -> TRANSFER_OBJECTS
    [] s = TRANSFER_OBJECTS -> SYNCING
    [] OTHER                -> PLAY

(* The cases of StateUpdate: the state each leads to, and the goal that is *)
(* announced after it; the two arguments of SetState.                      *)
StepTo(s) ==
  CASE s \in {CREATED, TRANSFER_SETTINGS} -> CREATE_GRID
    [] s = CREATE_GRID      -> CREATE_OBJECTS
    [] s = CREATE_OBJECTS   -> TRANSFER_OBJECTS
    [] s = TRANSFER_OBJECTS -> CAMERA
    [] s = CAMERA           -> SYNCING
    [] s = SYNCING          -> PLAY
    [] s = PLAY             -> DELETE_OBJECTS
    [] s = DELETE_OBJECTS   -> DELETE_GRID
    [] s = DELETE_GRID      -> TRANSFER_SETTINGS

GoalAfter(s) ==
  CASE s \in {CREATED, TRANSFER_SETTINGS, CREATE_GRID,
              CREATE_OBJECTS} -> CAMERA
    [] s = TRANSFER_OBJECTS -> SYNCING
    [] s \in {CAMERA, SYNCING} -> PLAY
    [] s = PLAY             -> DELETE_GRID
    [] s = DELETE_OBJECTS   -> TRANSFER_SETTINGS
    [] s = DELETE_GRID      -> CREATE_GRID

Announcement == [epoch |-> epoch, round |-> round, state |-> stateNext]

Init ==
  /\ state = CREATED /\ stateNext = TRANSFER_SETTINGS
  /\ pc = "run" /\ next = TRANSFER_SETTINGS
  /\ client_gamestate = [c \in Clients |-> 0]
  /\ lastReport = [c \in Clients |-> 0] /\ disordered = {}
  /\ sync_ack = {} /\ owed = {} /\ connected = {}
  /\ round = 1 /\ epoch = 1
  /\ logins = 0 /\ hung = {} /\ game = {}
  /\ cState = [c \in Clients |-> CREATED]
  /\ cNext = [c \in Clients |-> TRANSFER_SETTINGS]
  /\ unreported = {} /\ syncing = {}
  /\ cReports = [c \in Clients |-> 0]
  /\ cEpoch = [c \in Clients |-> 0]
  /\ cRound = [c \in Clients |-> 0]
  /\ gridRound = [c \in Clients |-> 0]
  /\ news = [c \in Clients |-> {}]
  /\ reports = [c \in Clients |-> {}]
  /\ syncs = [c \in Clients |-> 0]
  /\ syncAcks = [c \in Clients |-> 0]

-----------------------------------------------------------------------------
(* sn_Sync on the server: ask every connected client, and wait.            *)
OneMore(n) == IF n < MaxSyncs THEN n + 1 ELSE n

SendSyncs ==
  /\ sync_ack' = {}
  /\ syncs' = [c \in Clients |->
                 IF c \in connected \ hung THEN OneMore(syncs[c]) ELSE syncs[c]]
  /\ UNCHANGED <<news, reports, syncAcks>>

(* The SyncAck received and all messages to the client acknowledged.       *)
Synced(c) ==
  c \in sync_ack \ owed /\ news[c] = {} /\ syncs[c] = 0

Unsynced == {c \in connected : ~ Synced(c)}

(* Clients that came after the request was sent have not been asked, and   *)
(* are waited for in vain.                                                 *)
Unasked(c) ==
  syncs[c] = 0 /\ syncAcks[c] = 0 /\ c \notin syncing \cup sync_ack

(* All answers are there, or the time is over.                             *)
SyncOver ==
  \/ Unsynced = {}
  \/ ~ Patient
  \/ \A c \in Unsynced : c \in hung \/ Unasked(c)

(* SetState up to the wait in SyncState.                                   *)
EnterState(act, then) ==
  /\ state' = act
  /\ next' = then
  /\ pc' = "sync"
  /\ SendSyncs

(* StateUpdate in CREATED or TRANSFER_SETTINGS: the configuration is sent  *)
(* and an extra sn_Sync awaited before SetState.                           *)
TransferSettings ==
  /\ pc = "run" /\ AbeforeB(state, stateNext)
  /\ state \in {CREATED, TRANSFER_SETTINGS}
  /\ pc' = "settings"
  /\ SendSyncs
  /\ UNCHANGED <<state, stateNext, next, view, owed, round, epoch, players,
                 client>>

SettingsTransferred ==
  /\ pc = "settings"
  /\ SyncOver
  /\ EnterState(StepTo(state), GoalAfter(state))
  /\ UNCHANGED <<stateNext, view, owed, round, epoch, players, client>>

(* StateUpdate in the other states.                                        *)
StateUpdate ==
  /\ pc = "run" /\ AbeforeB(state, stateNext)
  /\ state \notin {CREATED, TRANSFER_SETTINGS}
  /\ EnterState(StepTo(state), GoalAfter(state))
  /\ UNCHANGED <<stateNext, view, owed, round, epoch, players, client>>

(* Analysis finds the round decided.                                       *)
RoundOver ==
  /\ pc = "run" /\ state = PLAY /\ ~ AbeforeB(state, stateNext)
  /\ round < MaxRounds
  /\ EnterState(PLAY, DELETE_OBJECTS)
  /\ UNCHANGED <<stateNext, view, owed, round, epoch, players, client>>

(* An sn_Sync inside SyncState ends.                                       *)
SyncEnds ==
  /\ pc = "sync"
  /\ SyncOver
  /\ pc' = "check"
  /\ UNCHANGED <<state, stateNext, next, view, sync_ack, owed, round, epoch,
                 players, client, network>>

(* Faulty SyncState: the arguments swapped.                                *)
SwappedBehind == {c \in connected : AbeforeB(state, client_gamestate[c])}

(* SyncState: the connected clients whose report is still missing.         *)
Behind == {c \in connected : AbeforeB(client_gamestate[c], state)}

(* Nothing is on the way from or to the client, and it has nothing to do.  *)
Idle(c) ==
  /\ c \in game \ (owed \cup unreported \cup syncing)
  /\ news[c] = {} /\ reports[c] = {}
  /\ ~ AbeforeB(cState[c], cNext[c])

(* Somebody has not followed: another turn of the loop in SyncState.       *)
SyncAgain ==
  /\ pc = "check" /\ Behind # {}
  /\ pc' = "sync"
  /\ SendSyncs
  /\ UNCHANGED <<state, stateNext, next, view, owed, round, epoch, players,
                 client>>

(* SyncState returns; the rest of SetState announces the next goal.        *)
LeaveSetState ==
  /\ pc = "check"
  /\ ~ Patient \/ \A c \in Behind : c \in hung \/ Idle(c)
  /\ pc' = "run"
  /\ stateNext' = next
  /\ IF stateNext # next
       THEN /\ epoch' = epoch + 1
            /\ owed' = connected \ hung
            /\ round' = round + (IF next = TRANSFER_SETTINGS THEN 1 ELSE 0)
       ELSE UNCHANGED <<epoch, owed, round>>
  /\ UNCHANGED <<state, next, view, sync_ack, players, client, network>>

(* nNetObject::SyncAll, called in every wait and in the game loop; syncs   *)
(* follow only after the creation message was received.                    *)
Announce(c) ==
  /\ c \in owed
  /\ c \in game \/ news[c] = {}
  /\ owed' = owed \ {c}
  /\ news' = [news EXCEPT ![c] = @ \cup {Announcement}]
  /\ UNCHANGED <<state, stateNext, pc, next, view, sync_ack, round, epoch,
                 players, client, reports, syncs, syncAcks>>

(* sg_ClientStateHandler.                                                  *)
ReceiveReport(c, r) ==
  /\ r \in reports[c]
  /\ reports' = [reports EXCEPT ![c] = @ \ {r}]
  /\ client_gamestate' = [client_gamestate EXCEPT ![c] = r.state]
  /\ lastReport' = [lastReport EXCEPT ![c] = r.num]
  /\ disordered' = IF r.num < lastReport[c] THEN disordered \cup {c}
                   ELSE disordered
  /\ UNCHANGED <<state, stateNext, pc, next, sync_ack, owed, round, epoch,
                 players, client, news, syncs, syncAcks>>

(* sn_SyncAckHandler; c_sync never changes, so every token fits.           *)
ReceiveSyncAck(c) ==
  /\ syncAcks[c] > 0
  /\ syncAcks' = [syncAcks EXCEPT ![c] = @ - 1]
  /\ sync_ack' = sync_ack \cup {c}
  /\ UNCHANGED <<state, stateNext, pc, next, view, owed, round, epoch,
                 players, client, news, reports, syncs>>

-----------------------------------------------------------------------------
(* gGame::gGame and Init on the client, when the first announcement comes. *)
Known(c) == IF c \in game THEN cNext[c] ELSE TRANSFER_SETTINGS

(* gGame::ReadSync: a state some steps back is ignored.                    *)
ReceiveNews(c, a) ==
  /\ c \notin hung
  /\ a \in news[c]
  /\ news' = [news EXCEPT ![c] = @ \ {a}]
  /\ game' = game \cup {c}
  /\ IF a.epoch > cEpoch[c]
       THEN /\ cEpoch' = [cEpoch EXCEPT ![c] = a.epoch]
            /\ IF AbeforeB(Known(c), a.state)
                 THEN /\ cNext' = [cNext EXCEPT ![c] = a.state]
                      /\ cRound' = [cRound EXCEPT ![c] = a.round]
                 ELSE UNCHANGED <<cNext, cRound>>
       ELSE UNCHANGED <<cEpoch, cNext, cRound>>
  /\ UNCHANGED <<server, players, cState, unreported, cReports, syncing,
                 gridRound, reports, syncs, syncAcks>>

(* StateUpdate on the client: init_game_grid, exit_game_objects.           *)
GridAfter(c) ==
  CASE cState[c] = CREATE_GRID -> cRound[c]
    [] cState[c] \in {CREATED, TRANSFER_SETTINGS, DELETE_OBJECTS,
                      DELETE_GRID} -> 0
    [] OTHER -> gridRound[c]

ClientStateUpdate(c) ==
  /\ c \in game \ (hung \cup unreported \cup syncing)
  /\ AbeforeB(cState[c], cNext[c])
  /\ cState' = [cState EXCEPT ![c] = StepTo(cState[c])]
  /\ gridRound' = [gridRound EXCEPT ![c] = GridAfter(c)]
  /\ unreported' = unreported \cup {c}
  /\ UNCHANGED <<server, players, game, cNext, cReports, syncing, cEpoch,
                 cRound, network>>

(* The end of StateUpdate, after a NetSyncIdle.                            *)
Report(c) ==
  /\ c \in unreported \ (hung \cup syncing)
  /\ Cardinality(reports[c]) < MaxReports
  /\ unreported' = unreported \ {c}
  /\ cReports' = [cReports EXCEPT ![c] = @ + 1]
  /\ reports' = [reports EXCEPT ![c] = @ \cup {[num |-> cReports[c] + 1,
                                               state |-> cState[c]]}]
  /\ UNCHANGED <<server, players, game, cState, cNext, syncing, cEpoch,
                 cRound, gridRound, news, syncs, syncAcks>>

(* sn_SyncHandler on a client: a nested sn_Sync; a second request during   *)
(* it is ignored.                                                          *)
ReceiveSync(c) ==
  /\ c \notin hung
  /\ syncs[c] > 0
  /\ syncs' = [syncs EXCEPT ![c] = @ - 1]
  /\ syncing' = syncing \cup {c}
  /\ UNCHANGED <<server, players, game, cState, cNext, unreported, cReports,
                 cEpoch, cRound, gridRound, news, reports, syncAcks>>

(* The nested sn_Sync ends when all reports are acknowledged, or in time.  *)
ClientSynced(c) ==
  /\ c \in syncing \ hung
  /\ reports[c] = {} \/ ~ Patient
  /\ syncing' = syncing \ {c}
  /\ syncAcks' = [syncAcks EXCEPT ![c] = OneMore(@)]
  /\ UNCHANGED <<state, stateNext, pc, next, view, sync_ack, owed, round,
                 epoch, players, game, cState, cNext, unreported, cReports,
                 cEpoch, cRound, gridRound, news, reports, syncs>>

-----------------------------------------------------------------------------
(* Faulty callback: the next client in the slot inherits the state.        *)
KeptState(c) == UNCHANGED client_gamestate

(* LoginCallback, called on login and on logout.                           *)
LoginCallback(c) ==
  client_gamestate' = [client_gamestate EXCEPT ![c] = CREATED]

(* A client comes or goes: nothing is left of the one before.              *)
ForgetClient(c) ==
  /\ LoginCallback(c)
  /\ lastReport' = [lastReport EXCEPT ![c] = 0]
  /\ disordered' = disordered \ {c}
  /\ sync_ack' = sync_ack \ {c}
  /\ hung' = hung \ {c}
  /\ game' = game \ {c}
  /\ cState' = [cState EXCEPT ![c] = CREATED]
  /\ cNext' = [cNext EXCEPT ![c] = TRANSFER_SETTINGS]
  /\ cEpoch' = [cEpoch EXCEPT ![c] = 0]
  /\ cRound' = [cRound EXCEPT ![c] = 0]
  /\ gridRound' = [gridRound EXCEPT ![c] = 0]
  /\ unreported' = unreported \ {c}
  /\ cReports' = [cReports EXCEPT ![c] = 0]
  /\ syncing' = syncing \ {c}
  /\ news' = [news EXCEPT ![c] = {}]
  /\ reports' = [reports EXCEPT ![c] = {}]
  /\ syncs' = [syncs EXCEPT ![c] = 0]
  /\ syncAcks' = [syncAcks EXCEPT ![c] = 0]
  /\ UNCHANGED <<state, stateNext, pc, next, round, epoch>>

Login(c) ==
  /\ c \notin connected
  /\ logins < MaxLogins
  /\ logins' = logins + 1
  /\ connected' = connected \cup {c}
  /\ owed' = owed \cup {c}
  /\ ForgetClient(c)

Logout(c) ==
  /\ c \in connected
  /\ connected' = connected \ {c}
  /\ owed' = owed \ {c}
  /\ ForgetClient(c)
  /\ UNCHANGED logins

(* A client stops responding until it is thrown out; messages it will not  *)
(* read are not kept.                                                      *)
Hang(c) ==
  /\ c \in connected \ hung
  /\ hung' = hung \cup {c}
  /\ owed' = owed \ {c}
  /\ news' = [news EXCEPT ![c] = {}]
  /\ syncs' = [syncs EXCEPT ![c] = 0]
  /\ UNCHANGED <<state, stateNext, pc, next, view, sync_ack, round, epoch,
                 connected, logins, client, reports, syncAcks>>

ServerNext ==
  \/ TransferSettings \/ SettingsTransferred \/ StateUpdate \/ RoundOver
  \/ SyncEnds \/ SyncAgain \/ LeaveSetState

ClientNext(c) ==
  \/ \E a \in news[c] : ReceiveNews(c, a)
  \/ ClientStateUpdate(c) \/ Report(c) \/ ReceiveSync(c)
  \/ ClientSynced(c)

Next ==
  \/ ServerNext
  \/ \E c \in Clients :
       \/ ClientNext(c)
       \/ Announce(c) \/ ReceiveSyncAck(c)
       \/ \E r \in reports[c] : ReceiveReport(c, r)
       \/ Login(c) \/ Logout(c) \/ Hang(c)

Spec == Init /\ [][Next]_vars

(* Server and clients keep running their loops, messages arrive, and the   *)
(* clock runs on during a wait.  Nobody has to log in or out, or to end a  *)
(* round.                                                                  *)
Fairness ==
  /\ WF_vars(TransferSettings) /\ WF_vars(SettingsTransferred)
  /\ WF_vars(StateUpdate) /\ WF_vars(SyncEnds) /\ WF_vars(SyncAgain)
  /\ SF_vars(LeaveSetState)
  /\ \A c \in Clients :
       /\ WF_vars(Announce(c)) /\ WF_vars(ReceiveSyncAck(c))
       /\ WF_vars(\E r \in reports[c] : ReceiveReport(c, r))
       /\ WF_vars(\E a \in news[c] : ReceiveNews(c, a))
       /\ SF_vars(ClientStateUpdate(c)) /\ SF_vars(Report(c))
       /\ WF_vars(ReceiveSync(c)) /\ SF_vars(ClientSynced(c))

FairSpec == Spec /\ Fairness

-----------------------------------------------------------------------------
(* GridIsReady: the server sends the objects that live on the grid.        *)
GridIsReady(c) ==
  c \in game /\ TRANSFER_OBJECTS <= client_gamestate[c]
              /\ client_gamestate[c] <= DELETE_OBJECTS

ServerTypes ==
  /\ state \in States /\ stateNext \in States /\ next \in States
  /\ pc \in {"run", "settings", "sync", "check"}
  /\ client_gamestate \in [Clients -> States]
  /\ lastReport \in [Clients -> Nat] /\ disordered \subseteq Clients
  /\ sync_ack \subseteq Clients /\ owed \subseteq Clients
  /\ connected \subseteq Clients /\ hung \subseteq connected
  /\ round \in Nat /\ epoch \in Nat /\ logins \in Nat

ClientTypes ==
  /\ game \subseteq Clients /\ unreported \subseteq game
  /\ syncing \subseteq Clients
  /\ cState \in [Clients -> States] /\ cNext \in [Clients -> States]
  /\ cReports \in [Clients -> Nat]
  /\ cEpoch \in [Clients -> Nat] /\ cRound \in [Clients -> Nat]
  /\ gridRound \in [Clients -> Nat]

NetworkTypes ==
  /\ news \in [Clients -> SUBSET [epoch : Nat, round : Nat, state : States]]
  /\ reports \in [Clients -> SUBSET [num : Nat, state : States]]
  /\ syncs \in [Clients -> 0 .. MaxSyncs]
  /\ syncAcks \in [Clients -> 0 .. MaxSyncs]

(* The types of the variables, by owner.                                   *)
TypeOK == ServerTypes /\ ClientTypes /\ NetworkTypes

(* A client never runs ahead of the server: the grid it has is of a round  *)
(* that was announced, and so is the state it is in.                       *)
ClientsFollow ==
  \A c \in game :
    gridRound[c] # 0 =>
      /\ gridRound[c] <= round
      /\ gridRound[c] = round => cState[c] <= stateNext

(* When the server is done with waiting in a state, every client it waited *)
(* for has really come that far: its grid is gone before the server makes  *)
(* the next one, and made before the round begins.                         *)
Reached(c) ==
  CASE state \in CREATE_OBJECTS .. PLAY ->
         gridRound[c] = round /\ state <= cState[c]
    [] state = DELETE_OBJECTS -> cState[c] # PLAY
    [] OTHER -> gridRound[c] = 0

NobodyLeftBehind ==
  [][pc = "check" /\ pc' = "run" =>
       \A c \in connected \ (hung \cup disordered) :
         client_gamestate[c] # 0 => Reached(c)]_vars

(* Objects are sent only to clients that have the grid of this round.      *)
ObjectsHaveAGrid ==
  \A c \in connected \ hung :
    /\ state \in TRANSFER_OBJECTS .. PLAY /\ stateNext # DELETE_OBJECTS
    /\ GridIsReady(c)
    => gridRound[c] = round

(* A client that plays, and whose reports have all arrived, gets them.     *)
PlayersGetObjects ==
  \A c \in game :
    /\ state = PLAY /\ stateNext = PLAY /\ pc = "run"
    /\ cState[c] = PLAY /\ c \notin unreported /\ reports[c] = {}
    => GridIsReady(c)

(* Rounds go on, whatever the clients do.                                  *)
RoundsGoOn ==
  \A r \in 1 .. MaxRounds :
    round = r /\ state # PLAY ~> state = PLAY /\ stateNext = PLAY
=============================================================================
