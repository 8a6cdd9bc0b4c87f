-------------------------- MODULE GameStates_proofs --------------------------
(***************************************************************************)
(* Proofs about GameStates, for any number of clients, rounds and logins:  *)
(* its types; that no client runs ahead of the server, whatever waits time *)
(* out; and, if waits time out only for clients that hang (Patient), that  *)
(* objects are sent only to clients with the grid of the round and that    *)
(* the server leaves nobody behind.                                        *)
(***************************************************************************)
EXTENDS GameStates, TLAPS

(* StateUpdate leads from every state to a state, and sets a state as goal.*)
LEMMA StepType == \A s \in States : StepTo(s) \in States /\ GoalAfter(s) \in States
BY DEF States, StepTo, GoalAfter, CREATED, TRANSFER_SETTINGS, CREATE_GRID,
  CREATE_OBJECTS, TRANSFER_OBJECTS, CAMERA, SYNCING, PLAY, DELETE_OBJECTS,
  DELETE_GRID

(* The states that Init and the handlers name.                             *)
LEMMA StatesKnown ==
  /\ CREATED \in States /\ TRANSFER_SETTINGS \in States
  /\ CREATE_GRID \in States /\ CAMERA \in States
  /\ PLAY \in States /\ DELETE_OBJECTS \in States
BY DEF States

(* Merging equal requests keeps within the bound.                          *)
LEMMA OneMoreType == \A n \in 0 .. MaxSyncs : OneMore(n) \in 0 .. MaxSyncs
BY GameAssumption DEF OneMore

(* sn_Sync sends requests within the bound and starts without answers.     *)
LEMMA SendSyncsType ==
  ASSUME syncs \in [Clients -> 0 .. MaxSyncs], SendSyncs
  PROVE  syncs' \in [Clients -> 0 .. MaxSyncs] /\ sync_ack' = {}
BY OneMoreType DEF SendSyncs

(* Entering a state keeps all types.                                       *)
LEMMA EnterStateType ==
  ASSUME TypeOK, NEW act \in States, NEW then \in States,
         EnterState(act, then),
         UNCHANGED <<stateNext, view, owed, round, epoch, players, client>>
  PROVE  TypeOK'
<1>1. syncs' \in [Clients -> 0 .. MaxSyncs] /\ sync_ack' = {}
  BY SendSyncsType DEF EnterState, TypeOK, NetworkTypes
<1>2. ServerTypes'
  BY <1>1 DEF EnterState, TypeOK, ServerTypes, view, players
<1>3. ClientTypes'
  BY DEF TypeOK, ClientTypes, client
<1>4. NetworkTypes'
  BY <1>1 DEF EnterState, SendSyncs, TypeOK, NetworkTypes
<1> QED BY <1>2, <1>3, <1>4 DEF TypeOK

(* So does forgetting what a client leaves behind.                         *)
LEMMA ForgetClientType ==
  ASSUME TypeOK, NEW c \in Clients, ForgetClient(c),
         connected' \subseteq Clients, hung' \subseteq connected',
         owed' \subseteq Clients, logins' \in Nat
  PROVE  TypeOK'
<1>1. ServerTypes'
  BY StatesKnown DEF ForgetClient, LoginCallback, TypeOK, ServerTypes
<1>2. ClientTypes'
  BY StatesKnown DEF ForgetClient, TypeOK, ClientTypes
<1>3. NetworkTypes'
  BY GameAssumption DEF ForgetClient, TypeOK, NetworkTypes
<1> QED BY <1>1, <1>2, <1>3 DEF TypeOK

(* The types hold in the beginning.                                        *)
LEMMA TypeInit == Init => TypeOK
<1> SUFFICES ASSUME Init PROVE TypeOK
  OBVIOUS
<1>1. ServerTypes
  BY StatesKnown DEF Init, ServerTypes, CREATED
<1>2. ClientTypes
  BY StatesKnown DEF Init, ClientTypes
<1>3. NetworkTypes
  BY GameAssumption DEF Init, NetworkTypes
<1> QED BY <1>1, <1>2, <1>3 DEF TypeOK

(* Every step of the walk of the server keeps them.                        *)
LEMMA TypeServerNext == TypeOK /\ ServerNext => TypeOK'
<1> SUFFICES ASSUME TypeOK, ServerNext PROVE TypeOK'
  OBVIOUS
<1>1. CASE TransferSettings
  <2>1. syncs' \in [Clients -> 0 .. MaxSyncs] /\ sync_ack' = {}
    BY <1>1, SendSyncsType DEF TransferSettings, TypeOK, NetworkTypes
  <2>2. ServerTypes' /\ ClientTypes'
    BY <1>1, <2>1
    DEF TransferSettings, TypeOK, ServerTypes, ClientTypes, view, players,
        client
  <2>3. NetworkTypes'
    BY <1>1, <2>1 DEF TransferSettings, SendSyncs, TypeOK, NetworkTypes
  <2> QED BY <2>2, <2>3 DEF TypeOK
<1>2. CASE SettingsTransferred
  BY <1>2, EnterStateType, StepType DEF SettingsTransferred, TypeOK, ServerTypes
<1>3. CASE StateUpdate
  BY <1>3, EnterStateType, StepType DEF StateUpdate, TypeOK, ServerTypes
<1>4. CASE RoundOver
  BY <1>4, EnterStateType, StatesKnown DEF RoundOver
<1>5. CASE SyncEnds
  BY <1>5 DEF SyncEnds, TypeOK, ServerTypes, ClientTypes, NetworkTypes, view,
    players, client, network
<1>6. CASE SyncAgain
  <2>1. syncs' \in [Clients -> 0 .. MaxSyncs] /\ sync_ack' = {}
    BY <1>6, SendSyncsType DEF SyncAgain, TypeOK, NetworkTypes
  <2>2. ServerTypes' /\ ClientTypes'
    BY <1>6, <2>1
    DEF SyncAgain, TypeOK, ServerTypes, ClientTypes, view, players, client
  <2>3. NetworkTypes'
    BY <1>6, <2>1 DEF SyncAgain, SendSyncs, TypeOK, NetworkTypes
  <2> QED BY <2>2, <2>3 DEF TypeOK
<1>7. CASE LeaveSetState
  <2>1. ServerTypes'
    BY <1>7 DEF LeaveSetState, TypeOK, ServerTypes, view, players
  <2>2. ClientTypes' /\ NetworkTypes'
    BY <1>7
    DEF LeaveSetState, TypeOK, ClientTypes, NetworkTypes, client, network
  <2> QED BY <2>1, <2>2 DEF TypeOK
<1> QED BY <1>1, <1>2, <1>3, <1>4, <1>5, <1>6, <1>7 DEF ServerNext

(* So does every step of a client.                                         *)
LEMMA TypeClientNext ==
  ASSUME TypeOK, NEW c \in Clients, ClientNext(c)
  PROVE  TypeOK'
<1>1. CASE \E a \in news[c] : ReceiveNews(c, a)
  <2> PICK a \in news[c] : ReceiveNews(c, a)
    BY <1>1
  <2>1. a.epoch \in Nat /\ a.round \in Nat /\ a.state \in States
    BY DEF TypeOK, NetworkTypes
  <2>2. ClientTypes'
    BY <2>1 DEF ReceiveNews, TypeOK, ClientTypes
  <2>3. NetworkTypes'
    BY DEF ReceiveNews, TypeOK, NetworkTypes
  <2>4. ServerTypes'
    BY DEF ReceiveNews, TypeOK, ServerTypes, server, view, players
  <2> QED BY <2>2, <2>3, <2>4 DEF TypeOK
<1>2. CASE ClientStateUpdate(c)
  <2>1. GridAfter(c) \in Nat
    BY DEF GridAfter, TypeOK, ClientTypes
  <2>2. ClientTypes'
    BY <1>2, <2>1, StepType DEF ClientStateUpdate, TypeOK, ClientTypes
  <2>3. ServerTypes' /\ NetworkTypes'
    BY <1>2 DEF ClientStateUpdate, TypeOK, ServerTypes, NetworkTypes, server,
      view, players, network
  <2> QED BY <2>2, <2>3 DEF TypeOK
<1>3. CASE Report(c)
  <2>1. ClientTypes'
    BY <1>3 DEF Report, TypeOK, ClientTypes
  <2>2. NetworkTypes'
    BY <1>3 DEF Report, TypeOK, ClientTypes, NetworkTypes
  <2>3. ServerTypes'
    BY <1>3 DEF Report, TypeOK, ServerTypes, server, view, players
  <2> QED BY <2>1, <2>2, <2>3 DEF TypeOK
<1>4. CASE ReceiveSync(c)
  <2>1. ClientTypes'
    BY <1>4 DEF ReceiveSync, TypeOK, ClientTypes
  <2>2. NetworkTypes'
    BY <1>4, GameAssumption DEF ReceiveSync, TypeOK, NetworkTypes
  <2>3. ServerTypes'
    BY <1>4 DEF ReceiveSync, TypeOK, ServerTypes, server, view, players
  <2> QED BY <2>1, <2>2, <2>3 DEF TypeOK
<1>5. CASE ClientSynced(c)
  <2>1. ClientTypes'
    BY <1>5 DEF ClientSynced, TypeOK, ClientTypes
  <2>2. NetworkTypes'
    BY <1>5, OneMoreType DEF ClientSynced, TypeOK, NetworkTypes
  <2>3. ServerTypes'
    BY <1>5 DEF ClientSynced, TypeOK, ServerTypes, view, players
  <2> QED BY <2>1, <2>2, <2>3 DEF TypeOK
<1> QED BY <1>1, <1>2, <1>3, <1>4, <1>5 DEF ClientNext

(* And so do deliveries, logins and logouts: all steps.                    *)
LEMMA TypeNext == TypeOK /\ [Next]_vars => TypeOK'
<1> SUFFICES ASSUME TypeOK, [Next]_vars PROVE TypeOK'
  OBVIOUS
<1>1. CASE ServerNext
  BY <1>1, TypeServerNext
<1>2. ASSUME NEW c \in Clients, ClientNext(c) PROVE TypeOK'
  BY <1>2, TypeClientNext
<1>3. ASSUME NEW c \in Clients, Announce(c) PROVE TypeOK'
  <2>1. NetworkTypes'
    BY <1>3 DEF Announce, Announcement, TypeOK, ServerTypes, NetworkTypes
  <2>2. ServerTypes' /\ ClientTypes'
    BY <1>3 DEF Announce, TypeOK, ServerTypes, ClientTypes, view, players,
      client
  <2> QED BY <2>1, <2>2 DEF TypeOK
<1>4. ASSUME NEW c \in Clients, ReceiveSyncAck(c) PROVE TypeOK'
  <2>1. NetworkTypes'
    BY <1>4, GameAssumption DEF ReceiveSyncAck, TypeOK, NetworkTypes
  <2>2. ServerTypes' /\ ClientTypes'
    BY <1>4 DEF ReceiveSyncAck, TypeOK, ServerTypes, ClientTypes, view,
      players, client
  <2> QED BY <2>1, <2>2 DEF TypeOK
<1>5. ASSUME NEW c \in Clients, NEW r \in reports[c], ReceiveReport(c, r)
      PROVE  TypeOK'
  <2>1. r.num \in Nat /\ r.state \in States
    BY DEF TypeOK, NetworkTypes
  <2>2. ServerTypes'
    BY <1>5, <2>1 DEF ReceiveReport, TypeOK, ServerTypes, players
  <2>3. ClientTypes' /\ NetworkTypes'
    BY <1>5 DEF ReceiveReport, TypeOK, ClientTypes, NetworkTypes, client
  <2> QED BY <2>2, <2>3 DEF TypeOK
<1>6. ASSUME NEW c \in Clients, Login(c) PROVE TypeOK'
  <2>1. /\ connected' \subseteq Clients /\ hung' \subseteq connected'
        /\ owed' \subseteq Clients /\ logins' \in Nat
    BY <1>6 DEF Login, ForgetClient, TypeOK, ServerTypes
  <2> QED BY <1>6, <2>1, ForgetClientType DEF Login
<1>7. ASSUME NEW c \in Clients, Logout(c) PROVE TypeOK'
  <2>1. /\ connected' \subseteq Clients /\ hung' \subseteq connected'
        /\ owed' \subseteq Clients /\ logins' \in Nat
    BY <1>7 DEF Logout, ForgetClient, TypeOK, ServerTypes
  <2> QED BY <1>7, <2>1, ForgetClientType DEF Logout
<1>8. ASSUME NEW c \in Clients, Hang(c) PROVE TypeOK'
  <2>1. ServerTypes' /\ ClientTypes'
    BY <1>8 DEF Hang, TypeOK, ServerTypes, ClientTypes, view, client
  <2>2. NetworkTypes'
    BY <1>8, GameAssumption DEF Hang, TypeOK, NetworkTypes
  <2> QED BY <2>1, <2>2 DEF TypeOK
<1>9. CASE UNCHANGED vars
  BY <1>9 DEF vars, server, view, players, client, network, TypeOK,
    ServerTypes, ClientTypes, NetworkTypes
<1> QED
  BY <1>1, <1>2, <1>3, <1>4, <1>5, <1>6, <1>7, <1>8, <1>9 DEF Next

(* Every variable keeps its type.                                          *)
THEOREM TypeCorrect == Spec => []TypeOK
BY TypeInit, TypeNext, PTL DEF Spec

-----------------------------------------------------------------------------
(* The order of the announcements: by round, and within a round by state.  *)
Goals == {TRANSFER_SETTINGS, CREATE_GRID, CAMERA, SYNCING, PLAY,
          DELETE_OBJECTS, DELETE_GRID}

NotAfter(r1, s1, r2, s2) == r1 < r2 \/ (r1 = r2 /\ s1 <= s2)

(* The goals a server in state s may announce.                             *)
Leads(s, g) ==
  \/ s = CREATED /\ g = TRANSFER_SETTINGS
  \/ s = TRANSFER_SETTINGS /\ g = CREATE_GRID
  \/ s \in {CREATE_GRID, CREATE_OBJECTS, TRANSFER_OBJECTS} /\ g = CAMERA
  \/ s = CAMERA /\ g = SYNCING
  \/ s = SYNCING /\ g = PLAY
  \/ s = PLAY /\ g \in {PLAY, DELETE_OBJECTS}
  \/ s = DELETE_OBJECTS /\ g = DELETE_GRID
  \/ s = DELETE_GRID /\ g = TRANSFER_SETTINGS

ServerOrder ==
  /\ round >= 1
  /\ stateNext \in Goals
  /\ pc \in {"run", "settings"} => Leads(state, stateNext)
  /\ pc = "settings" => state \in {CREATED, TRANSFER_SETTINGS}
  /\ pc \in {"sync", "check"} =>
       /\ Leads(state, next) /\ next \in Goals
       /\ next = TRANSFER_SETTINGS \/ stateNext <= next

NewsOrder(c) ==
  /\ \A a \in news[c] :
       /\ a.epoch <= epoch
       /\ a.state \in Goals
       /\ NotAfter(a.round, a.state, round, stateNext)
       /\ a.epoch > cEpoch[c] => NotAfter(cRound[c], cNext[c], a.round, a.state)
  /\ \A a, b \in news[c] :
       a.epoch < b.epoch => NotAfter(a.round, a.state, b.round, b.state)

ClientOrder(c) ==
  /\ cNext[c] \in Goals
  /\ NotAfter(cRound[c], cNext[c], round, stateNext)
  /\ gridRound[c] <= cRound[c]
  /\ gridRound[c] # 0 /\ gridRound[c] = cRound[c] => cState[c] <= cNext[c]

OrderInv ==
  ServerOrder /\ \A c \in Clients : NewsOrder(c) /\ ClientOrder(c)

(* The order of goals is stronger than ClientsFollow.                      *)
LEMMA OrderFollows == TypeOK /\ OrderInv => ClientsFollow
BY DEF TypeOK, ClientTypes, ServerTypes, OrderInv, ClientOrder, NotAfter,
  ClientsFollow, States, CREATED, TRANSFER_SETTINGS, CREATE_GRID,
  CREATE_OBJECTS, TRANSFER_OBJECTS, CAMERA, SYNCING, PLAY, DELETE_OBJECTS,
  DELETE_GRID

(* The order holds in the beginning.                                       *)
LEMMA OrderInit == Init => OrderInv
BY DEF Init, OrderInv, ServerOrder, Leads, NewsOrder, ClientOrder, NotAfter,
  Goals, CREATED, TRANSFER_SETTINGS

(* The step of a state leads where its goal says.                          *)
LEMMA StepLeads ==
  ASSUME NEW s \in States, NEW g \in Goals, Leads(s, g), AbeforeB(s, g)
  PROVE  /\ Leads(StepTo(s), GoalAfter(s)) /\ GoalAfter(s) \in Goals
         /\ GoalAfter(s) = TRANSFER_SETTINGS \/ g <= GoalAfter(s)
BY DEF Leads, AbeforeB, StepTo, GoalAfter, States, Goals, STATE_MAX, CREATED,
  TRANSFER_SETTINGS, CREATE_GRID, CREATE_OBJECTS, TRANSFER_OBJECTS, CAMERA,
  SYNCING, PLAY, DELETE_OBJECTS, DELETE_GRID

(* A client that is behind its goal does not step beyond it.               *)
LEMMA StepStaysBehind ==
  ASSUME NEW s \in States, NEW g \in Goals, AbeforeB(s, g)
  PROVE  /\ s = CREATE_GRID => StepTo(s) <= g
         /\ s \notin {CREATED, TRANSFER_SETTINGS, DELETE_OBJECTS, DELETE_GRID}
              /\ s <= g => StepTo(s) <= g
BY DEF AbeforeB, StepTo, States, Goals, STATE_MAX, CREATED,
  TRANSFER_SETTINGS, CREATE_GRID, CREATE_OBJECTS, TRANSFER_OBJECTS, CAMERA,
  SYNCING, PLAY, DELETE_OBJECTS, DELETE_GRID

(* What has been announced stays before what the server announces later.   *)
LEMMA AnnouncedStays ==
  ASSUME NEW r \in Nat, NEW s \in States,
         TypeOK, NotAfter(r, s, round, stateNext),
         \/ round' = round /\ (stateNext' = stateNext \/ stateNext <= stateNext')
         \/ round' = round + 1,
         stateNext' \in States, round' \in Nat
  PROVE  NotAfter(r, s, round', stateNext')
BY DEF NotAfter, TypeOK, ServerTypes, States, CREATED, TRANSFER_SETTINGS,
  CREATE_GRID, CREATE_OBJECTS, TRANSFER_OBJECTS, CAMERA, SYNCING, PLAY,
  DELETE_OBJECTS, DELETE_GRID

(* Where one case of StateUpdate leads the server and its next goal.       *)
LEMMA ServerStepOrder ==
  ASSUME TypeOK, TypeOK', OrderInv, ServerOrder',
         \/ round' = round /\ (stateNext' = stateNext \/ stateNext <= stateNext')
         \/ round' = round + 1,
         epoch <= epoch', UNCHANGED <<client, news>>
  PROVE  OrderInv'
<1> SUFFICES ASSUME NEW c \in Clients PROVE NewsOrder(c)' /\ ClientOrder(c)'
  BY DEF OrderInv
<1>1. ClientOrder(c)'
  BY AnnouncedStays DEF OrderInv, ClientOrder, client, TypeOK, ServerTypes,
    ClientTypes
<1>2. ASSUME NEW a \in news[c]
      PROVE  a.epoch <= epoch' /\ NotAfter(a.round, a.state, round', stateNext')
  BY AnnouncedStays DEF OrderInv, NewsOrder, TypeOK, ServerTypes, NetworkTypes
<1>3. NewsOrder(c)'
  BY <1>2 DEF OrderInv, NewsOrder, client
<1> QED BY <1>1, <1>3

(* The walk of the server keeps all clients behind it.                     *)
LEMMA OrderServerNext ==
  ASSUME TypeOK, TypeOK', OrderInv, ServerNext
  PROVE  OrderInv'
<1> USE DEF OrderInv
<1>1. CASE TransferSettings
  <2>1. ServerOrder'
    BY <1>1 DEF TransferSettings, ServerOrder
  <2> QED
    BY <1>1, <2>1, ServerStepOrder
    DEF TransferSettings, SendSyncs, TypeOK, ServerTypes
<1>2. CASE SettingsTransferred
  <2>1. AbeforeB(state, stateNext)
    BY <1>2 DEF SettingsTransferred, ServerOrder, Leads, AbeforeB, STATE_MAX,
      CREATED, TRANSFER_SETTINGS, CREATE_GRID, CREATE_OBJECTS,
      TRANSFER_OBJECTS, CAMERA, SYNCING, PLAY, DELETE_OBJECTS, DELETE_GRID
  <2>2. ServerOrder'
    BY <1>2, <2>1, StepLeads
    DEF SettingsTransferred, EnterState, ServerOrder, TypeOK, ServerTypes
  <2> QED
    BY <1>2, <2>2, ServerStepOrder
    DEF SettingsTransferred, EnterState, SendSyncs, TypeOK, ServerTypes
<1>3. CASE StateUpdate
  <2>1. ServerOrder'
    BY <1>3, StepLeads
    DEF StateUpdate, EnterState, ServerOrder, TypeOK, ServerTypes
  <2> QED
    BY <1>3, <2>1, ServerStepOrder
    DEF StateUpdate, EnterState, SendSyncs, TypeOK, ServerTypes
<1>4. CASE RoundOver
  <2>1. stateNext = PLAY
    BY <1>4 DEF RoundOver, ServerOrder, Leads, AbeforeB, STATE_MAX, CREATED,
      TRANSFER_SETTINGS, CREATE_GRID, CREATE_OBJECTS, TRANSFER_OBJECTS,
      CAMERA, SYNCING, PLAY, DELETE_OBJECTS, DELETE_GRID
  <2>2. ServerOrder'
    BY <1>4, <2>1 DEF RoundOver, EnterState, ServerOrder, Leads, Goals, PLAY,
      DELETE_OBJECTS
  <2> QED
    BY <1>4, <2>2, ServerStepOrder
    DEF RoundOver, EnterState, SendSyncs, TypeOK, ServerTypes
<1>5. CASE SyncEnds
  <2>1. ServerOrder'
    BY <1>5 DEF SyncEnds, ServerOrder
  <2> QED
    BY <1>5, <2>1, ServerStepOrder
    DEF SyncEnds, network, TypeOK, ServerTypes
<1>6. CASE SyncAgain
  <2>1. ServerOrder'
    BY <1>6 DEF SyncAgain, ServerOrder
  <2> QED
    BY <1>6, <2>1, ServerStepOrder
    DEF SyncAgain, SendSyncs, TypeOK, ServerTypes
<1>7. CASE LeaveSetState
  <2>1. ServerOrder'
    BY <1>7 DEF LeaveSetState, ServerOrder, TypeOK, ServerTypes
  <2>2. \/ round' = round /\ (stateNext' = stateNext \/ stateNext <= stateNext')
        \/ round' = round + 1
    BY <1>7 DEF LeaveSetState, ServerOrder, TypeOK, ServerTypes
  <2>3. epoch <= epoch'
    BY <1>7 DEF LeaveSetState, TypeOK, ServerTypes
  <2> QED
    BY <1>7, <2>1, <2>2, <2>3, ServerStepOrder DEF LeaveSetState, network
<1> QED BY <1>1, <1>2, <1>3, <1>4, <1>5, <1>6, <1>7 DEF ServerNext

-----------------------------------------------------------------------------
(* The server and the other clients stay as they are, and what changes for *)
(* one client keeps the order.                                             *)
LEMMA OneClientOrder ==
  ASSUME OrderInv, NEW c \in Clients,
         UNCHANGED <<state, stateNext, pc, next, round, epoch>>,
         NewsOrder(c)', ClientOrder(c)',
         \A d \in Clients \ {c} :
           /\ news'[d] = news[d] /\ cEpoch'[d] = cEpoch[d]
           /\ cRound'[d] = cRound[d] /\ cNext'[d] = cNext[d]
           /\ cState'[d] = cState[d] /\ gridRound'[d] = gridRound[d]
  PROVE  OrderInv'
<1>1. ServerOrder'
  BY DEF OrderInv, ServerOrder
<1>2. ASSUME NEW d \in Clients \ {c} PROVE NewsOrder(d)' /\ ClientOrder(d)'
  BY DEF OrderInv, NewsOrder, ClientOrder
<1> QED BY <1>1, <1>2 DEF OrderInv

(* A client takes over a goal only from an announcement of the server.     *)
LEMMA OrderReceiveNews ==
  ASSUME TypeOK, OrderInv, NEW c \in Clients, NEW a \in news[c],
         ReceiveNews(c, a)
  PROVE  OrderInv'
<1>1. /\ a.epoch \in Nat /\ a.round \in Nat /\ a.state \in States
      /\ \A b \in news[c] : b.epoch \in Nat /\ b.round \in Nat
                             /\ b.state \in States
  BY DEF TypeOK, NetworkTypes
<1>2. news' = [news EXCEPT ![c] = @ \ {a}]
      /\ UNCHANGED <<state, stateNext, pc, next, round, epoch, cState,
                     gridRound>>
  BY DEF ReceiveNews, server
<1>3. \A d \in Clients \ {c} :
        /\ news'[d] = news[d] /\ cEpoch'[d] = cEpoch[d]
        /\ cRound'[d] = cRound[d] /\ cNext'[d] = cNext[d]
        /\ cState'[d] = cState[d] /\ gridRound'[d] = gridRound[d]
  BY <1>2 DEF ReceiveNews, TypeOK, ClientTypes, NetworkTypes
<1>4. news'[c] = news[c] \ {a} /\ cState'[c] = cState[c]
      /\ gridRound'[c] = gridRound[c]
  BY <1>2 DEF TypeOK, NetworkTypes
<1>5. CASE a.epoch > cEpoch[c] /\ AbeforeB(Known(c), a.state)
  <2>1. cEpoch'[c] = a.epoch /\ cNext'[c] = a.state /\ cRound'[c] = a.round
    BY <1>5 DEF ReceiveNews, TypeOK, ClientTypes
  <2>2. ClientOrder(c)'
    <3>1. /\ a.state \in Goals /\ NotAfter(a.round, a.state, round, stateNext)
          /\ NotAfter(cRound[c], cNext[c], a.round, a.state)
      BY <1>5 DEF OrderInv, NewsOrder
    <3>2. /\ gridRound[c] <= cRound[c]
          /\ gridRound[c] # 0 /\ gridRound[c] = cRound[c] => cState[c] <= cNext[c]
      BY DEF OrderInv, ClientOrder
    <3>3. /\ gridRound[c] <= a.round
          /\ gridRound[c] # 0 /\ gridRound[c] = a.round => cState[c] <= a.state
      BY <3>1, <3>2, <1>1
      DEF NotAfter, TypeOK, ClientTypes, States, CREATED, TRANSFER_SETTINGS,
        CREATE_GRID, CREATE_OBJECTS, TRANSFER_OBJECTS, CAMERA, SYNCING, PLAY,
        DELETE_OBJECTS, DELETE_GRID
    <3> QED BY <3>1, <3>3, <2>1, <1>2, <1>4 DEF ClientOrder
  <2>3. NewsOrder(c)'
    BY <2>1, <1>2, <1>4, <1>1 DEF OrderInv, NewsOrder
  <2> QED BY <2>2, <2>3, <1>2, <1>3, OneClientOrder
<1>6. CASE ~ (a.epoch > cEpoch[c] /\ AbeforeB(Known(c), a.state))
  <2>1. /\ cNext'[c] = cNext[c] /\ cRound'[c] = cRound[c]
        /\ cEpoch'[c] = cEpoch[c] \/ (cEpoch'[c] = a.epoch
                                      /\ a.epoch > cEpoch[c])
    BY <1>6 DEF ReceiveNews, TypeOK, ClientTypes
  <2>2. ClientOrder(c)'
    BY <2>1, <1>2, <1>4 DEF OrderInv, ClientOrder
  <2>3. cEpoch'[c] \in Nat /\ cEpoch[c] \in Nat
    BY <2>1, <1>1 DEF TypeOK, ClientTypes
  <2>4. NewsOrder(c)'
    BY <2>1, <2>3, <1>2, <1>4, <1>1 DEF OrderInv, NewsOrder
  <2> QED BY <2>2, <2>4, <1>2, <1>3, OneClientOrder
<1> QED BY <1>5, <1>6

(* A step of a client stays within the goal it has.                        *)
LEMMA OrderClientStateUpdate ==
  ASSUME TypeOK, OrderInv, NEW c \in Clients, ClientStateUpdate(c)
  PROVE  OrderInv'
<1>1. /\ cState'[c] = StepTo(cState[c]) /\ gridRound'[c] = GridAfter(c)
      /\ AbeforeB(cState[c], cNext[c])
      /\ UNCHANGED <<state, stateNext, pc, next, round, epoch, news, cNext,
                     cEpoch, cRound>>
  BY DEF ClientStateUpdate, server, network, TypeOK, ClientTypes
<1>2. \A d \in Clients \ {c} : cState'[d] = cState[d]
                               /\ gridRound'[d] = gridRound[d]
  BY DEF ClientStateUpdate, TypeOK, ClientTypes
<1>3. NewsOrder(c)'
  BY <1>1 DEF OrderInv, NewsOrder
<1>4. /\ cNext[c] \in Goals /\ cState[c] \in States
      /\ gridRound[c] \in Nat /\ cRound[c] \in Nat
      /\ gridRound[c] <= cRound[c]
      /\ gridRound[c] # 0 /\ gridRound[c] = cRound[c] => cState[c] <= cNext[c]
      /\ NotAfter(cRound[c], cNext[c], round, stateNext)
  BY DEF OrderInv, ClientOrder, TypeOK, ClientTypes
<1>5. ClientOrder(c)'
  <2>1. CASE cState[c] = CREATE_GRID
    <3>1. GridAfter(c) = cRound[c]
      BY <2>1 DEF GridAfter, CREATED, TRANSFER_SETTINGS, CREATE_GRID,
        DELETE_OBJECTS, DELETE_GRID
    <3>2. StepTo(cState[c]) <= cNext[c]
      BY <2>1, <1>1, <1>4, StepStaysBehind
    <3> QED BY <3>1, <3>2, <1>1, <1>4 DEF ClientOrder
  <2>2. CASE cState[c] \in {CREATED, TRANSFER_SETTINGS, DELETE_OBJECTS,
                            DELETE_GRID}
    <3>1. GridAfter(c) = 0
      BY <2>2 DEF GridAfter, CREATED, TRANSFER_SETTINGS, CREATE_GRID,
        DELETE_OBJECTS, DELETE_GRID
    <3> QED BY <3>1, <1>1, <1>4 DEF ClientOrder
  <2>3. CASE cState[c] \notin {CREATE_GRID, CREATED, TRANSFER_SETTINGS,
                               DELETE_OBJECTS, DELETE_GRID}
    <3>1. GridAfter(c) = gridRound[c]
      BY <2>3 DEF GridAfter
    <3>2. cState[c] <= cNext[c] => StepTo(cState[c]) <= cNext[c]
      BY <2>3, <1>1, <1>4, StepStaysBehind
    <3> QED BY <3>1, <3>2, <1>1, <1>4 DEF ClientOrder
  <2> QED BY <2>1, <2>2, <2>3
<1> QED BY <1>1, <1>2, <1>3, <1>5, OneClientOrder

(* What the server announces is the goal it has.                           *)
LEMMA OrderAnnounce ==
  ASSUME TypeOK, OrderInv, NEW c \in Clients, Announce(c)
  PROVE  OrderInv'
<1> DEFINE n == [epoch |-> epoch, round |-> round, state |-> stateNext]
<1>1. /\ news' = [news EXCEPT ![c] = @ \cup {n}]
      /\ UNCHANGED <<state, stateNext, pc, next, round, epoch, client>>
  BY DEF Announce, Announcement
<1>2. /\ news'[c] = news[c] \cup {n}
      /\ \A d \in Clients \ {c} : news'[d] = news[d]
  BY <1>1 DEF TypeOK, NetworkTypes
<1>3. UNCHANGED <<cState, cNext, cEpoch, cRound, gridRound>>
  BY <1>1 DEF client
<1>4. ClientOrder(c)'
  BY <1>1, <1>3 DEF OrderInv, ClientOrder
<1>5. /\ n.epoch = epoch /\ n.round = round /\ n.state = stateNext
      /\ epoch \in Nat /\ round \in Nat /\ stateNext \in Goals
      /\ stateNext \in States
  BY DEF TypeOK, ServerTypes, OrderInv, ServerOrder
<1>6. \A a \in news[c] : a.epoch \in Nat
  BY DEF TypeOK, NetworkTypes
<1>7. /\ NotAfter(round, stateNext, round, stateNext)
      /\ NotAfter(cRound[c], cNext[c], round, stateNext)
  BY <1>5 DEF NotAfter, OrderInv, ClientOrder, States, CREATED,
    TRANSFER_SETTINGS, CREATE_GRID, CREATE_OBJECTS, TRANSFER_OBJECTS, CAMERA,
    SYNCING, PLAY, DELETE_OBJECTS, DELETE_GRID
<1> HIDE DEF n
<1>8. NewsOrder(c)'
  BY <1>1, <1>2, <1>3, <1>5, <1>6, <1>7 DEF OrderInv, NewsOrder
<1> QED BY <1>1, <1>2, <1>3, <1>4, <1>8, OneClientOrder

(* A new client starts behind everything announced.                        *)
LEMMA OrderForgetClient ==
  ASSUME TypeOK, OrderInv, NEW c \in Clients, ForgetClient(c)
  PROVE  OrderInv'
<1>1. /\ news'[c] = {} /\ cNext'[c] = TRANSFER_SETTINGS
      /\ cState'[c] = CREATED /\ cRound'[c] = 0 /\ gridRound'[c] = 0
      /\ UNCHANGED <<state, stateNext, pc, next, round, epoch>>
  BY DEF ForgetClient, TypeOK, ClientTypes, NetworkTypes
<1>2. \A d \in Clients \ {c} :
        /\ news'[d] = news[d] /\ cEpoch'[d] = cEpoch[d]
        /\ cRound'[d] = cRound[d] /\ cNext'[d] = cNext[d]
        /\ cState'[d] = cState[d] /\ gridRound'[d] = gridRound[d]
  BY DEF ForgetClient, TypeOK, ClientTypes, NetworkTypes
<1>3. ClientOrder(c)'
  BY <1>1 DEF ClientOrder, NotAfter, OrderInv, ServerOrder, TypeOK,
    ServerTypes, Goals
<1>4. NewsOrder(c)'
  BY <1>1 DEF NewsOrder
<1> QED BY <1>1, <1>2, <1>3, <1>4, OneClientOrder

(* Steps that leave announcements, goals and grids alone.                  *)
LEMMA OrderStutter ==
  ASSUME OrderInv,
         UNCHANGED <<state, stateNext, pc, next, round, epoch, news, cState,
                     cNext, cEpoch, cRound, gridRound>>
  PROVE  OrderInv'
BY DEF OrderInv, ServerOrder, NewsOrder, ClientOrder

(* Every step keeps the order.                                             *)
LEMMA OrderNext ==
  ASSUME TypeOK, TypeOK', OrderInv, [Next]_vars
  PROVE  OrderInv'
<1>1. CASE ServerNext
  BY <1>1, OrderServerNext
<1>2. ASSUME NEW c \in Clients, ClientNext(c) PROVE OrderInv'
  <2>1. ASSUME NEW a \in news[c], ReceiveNews(c, a) PROVE OrderInv'
    BY <2>1, OrderReceiveNews
  <2>2. CASE ClientStateUpdate(c)
    BY <2>2, OrderClientStateUpdate
  <2>3. CASE Report(c) \/ ReceiveSync(c) \/ ClientSynced(c)
    BY <2>3, OrderStutter DEF Report, ReceiveSync, ClientSynced, server
  <2> QED BY <1>2, <2>1, <2>2, <2>3 DEF ClientNext
<1>3. ASSUME NEW c \in Clients, Announce(c) PROVE OrderInv'
  BY <1>3, OrderAnnounce
<1>4. ASSUME NEW c \in Clients,
             ReceiveSyncAck(c) \/ \E r \in reports[c] : ReceiveReport(c, r)
      PROVE  OrderInv'
  BY <1>4, OrderStutter DEF ReceiveSyncAck, ReceiveReport, client
<1>5. ASSUME NEW c \in Clients, Login(c) \/ Logout(c) PROVE OrderInv'
  BY <1>5, OrderForgetClient DEF Login, Logout
<1>6. ASSUME NEW c \in Clients, Hang(c) PROVE OrderInv'
  <2>1. /\ news'[c] = {} /\ \A d \in Clients \ {c} : news'[d] = news[d]
        /\ UNCHANGED <<state, stateNext, pc, next, round, epoch, client>>
    BY <1>6 DEF Hang, TypeOK, NetworkTypes
  <2>2. NewsOrder(c)'
    BY <2>1 DEF NewsOrder
  <2>3. ClientOrder(c)'
    BY <2>1 DEF OrderInv, ClientOrder, client
  <2> QED BY <2>1, <2>2, <2>3, OneClientOrder DEF client
<1>7. CASE UNCHANGED vars
  BY <1>7, OrderStutter DEF vars, server, client, network
<1> QED BY <1>1, <1>2, <1>3, <1>4, <1>5, <1>6, <1>7 DEF Next

(* No client runs ahead of what the server has announced, in whatever      *)
(* order announcements arrive and whatever waits time out.                 *)
THEOREM NoClientRunsAhead == Spec => []ClientsFollow
<1>1. Init => TypeOK /\ OrderInv
  BY TypeInit, OrderInit
<1>2. TypeOK /\ OrderInv /\ [Next]_vars => (TypeOK /\ OrderInv)'
  BY TypeNext, OrderNext
<1>3. TypeOK /\ OrderInv => ClientsFollow
  BY OrderFollows
<1> QED BY <1>1, <1>2, <1>3, PTL DEF Spec

-----------------------------------------------------------------------------
(* What follows is about patient waits.  Per client that is there and      *)
(* responds: which of the messages of a wait is where, what it has heard,  *)
(* and what it has done and reported of that.                              *)
InGrid == {CREATE_OBJECTS, TRANSFER_OBJECTS, CAMERA, SYNCING, PLAY,
           DELETE_OBJECTS}
Early  == {TRANSFER_SETTINGS, DELETE_GRID}

Acked(c) == syncAcks[c] > 0 \/ c \in sync_ack

(* One request at a time is with the client, and none is forgotten when    *)
(* the wait ends: it was answered, or was never made.                      *)
Tokens(c) ==
  /\ syncs[c] + syncAcks[c] <= 1
  /\ syncs[c] + syncAcks[c] = 1 => c \notin syncing \cup sync_ack
  /\ c \notin syncing \cap sync_ack
  /\ pc \in {"run", "check"} => c \in sync_ack \/ Unasked(c)

(* The goals the server may have had before a goal.                        *)
Before(g) ==
  CASE g = TRANSFER_SETTINGS -> {DELETE_GRID, TRANSFER_SETTINGS}
    [] g = CREATE_GRID       -> {TRANSFER_SETTINGS}
    [] g = CAMERA            -> {CREATE_GRID, TRANSFER_SETTINGS}
    [] g = SYNCING           -> {CAMERA}
    [] g = PLAY              -> {SYNCING}
    [] g = DELETE_OBJECTS    -> {PLAY}
    [] g = DELETE_GRID       -> {DELETE_OBJECTS}

(* A client in the game has the server's goal or the one before; who has   *)
(* not the newest one is owed it, or it is under way.  A new client that   *)
(* first hears of DELETE_GRID keeps the goal it starts with.               *)
Newest(c, a) ==
  /\ a.epoch = epoch /\ a.state = stateNext /\ a.round = round
  /\ cEpoch[c] < epoch /\ c \notin owed

Outdated(c, a) ==
  /\ 0 < a.epoch /\ a.epoch < epoch /\ a.state \in Before(stateNext)
  /\ a.state \in InGrid => a.round = round
  /\ c \in owed \ game

Heard(c) ==
  /\ cEpoch[c] <= epoch
  /\ c \notin game =>
       cEpoch[c] = 0 /\ cNext[c] = TRANSFER_SETTINGS /\ cState[c] = CREATED
  /\ c \in game =>
       \/ cEpoch[c] = epoch /\ cNext[c] = stateNext
       \/ /\ cEpoch[c] = epoch /\ cNext[c] = TRANSFER_SETTINGS
          /\ stateNext = DELETE_GRID
       \/ cEpoch[c] < epoch /\ cNext[c] \in Before(stateNext)
  /\ \/ c \in owed
     \/ \E a \in news[c] : a.epoch = epoch
     \/ c \in game /\ cEpoch[c] = epoch
  /\ \A a \in news[c] : Newest(c, a) \/ Outdated(c, a)
  /\ c \in owed \cap game => cEpoch[c] < epoch
  /\ \A a, b \in news[c] : a = b
  /\ cNext[c] \in InGrid => cRound[c] = round
  /\ pc = "check" /\ c \in sync_ack => c \notin owed /\ news[c] = {}
  /\ pc # "run" /\ Unasked(c) =>
       /\ c \in game => cEpoch[c] = epoch
       /\ \A a \in news[c] : a.epoch = epoch

(* A client has a grid in the states that need one; an old grid is only    *)
(* left at DELETE_OBJECTS, and there has been reported.                    *)
Place(c) ==
  /\ cState[c] \in InGrid <=> gridRound[c] # 0
  /\ gridRound[c] \notin {0, round} =>
       /\ cState[c] = DELETE_OBJECTS /\ c \notin unreported
       /\ stateNext \in {TRANSFER_SETTINGS, CREATE_GRID, CAMERA}
  /\ cState[c] = CREATED <=>
       client_gamestate[c] = CREATED /\ reports[c] = {} /\ c \notin unreported
  /\ \A r \in reports[c] : r.state # CREATED

(* A report of a state with a grid, received or not, is of this round and  *)
(* of a state the client has reached, and there are no two of one state.   *)
Marked(c, s) ==
  s \in InGrid =>
    /\ gridRound[c] = round
    /\ s < cState[c] \/ (s = cState[c] /\ c \notin unreported)

Marks(c) ==
  stateNext # DELETE_GRID =>
    /\ Marked(c, client_gamestate[c])
    /\ \A r \in reports[c] :
         /\ Marked(c, r.state)
         /\ r.state \in InGrid =>
              /\ r.state # client_gamestate[c]
              /\ \A q \in reports[c] : q.state = r.state => q = r

(* The states before the grid, and those of the round before, are behind   *)
(* everybody when the server leaves CREATE_OBJECTS, and reports of them    *)
(* are not on their way any more when it leaves TRANSFER_OBJECTS.  Who     *)
(* comes during a wait is not asked, and has none of them.                 *)
Past(s) == state > s \/ (state = s /\ pc = "run")

Purged(c) ==
  /\ pc # "run" /\ Unasked(c) =>
       /\ gridRound[c] \in {0, round}
       /\ stateNext = DELETE_GRID => cNext[c] = TRANSFER_SETTINGS
       /\ cState[c] \notin Early /\ client_gamestate[c] \notin Early
       /\ \A r \in reports[c] : r.state \notin Early
  /\ stateNext # DELETE_GRID /\ state # DELETE_GRID /\ Past(CREATE_OBJECTS) =>
       /\ cState[c] \notin Early /\ gridRound[c] \in {0, round}
       /\ state = TRANSFER_OBJECTS /\ pc # "run" /\ Acked(c) =>
            \A r \in reports[c] : r.state \notin Early
  /\ stateNext # DELETE_GRID /\ state # DELETE_GRID
       /\ Past(TRANSFER_OBJECTS) =>
       /\ \A r \in reports[c] : r.state \notin Early
       /\ client_gamestate[c] \in Early =>
            /\ stateNext \in {CAMERA, SYNCING}
            /\ \/ cState[c] = CAMERA /\ c \notin unreported /\ reports[c] = {}
               \/ /\ cState[c] = SYNCING
                  /\ c \in unreported \/ reports[c] # {}

(* The round ends: who has a grid has come to PLAY, the others have not    *)
(* begun.                                                                  *)
Leaving(c) ==
  stateNext = DELETE_OBJECTS =>
    /\ \A a \in news[c] : a.epoch = epoch
    /\ cState[c] \in InGrid =>
         /\ cState[c] \in {PLAY, DELETE_OBJECTS}
         /\ cState[c] = PLAY => c \notin unreported
         /\ client_gamestate[c] # CREATED
    /\ cState[c] \notin InGrid =>
         cState[c] = CREATED /\ (c \in game => cNext[c] = DELETE_OBJECTS)
    /\ state = DELETE_OBJECTS /\ Acked(c) =>
         \A r \in reports[c] : r.state = DELETE_OBJECTS
    /\ state = DELETE_OBJECTS /\ Unasked(c) => cState[c] = CREATED

(* It has ended: who has a grid has reported DELETE_OBJECTS.               *)
Left(c) ==
  stateNext = DELETE_GRID =>
    /\ \A r \in reports[c] : r.state \notin InGrid
    /\ client_gamestate[c] \in InGrid =>
         \/ cState[c] = DELETE_OBJECTS
         \/ cState[c] = DELETE_GRID /\ (c \in unreported \/ reports[c] # {})
    /\ cState[c] \in InGrid =>
         cState[c] = DELETE_OBJECTS /\ c \notin unreported /\ reports[c] = {}
    /\ c \in game =>
         \/ /\ cNext[c] = DELETE_OBJECTS
            /\ cState[c] \in {CREATED, DELETE_OBJECTS}
         \/ /\ cNext[c] = DELETE_GRID
            /\ cState[c] \in {CREATED, DELETE_OBJECTS, DELETE_GRID}
         \/ /\ cNext[c] = TRANSFER_SETTINGS
            /\ cState[c] \in {CREATED, CREATE_GRID}

(* As long as reports come in order, the last one is of the state the      *)
(* client is in; so nobody keeps a grid into the next round.               *)
Ordered(c) ==
  /\ \A r \in reports[c] : r.num <= cReports[c] /\ r.num # lastReport[c]
  /\ \A q, r \in reports[c] : q.num = r.num => q = r
  /\ lastReport[c] <= cReports[c]
  /\ c \notin disordered \cup unreported /\ cState[c] # CREATED =>
       \/ lastReport[c] = cReports[c] /\ client_gamestate[c] = cState[c]
       \/ \E r \in reports[c] : r.num = cReports[c] /\ r.state = cState[c]
  /\ c \notin disordered /\ stateNext \in {TRANSFER_SETTINGS, CREATE_GRID} =>
       gridRound[c] = 0

Follows(c) ==
  /\ Place(c) /\ Marks(c) /\ Purged(c) /\ Leaving(c) /\ Left(c)
  /\ Ordered(c)

InStep(c) == Tokens(c) /\ Heard(c) /\ Follows(c)

(* The waits of a round: state, next and stateNext in each of them.        *)
Stage(s, n, g) == state = s /\ next = n /\ stateNext = g

WaitStage ==
  \/ Stage(CREATE_GRID, CAMERA, TRANSFER_SETTINGS)
  \/ Stage(CREATE_GRID, CAMERA, CREATE_GRID)
  \/ Stage(CREATE_OBJECTS, CAMERA, CAMERA)
  \/ Stage(TRANSFER_OBJECTS, CAMERA, CAMERA)
  \/ Stage(CAMERA, SYNCING, CAMERA)
  \/ Stage(SYNCING, PLAY, SYNCING)
  \/ Stage(PLAY, PLAY, PLAY)
  \/ Stage(PLAY, DELETE_OBJECTS, PLAY)
  \/ Stage(DELETE_OBJECTS, DELETE_GRID, DELETE_OBJECTS)
  \/ Stage(DELETE_GRID, TRANSFER_SETTINGS, DELETE_GRID)
  \/ Stage(TRANSFER_SETTINGS, CREATE_GRID, TRANSFER_SETTINGS)

ServerWalk ==
  /\ epoch >= 1
  /\ pc \in {"run", "settings"} => Leads(state, stateNext)
  /\ pc = "settings" => state \in {CREATED, TRANSFER_SETTINGS}
  /\ pc \in {"sync", "check"} => WaitStage

GridInv == ServerWalk /\ \A c \in connected \ hung : InStep(c)

USE DEF CREATED, TRANSFER_SETTINGS, CREATE_GRID, CREATE_OBJECTS,
  TRANSFER_OBJECTS, CAMERA, SYNCING, PLAY, DELETE_OBJECTS, DELETE_GRID,
  STATE_MAX

(* The types, for one client and for the server.                           *)
TypesAt(c) ==
  /\ cState[c] \in States /\ cNext[c] \in Goals
  /\ client_gamestate[c] \in States
  /\ cEpoch[c] \in Nat /\ cRound[c] \in Nat /\ gridRound[c] \in Nat
  /\ cReports[c] \in Nat /\ lastReport[c] \in Nat
  /\ syncs[c] \in Nat /\ syncAcks[c] \in Nat
  /\ (c \in unreported => c \in game)
  /\ \A a \in news[c] : a.epoch \in Nat /\ a.round \in Nat /\ a.state \in Goals
  /\ \A r \in reports[c] : r.num \in Nat /\ r.state \in States

ServerAt ==
  /\ state \in States /\ stateNext \in Goals /\ next \in States
  /\ pc \in {"run", "settings", "sync", "check"}
  /\ round \in Nat /\ round >= 1 /\ epoch \in Nat

(* The types, from those of the variables.                                 *)
LEMMA AllTypes ==
  ASSUME TypeOK, OrderInv
  PROVE  ServerAt /\ \A c \in Clients : TypesAt(c)
<1>1. ServerAt
  BY DEF ServerAt, TypeOK, ServerTypes, OrderInv, ServerOrder
<1>2. ASSUME NEW c \in Clients PROVE TypesAt(c)
  BY
  DEF TypesAt, TypeOK, ServerTypes, ClientTypes, NetworkTypes, OrderInv,
      ClientOrder, NewsOrder
<1> QED BY <1>1, <1>2

(* A patient wait ends when a client has answered, or was not asked.       *)
LEMMA WaitEnds ==
  ASSUME Patient, SyncOver, NEW c \in connected \ hung
  PROVE  Synced(c) \/ Unasked(c)
BY DEF SyncOver, Unsynced

(* sg_AbeforeB without its remainder.                                      *)
FarBehind(a, b) == IF a >= b THEN a - b > 20 ELSE b - a < 60
LEMMA AroundTheCircle ==
  \A a, b \in States : AbeforeB(a, b) <=> FarBehind(a, b)
BY DEF AbeforeB, FarBehind, States

(* SetState ends: nobody waited for is behind, and the goal moves on.      *)
LEMMA LeaveInStep ==
  ASSUME NEW c \in connected \ hung, ServerAt, TypesAt(c), ClientOrder(c),
         ServerWalk, InStep(c), Patient, LeaveSetState
  PROVE  InStep(c)'
<1> USE DEF InStep, Follows, Tokens, Heard, Newest, Outdated, Place, Marks,
            Marked, Purged, Leaving, Left, Ordered, Past, Early, InGrid,
            Goals, States, Unasked, Acked, TypesAt, ServerAt
<1>1. /\ pc = "check" /\ pc' = "run" /\ stateNext' = next /\ state' = state
      /\ IF stateNext # next
         THEN /\ epoch' = epoch + 1 /\ owed' = connected \ hung
              /\ round' = round + (IF next = TRANSFER_SETTINGS THEN 1 ELSE 0)
         ELSE UNCHANGED <<epoch, owed, round>>
  BY DEF LeaveSetState
<1>2. UNCHANGED <<client_gamestate, lastReport, disordered, sync_ack,
                  connected, hung, game, cState, cNext, unreported, cReports,
                  syncing, cEpoch, cRound, gridRound, news, reports, syncs,
                  syncAcks>>
  BY DEF LeaveSetState, view, players, client, network
<1>3. FarBehind(client_gamestate[c], state) =>
        /\ c \in game \ (owed \cup unreported \cup syncing)
        /\ news[c] = {} /\ reports[c] = {}
        /\ ~ FarBehind(cState[c], cNext[c])
  BY AroundTheCircle DEF LeaveSetState, Idle, Behind
<1>a. WaitStage
  BY <1>1 DEF ServerWalk
<1>b. Tokens(c)' /\ Heard(c)'
  BY <1>1, <1>2, <1>a DEF WaitStage, Stage, Before
<1>4. Stage(CREATE_GRID, CAMERA, TRANSFER_SETTINGS) => Follows(c)'
  BY <1>1, <1>2, <1>3 DEF Stage, FarBehind, Before, ClientOrder
<1>5. Stage(CREATE_GRID, CAMERA, CREATE_GRID) => Follows(c)'
  BY <1>1, <1>2, <1>3 DEF Stage, FarBehind, Before, ClientOrder
<1>6. Stage(CREATE_OBJECTS, CAMERA, CAMERA) => Follows(c)'
  BY <1>1, <1>2, <1>3 DEF Stage, FarBehind, Before, ClientOrder
<1>7. Stage(TRANSFER_OBJECTS, CAMERA, CAMERA) => Follows(c)'
  BY <1>1, <1>2, <1>3 DEF Stage, FarBehind, Before, ClientOrder
<1>8. Stage(CAMERA, SYNCING, CAMERA) => Follows(c)'
  BY <1>1, <1>2, <1>3 DEF Stage, FarBehind, Before, ClientOrder
<1>9. Stage(SYNCING, PLAY, SYNCING) => Follows(c)'
  BY <1>1, <1>2, <1>3 DEF Stage, FarBehind, Before, ClientOrder
<1>10. Stage(PLAY, PLAY, PLAY) => Follows(c)'
  BY <1>1, <1>2, <1>3 DEF Stage, FarBehind, Before, ClientOrder
<1>11. Stage(PLAY, DELETE_OBJECTS, PLAY) => Follows(c)'
  BY <1>1, <1>2, <1>3 DEF Stage, FarBehind, Before, ClientOrder
<1>12. Stage(DELETE_OBJECTS, DELETE_GRID, DELETE_OBJECTS) => Follows(c)'
  BY <1>1, <1>2, <1>3 DEF Stage, FarBehind, Before, ClientOrder
<1>13. Stage(DELETE_GRID, TRANSFER_SETTINGS, DELETE_GRID) => Follows(c)'
  BY <1>1, <1>2, <1>3 DEF Stage, FarBehind, Before, ClientOrder
<1>14. Stage(TRANSFER_SETTINGS, CREATE_GRID, TRANSFER_SETTINGS) => Follows(c)'
  BY <1>1, <1>2, <1>3 DEF Stage, FarBehind, Before, ClientOrder
<1> QED
  BY <1>a, <1>b, <1>4, <1>5, <1>6, <1>7, <1>8, <1>9, <1>10, <1>11, <1>12,
      <1>13, <1>14 DEF ServerWalk, WaitStage

(* What sn_Sync sends to a client.                                         *)
LEMMA SyncSent ==
  ASSUME NEW c \in connected \ hung, TypeOK, SendSyncs
  PROVE  syncs'[c] = OneMore(syncs[c]) /\ sync_ack' = {} /\ news' = news
         /\ reports' = reports /\ syncAcks' = syncAcks
BY DEF SendSyncs, TypeOK, ServerTypes

(* Asking everybody, at the beginning of a wait or again.                  *)
LEMMA AskInStep ==
  ASSUME NEW c \in connected \ hung, TypeOK, ServerAt, TypesAt(c), InStep(c),
         c \in sync_ack \/ Unasked(c),
         pc' \in {"settings", "sync"}, SendSyncs,
         UNCHANGED <<stateNext, view, owed, round, epoch, players, client>>,
         \A s \in {CREATE_OBJECTS, TRANSFER_OBJECTS} :
           state' # DELETE_GRID /\ Past(s)' => state # DELETE_GRID /\ Past(s)
  PROVE  InStep(c)'
<1> USE DEF InStep, Follows, Tokens, Heard, Newest, Outdated, Place, Marks,
            Marked, Purged, Leaving, Left, Ordered, Past, Early, InGrid,
            Goals, States, Unasked, Acked, TypesAt, ServerAt
<1>1. /\ UNCHANGED <<stateNext, client_gamestate, lastReport, disordered,
                     connected, hung, game, cState, cNext, unreported, owed,
                     round, epoch, cReports, syncing, cEpoch, cRound,
                     gridRound, news, reports, syncAcks>>
      /\ sync_ack' = {} /\ syncs'[c] = 1
      /\ syncs[c] = 0 /\ syncAcks[c] = 0 /\ c \notin syncing
  BY SyncSent, GameAssumption DEF view, players, client, OneMore, TypesAt
<1>2. Tokens(c)' /\ ~ Unasked(c)' /\ ~ Acked(c)'
  BY <1>1
<1> HIDE DEF Past, Unasked, Acked
<1>3. Heard(c)'
  BY <1>1, <1>2
<1>4. Place(c)' /\ Marks(c)' /\ Ordered(c)' /\ Left(c)'
  BY <1>1
<1>5. Leaving(c)'
  BY <1>1, <1>2
<1>6. Purged(c)'
  BY <1>1, <1>2
<1> QED BY <1>2, <1>3, <1>4, <1>5, <1>6

(* The end of one sn_Sync.                                                 *)
LEMMA SyncEndsInStep ==
  ASSUME NEW c \in connected \ hung, ServerAt, TypesAt(c), InStep(c), Patient,
         SyncEnds
  PROVE  InStep(c)'
<1> USE DEF InStep, Follows, Tokens, Heard, Newest, Outdated, Place, Marks,
            Marked, Purged, Leaving, Left, Ordered, Past, Early, InGrid,
            Goals, States, Unasked, Acked, TypesAt, ServerAt
<1>1. /\ UNCHANGED <<state, stateNext, client_gamestate, lastReport,
                     disordered, connected, hung, game, cState, cNext,
                     unreported, sync_ack, syncs, owed, round, epoch,
                     cReports, syncing, cEpoch, cRound, gridRound, news,
                     reports, syncAcks>>
      /\ pc = "sync" /\ pc' = "check"
  BY DEF SyncEnds, view, players, client, network
<1>2. \/ c \in sync_ack \ owed /\ news[c] = {} /\ syncs[c] = 0
      \/ Unasked(c)
  BY WaitEnds DEF SyncEnds, Synced
<1> QED BY <1>1, <1>2

(* Every step of the server keeps a client in step.                        *)
LEMMA ServerInStep ==
  ASSUME NEW c \in connected \ hung, TypeOK, ServerAt, TypesAt(c),
         ClientOrder(c), ServerWalk, InStep(c), Patient, ServerNext
  PROVE  InStep(c)'
<1>a. pc \in {"run", "check"} => c \in sync_ack \/ Unasked(c)
  BY DEF InStep, Follows, Tokens
<1>b. \A s \in {CREATE_OBJECTS, TRANSFER_OBJECTS} :
        /\ pc = "run" /\ pc' # "run" /\ state' \in {state, StepTo(state)} =>
             (Past(s)' /\ state' # DELETE_GRID =>
                Past(s) /\ state # DELETE_GRID)
        /\ pc # "run" /\ pc' # "run" /\ state' = state => (Past(s)' => Past(s))
  BY DEF Past, ServerAt, States, StepTo
<1>1. CASE TransferSettings
  BY <1>1, <1>a, <1>b, AskInStep DEF TransferSettings
<1>2. CASE SettingsTransferred
  <2>1. c \in sync_ack \/ Unasked(c)
    BY <1>2, WaitEnds DEF SettingsTransferred, Synced
  <2>2. state' = CREATE_GRID
    BY <1>2 DEF SettingsTransferred, EnterState, StepTo, ServerWalk
  <2> QED
    BY <1>2, <2>1, <2>2, AskInStep DEF SettingsTransferred, EnterState, Past
<1>3. CASE StateUpdate
  BY <1>3, <1>a, <1>b, AskInStep DEF StateUpdate, EnterState
<1>4. CASE RoundOver
  BY <1>4, <1>a, <1>b, AskInStep DEF RoundOver, EnterState
<1>5. CASE SyncEnds
  BY <1>5, SyncEndsInStep
<1>6. CASE SyncAgain
  BY <1>6, <1>a, <1>b, AskInStep DEF SyncAgain
<1>7. CASE LeaveSetState
  BY <1>7, LeaveInStep
<1> QED BY <1>1, <1>2, <1>3, <1>4, <1>5, <1>6, <1>7 DEF ServerNext

(* The server goes around its circle, from wait to wait.                   *)
LEMMA WalkNext ==
  ASSUME ServerAt, ServerWalk, [Next]_vars
  PROVE  ServerWalk'
<1> USE DEF ServerWalk, WaitStage, Stage, Leads, ServerAt
<1>1. CASE TransferSettings \/ SyncEnds \/ SyncAgain
  BY <1>1 DEF TransferSettings, SyncEnds, SyncAgain
<1>2. CASE SettingsTransferred
  BY <1>2 DEF SettingsTransferred, EnterState, StepTo, GoalAfter
<1>3. CASE StateUpdate
  BY <1>3 DEF StateUpdate, EnterState, StepTo, GoalAfter, AbeforeB
<1>4. CASE RoundOver
  BY <1>4 DEF RoundOver, EnterState, AbeforeB
<1>5. CASE LeaveSetState
  BY <1>5 DEF LeaveSetState
<1>6. CASE UNCHANGED <<state, stateNext, pc, next, epoch>>
  BY <1>6
<1> HIDE DEF ServerWalk
<1> QED
  BY <1>1, <1>2, <1>3, <1>4, <1>5, <1>6 DEF Next, ServerNext, ClientNext,
  ReceiveNews, ClientStateUpdate, Report, ReceiveSync, ClientSynced,
  Announce, ReceiveSyncAck, ReceiveReport, Login, Logout, Hang, ForgetClient,
  vars, server

(* What a step leaves alone for one client, and for all.                   *)
Unmoved(c) ==
  /\ cState'[c] = cState[c] /\ cNext'[c] = cNext[c]
  /\ cEpoch'[c] = cEpoch[c] /\ cRound'[c] = cRound[c]
  /\ gridRound'[c] = gridRound[c] /\ cReports'[c] = cReports[c]
  /\ client_gamestate'[c] = client_gamestate[c]
  /\ lastReport'[c] = lastReport[c]
  /\ news'[c] = news[c] /\ reports'[c] = reports[c]
  /\ syncs'[c] = syncs[c] /\ syncAcks'[c] = syncAcks[c]
  /\ (c \in unreported' <=> c \in unreported)
  /\ (c \in game' <=> c \in game)
  /\ (c \in owed' <=> c \in owed)
  /\ (c \in syncing' <=> c \in syncing)
  /\ (c \in disordered' <=> c \in disordered)
  /\ (c \in sync_ack' <=> c \in sync_ack)

Steady == UNCHANGED <<state, stateNext, pc, next, round, epoch>>

(* A client that nothing happens to stays in step.                         *)
LEMMA UnmovedInStep ==
  ASSUME NEW c \in Clients, InStep(c), Unmoved(c), Steady
  PROVE  InStep(c)'
BY
DEF InStep, Follows, Tokens, Heard, Newest, Outdated, Place, Marks, Marked,
    Purged,
    Leaving, Left, Ordered, Past, Unasked, Acked, Unmoved, Steady

(* An announcement arrives.                                                *)
LEMMA ReceiveNewsInStep ==
  ASSUME TypeOK, NEW c \in Clients, c \in connected \ hung, ServerAt,
         TypesAt(c), NewsOrder(c), ServerWalk, InStep(c), NEW a \in news[c],
         ReceiveNews(c, a)
  PROVE  InStep(c)'
<1>1. /\ UNCHANGED <<state, stateNext, pc, next, round, epoch,
                     client_gamestate, lastReport, disordered, owed, cState,
                     unreported, sync_ack, syncs, syncAcks, cReports,
                     syncing, gridRound, reports>>
      /\ news'[c] = news[c] \ {a} /\ c \in game'
  BY DEF ReceiveNews, server, players, view, TypeOK, NetworkTypes
<1>2. IF a.epoch > cEpoch[c]
      THEN /\ cEpoch'[c] = a.epoch
           /\ IF FarBehind(Known(c), a.state)
              THEN cNext'[c] = a.state /\ cRound'[c] = a.round
              ELSE cNext'[c] = cNext[c] /\ cRound'[c] = cRound[c]
      ELSE /\ cEpoch'[c] = cEpoch[c] /\ cNext'[c] = cNext[c]
           /\ cRound'[c] = cRound[c]
  <2>1. a.state \in States /\ Known(c) \in States
    BY DEF TypesAt, Known, Goals, States
  <2> QED BY <2>1, AroundTheCircle DEF ReceiveNews, TypeOK, ClientTypes
<1>3. Known(c) = cNext[c]
  BY DEF Known, InStep, Heard
<1> USE DEF InStep, Follows, Tokens, Heard, Newest, Outdated, Place, Marks,
            Marked, Purged, Leaving, Left, Ordered, Past, Early, InGrid,
            Goals, States, Unasked, Acked, TypesAt, ServerAt
<1>4. Tokens(c)' /\ Place(c)' /\ Marks(c)' /\ Ordered(c)'
  BY <1>1
<1>5. CASE a.epoch < epoch
  <2>1. Heard(c)'
    BY <1>1, <1>2, <1>3, <1>5 DEF FarBehind, Before
  <2>2. Purged(c)' /\ Leaving(c)' /\ Left(c)'
    BY <1>1, <1>2, <1>3, <1>5 DEF FarBehind, Before
  <2> QED BY <2>1, <2>2, <1>4
<1>6. CASE a.epoch = epoch
  <2>1. Heard(c)'
    BY <1>1, <1>2, <1>3, <1>6 DEF FarBehind, Before
  <2>2. Purged(c)' /\ Leaving(c)' /\ Left(c)'
    BY <1>1, <1>2, <1>3, <1>6 DEF FarBehind, Before
  <2> QED BY <2>1, <2>2, <1>4
<1> QED BY <1>5, <1>6

(* The client goes to the next state.                                      *)
LEMMA ClientUpdateInStep ==
  ASSUME TypeOK, NEW c \in Clients, c \in connected \ hung, ServerAt,
         TypesAt(c), ClientOrder(c), ServerWalk, InStep(c),
         ClientStateUpdate(c)
  PROVE  InStep(c)'
<1>1. /\ UNCHANGED <<state, stateNext, pc, next, round, epoch,
                     client_gamestate, lastReport, disordered, owed, cEpoch,
                     cNext, cRound, sync_ack, syncs, syncAcks, cReports,
                     syncing, news, reports, game>>
      /\ cState'[c] = StepTo(cState[c]) /\ gridRound'[c] = GridAfter(c)
      /\ c \notin unreported /\ c \in unreported'
      /\ c \in game /\ c \notin syncing
      /\ FarBehind(cState[c], cNext[c])
  BY AroundTheCircle
  DEF ClientStateUpdate, server, players, view, network, TypeOK, ClientTypes,
      TypesAt, Goals, States
<1> USE DEF InStep, Follows, Tokens, Heard, Newest, Outdated, Place, Marks,
            Marked, Purged, Leaving, Left, Ordered, Past, Early, InGrid,
            Goals, States, Unasked, Acked, TypesAt, ServerAt
<1>2. Tokens(c)' /\ Heard(c)'
  BY <1>1
<1>3. cState[c] = CREATED => Follows(c)'
  BY <1>1
  DEF FarBehind, StepTo, GridAfter, ClientOrder, NotAfter, Before
<1>4. cState[c] = TRANSFER_SETTINGS => Follows(c)'
  BY <1>1
  DEF FarBehind, StepTo, GridAfter, ClientOrder, NotAfter, Before
<1>5. cState[c] = CREATE_GRID => Follows(c)'
  BY <1>1
  DEF FarBehind, StepTo, GridAfter, ClientOrder, NotAfter, Before
<1>6. cState[c] = CREATE_OBJECTS => Follows(c)'
  BY <1>1
  DEF FarBehind, StepTo, GridAfter, ClientOrder, NotAfter, Before
<1>7. cState[c] = TRANSFER_OBJECTS => Follows(c)'
  BY <1>1
  DEF FarBehind, StepTo, GridAfter, ClientOrder, NotAfter, Before
<1>8. cState[c] = CAMERA => Follows(c)'
  BY <1>1
  DEF FarBehind, StepTo, GridAfter, ClientOrder, NotAfter, Before
<1>9. cState[c] = SYNCING => Follows(c)'
  BY <1>1
  DEF FarBehind, StepTo, GridAfter, ClientOrder, NotAfter, Before
<1>10. cState[c] = PLAY => Follows(c)'
  BY <1>1
  DEF FarBehind, StepTo, GridAfter, ClientOrder, NotAfter, Before
<1>11. CASE cState[c] = DELETE_OBJECTS
  <2>1. Place(c)'
    BY <1>1, <1>11
    DEF FarBehind, StepTo, GridAfter, ClientOrder, NotAfter, Before
  <2>2. Marks(c)'
    BY <1>1, <1>11
    DEF FarBehind, StepTo, GridAfter, ClientOrder, NotAfter, Before
  <2>3. Purged(c)'
    BY <1>1, <1>11
    DEF FarBehind, StepTo, GridAfter, ClientOrder, NotAfter, Before
  <2>4. Leaving(c)'
    BY <1>1, <1>11
    DEF FarBehind, StepTo, GridAfter, ClientOrder, NotAfter, Before
  <2>5. Left(c)'
    BY <1>1, <1>11
    DEF FarBehind, StepTo, GridAfter, ClientOrder, NotAfter, Before
  <2>6. Ordered(c)'
    BY <1>1, <1>11
    DEF FarBehind, StepTo, GridAfter, ClientOrder, NotAfter, Before
  <2> QED BY <1>2, <2>1, <2>2, <2>3, <2>4, <2>5, <2>6
<1>12. cState[c] = DELETE_GRID => Follows(c)'
  BY <1>1
  DEF FarBehind, StepTo, GridAfter, ClientOrder, NotAfter, Before
<1> QED BY <1>2, <1>3, <1>4, <1>5, <1>6, <1>7, <1>8, <1>9, <1>10, <1>11, <1>12

(* The client reports its state.                                           *)
LEMMA ReportInStep ==
  ASSUME TypeOK, NEW c \in Clients, c \in connected \ hung, ServerAt,
         TypesAt(c), ClientOrder(c), ServerWalk, InStep(c), Report(c)
  PROVE  InStep(c)'
<1> USE DEF InStep, Follows, Tokens, Heard, Newest, Outdated, Place, Marks,
            Marked, Purged, Leaving, Left, Ordered, Past, Early, InGrid,
            Goals, States, Unasked, Acked, TypesAt, ServerAt
<1> DEFINE r == [num |-> cReports[c] + 1, state |-> cState[c]]
<1>1. /\ UNCHANGED <<state, stateNext, pc, next, round, epoch,
                     client_gamestate, lastReport, disordered, owed, cEpoch,
                     cNext, cRound, sync_ack, syncs, syncAcks, cState,
                     gridRound, syncing, news, game>>
      /\ c \in unreported /\ c \notin unreported' /\ c \notin syncing
      /\ cReports'[c] = cReports[c] + 1 /\ reports'[c] = reports[c] \cup {r}
  BY DEF Report, server, players, view, TypeOK, ClientTypes, NetworkTypes
<1>2. r.num = cReports[c] + 1 /\ r.state = cState[c]
  OBVIOUS
<1> HIDE DEF r
<1>3. Tokens(c)' /\ Heard(c)'
  BY <1>1
<1>4. Place(c)'
  BY <1>1, <1>2
<1>5. Marks(c)'
  BY <1>1, <1>2
<1>6. Purged(c)'
  BY <1>1, <1>2
<1>7. Leaving(c)'
  BY <1>1, <1>2
<1>8. Left(c)'
  BY <1>1, <1>2
<1>9. Ordered(c)'
  BY <1>1, <1>2
<1> QED BY <1>9, <1>3, <1>4, <1>5, <1>6, <1>7, <1>8

(* A report arrives, in whatever order.                                    *)
LEMMA ReceiveReportInStep ==
  ASSUME TypeOK, NEW c \in Clients, c \in connected \ hung, ServerAt,
         TypesAt(c), ClientOrder(c), ServerWalk, InStep(c),
         NEW r \in reports[c], ReceiveReport(c, r)
  PROVE  InStep(c)'
<1>1. /\ UNCHANGED <<state, stateNext, pc, next, round, epoch, owed, cEpoch,
                     cNext, cRound, unreported, sync_ack, syncs, syncAcks,
                     cState, gridRound, syncing, news, game, cReports>>
      /\ reports'[c] = reports[c] \ {r}
      /\ client_gamestate'[c] = r.state /\ lastReport'[c] = r.num
      /\ (c \in disordered' <=> r.num < lastReport[c] \/ c \in disordered)
  BY DEF ReceiveReport, client, players, TypeOK, ServerTypes, NetworkTypes
<1>2. r.num \in Nat /\ r.state \in States
  BY DEF TypesAt
<1>3. Ordered(c)'
  BY <1>1, <1>2 DEF InStep, Follows, Ordered, TypesAt
<1> USE DEF InStep, Follows, Tokens, Heard, Newest, Outdated, Place, Marks,
            Marked, Purged, Leaving, Left, Ordered, Past, Early, InGrid,
            Goals, States, Unasked, Acked, TypesAt, ServerAt
<1>4. Tokens(c)' /\ Heard(c)'
  BY <1>1
<1>5. Place(c)'
  BY <1>1, <1>2
<1>6. Marks(c)'
  BY <1>1, <1>2
<1>7. Purged(c)'
  BY <1>1, <1>2
<1>8. Leaving(c)'
  BY <1>1, <1>2
<1>9. Left(c)'
  BY <1>1, <1>2
<1> QED BY <1>3, <1>4, <1>5, <1>6, <1>7, <1>8, <1>9

(* The newest goal is sent to a client.                                    *)
LEMMA AnnounceInStep ==
  ASSUME TypeOK, NEW c \in Clients, c \in connected \ hung, ServerAt,
         TypesAt(c), ServerWalk, InStep(c), Announce(c)
  PROVE  InStep(c)'
<1> DEFINE n == [epoch |-> epoch, round |-> round, state |-> stateNext]
<1>1. /\ UNCHANGED <<state, stateNext, pc, next, round, epoch,
                     client_gamestate, lastReport, disordered, cEpoch, cNext,
                     cRound, unreported, sync_ack, syncs, syncAcks, cState,
                     gridRound, syncing, reports, game, cReports>>
      /\ news'[c] = news[c] \cup {n} /\ c \in owed /\ c \notin owed'
      /\ (c \in game \/ news[c] = {})
  BY DEF Announce, Announcement, view, client, TypeOK, NetworkTypes
<1>2. /\ n.epoch = epoch /\ n.state = stateNext /\ n.round = round
      /\ n \in news'[c]
  BY <1>1
<1> HIDE DEF n
<1> USE DEF InStep, Follows, Tokens, Heard, Newest, Outdated, Place, Marks,
            Marked, Purged, Leaving, Left, Ordered, Past, Early, InGrid,
            Goals, States, Unasked, Acked, TypesAt, ServerAt
<1>3. news[c] = {} /\ cEpoch[c] < epoch
  BY <1>1 DEF ServerWalk
<1>6. \A a : a \in news'[c] <=> a = n
  BY <1>1, <1>3
<1>4. Heard(c)'
  BY <1>1, <1>2, <1>3, <1>6
<1>5. Tokens(c)' /\ Follows(c)'
  BY <1>1, <1>2, <1>3, <1>6
<1> QED BY <1>4, <1>5

(* The request of sn_Sync, the nested sn_Sync, and the answer.             *)
LEMMA TokenInStep ==
  ASSUME TypeOK, NEW c \in Clients, c \in connected \ hung, ServerAt,
         TypesAt(c), ServerWalk, InStep(c),
         ReceiveSync(c) \/ ClientSynced(c) \/ ReceiveSyncAck(c), Patient
  PROVE  InStep(c)'
<1>1. UNCHANGED <<state, stateNext, pc, next, round, epoch, owed,
                  client_gamestate, lastReport, disordered, cEpoch, cNext,
                  cRound, unreported, cState, gridRound, reports, news, game,
                  cReports>>
  BY DEF ReceiveSync, ClientSynced, ReceiveSyncAck, server, view, client
<1>2. CASE ReceiveSync(c)
  <2>1. /\ syncs[c] > 0 /\ syncs'[c] = syncs[c] - 1 /\ c \in syncing'
        /\ UNCHANGED <<sync_ack, syncAcks>>
    BY <1>2 DEF ReceiveSync, server, TypeOK, NetworkTypes
  <2>2. /\ syncs[c] = 1 /\ syncAcks[c] = 0 /\ c \notin syncing \cup sync_ack
        /\ pc \notin {"run", "check"}
    BY <2>1 DEF InStep, Tokens, TypesAt, Unasked
  <2> QED
    BY <1>1, <2>1, <2>2
    DEF InStep, Follows, Tokens, Heard, Newest, Outdated, Place, Marks,
        Marked, Purged, Leaving, Left, Ordered, Past,
        Unasked, Acked, TypesAt
<1>3. CASE ClientSynced(c)
  <2>1. /\ c \in syncing /\ c \notin syncing' /\ reports[c] = {}
        /\ UNCHANGED <<syncs, sync_ack>>
        /\ syncAcks'[c] = OneMore(syncAcks[c])
    BY <1>3 DEF ClientSynced, TypeOK, NetworkTypes
  <2>2. /\ syncs[c] = 0 /\ syncAcks[c] = 0 /\ syncAcks'[c] = 1
        /\ c \notin sync_ack
    BY <2>1, GameAssumption DEF InStep, Follows, Tokens, TypesAt, OneMore
  <2> QED
    BY <1>1, <2>1, <2>2
    DEF InStep, Follows, Tokens, Heard, Newest, Outdated, Place, Marks,
        Marked, Purged, Leaving, Left, Ordered, Past,
        Unasked, Acked, TypesAt
<1>4. CASE ReceiveSyncAck(c)
  <2>1. /\ syncAcks[c] > 0 /\ syncAcks'[c] = syncAcks[c] - 1
        /\ c \in sync_ack' /\ UNCHANGED <<syncing, syncs>>
    BY <1>4 DEF ReceiveSyncAck, client, TypeOK, NetworkTypes
  <2>2. /\ syncs[c] = 0 /\ syncAcks[c] = 1 /\ syncAcks'[c] = 0
        /\ c \notin syncing \cup sync_ack
        /\ pc \notin {"run", "check"}
    BY <2>1 DEF InStep, Follows, Tokens, TypesAt, Unasked
  <2> QED
    BY <1>1, <2>1, <2>2
    DEF InStep, Follows, Tokens, Heard, Newest, Outdated, Place, Marks,
        Marked, Purged, Leaving, Left, Ordered, Past,
        Unasked, Acked, TypesAt
<1> QED BY <1>2, <1>3, <1>4

(* A new client has done nothing yet.                                      *)
LEMMA LoginInStep ==
  ASSUME TypeOK, NEW c \in Clients, ServerAt, ServerWalk, Login(c)
  PROVE  InStep(c)'
<1>1. /\ UNCHANGED <<state, stateNext, pc, next, round, epoch>>
      /\ client_gamestate'[c] = CREATED /\ lastReport'[c] = 0
      /\ c \notin sync_ack' /\ c \notin game' /\ c \notin unreported'
      /\ cState'[c] = CREATED /\ cNext'[c] = TRANSFER_SETTINGS
      /\ cEpoch'[c] = 0 /\ gridRound'[c] = 0 /\ cReports'[c] = 0
      /\ c \notin syncing' /\ news'[c] = {} /\ reports'[c] = {}
      /\ syncs'[c] = 0 /\ syncAcks'[c] = 0 /\ c \in owed'
  BY DEF Login, ForgetClient, LoginCallback, TypeOK, ServerTypes, ClientTypes,
      NetworkTypes
<1> QED
  BY <1>1
  DEF InStep, Follows, Tokens, Heard, Newest, Outdated, Place, Marks, Marked,
      Purged, Leaving, Left, Ordered, Past, Early, InGrid,
      Unasked, Acked, ServerAt

(* What one client does leaves the others alone.                           *)
LEMMA OthersUnmoved ==
  ASSUME TypeOK, NEW c \in Clients, NEW d \in Clients, c # d,
         \/ ClientNext(d) \/ Announce(d) \/ ReceiveSyncAck(d)
         \/ \E r \in reports[d] : ReceiveReport(d, r)
         \/ Login(d) \/ Logout(d) \/ Hang(d)
  PROVE  /\ Unmoved(c) /\ Steady
         /\ c \in (connected \ hung)' <=> c \in connected \ hung
<1> USE DEF TypeOK, ServerTypes, ClientTypes, NetworkTypes, Unmoved, Steady
<1>1. ASSUME NEW a \in news[d], ReceiveNews(d, a)
      PROVE  Unmoved(c) /\ Steady /\ UNCHANGED <<connected, hung>>
  BY <1>1 DEF ReceiveNews, server, view, players
<1>2. CASE ClientStateUpdate(d)
  BY <1>2 DEF ClientStateUpdate, server, view, players, network
<1>3. CASE Report(d)
  BY <1>3 DEF Report, server, view, players
<1>4. CASE ReceiveSync(d)
  BY <1>4 DEF ReceiveSync, server, view, players
<1>5. CASE ClientSynced(d)
  BY <1>5 DEF ClientSynced, view, players
<1>6. CASE Announce(d)
  BY <1>6 DEF Announce, view, players, client
<1>7. CASE ReceiveSyncAck(d)
  BY <1>7 DEF ReceiveSyncAck, view, players, client
<1>8. ASSUME NEW r \in reports[d], ReceiveReport(d, r)
      PROVE  Unmoved(c) /\ Steady /\ UNCHANGED <<connected, hung>>
  BY <1>8 DEF ReceiveReport, players, client
<1>9. CASE Login(d) \/ Logout(d)
  BY <1>9 DEF Login, Logout, ForgetClient, LoginCallback
<1>10. CASE Hang(d)
  BY <1>10 DEF Hang, view, client
<1> HIDE DEF TypeOK, Unmoved, Steady
<1> QED
  BY <1>1, <1>2, <1>3, <1>4, <1>5, <1>6, <1>7, <1>8, <1>9, <1>10 DEF ClientNext

(* Nobody is there in the beginning.                                       *)
LEMMA GridInit == Init => GridInv
BY DEF Init, GridInv, ServerWalk, Leads

(* Every step keeps all clients in step.                                   *)
LEMMA GridNext ==
  ASSUME Patient, TypeOK, OrderInv, GridInv, [Next]_vars
  PROVE  GridInv'
<1>1. ServerWalk'
  BY WalkNext, AllTypes DEF GridInv
<1>2. ASSUME NEW c \in Clients, c \in connected' \ hung' PROVE InStep(c)'
  <2>1. ServerAt /\ TypesAt(c) /\ NewsOrder(c) /\ ClientOrder(c) /\ ServerWalk
    BY AllTypes DEF OrderInv, GridInv
  <2>2. c \in connected \ hung => InStep(c)
    BY DEF GridInv
  <2>3. CASE ServerNext
    <3>1. UNCHANGED <<connected, hung>>
      BY <2>3
      DEF ServerNext, TransferSettings, SettingsTransferred, StateUpdate,
          RoundOver, SyncEnds, SyncAgain, LeaveSetState, players
    <3> QED BY <3>1, <2>1, <2>2, <2>3, <1>2, ServerInStep
  <2>4. ASSUME NEW d \in Clients, d # c,
         \/ ClientNext(d) \/ Announce(d) \/ ReceiveSyncAck(d)
         \/ \E r \in reports[d] : ReceiveReport(d, r)
         \/ Login(d) \/ Logout(d) \/ Hang(d)
        PROVE InStep(c)'
    BY <2>4, <2>2, <1>2, OthersUnmoved, UnmovedInStep
  <2>5. CASE ClientNext(c)
    <3>1. c \in connected \ hung
      BY <2>5, <1>2
      DEF ClientNext, ReceiveNews, ClientStateUpdate, Report, ReceiveSync,
          ClientSynced, players
    <3>2. ASSUME NEW a \in news[c], ReceiveNews(c, a) PROVE InStep(c)'
      BY <3>1, <3>2, <2>1, <2>2, ReceiveNewsInStep
    <3>3. CASE ClientStateUpdate(c)
      BY <3>1, <3>3, <2>1, <2>2, ClientUpdateInStep
    <3>4. CASE Report(c)
      BY <3>1, <3>4, <2>1, <2>2, ReportInStep
    <3>5. CASE ReceiveSync(c) \/ ClientSynced(c)
      BY <3>1, <3>5, <2>1, <2>2, TokenInStep
    <3> QED BY <2>5, <3>2, <3>3, <3>4, <3>5 DEF ClientNext
  <2>6. CASE Announce(c)
    <3>1. c \in connected \ hung
      BY <2>6, <1>2 DEF Announce, players
    <3> QED BY <3>1, <2>6, <2>1, <2>2, AnnounceInStep
  <2>7. CASE ReceiveSyncAck(c)
    <3>1. c \in connected \ hung
      BY <2>7, <1>2 DEF ReceiveSyncAck, players
    <3> QED BY <3>1, <2>7, <2>1, <2>2, TokenInStep
  <2>8. ASSUME NEW r \in reports[c], ReceiveReport(c, r) PROVE InStep(c)'
    <3>1. c \in connected \ hung
      BY <2>8, <1>2 DEF ReceiveReport, players
    <3> QED BY <3>1, <2>8, <2>1, <2>2, ReceiveReportInStep
  <2>9. CASE Login(c)
    BY <2>9, <2>1, LoginInStep
  <2>10. ~ Logout(c) /\ ~ Hang(c)
    BY <1>2 DEF Logout, Hang
  <2>11. CASE UNCHANGED vars
    <3>1. Unmoved(c) /\ Steady /\ UNCHANGED <<connected, hung>>
      BY <2>11
      DEF vars, server, view, players, client, network, Unmoved, Steady
    <3> QED BY <3>1, <2>2, <1>2, UnmovedInStep
  <2> QED BY <2>3, <2>4, <2>5, <2>6, <2>7, <2>8, <2>9, <2>10, <2>11 DEF Next
<1> QED BY <1>1, <1>2, TypeNext DEF GridInv, TypeOK, ServerTypes

(* Who has reported a state that needs the grid has that of the round.     *)
LEMMA GridFollows == TypeOK /\ OrderInv /\ GridInv => ObjectsHaveAGrid
<1> SUFFICES ASSUME TypeOK, OrderInv, GridInv,
                    NEW c \in connected \ hung,
                    state \in TRANSFER_OBJECTS .. PLAY,
                    stateNext # DELETE_OBJECTS,
                    GridIsReady(c)
             PROVE  gridRound[c] = round
  BY DEF ObjectsHaveAGrid
<1>1. InStep(c) /\ ServerWalk /\ ServerAt /\ TypesAt(c)
  BY AllTypes DEF GridInv, TypeOK, ServerTypes
<1>2. stateNext # DELETE_GRID
  BY <1>1 DEF ServerWalk, WaitStage, Stage, Leads, ServerAt
<1> QED
  BY <1>1, <1>2
  DEF InStep, Follows, Marks, Marked, GridIsReady, InGrid, States, TypesAt

(* Where the clients are when the server ends a wait.                      *)
LEMMA LeftNobody ==
  ASSUME Patient, TypeOK, OrderInv, GridInv, [Next]_vars, pc = "check",
         pc' = "run",
         NEW c \in connected \ (hung \cup disordered), client_gamestate[c] # 0
  PROVE  Reached(c)
<1>1. InStep(c) /\ ServerWalk /\ ServerAt /\ TypesAt(c) /\ ClientOrder(c)
  BY AllTypes DEF GridInv, TypeOK, ServerTypes, OrderInv
<1>2. LeaveSetState
  BY
  DEF Next, ServerNext, TransferSettings, SettingsTransferred, StateUpdate,
      RoundOver, SyncEnds, SyncAgain, EnterState,
   ClientNext, ReceiveNews, ClientStateUpdate, Report, ReceiveSync,
   ClientSynced, Announce, ReceiveSyncAck,
  ReceiveReport, Login, Logout, Hang, ForgetClient, vars, server
<1>3. FarBehind(client_gamestate[c], state) =>
        /\ c \in game \ (owed \cup unreported \cup syncing)
        /\ news[c] = {} /\ reports[c] = {}
        /\ ~ FarBehind(cState[c], cNext[c])
  BY <1>1, <1>2, AroundTheCircle
  DEF LeaveSetState, Idle, Behind, TypesAt, ServerAt, Goals, States
<1>4. WaitStage
  BY <1>1 DEF ServerWalk
<1> USE DEF InStep, Follows, Tokens, Heard, Newest, Outdated, Place, Marks,
            Marked, Purged, Leaving, Left, Ordered, Past, Early, InGrid,
            Goals, States, Unasked, Acked, TypesAt, ServerAt
<1>5. CASE Stage(CREATE_GRID, CAMERA, TRANSFER_SETTINGS)
  BY <1>1, <1>3, <1>5
  DEF Stage, FarBehind, ClientOrder, NotAfter, Before, Reached
<1>6. CASE Stage(CREATE_GRID, CAMERA, CREATE_GRID)
  BY <1>1, <1>3, <1>6
  DEF Stage, FarBehind, ClientOrder, NotAfter, Before, Reached
<1>7. CASE Stage(CREATE_OBJECTS, CAMERA, CAMERA)
  BY <1>1, <1>3, <1>7
  DEF Stage, FarBehind, ClientOrder, NotAfter, Before, Reached
<1>8. CASE Stage(TRANSFER_OBJECTS, CAMERA, CAMERA)
  BY <1>1, <1>3, <1>8
  DEF Stage, FarBehind, ClientOrder, NotAfter, Before, Reached
<1>9. CASE Stage(CAMERA, SYNCING, CAMERA)
  BY <1>1, <1>3, <1>9
  DEF Stage, FarBehind, ClientOrder, NotAfter, Before, Reached
<1>10. CASE Stage(SYNCING, PLAY, SYNCING)
  BY <1>1, <1>3, <1>10
  DEF Stage, FarBehind, ClientOrder, NotAfter, Before, Reached
<1>11. CASE Stage(PLAY, PLAY, PLAY)
  BY <1>1, <1>3, <1>11
  DEF Stage, FarBehind, ClientOrder, NotAfter, Before, Reached
<1>12. CASE Stage(PLAY, DELETE_OBJECTS, PLAY)
  BY <1>1, <1>3, <1>12
  DEF Stage, FarBehind, ClientOrder, NotAfter, Before, Reached
<1>13. CASE Stage(DELETE_OBJECTS, DELETE_GRID, DELETE_OBJECTS)
  BY <1>1, <1>3, <1>13
  DEF Stage, FarBehind, ClientOrder, NotAfter, Before, Reached
<1>14. CASE Stage(DELETE_GRID, TRANSFER_SETTINGS, DELETE_GRID)
  BY <1>1, <1>3, <1>14
  DEF Stage, FarBehind, ClientOrder, NotAfter, Before, Reached
<1>15. CASE Stage(TRANSFER_SETTINGS, CREATE_GRID, TRANSFER_SETTINGS)
  BY <1>1, <1>3, <1>15
  DEF Stage, FarBehind, ClientOrder, NotAfter, Before, Reached
<1> QED
  BY <1>4, <1>5, <1>6, <1>7, <1>8, <1>9, <1>10, <1>11, <1>12, <1>13, <1>14,
  <1>15 DEF WaitStage

(* The server takes clients for ready to get objects only if they have the *)
(* grid of this round, as long as it waits patiently.                      *)
THEOREM ObjectsNeedAGrid == ASSUME Patient PROVE Spec => []ObjectsHaveAGrid
<1>1. Init => TypeOK /\ OrderInv /\ GridInv
  BY TypeInit, OrderInit, GridInit
<1>2. TypeOK /\ OrderInv /\ GridInv /\ [Next]_vars =>
        (TypeOK /\ OrderInv /\ GridInv)'
  BY TypeNext, OrderNext, GridNext
<1>3. TypeOK /\ OrderInv /\ GridInv => ObjectsHaveAGrid
  BY GridFollows
<1> QED BY <1>1, <1>2, <1>3, PTL DEF Spec

(* The server leaves a wait only when every client that has reported, and  *)
(* whose reports came in order, has come as far as the wait was for.       *)
THEOREM NobodyIsLeftBehind == ASSUME Patient PROVE Spec => NobodyLeftBehind
<1>1. Init => TypeOK /\ OrderInv /\ GridInv
  BY TypeInit, OrderInit, GridInit
<1>2. TypeOK /\ OrderInv /\ GridInv /\ [Next]_vars =>
        (TypeOK /\ OrderInv /\ GridInv)'
  BY TypeNext, OrderNext, GridNext
<1>3. TypeOK /\ OrderInv /\ GridInv /\ [Next]_vars =>
        [pc = "check" /\ pc' = "run" =>
          \A c \in connected \ (hung \cup disordered) :
            client_gamestate[c] # 0 => Reached(c)]_vars
  BY LeftNobody
<1> QED BY <1>1, <1>2, <1>3, PTL DEF Spec, NobodyLeftBehind
=============================================================================
