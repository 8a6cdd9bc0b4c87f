------------------------- MODULE ObjectReplication -------------------------
(***************************************************************************)
(* How a server mirrors its network objects on the client in one           *)
(* connection slot (nNetObject.cpp): creation messages, syncs and destroy  *)
(* messages, what the server believes the client knows (knowsAbout), and   *)
(* the login and logout of the slot's occupants.                           *)
(*                                                                         *)
(* Objects are numbered in the order of their creation; the server gives   *)
(* their ids out in a cycle, so that a later object may reuse the id of a  *)
(* destroyed one.  A client handles each message once: ReliableMessages.   *)
(***************************************************************************)
EXTENDS Integers, FiniteSets

CONSTANTS
  NumIds,        \* ids in circulation (net_max_current_id)
  MaxObjects,    \* bound on the objects created
  MaxSessions,   \* bound on the occupants of the slot
  MaxChanges,    \* bound on the changes of one object's state
  MaxMessages,   \* bound on the messages numbered
  MaxNoAck,      \* sn_maxNoAck: unacknowledged messages allowed
  QuietLogout,   \* nobody leaves while a destroy message is being collected
  Lossy          \* packets may vanish

ASSUME ReplicationAssumption ==
  /\ NumIds \in Nat \ {0} /\ MaxObjects \in Nat /\ MaxSessions \in Nat
  /\ MaxChanges \in Nat /\ MaxMessages \in Nat /\ MaxNoAck \in Nat \ {0}
  /\ QuietLogout \in BOOLEAN /\ Lossy \in BOOLEAN

VARIABLES
  live,            \* server: the objects in existence
  created,         \* server: how many objects there have been
  val,             \* server: the state of an object, counted in changes
  knowsAbout,      \* server: what the occupant knows of an object
  session,         \* the occupants so far; the last one is the current one
  socket,          \* the slot is in use
  ready,           \* is_ready_to_get_objects
  destroyers,      \* ids in the destroy message being collected
  destroyersCount, \* destroy messages counted as unacknowledged
  ackPending,      \* messages counted as unacknowledged
  pendingAcks,     \* the nWaitForAck objects of the slot
  lastNum,         \* the number of the last message built
  dataNet,         \* messages on their way to the occupant
  ackNet,          \* acks on their way back
  cObject,         \* client: the object under an id
  cVal,            \* client: that object's state
  cLast,           \* client: lastSyncID_ of that object
  cDestroyed,      \* client: sn_Destroyed, entries [id, num]
  cSeen,           \* client: numbers of the messages handled
  cAcks            \* client: acks collected while reading packets

objects == <<live, created, val>>
conn    == <<session, socket, ready>>
window  == <<destroyersCount, ackPending, pendingAcks, lastNum>>
client  == <<cObject, cVal, cLast, cDestroyed, cSeen, cAcks>>
vars    == <<objects, knowsAbout, conn, destroyers, window, dataNet, ackNet,
             client>>

Objects == 1 .. MaxObjects
Ids     == 1 .. NumIds
NoObject == 0

(* inc_id: the server walks through the ids in a cycle.                    *)
IdOf(o) == ((o - 1) % NumIds) + 1

(* nKnowsAboutInfo::Reset, after the request that follows everywhere.      *)
Fresh == [exists |-> FALSE, nextSyncAck |-> TRUE, syncReq |-> TRUE,
          acksPending |-> 0]

Init ==
  /\ live = {} /\ created = 0 /\ val = [o \in Objects |-> 0]
  /\ knowsAbout = [o \in Objects |-> Fresh]
  /\ session = 0 /\ socket = FALSE /\ ready = FALSE
  /\ destroyers = {} /\ destroyersCount = 0
  /\ ackPending = 0 /\ pendingAcks = {} /\ lastNum = 0
  /\ dataNet = {} /\ ackNet = {}
  /\ cObject = [i \in Ids |-> NoObject]
  /\ cVal = [i \in Ids |-> 0] /\ cLast = [i \in Ids |-> 0]
  /\ cDestroyed = {} /\ cSeen = {} /\ cAcks = {}

-----------------------------------------------------------------------------
(* Messages.  A creation or sync names its object by the id alone; the     *)
(* object itself is kept in the message for the properties.                *)
ObjectMessage(kind, o) ==
  [num |-> lastNum + 1, kind |-> kind, object |-> o, val |-> val[o], ids |-> {}]

DestroyMessage ==
  [num |-> lastNum + 1, kind |-> "destroy", object |-> NoObject, val |-> 0,
   ids |-> destroyers]

Destroys(waits) == {w \in waits : w.kind = "destroy"}

(* new nWaitForAck (or a derived class) and SendImmediately.               *)
SendAndWait(m) ==
  /\ lastNum < MaxMessages
  /\ lastNum' = m.num
  /\ pendingAcks' = pendingAcks \cup {m}
  /\ ackPending' = ackPending + 1
  /\ dataNet' = dataNet \cup {m}

(* Faulty destructors: nWaitForAckDestroy has none of its own.             *)
StopWaitingPlain(waits) ==
  /\ pendingAcks' = pendingAcks \ waits
  /\ ackPending' = ackPending - Cardinality(waits)
  /\ UNCHANGED destroyersCount

(* The destructors of a set of nWaitForAck objects.                        *)
StopWaiting(waits) ==
  /\ pendingAcks' = pendingAcks \ waits
  /\ ackPending' = ackPending - Cardinality(waits)
  /\ destroyersCount' = destroyersCount - Cardinality(Destroys(waits))

-----------------------------------------------------------------------------
(* The game makes an object; its id must be free again (free_server).      *)
(* Freed ids rest in sn_freedIDs while a thousand others are freed: the    *)
(* messages that AckExtraAction follows up are acknowledged by then, but a *)
(* destroy message may still be on its way, or even being collected.       *)
IdFree(id) ==
  /\ \A o \in live : IdOf(o) # id
  /\ \A m \in pendingAcks : m.kind \in {"create", "sync"} => IdOf(m.object) # id

CreateObject ==
  LET o == created + 1
  IN  /\ o \in Objects
      /\ IdFree(IdOf(o))
      /\ live' = live \cup {o}
      /\ created' = o
      /\ knowsAbout' = [knowsAbout EXCEPT ![o] = Fresh]
      /\ UNCHANGED <<val, conn, destroyers, window, dataNet, ackNet, client>>

(* The object changes and asks for a sync (RequestSync).                   *)
ChangeObject(o, ack) ==
  /\ o \in live
  /\ val[o] < MaxChanges
  /\ val' = [val EXCEPT ![o] = @ + 1]
  /\ knowsAbout' = [knowsAbout EXCEPT ![o].syncReq = TRUE,
                                      ![o].nextSyncAck = @ \/ ack]
  /\ UNCHANGED <<live, created, conn, destroyers, window, dataNet, ackNet,
                 client>>

(* nNetObject::~nNetObject on the server.                                  *)
DestroyObject(o) ==
  /\ o \in live
  /\ live' = live \ {o}
  /\ destroyers' = IF knowsAbout[o].exists \/ knowsAbout[o].acksPending > 0
                   THEN destroyers \cup {IdOf(o)} ELSE destroyers
  /\ knowsAbout' = [knowsAbout EXCEPT ![o] = Fresh]
  /\ UNCHANGED <<created, val, conn, window, dataNet, ackNet, client>>

(* SyncAll may serve this slot: its conditions on the connection.          *)
CanSync == socket /\ ready /\ ackPending < MaxNoAck

(* sn_SendDestroyer from SyncAll: the collected message goes out, because  *)
(* the occasion is good or because a creation needs one of its ids.        *)
SendDestroyer ==
  /\ socket /\ ready
  /\ destroyers # {}
  /\ SendAndWait(DestroyMessage)
  /\ destroyersCount' = destroyersCount + 1
  /\ destroyers' = {}
  /\ UNCHANGED <<objects, knowsAbout, conn, ackNet, client>>

(* Faulty SyncAll: creations do not wait for destroy messages.             *)
MayCreateAnyTime(o) ==
  /\ ~ knowsAbout[o].exists
  /\ knowsAbout[o].acksPending = 0

(* SyncAll: a creation message may go out for this object.  The ids of the *)
(* collected destroy message are looked up before.                         *)
MayCreate(o) ==
  /\ ~ knowsAbout[o].exists
  /\ IdOf(o) \notin destroyers
  /\ destroyersCount = 0
  /\ knowsAbout[o].acksPending = 0

SendCreation(o) ==
  /\ CanSync
  /\ o \in live
  /\ MayCreate(o)
  /\ SendAndWait(ObjectMessage("create", o))
  /\ knowsAbout' = [knowsAbout EXCEPT ![o].syncReq = FALSE,
                                      ![o].acksPending = @ + 1]
  /\ UNCHANGED <<objects, conn, destroyers, destroyersCount, ackNet, client>>

(* SyncAll: a sync may go out for this object.                             *)
MaySync(o) ==
  /\ knowsAbout[o].exists /\ knowsAbout[o].syncReq
  /\ knowsAbout[o].acksPending <= 1

(* The sync insists on its ack if one was asked for.                       *)
SendSync(o) ==
  /\ CanSync
  /\ o \in live
  /\ MaySync(o)
  /\ IF knowsAbout[o].nextSyncAck
     THEN /\ SendAndWait(ObjectMessage("sync", o))
          /\ knowsAbout' = [knowsAbout EXCEPT ![o].syncReq = FALSE,
                                              ![o].nextSyncAck = FALSE,
                                              ![o].acksPending = @ + 1]
     ELSE /\ SendAndWait(ObjectMessage("lazy", o))
          /\ knowsAbout' = [knowsAbout EXCEPT ![o].syncReq = FALSE]
  /\ UNCHANGED <<objects, conn, destroyers, destroyersCount, ackNet, client>>

(* The wait ends without an ack.                                           *)
GiveUp(m) ==
  /\ StopWaiting({m})
  /\ UNCHANGED <<dataNet, lastNum>>

(* Faulty Resend: nothing is ever sent again.                              *)
SendAgainNever(m) == GiveUp(m)

(* nWaitForAck::Resend for one overdue message.  nDontWaitForAck gives up  *)
(* instead, and so does everybody when the slot is empty.                  *)
SendAgain(m) ==
  IF socket /\ m.kind # "lazy"
  THEN /\ dataNet' = dataNet \cup {m}
       /\ UNCHANGED window
  ELSE GiveUp(m)

Resend(m) ==
  /\ m \in pendingAcks
  /\ SendAgain(m)
  /\ UNCHANGED <<objects, knowsAbout, conn, destroyers, ackNet, client>>

(* nWaitForAckSync::AckExtraAction: the ack goes to whichever object has   *)
(* the id now.                                                             *)
Learn(m) ==
  IF m.kind \notin {"create", "sync"} THEN knowsAbout
  ELSE [o \in Objects |->
         IF o \in live /\ IdOf(o) = IdOf(m.object)
         THEN [knowsAbout[o] EXCEPT
                 !.exists = TRUE,
                 !.acksPending = IF @ > 0 THEN @ - 1 ELSE 0]
         ELSE knowsAbout[o]]

(* nWaitForAck::Ackt; an ack nobody waits for changes nothing.             *)
ReceiveAck(num) ==
  /\ socket
  /\ num \in ackNet
  /\ ackNet' = ackNet \ {num}
  /\ IF \E m \in pendingAcks : m.num = num
     THEN LET m == CHOOSE m \in pendingAcks : m.num = num
          IN  knowsAbout' = Learn(m) /\ StopWaiting({m})
     ELSE UNCHANGED <<knowsAbout, pendingAcks, ackPending, destroyersCount>>
  /\ UNCHANGED <<objects, conn, destroyers, lastNum, dataNet, client>>

-----------------------------------------------------------------------------
(* ClearKnows: whoever is in the slot next knows nothing.                  *)
ClearKnows ==
  /\ ready' = FALSE
  /\ knowsAbout' = [o \in Objects |-> Fresh]

(* A new process behind the slot, with an empty network in between.        *)
NewClient ==
  /\ dataNet' = {} /\ ackNet' = {}
  /\ cObject' = [i \in Ids |-> NoObject]
  /\ cVal' = [i \in Ids |-> 0] /\ cLast' = [i \in Ids |-> 0]
  /\ cDestroyed' = {} /\ cSeen' = {} /\ cAcks' = {}

(* sn_LoginHandler and login_callback (login): nothing is being collected  *)
(* for an empty slot.                                                      *)
Login ==
  /\ ~ socket /\ session < MaxSessions
  /\ session' = session + 1
  /\ socket' = TRUE
  /\ ClearKnows
  /\ destroyersCount' = 0
  /\ UNCHANGED <<objects, destroyers, ackPending, pendingAcks, lastNum,
                 dataNet, ackNet, client>>

(* sn_ReadyObjectsHandler                                                  *)
ReadyObjects ==
  /\ socket /\ ~ ready
  /\ ready' = TRUE
  /\ UNCHANGED <<objects, knowsAbout, session, socket, destroyers, window,
                 dataNet, ackNet, client>>

(* sn_DisconnectUserNoWarn, in its order: AckAllPeer forgets all waits,    *)
(* login_callback (logout) sends the destroy message collected so far and  *)
(* resets its counter, the connection is cleared with the send buffer and  *)
(* its counter.                                                            *)
Logout ==
  /\ socket
  /\ QuietLogout => destroyers = {}
  /\ socket' = FALSE
  /\ ClearKnows
  /\ IF destroyers = {}
     THEN pendingAcks' = {} /\ UNCHANGED lastNum
     ELSE /\ lastNum < MaxMessages
          /\ pendingAcks' = {DestroyMessage}
          /\ lastNum' = lastNum + 1
  /\ destroyers' = {}
  /\ destroyersCount' = 0
  /\ ackPending' = 0
  /\ NewClient
  /\ UNCHANGED <<objects, session>>

-----------------------------------------------------------------------------
(* Faulty client: takes every sync as it comes.                            *)
SyncIsNewAlways(id, m) == TRUE

(* nNetObject::SyncIsNew (sn_Update on lastSyncID_)                        *)
SyncIsNew(id, m) == cLast[id] = 0 \/ m.num > cLast[id]

(* nNetObjectDescriptor::HandleIncoming: a creation or sync for an id in   *)
(* use updates the object there, a creation for a free id makes one, and a *)
(* sync for a free id is rejected by PreCheck.                             *)
HandleObject(id, m) ==
  IF cObject[id] # NoObject
  THEN IF SyncIsNew(id, m)
       THEN /\ cVal' = [cVal EXCEPT ![id] = m.val]
            /\ cLast' = [cLast EXCEPT ![id] = m.num]
            /\ UNCHANGED cObject
       ELSE UNCHANGED <<cObject, cVal, cLast>>
  ELSE IF m.kind = "create"
       THEN /\ cObject' = [cObject EXCEPT ![id] = m.object]
            /\ cVal' = [cVal EXCEPT ![id] = m.val]
            /\ cLast' = [cLast EXCEPT ![id] = m.num - 1]
       ELSE UNCHANGED <<cObject, cVal, cLast>>

(* The client reads a packet: it will acknowledge every message, and       *)
(* handles the new ones; destroy orders are put on a list.                 *)
Receive(m) ==
  /\ socket
  /\ m \in dataNet
  /\ dataNet' = dataNet \ {m}
  /\ cAcks' = cAcks \cup {m.num}
  /\ cSeen' = cSeen \cup {m.num}
  /\ IF m.num \in cSeen
     THEN UNCHANGED <<cObject, cVal, cLast, cDestroyed>>
     ELSE IF m.kind = "destroy"
     THEN /\ cDestroyed' = cDestroyed \cup {[id |-> i, num |-> m.num] : i \in m.ids}
          /\ UNCHANGED <<cObject, cVal, cLast>>
     ELSE HandleObject(IdOf(m.object), m) /\ UNCHANGED cDestroyed
  /\ UNCHANGED <<objects, knowsAbout, conn, destroyers, window, ackNet>>

(* Faulty sn_DoDestroy: orders for objects not there yet are dropped.      *)
DoDestroyOrDrop ==
  LET gone == {d.id : d \in {e \in cDestroyed : cObject[e.id] # NoObject}}
  IN  /\ cObject' = [i \in Ids |-> IF i \in gone THEN NoObject ELSE cObject[i]]
      /\ cVal' = [i \in Ids |-> IF i \in gone THEN 0 ELSE cVal[i]]
      /\ cLast' = [i \in Ids |-> IF i \in gone THEN 0 ELSE cLast[i]]
      /\ cDestroyed' = {}

(* sn_DoDestroy: an order is carried out when its object is there, and     *)
(* stays on the list (for nDeletedTimeout) otherwise.                      *)
DoDestroy ==
  LET doomed == {d \in cDestroyed : cObject[d.id] # NoObject}
      gone   == {d.id : d \in doomed}
  IN  /\ cObject' = [i \in Ids |-> IF i \in gone THEN NoObject ELSE cObject[i]]
      /\ cVal' = [i \in Ids |-> IF i \in gone THEN 0 ELSE cVal[i]]
      /\ cLast' = [i \in Ids |-> IF i \in gone THEN 0 ELSE cLast[i]]
      /\ cDestroyed' = {d \in cDestroyed : d.id \notin gone}

(* The client has read all packets (nCallbackReceivedComplete), destroys   *)
(* what it was told to, and sends its acks.                                *)
ReceivedComplete ==
  /\ cAcks # {}
  /\ DoDestroy
  /\ ackNet' = ackNet \cup cAcks
  /\ cAcks' = {}
  /\ UNCHANGED <<objects, knowsAbout, conn, destroyers, window, dataNet, cSeen>>

LoseMessage(m) ==
  /\ Lossy
  /\ m \in dataNet
  /\ dataNet' = dataNet \ {m}
  /\ UNCHANGED <<objects, knowsAbout, conn, destroyers, window, ackNet, client>>

LoseAck(num) ==
  /\ Lossy
  /\ num \in ackNet
  /\ ackNet' = ackNet \ {num}
  /\ UNCHANGED <<objects, knowsAbout, conn, destroyers, window, dataNet, client>>

Next ==
  \/ CreateObject
  \/ \E o \in Objects, ack \in BOOLEAN : ChangeObject(o, ack)
  \/ \E o \in Objects : DestroyObject(o)
  \/ SendDestroyer
  \/ \E o \in Objects : SendCreation(o)
  \/ \E o \in Objects : SendSync(o)
  \/ \E m \in pendingAcks : Resend(m)
  \/ \E num \in ackNet : ReceiveAck(num)
  \/ Login
  \/ ReadyObjects
  \/ Logout
  \/ \E m \in dataNet : Receive(m)
  \/ ReceivedComplete
  \/ \E m \in dataNet : LoseMessage(m)
  \/ \E num \in ackNet : LoseAck(num)

Spec == Init /\ [][Next]_vars

(* SyncAll and Resend run every frame, so does the client's receive loop,  *)
(* and a message that is sent over and over gets through at last.          *)
Fairness ==
  /\ \A o \in Objects : WF_vars(SendCreation(o)) /\ WF_vars(SendSync(o))
  /\ WF_vars(SendDestroyer)
  /\ WF_vars(ReceivedComplete)
  /\ \A n \in 1 .. MaxMessages :
       /\ WF_vars(\E m \in pendingAcks : m.num = n /\ Resend(m))
       /\ SF_vars(\E m \in dataNet : m.num = n /\ Receive(m))
       /\ SF_vars(ReceiveAck(n))

FairSpec == Spec /\ Fairness

-----------------------------------------------------------------------------
Knowledge == [exists : BOOLEAN, nextSyncAck : BOOLEAN, syncReq : BOOLEAN,
              acksPending : 0 .. 2]

Messages ==
  [num : Nat, kind : {"create", "sync", "lazy"}, object : Objects, val : Nat,
   ids : {{}}]
  \cup [num : Nat, kind : {"destroy"}, object : {NoObject}, val : {0},
        ids : SUBSET Ids]

ObjectTypes ==
  /\ live \subseteq Objects /\ created \in 0 .. MaxObjects
  /\ val \in [Objects -> Nat]
  /\ knowsAbout \in [Objects -> Knowledge]

WindowTypes ==
  /\ session \in Nat /\ socket \in BOOLEAN /\ ready \in BOOLEAN
  /\ destroyers \subseteq Ids /\ destroyersCount \in Int
  /\ ackPending \in Int /\ lastNum \in Nat
  /\ pendingAcks \subseteq Messages /\ IsFiniteSet(pendingAcks)

NetTypes == dataNet \subseteq Messages /\ ackNet \subseteq Nat

ClientTypes ==
  /\ cObject \in [Ids -> Objects \cup {NoObject}]
  /\ cVal \in [Ids -> Nat] /\ cLast \in [Ids -> Int]
  /\ cDestroyed \subseteq [id : Ids, num : Nat]
  /\ cSeen \subseteq Nat /\ cAcks \subseteq Nat

(* The variables keep their types; an object has at most two acknowledged  *)
(* messages under way (the limit of SyncAll).                              *)
TypeOK == ObjectTypes /\ WindowTypes /\ NetTypes /\ ClientTypes

(* The server's counters say how many messages, and how many destroy       *)
(* messages, are unacknowledged: the window of SyncAll and the gate that   *)
(* holds creations back while a destruction message is unacknowledged.     *)
CountersExact ==
  /\ ackPending = Cardinality(pendingAcks)
  /\ destroyersCount = Cardinality(Destroys(pendingAcks))

(* What keeps the counters exact: new messages have new numbers, and an    *)
(* empty slot has no waits left over.                                      *)
NoOrphans ==
  /\ \A m \in pendingAcks : m.num <= lastNum
  /\ ~ socket => pendingAcks = {}

CountersInv == TypeOK /\ NoOrphans /\ CountersExact

(* What the server believes the client knows, the client has: an object    *)
(* whose creation was acknowledged stays there, whatever destroy messages  *)
(* and messages for former holders of its id are still under way.          *)
KnownObjectsAgree ==
  \A o \in live : knowsAbout[o].exists => cObject[IdOf(o)] = o

(* The state of an object never goes back on the client, and is never that *)
(* of another object that had the id before.                               *)
StateAdvances ==
  [][\A i \in Ids : cObject'[i] = cObject[i] => cVal'[i] >= cVal[i]]_vars

(* The client's copies, each under its object's id.                        *)
Replica ==
  [o \in {p \in Objects : cObject[IdOf(p)] = p} |-> cVal[IdOf(o)]]

(* Whatever is lost, sent again or overtaken: copies are of states their   *)
(* objects had, only get newer, and go only when their objects are         *)
(* destroyed, although messages name objects by ids that are used again.   *)
Store == INSTANCE ReplicatedStore WITH
  dead <- (1 .. created) \ live, state <- val, copies <- Replica

ImplementsStore == Store!Spec

(* Creations are held back only as long as a destruction message is        *)
(* unacknowledged, as the comment at the gate in SyncAll has it.           *)
NoStarvedCreations ==
  socket /\ Destroys(pendingAcks) = {} => destroyersCount = 0

(* Every object reaches a client that is ready for it, unless it is        *)
(* destroyed or the client leaves before.                                  *)
EventuallyCreated ==
  \A o \in Objects :
    o \in live /\ socket /\ ready
      ~> (cObject[IdOf(o)] = o \/ o \notin live \/ ~ socket)

(* No ghosts: an object destroyed on the server disappears from the client *)
(* for good, also when the messages arrive in the wrong order.             *)
EventuallyDestroyed ==
  \A o \in Objects :
    (o <= created /\ o \notin live) ~> [](cObject[IdOf(o)] # o)

(* A state whose sync asked for an ack reaches the client, or a later one  *)
(* does, although other syncs may be lost or overtake it.                  *)
EventuallySynced ==
  \A o \in Objects, v \in 0 .. MaxChanges :
    o \in live /\ socket /\ ready /\ knowsAbout[o].nextSyncAck /\ val[o] = v
      ~> ((cObject[IdOf(o)] = o /\ cVal[IdOf(o)] >= v)
          \/ o \notin live \/ ~ socket)
=============================================================================
