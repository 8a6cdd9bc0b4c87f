---------------------- MODULE ObjectReplication_proofs ----------------------
(***************************************************************************)
(* Proofs about ObjectReplication: type correctness; and, as long as       *)
(* nobody leaves while a destroy message is being collected, that the      *)
(* counters of the window and of the creation gate are exact, that the     *)
(* client has whatever the server believes it has, and that an object's    *)
(* state never goes back there.                                            *)
(*                                                                         *)
(* The last two rest on one invariant, Mirror: what the notes of the       *)
(* server, the messages under way and the objects of the client say about  *)
(* each other.  Its center is Orders: at most one order to destroy the     *)
(* holder of an id is around, collected, sent or kept, never while the     *)
(* client is being told of the id's next holder.                           *)
(***************************************************************************)
EXTENDS ObjectReplication, FiniteSetTheorems, TLAPS

-----------------------------------------------------------------------------
(* Types of the parts.                                                     *)

(* Every object has one of the ids in circulation.                         *)
LEMMA IdOfType ==
  ASSUME NEW o \in Objects
  PROVE  IdOf(o) \in Ids
BY ReplicationAssumption DEF Objects, Ids, IdOf

(* What the server knows of a new client is of the right type.             *)
LEMMA FreshType == Fresh \in Knowledge
BY DEF Fresh, Knowledge

(* Creations and syncs are messages, numbered one up.                      *)
LEMMA ObjectMessageType ==
  ASSUME TypeOK, NEW o \in Objects, NEW k \in {"create", "sync", "lazy"}
  PROVE  /\ ObjectMessage(k, o) \in Messages
         /\ ObjectMessage(k, o).num = lastNum + 1
         /\ ObjectMessage(k, o).kind = k
BY DEF TypeOK, ObjectTypes, WindowTypes, ObjectMessage, Messages

(* And so are destroy messages.                                            *)
LEMMA DestroyMessageType ==
  ASSUME TypeOK
  PROVE  /\ DestroyMessage \in Messages
         /\ DestroyMessage.num = lastNum + 1
         /\ DestroyMessage.kind = "destroy"
BY DEF TypeOK, WindowTypes, DestroyMessage, Messages

(* What SyncAll and the acks do to the knowledge about one object.         *)
LEMMA KnowledgeUpdates ==
  ASSUME NEW k \in Knowledge
  PROVE  /\ [k EXCEPT !.syncReq = FALSE] \in Knowledge
         /\ \A ack \in BOOLEAN :
              [k EXCEPT !.syncReq = TRUE, !.nextSyncAck = @ \/ ack] \in Knowledge
         /\ k.acksPending = 0 =>
              [k EXCEPT !.syncReq = FALSE, !.acksPending = @ + 1] \in Knowledge
         /\ k.acksPending <= 1 =>
              [k EXCEPT !.syncReq = FALSE, !.nextSyncAck = FALSE,
                        !.acksPending = @ + 1] \in Knowledge
         /\ [k EXCEPT !.exists = TRUE,
                       !.acksPending = IF @ > 0 THEN @ - 1 ELSE 0] \in Knowledge
<1>1. k.acksPending \in 0 .. 2
  BY DEF Knowledge
<1>2. /\ k.acksPending <= 1 => k.acksPending + 1 \in 0 .. 2
      /\ k.acksPending = 0 => k.acksPending + 1 \in 0 .. 2
      /\ (IF k.acksPending > 0 THEN k.acksPending - 1 ELSE 0) \in 0 .. 2
  BY <1>1
<1> DEFINE up == k.acksPending + 1
           down == IF k.acksPending > 0 THEN k.acksPending - 1 ELSE 0
<1>3. /\ k.acksPending <= 1 => up \in 0 .. 2
      /\ k.acksPending = 0 => up \in 0 .. 2
      /\ down \in 0 .. 2
  BY <1>2
<1>4. [k EXCEPT !.syncReq = FALSE] \in Knowledge
  BY DEF Knowledge
<1>5. ASSUME NEW ack \in BOOLEAN
      PROVE  [k EXCEPT !.syncReq = TRUE, !.nextSyncAck = @ \/ ack] \in Knowledge
  BY DEF Knowledge
<1>6. k.acksPending = 0 =>
        [k EXCEPT !.syncReq = FALSE, !.acksPending = @ + 1] \in Knowledge
  <2> HIDE DEF up
  <2>1. k.acksPending = 0 =>
          [k EXCEPT !.syncReq = FALSE, !.acksPending = up] \in Knowledge
    BY <1>3 DEF Knowledge
  <2> QED
    BY <2>1 DEF up
<1>7. k.acksPending <= 1 =>
        [k EXCEPT !.syncReq = FALSE, !.nextSyncAck = FALSE,
                  !.acksPending = @ + 1] \in Knowledge
  <2> HIDE DEF up
  <2>1. k.acksPending <= 1 =>
          [k EXCEPT !.syncReq = FALSE, !.nextSyncAck = FALSE,
                    !.acksPending = up] \in Knowledge
    BY <1>3 DEF Knowledge
  <2> QED
    BY <2>1 DEF up
<1>8. [k EXCEPT !.exists = TRUE,
                !.acksPending = IF @ > 0 THEN @ - 1 ELSE 0] \in Knowledge
  <2> HIDE DEF down
  <2>1. [k EXCEPT !.exists = TRUE, !.acksPending = down] \in Knowledge
    BY <1>3 DEF Knowledge
  <2> QED
    BY <2>1 DEF down
<1> QED
  BY <1>4, <1>5, <1>6, <1>7, <1>8

(* One more message is sent and awaited.                                   *)
LEMMA SendAndWaitTypes ==
  ASSUME TypeOK, NEW m \in Messages, m.num = lastNum + 1, SendAndWait(m)
  PROVE  /\ lastNum' = lastNum + 1 /\ lastNum' \in Nat
         /\ ackPending' = ackPending + 1 /\ ackPending' \in Int
         /\ pendingAcks' = pendingAcks \cup {m}
         /\ pendingAcks' \subseteq Messages /\ IsFiniteSet(pendingAcks')
         /\ dataNet' \subseteq Messages
<1>1. IsFiniteSet(pendingAcks \cup {m})
  BY FS_AddElement DEF TypeOK, WindowTypes
<1> QED
  BY <1>1 DEF TypeOK, WindowTypes, NetTypes, SendAndWait

(* One message is awaited no longer.                                       *)
LEMMA StopWaitingTypes ==
  ASSUME TypeOK, NEW m \in pendingAcks, StopWaiting({m})
  PROVE  /\ pendingAcks' = pendingAcks \ {m}
         /\ pendingAcks' \subseteq Messages /\ IsFiniteSet(pendingAcks')
         /\ ackPending' = ackPending - 1 /\ ackPending' \in Int
         /\ destroyersCount' = destroyersCount - (IF m.kind = "destroy" THEN 1 ELSE 0)
         /\ destroyersCount' \in Int
<1>1. /\ IsFiniteSet(pendingAcks \ {m})
      /\ Cardinality({m}) = 1 /\ Cardinality({}) = 0
  BY FS_Subset, FS_Singleton, FS_EmptySet DEF TypeOK, WindowTypes
<1>2. Destroys({m}) = IF m.kind = "destroy" THEN {m} ELSE {}
  BY DEF Destroys
<1>3. Cardinality(Destroys({m})) = IF m.kind = "destroy" THEN 1 ELSE 0
  BY <1>1, <1>2
<1> QED
  BY <1>1, <1>3 DEF TypeOK, WindowTypes, StopWaiting

-----------------------------------------------------------------------------
(* Type correctness.                                                       *)

(* The types hold in the beginning.                                        *)
LEMMA TypeInit == Init => TypeOK
<1> SUFFICES ASSUME Init PROVE TypeOK
  OBVIOUS
<1>1. IsFiniteSet(pendingAcks)
  BY FS_EmptySet DEF Init
<1>2. ObjectTypes
  BY FreshType, ReplicationAssumption DEF Init, ObjectTypes
<1>b. socket \in BOOLEAN /\ ready \in BOOLEAN
  BY Zenon DEF Init
<1>a. /\ session \in Nat
      /\ destroyers \subseteq Ids /\ destroyersCount \in Int
      /\ ackPending \in Int /\ lastNum \in Nat /\ pendingAcks \subseteq Messages
      /\ dataNet \subseteq Messages /\ ackNet \subseteq Nat
  BY DEF Init
<1>3. WindowTypes /\ NetTypes
  BY <1>1, <1>a, <1>b DEF WindowTypes, NetTypes
<1>4. ClientTypes
  BY DEF Init, ClientTypes, NoObject
<1> QED
  BY <1>2, <1>3, <1>4 DEF TypeOK

(* What the client makes of a creation or sync keeps its types.            *)
LEMMA HandleObjectTypes ==
  ASSUME TypeOK, NEW m \in Messages, NEW id \in Ids,
         m.kind # "destroy", HandleObject(id, m)
  PROVE  /\ cObject' \in [Ids -> Objects \cup {NoObject}]
         /\ cVal' \in [Ids -> Nat] /\ cLast' \in [Ids -> Int]
<1>1. m.val \in Nat /\ m.num \in Nat /\ m.object \in Objects
  BY DEF Messages
<1>2. CASE cObject[id] # NoObject
  BY <1>1, <1>2 DEF TypeOK, ClientTypes, HandleObject
<1>3. CASE cObject[id] = NoObject
  BY <1>1, <1>3 DEF TypeOK, ClientTypes, HandleObject
<1> QED
  BY <1>2, <1>3

(* Every step keeps the variables in their types, one action at a time.    *)
LEMMA TypeStep == TypeOK /\ [Next]_vars => TypeOK'
<1> SUFFICES ASSUME TypeOK, [Next]_vars
             PROVE  TypeOK'
  OBVIOUS
<1> USE DEF TypeOK, objects, conn, window, client
<1>1. CASE CreateObject
  BY <1>1, FreshType DEF CreateObject, ObjectTypes, WindowTypes, NetTypes,
     ClientTypes, Objects
<1>2. ASSUME NEW o \in Objects, NEW ack \in BOOLEAN, ChangeObject(o, ack)
      PROVE  TypeOK'
  <2>1. knowsAbout[o] \in Knowledge
    BY DEF ObjectTypes
  <2>2. [knowsAbout[o] EXCEPT !.syncReq = TRUE,
                              !.nextSyncAck = @ \/ ack] \in Knowledge
    BY <2>1, KnowledgeUpdates
  <2>3. knowsAbout' \in [Objects -> Knowledge]
    BY <1>2, <2>2 DEF ChangeObject, ObjectTypes
  <2> QED
    BY <1>2, <2>3 DEF ChangeObject, ObjectTypes, WindowTypes, NetTypes,
       ClientTypes
<1>3. ASSUME NEW o \in Objects, DestroyObject(o)
      PROVE  TypeOK'
  BY <1>3, IdOfType, FreshType DEF DestroyObject, ObjectTypes, WindowTypes,
     NetTypes, ClientTypes
<1>4. CASE SendDestroyer
  BY <1>4, DestroyMessageType, SendAndWaitTypes DEF SendDestroyer,
     ObjectTypes, WindowTypes, NetTypes, ClientTypes
<1>5. ASSUME NEW o \in Objects, SendCreation(o)
      PROVE  TypeOK'
  <2>a. /\ knowsAbout[o] \in Knowledge
        /\ [knowsAbout[o] EXCEPT !.syncReq = FALSE,
                                 !.acksPending = @ + 1] \in Knowledge
    BY <1>5, KnowledgeUpdates DEF SendCreation, MayCreate, ObjectTypes
  <2>1. ObjectTypes'
    BY <1>5, <2>a DEF SendCreation, ObjectTypes
  <2> QED
    BY <1>5, <2>1, ObjectMessageType, SendAndWaitTypes DEF SendCreation,
       WindowTypes, NetTypes, ClientTypes
<1>6. ASSUME NEW o \in Objects, SendSync(o)
      PROVE  TypeOK'
  <2>1. knowsAbout[o] \in Knowledge /\ knowsAbout[o].acksPending <= 1
    BY <1>6 DEF SendSync, MaySync, ObjectTypes
  <2>a. /\ [knowsAbout[o] EXCEPT !.syncReq = FALSE, !.nextSyncAck = FALSE,
                                 !.acksPending = @ + 1] \in Knowledge
        /\ [knowsAbout[o] EXCEPT !.syncReq = FALSE] \in Knowledge
    BY <2>1, KnowledgeUpdates
  <2>b. ObjectTypes'
    BY <1>6, <2>a DEF SendSync, ObjectTypes
  <2>2. PICK k \in {"sync", "lazy"} : SendAndWait(ObjectMessage(k, o))
    BY <1>6 DEF SendSync
  <2> QED
    BY <1>6, <2>b, <2>2, ObjectMessageType, SendAndWaitTypes DEF SendSync,
       WindowTypes, NetTypes, ClientTypes
<1>7. ASSUME NEW m \in pendingAcks, Resend(m)
      PROVE  TypeOK'
  <2>1. CASE socket /\ m.kind # "lazy"
    BY <1>7, <2>1 DEF Resend, SendAgain, ObjectTypes, WindowTypes, NetTypes,
       ClientTypes
  <2>2. CASE ~ (socket /\ m.kind # "lazy")
    BY <1>7, <2>2, StopWaitingTypes DEF Resend, SendAgain, GiveUp,
       ObjectTypes, WindowTypes, NetTypes, ClientTypes
  <2> QED
    BY <2>1, <2>2
<1>8. ASSUME NEW num \in ackNet, ReceiveAck(num)
      PROVE  TypeOK'
  <2>1. CASE \E m \in pendingAcks : m.num = num
    <3>1. PICK m \in pendingAcks : knowsAbout' = Learn(m) /\ StopWaiting({m})
      BY <1>8, <2>1 DEF ReceiveAck
    <3>2. Learn(m) \in [Objects -> Knowledge]
      <4>1. ASSUME NEW o \in Objects
            PROVE  [knowsAbout[o] EXCEPT
                     !.exists = TRUE,
                     !.acksPending = IF @ > 0 THEN @ - 1 ELSE 0] \in Knowledge
        BY KnowledgeUpdates DEF ObjectTypes
      <4> QED
        BY <4>1 DEF Learn, ObjectTypes
    <3> QED
      BY <1>8, <3>1, <3>2, StopWaitingTypes DEF ReceiveAck, ObjectTypes,
         WindowTypes, NetTypes, ClientTypes
  <2>2. CASE ~ \E m \in pendingAcks : m.num = num
    BY <1>8, <2>2 DEF ReceiveAck, ObjectTypes, WindowTypes, NetTypes,
       ClientTypes
  <2> QED
    BY <2>1, <2>2
<1>9. CASE Login
  <2>1. knowsAbout' \in [Objects -> Knowledge] /\ ready' \in BOOLEAN
    BY <1>9, FreshType DEF Login, ClearKnows
  <2>2. /\ session' \in Nat /\ socket' \in BOOLEAN /\ destroyersCount' = 0
        /\ UNCHANGED <<objects, destroyers, ackPending, pendingAcks, lastNum,
                       dataNet, ackNet, client>>
    BY <1>9 DEF Login, WindowTypes
  <2> QED
    BY <2>1, <2>2 DEF ObjectTypes, WindowTypes, NetTypes, ClientTypes
<1>10. CASE ReadyObjects
  BY <1>10 DEF ReadyObjects, ObjectTypes, WindowTypes, NetTypes, ClientTypes
<1>11. CASE Logout
  <2>1. /\ pendingAcks' \subseteq Messages /\ IsFiniteSet(pendingAcks')
        /\ lastNum' \in Nat
    <3>1. /\ IsFiniteSet({}) /\ IsFiniteSet({DestroyMessage})
          /\ DestroyMessage \in Messages
      BY DestroyMessageType, FS_EmptySet, FS_Singleton
    <3>2. \/ pendingAcks' = {} /\ lastNum' = lastNum
          \/ pendingAcks' = {DestroyMessage} /\ lastNum' = lastNum + 1
      BY <1>11 DEF Logout
    <3>3. CASE pendingAcks' = {} /\ lastNum' = lastNum
      BY <3>1, <3>3 DEF WindowTypes
    <3>4. CASE pendingAcks' = {DestroyMessage} /\ lastNum' = lastNum + 1
      <4>1. lastNum' \in Nat
        BY <3>4 DEF WindowTypes
      <4>2. pendingAcks' \subseteq Messages /\ IsFiniteSet(pendingAcks')
        BY <3>1, <3>4
      <4> QED
        BY <4>1, <4>2
    <3> QED
      BY <3>2, <3>3, <3>4
  <2>2. knowsAbout' \in [Objects -> Knowledge] /\ ready' \in BOOLEAN
    BY <1>11, FreshType DEF Logout, ClearKnows
  <2>3. /\ socket' = FALSE /\ destroyers' = {}
        /\ destroyersCount' = 0 /\ ackPending' = 0
        /\ UNCHANGED <<objects, session>>
    BY <1>11 DEF Logout
  <2>4. NetTypes' /\ ClientTypes'
    BY <1>11 DEF Logout, NewClient, NetTypes, ClientTypes, NoObject
  <2>5. ObjectTypes'
    BY <2>2, <2>3 DEF ObjectTypes
  <2>6. WindowTypes'
    <3>1. /\ destroyers' \subseteq Ids
          /\ destroyersCount' \in Int /\ ackPending' \in Int
          /\ session' \in Nat
      BY <2>3 DEF WindowTypes
    <3>2. socket' \in BOOLEAN
      BY <2>3, Zenon
    <3> QED
      BY <2>1, <2>2, <3>1, <3>2 DEF WindowTypes
  <2> QED
    BY <2>4, <2>5, <2>6
<1>12. ASSUME NEW m \in dataNet, Receive(m)
       PROVE  TypeOK'
  <2>1. m \in Messages /\ m.num \in Nat /\ m.ids \subseteq Ids
    BY DEF NetTypes, Messages
  <2>2. CASE m.num \in cSeen
    BY <1>12, <2>1, <2>2 DEF Receive, ObjectTypes, WindowTypes, NetTypes,
       ClientTypes
  <2>3. CASE m.num \notin cSeen /\ m.kind = "destroy"
    <3>1. cDestroyed' \subseteq [id : Ids, num : Nat]
      BY <1>12, <2>1, <2>3 DEF Receive, ClientTypes
    <3> QED
      BY <1>12, <2>1, <2>3, <3>1 DEF Receive, ObjectTypes, WindowTypes,
         NetTypes, ClientTypes
  <2>4. CASE m.num \notin cSeen /\ m.kind # "destroy"
    <3>1. HandleObject(IdOf(m.object), m) /\ cDestroyed' = cDestroyed
      BY <1>12, <2>4 DEF Receive
    <3>2. IdOf(m.object) \in Ids
      BY <2>1, <2>4, IdOfType DEF Messages
    <3>3. /\ cObject' \in [Ids -> Objects \cup {NoObject}]
          /\ cVal' \in [Ids -> Nat] /\ cLast' \in [Ids -> Int]
      BY <2>1, <2>4, <3>1, <3>2, HandleObjectTypes
    <3>4. /\ dataNet' \subseteq Messages /\ cAcks' \subseteq Nat
          /\ cSeen' \subseteq Nat
          /\ UNCHANGED <<objects, knowsAbout, conn, destroyers, window, ackNet>>
      BY <1>12, <2>1 DEF Receive, NetTypes, ClientTypes
    <3> QED
      BY <3>1, <3>3, <3>4 DEF ObjectTypes, WindowTypes, NetTypes, ClientTypes
  <2> QED
    BY <2>2, <2>3, <2>4
<1>13. CASE ReceivedComplete
  BY <1>13 DEF ReceivedComplete, DoDestroy, ObjectTypes, WindowTypes,
     NetTypes, ClientTypes
<1>14. ASSUME NEW m \in dataNet, LoseMessage(m)
       PROVE  TypeOK'
  BY <1>14 DEF LoseMessage, ObjectTypes, WindowTypes, NetTypes, ClientTypes
<1>15. ASSUME NEW num \in ackNet, LoseAck(num)
       PROVE  TypeOK'
  BY <1>15 DEF LoseAck, ObjectTypes, WindowTypes, NetTypes, ClientTypes
<1>16. CASE UNCHANGED vars
  BY <1>16 DEF vars, ObjectTypes, WindowTypes, NetTypes, ClientTypes
<1> QED
  BY <1>1, <1>2, <1>3, <1>4, <1>5, <1>6, <1>7, <1>8, <1>9, <1>10, <1>11,
     <1>12, <1>13, <1>14, <1>15, <1>16 DEF Next

(* The variables of the replication keep their types, and no object ever   *)
(* has more than two acknowledged messages under way (SyncAll).            *)
THEOREM TypeCorrect == Spec => []TypeOK
<1>1. Init => TypeOK
  BY TypeInit
<1>2. TypeOK /\ [Next]_vars => TypeOK'
  BY TypeStep
<1> QED
  BY <1>1, <1>2, PTL DEF Spec

-----------------------------------------------------------------------------
(* The counters.                                                           *)

(* A message with a new number counts once, in both counters if it is a    *)
(* destroy message.                                                        *)
LEMMA CountOneMore ==
  ASSUME TypeOK, NoOrphans, NEW m \in Messages, m.num = lastNum + 1
  PROVE  /\ Cardinality(pendingAcks \cup {m}) = Cardinality(pendingAcks) + 1
         /\ Cardinality(Destroys(pendingAcks \cup {m})) =
              Cardinality(Destroys(pendingAcks))
              + (IF m.kind = "destroy" THEN 1 ELSE 0)
<1>1. m \notin pendingAcks
  BY DEF TypeOK, WindowTypes, NoOrphans
<1>2. IsFiniteSet(pendingAcks) /\ IsFiniteSet(Destroys(pendingAcks))
  <2>1. Destroys(pendingAcks) \in SUBSET pendingAcks
    BY DEF Destroys
  <2> QED
    BY <2>1, FS_Subset DEF TypeOK, WindowTypes
<1>3. Cardinality(pendingAcks \cup {m}) = Cardinality(pendingAcks) + 1
  BY <1>1, <1>2, FS_AddElement
<1>4. Cardinality(Destroys(pendingAcks)) \in Nat
  BY <1>2, FS_CardinalityType
<1>5. CASE m.kind = "destroy"
  <2>1. /\ Destroys(pendingAcks \cup {m}) = Destroys(pendingAcks) \cup {m}
        /\ m \notin Destroys(pendingAcks)
    BY <1>1, <1>5 DEF Destroys
  <2>2. Cardinality(Destroys(pendingAcks) \cup {m}) =
          Cardinality(Destroys(pendingAcks)) + 1
    BY <1>2, <2>1, FS_AddElement
  <2> QED
    BY <1>3, <1>5, <2>1, <2>2
<1>6. CASE m.kind # "destroy"
  <2>1. Destroys(pendingAcks \cup {m}) = Destroys(pendingAcks)
    BY <1>6 DEF Destroys
  <2> QED
    BY <1>3, <1>4, <1>6, <2>1
<1> QED
  BY <1>5, <1>6

(* The other way round when a wait ends.                                   *)
LEMMA CountOneLess ==
  ASSUME TypeOK, NEW m \in pendingAcks
  PROVE  /\ Cardinality(pendingAcks \ {m}) = Cardinality(pendingAcks) - 1
         /\ Cardinality(Destroys(pendingAcks \ {m})) =
              Cardinality(Destroys(pendingAcks))
              - (IF m.kind = "destroy" THEN 1 ELSE 0)
<1>1. IsFiniteSet(pendingAcks) /\ IsFiniteSet(Destroys(pendingAcks))
  <2>1. Destroys(pendingAcks) \in SUBSET pendingAcks
    BY DEF Destroys
  <2> QED
    BY <2>1, FS_Subset DEF TypeOK, WindowTypes
<1>2. Cardinality(pendingAcks \ {m}) = Cardinality(pendingAcks) - 1
  BY <1>1, FS_RemoveElement
<1>3. Cardinality(Destroys(pendingAcks)) \in Nat
  BY <1>1, FS_CardinalityType
<1>4. CASE m.kind = "destroy"
  <2>1. /\ Destroys(pendingAcks \ {m}) = Destroys(pendingAcks) \ {m}
        /\ m \in Destroys(pendingAcks)
    BY <1>4 DEF Destroys
  <2>2. Cardinality(Destroys(pendingAcks) \ {m}) =
          Cardinality(Destroys(pendingAcks)) - 1
    BY <1>1, <2>1, FS_RemoveElement
  <2> QED
    BY <1>2, <1>4, <2>1, <2>2
<1>5. CASE m.kind # "destroy"
  <2>1. Destroys(pendingAcks \ {m}) = Destroys(pendingAcks)
    BY <1>5 DEF Destroys
  <2> QED
    BY <1>2, <1>3, <1>5, <2>1
<1> QED
  BY <1>4, <1>5

(* Sending keeps the counters exact if destroyersCount follows.            *)
LEMMA SendKeepsCounters ==
  ASSUME CountersInv, NEW m \in Messages, m.num = lastNum + 1, SendAndWait(m),
         socket' = socket, socket,
         destroyersCount' =
           destroyersCount + (IF m.kind = "destroy" THEN 1 ELSE 0)
  PROVE  NoOrphans' /\ CountersExact'
<1>1. TypeOK /\ NoOrphans /\ CountersExact
  BY DEF CountersInv
<1>2. /\ pendingAcks' = pendingAcks \cup {m} /\ lastNum' = lastNum + 1
      /\ ackPending' = ackPending + 1
  BY <1>1, SendAndWaitTypes
<1>3. NoOrphans'
  BY <1>1, <1>2 DEF NoOrphans, TypeOK, WindowTypes, Messages
<1>4. CountersExact'
  BY <1>1, <1>2, CountOneMore DEF CountersExact
<1> QED
  BY <1>3, <1>4

(* Ending a wait keeps the counters exact.                                 *)
LEMMA StopKeepsCounters ==
  ASSUME CountersInv, NEW m \in pendingAcks, StopWaiting({m}),
         lastNum' = lastNum, socket' = socket
  PROVE  NoOrphans' /\ CountersExact'
<1>1. TypeOK /\ NoOrphans /\ CountersExact
  BY DEF CountersInv
<1>2. /\ pendingAcks' = pendingAcks \ {m}
      /\ ackPending' = ackPending - 1
      /\ destroyersCount' =
           destroyersCount - (IF m.kind = "destroy" THEN 1 ELSE 0)
  BY <1>1, StopWaitingTypes
<1>3. NoOrphans'
  BY <1>1, <1>2 DEF NoOrphans
<1>4. CountersExact'
  BY <1>1, <1>2, CountOneLess DEF CountersExact
<1> QED
  BY <1>3, <1>4

(* The counters are exact in the beginning: nothing is awaited.            *)
LEMMA CountersInit == Init => CountersInv
<1>1. Cardinality({}) = 0
  BY FS_EmptySet
<1>2. Init => Destroys(pendingAcks) = {} /\ pendingAcks = {}
  BY DEF Init, Destroys
<1> QED
  BY <1>1, <1>2, TypeInit DEF Init, CountersInv, NoOrphans, CountersExact

(* Only sending, ending a wait, login and logout touch the counters.       *)
LEMMA CountersStep ==
  ASSUME QuietLogout
  PROVE  CountersInv /\ [Next]_vars => CountersInv'
<1> SUFFICES ASSUME CountersInv, [Next]_vars
             PROVE  NoOrphans' /\ CountersExact'
  BY TypeStep DEF CountersInv
<1>0. TypeOK /\ NoOrphans /\ CountersExact
  BY DEF CountersInv
<1>a. ASSUME UNCHANGED <<window, conn>>
      PROVE  NoOrphans' /\ CountersExact'
  BY <1>0, <1>a DEF window, conn, NoOrphans, CountersExact
<1>1. CASE CreateObject
  BY <1>1, <1>a DEF CreateObject
<1>2. ASSUME NEW o \in Objects, NEW ack \in BOOLEAN, ChangeObject(o, ack)
      PROVE  NoOrphans' /\ CountersExact'
  BY <1>2, <1>a DEF ChangeObject
<1>3. ASSUME NEW o \in Objects, DestroyObject(o)
      PROVE  NoOrphans' /\ CountersExact'
  BY <1>3, <1>a DEF DestroyObject
<1>4. CASE SendDestroyer
  BY <1>0, <1>4, DestroyMessageType, SendKeepsCounters
  DEF SendDestroyer, conn
<1>5. ASSUME NEW o \in Objects, SendCreation(o)
      PROVE  NoOrphans' /\ CountersExact'
  <2>1. destroyersCount \in Int
    BY <1>0 DEF TypeOK, WindowTypes
  <2> QED
    BY <1>0, <1>5, <2>1, ObjectMessageType, SendKeepsCounters
    DEF SendCreation, CanSync, conn
<1>6. ASSUME NEW o \in Objects, SendSync(o)
      PROVE  NoOrphans' /\ CountersExact'
  <2>1. destroyersCount \in Int
    BY <1>0 DEF TypeOK, WindowTypes
  <2>2. PICK k \in {"sync", "lazy"} : SendAndWait(ObjectMessage(k, o))
    BY <1>6 DEF SendSync
  <2> QED
    BY <1>0, <1>6, <2>1, <2>2, ObjectMessageType, SendKeepsCounters
    DEF SendSync, CanSync, conn
<1>7. ASSUME NEW m \in pendingAcks, Resend(m)
      PROVE  NoOrphans' /\ CountersExact'
  <2>1. CASE socket /\ m.kind # "lazy"
    BY <1>7, <2>1, <1>a DEF Resend, SendAgain
  <2>2. CASE ~ (socket /\ m.kind # "lazy")
    BY <1>7, <2>2, StopKeepsCounters DEF Resend, SendAgain, GiveUp, conn
  <2> QED
    BY <2>1, <2>2
<1>8. ASSUME NEW num \in ackNet, ReceiveAck(num)
      PROVE  NoOrphans' /\ CountersExact'
  <2>1. CASE \E m \in pendingAcks : m.num = num
    <3>1. PICK m \in pendingAcks : StopWaiting({m})
      BY <1>8, <2>1 DEF ReceiveAck
    <3> QED
      BY <1>8, <3>1, StopKeepsCounters DEF ReceiveAck, conn
  <2>2. CASE ~ \E m \in pendingAcks : m.num = num
    BY <1>8, <2>2, <1>a DEF ReceiveAck, window
  <2> QED
    BY <2>1, <2>2
<1>9. CASE Login
  <2>1. /\ pendingAcks = {} /\ pendingAcks' = {}
        /\ ackPending' = ackPending /\ destroyersCount' = 0
    BY <1>0, <1>9 DEF Login, NoOrphans
  <2>2. Destroys({}) = {} /\ Cardinality({}) = 0
    BY FS_EmptySet DEF Destroys
  <2> QED
    BY <1>0, <2>1, <2>2 DEF NoOrphans, CountersExact
<1>10. CASE ReadyObjects
  BY <1>0, <1>10 DEF ReadyObjects, window, NoOrphans, CountersExact
<1>11. CASE Logout
  <2>1. /\ pendingAcks' = {} /\ ackPending' = 0 /\ destroyersCount' = 0
    BY <1>11 DEF Logout
  <2>2. Destroys({}) = {} /\ Cardinality({}) = 0
    BY FS_EmptySet DEF Destroys
  <2> QED
    BY <2>1, <2>2 DEF NoOrphans, CountersExact
<1>12. ASSUME NEW m \in dataNet, Receive(m)
       PROVE  NoOrphans' /\ CountersExact'
  BY <1>12, <1>a DEF Receive
<1>13. CASE ReceivedComplete
  BY <1>13, <1>a DEF ReceivedComplete
<1>14. ASSUME NEW m \in dataNet, LoseMessage(m)
       PROVE  NoOrphans' /\ CountersExact'
  BY <1>14, <1>a DEF LoseMessage
<1>15. ASSUME NEW num \in ackNet, LoseAck(num)
       PROVE  NoOrphans' /\ CountersExact'
  BY <1>15, <1>a DEF LoseAck
<1>16. CASE UNCHANGED vars
  BY <1>16, <1>a DEF vars
<1> QED
  BY <1>1, <1>2, <1>3, <1>4, <1>5, <1>6, <1>7, <1>8, <1>9, <1>10, <1>11,
     <1>12, <1>13, <1>14, <1>15, <1>16 DEF Next

(* The counters behind the window and the creation gate of SyncAll count   *)
(* exactly the unacknowledged messages and destroy messages, provided that *)
(* nobody leaves while a destroy message is being collected for it.        *)
THEOREM CountersCorrect ==
  ASSUME QuietLogout
  PROVE  Spec => []CountersExact
<1>1. Init => CountersInv
  BY CountersInit
<1>2. CountersInv /\ [Next]_vars => CountersInv'
  BY CountersStep
<1>3. CountersInv => CountersExact
  BY DEF CountersInv
<1> QED
  BY <1>1, <1>2, <1>3, PTL DEF Spec

-----------------------------------------------------------------------------
(* What the client has is what the server believes it has.                 *)

(* The messages around, on their way or still to be sent again, and those  *)
(* of them that name an object.                                            *)
Sent  == dataNet \cup pendingAcks
Named == {m \in Sent : m.kind # "destroy"}

(* The server has begun to tell the occupant of the slot about an object.  *)
Begun(o) == knowsAbout[o].exists = TRUE \/ knowsAbout[o].acksPending > 0

(* A message the client will have to handle and has not yet.               *)
Due(m) == m \in pendingAcks /\ m.num \notin cSeen

DueCreation(m, i) == Due(m) /\ m.kind = "create" /\ IdOf(m.object) = i

DueOrder(m, i) == Due(m) /\ m.kind = "destroy" /\ i \in m.ids

(* An order to destroy the object under an id: collected, under way, or on *)
(* the client's list.                                                      *)
OrderSent(i) == \E m \in pendingAcks : DueOrder(m, i)
OrderKept(i) == \E d \in cDestroyed : d.id = i
Order(i)     == i \in destroyers \/ OrderSent(i) \/ OrderKept(i)

CreationDue(i) == \E m \in pendingAcks : DueCreation(m, i)

(* What the client will have destroyed or created by its next acks.        *)
Unfinished(m, i) ==
  /\ m \in pendingAcks /\ m.num \notin ackNet
  /\ \/ m.kind = "create" /\ IdOf(m.object) = i
     \/ m.kind = "destroy" /\ i \in m.ids

(* Messages are told apart by their numbers, acks are of messages handled, *)
(* and what is still to be handled is awaited, lazy syncs excepted.        *)
Numbered ==
  /\ \A m \in Sent : 0 < m.num /\ m.num <= lastNum
  /\ \A m, n \in Sent : m.num = n.num => m = n
  /\ \A n \in cSeen : n <= lastNum
  /\ ackNet \cup cAcks \subseteq cSeen
  /\ \A m \in dataNet : m.num \notin cSeen /\ m.kind # "lazy" =>
                          m \in pendingAcks

(* An empty slot has nothing of its last occupant.                         *)
Silent ==
  ~ socket =>
    /\ dataNet = {} /\ ackNet = {}
    /\ destroyers = {} /\ cDestroyed = {} /\ cSeen = {} /\ cAcks = {}
    /\ \A i \in Ids : cObject[i] = NoObject
    /\ \A o \in Objects : ~ Begun(o)

(* Whatever exists, or is followed by AckExtraAction, is the last object   *)
(* that got its id.                                                        *)
Latest ==
  /\ \A o \in live : o <= created
  /\ \A m \in Named : m.object <= created
  /\ \A i \in Ids : cObject[i] # NoObject =>
                      cObject[i] <= created /\ IdOf(cObject[i]) = i
  /\ \A p \in Objects : p <= created =>
       /\ \A o \in live : IdOf(p) = IdOf(o) => p <= o
       /\ \A m \in pendingAcks : m.kind \in {"create", "sync"} =>
            (IdOf(p) = IdOf(m.object) => p <= m.object)

(* The server's notes about an object cover what it has sent about it.     *)
Beliefs ==
  /\ \A m \in Named : m.object \in live =>
       /\ Begun(m.object)
       /\ m.kind # "create" => knowsAbout[m.object].exists = TRUE
  /\ \A o \in live : Begun(o) /\ knowsAbout[o].exists # TRUE =>
       \E m \in pendingAcks : m.kind = "create" /\ m.object = o
  /\ \A m, n \in Named : m.kind = "create" /\ n.kind = "create"
                         /\ m.object = n.object => m = n

(* At most one order per id is around, it has an object to destroy or one  *)
(* that is still to come, and it is never for an object that exists.       *)
Orders ==
  /\ \A o \in live : Order(IdOf(o)) => ~ Begun(o)
  /\ \A i \in Ids :
       /\ i \in destroyers => ~ OrderSent(i) /\ ~ OrderKept(i)
       /\ ~ (OrderSent(i) /\ OrderKept(i))
       /\ \A m, n \in pendingAcks : DueOrder(m, i) /\ DueOrder(n, i) => m = n
       /\ Order(i) => cObject[i] # NoObject \/ CreationDue(i)
       /\ OrderKept(i) /\ cObject[i] # NoObject =>
            \E m \in pendingAcks : Unfinished(m, i)

(* A creation finds its id unused on the client, and what it makes stays   *)
(* until it is ordered to go.                                              *)
Copies ==
  /\ \A i \in Ids, m \in pendingAcks : DueCreation(m, i) => cObject[i] = NoObject
  /\ \A m \in Named : m.kind = "create" /\ m.object \in live /\ m.num \in cSeen =>
       cObject[IdOf(m.object)] = m.object
  /\ \A i \in Ids : cObject[i] # NoObject \/ CreationDue(i) =>
       Order(i) \/ \E o \in live : IdOf(o) = i /\ Begun(o)

(* Messages come in the order of the objects and of their states.          *)
Ages ==
  /\ \A m \in Named : m.val <= val[m.object]
  /\ \A m, n \in Named :
       /\ m.object = n.object /\ m.num < n.num => m.val <= n.val
       /\ IdOf(m.object) = IdOf(n.object) /\ m.object < n.object =>
            m.num < n.num
  /\ \A m \in Named : LET i == IdOf(m.object) IN
       cObject[i] # NoObject =>
         /\ m.object <= cObject[i]
         /\ m.object < cObject[i] => m.num <= cLast[i]
         /\ m.object = cObject[i] /\ m.num > cLast[i] => m.val >= cVal[i]
  /\ \A i \in Ids : IF cObject[i] = NoObject THEN cVal[i] = 0
                     ELSE cVal[i] <= val[cObject[i]]

Mirror == Numbered /\ Silent /\ Latest /\ Beliefs /\ Orders /\ Copies
          /\ KnownObjectsAgree /\ Ages

LEMMA MessageParts ==
  ASSUME NEW m \in Messages
  PROVE  /\ m.num \in Nat
         /\ m.kind \in {"create", "sync", "lazy", "destroy"}
         /\ m.kind # "destroy" => /\ m.object \in Objects /\ m.val \in Nat
                                  /\ IdOf(m.object) \in Ids
         /\ m.kind = "destroy" => m.ids \subseteq Ids
BY IdOfType DEF Messages

LEMMA SentParts ==
  ASSUME TypeOK
  PROVE  /\ Sent \subseteq Messages
         /\ \A m \in Named : m \in Sent /\ m \in Messages
                             /\ m.object \in Objects /\ m.val \in Nat
                             /\ IdOf(m.object) \in Ids /\ m.num \in Nat
<1>1. Sent \subseteq Messages
  BY DEF TypeOK, NetTypes, WindowTypes, Sent
<1> QED
  BY <1>1, MessageParts DEF Named

(* Two objects that both are the last with their id are the same.          *)
LEMMA SameId ==
  ASSUME TypeOK, Latest,
         NEW o \in live, NEW p \in Objects, IdOf(o) = IdOf(p), p <= created,
         p \in live
           \/ \E m \in pendingAcks : /\ m.kind \in {"create", "sync"}
                                     /\ m.object = p
  PROVE  o = p
<1>1. o \in Objects /\ o \in Int /\ p \in Int /\ o <= created
  BY DEF TypeOK, ObjectTypes, Latest, Objects
<1>2. p <= o
  BY DEF Latest
<1>3. o <= p
  BY <1>1 DEF Latest
<1> QED
  BY <1>1, <1>2, <1>3

-----------------------------------------------------------------------------
(* Steps that leave alone what both sides have.                            *)

(* Messages are sent again or vanish, but for lazy syncs no wait ends.     *)
NetworkOnly ==
  /\ UNCHANGED <<live, created, val, knowsAbout, socket, destroyers, lastNum,
                 cObject, cVal, cLast, cDestroyed, cSeen>>
  /\ ackNet' \subseteq ackNet /\ cAcks' \subseteq cSeen
  /\ pendingAcks' \subseteq pendingAcks
  /\ \A m \in pendingAcks : m.kind # "lazy" => m \in pendingAcks'
  /\ dataNet' \subseteq dataNet \cup pendingAcks'

LEMMA NetworkOnlySame ==
  ASSUME NetworkOnly
  PROVE  /\ Sent' \subseteq Sent /\ Named' \subseteq Named
         /\ \A o : Begun(o)' <=> Begun(o)
         /\ \A m, i : DueOrder(m, i)' <=> DueOrder(m, i)
         /\ \A m, i : DueCreation(m, i)' <=> DueCreation(m, i)
         /\ \A i : OrderSent(i)' <=> OrderSent(i)
         /\ \A i : OrderKept(i)' <=> OrderKept(i)
         /\ \A i : Order(i)' <=> Order(i)
         /\ \A i : CreationDue(i)' <=> CreationDue(i)
         /\ \A m, i : Unfinished(m, i) => Unfinished(m, i)'
<1>1. Sent' \subseteq Sent
  BY DEF NetworkOnly, Sent
<1>2. Named' \subseteq Named
  BY <1>1 DEF Named
<1>3. \A o : Begun(o)' <=> Begun(o)
  BY DEF NetworkOnly, Begun
<1>4. \A m, i : DueOrder(m, i)' <=> DueOrder(m, i)
  BY DEF NetworkOnly, DueOrder, Due
<1>5. \A m, i : DueCreation(m, i)' <=> DueCreation(m, i)
  BY DEF NetworkOnly, DueCreation, Due
<1>6. \A m, i : DueOrder(m, i) => m \in pendingAcks /\ m \in pendingAcks'
  BY DEF NetworkOnly, DueOrder, Due
<1>7. \A m, i : DueCreation(m, i) => m \in pendingAcks /\ m \in pendingAcks'
  BY DEF NetworkOnly, DueCreation, Due
<1>8. \A i : OrderSent(i)' <=> OrderSent(i)
  BY <1>4, <1>6 DEF OrderSent
<1>9. \A i : OrderKept(i)' <=> OrderKept(i)
  BY DEF NetworkOnly, OrderKept
<1>10. \A i : Order(i)' <=> Order(i)
  BY <1>8, <1>9 DEF NetworkOnly, Order
<1>11. \A i : CreationDue(i)' <=> CreationDue(i)
  BY <1>5, <1>7 DEF CreationDue
<1>12. \A m, i : Unfinished(m, i) => Unfinished(m, i)'
  BY DEF NetworkOnly, Unfinished
<1> QED
  BY <1>1, <1>2, <1>3, <1>4, <1>5, <1>8, <1>9, <1>10, <1>11, <1>12

LEMMA NetworkOnlyStep ==
  ASSUME TypeOK, NoOrphans, Mirror, NetworkOnly
  PROVE  Mirror'
<1> USE NetworkOnlySame
<1>1. Numbered'
  BY DEF NetworkOnly, Mirror, Numbered, Sent
<1>2. Silent'
  BY DEF NetworkOnly, Mirror, Silent, NoOrphans
<1>3. Latest'
  BY DEF NetworkOnly, Mirror, Latest
<1>4. Beliefs'
  BY DEF NetworkOnly, Mirror, Beliefs
<1>5. Orders'
  <2>1. \A m, i : Unfinished(m, i) => m \in pendingAcks'
    BY DEF Unfinished, NetworkOnly
  <2> QED
    BY <2>1 DEF NetworkOnly, Mirror, Orders
<1>6. Copies'
  BY DEF NetworkOnly, Mirror, Copies
<1>7. KnownObjectsAgree'
  BY DEF NetworkOnly, Mirror, KnownObjectsAgree
<1>8. Ages'
  BY DEF NetworkOnly, Mirror, Ages
<1> QED
  BY <1>1, <1>2, <1>3, <1>4, <1>5, <1>6, <1>7, <1>8 DEF Mirror

-----------------------------------------------------------------------------
(* Steps of the game.                                                      *)

(* Messages and the client are left alone: so is what is due.              *)
LEMMA GameOnlySame ==
  ASSUME UNCHANGED <<dataNet, pendingAcks, ackNet, client>>
  PROVE  /\ Sent' = Sent /\ Named' = Named
         /\ \A m, i : DueOrder(m, i)' <=> DueOrder(m, i)
         /\ \A m, i : DueCreation(m, i)' <=> DueCreation(m, i)
         /\ \A m, i : Unfinished(m, i)' <=> Unfinished(m, i)
         /\ \A i : OrderSent(i)' <=> OrderSent(i)
         /\ \A i : OrderKept(i)' <=> OrderKept(i)
         /\ \A i : CreationDue(i)' <=> CreationDue(i)
<1> USE DEF client
<1>1. Sent' = Sent /\ Named' = Named
  BY DEF Sent, Named
<1>2. \A m, i : DueOrder(m, i)' <=> DueOrder(m, i)
  BY DEF DueOrder, Due
<1>3. \A m, i : DueCreation(m, i)' <=> DueCreation(m, i)
  BY DEF DueCreation, Due
<1>4. \A m, i : Unfinished(m, i)' <=> Unfinished(m, i)
  BY DEF Unfinished
<1>5. \A i : OrderSent(i)' <=> OrderSent(i)
  BY <1>2 DEF OrderSent
<1>6. \A i : OrderKept(i)' <=> OrderKept(i)
  BY DEF OrderKept
<1>7. \A i : CreationDue(i)' <=> CreationDue(i)
  BY <1>3 DEF CreationDue
<1> QED
  BY <1>1, <1>2, <1>3, <1>4, <1>5, <1>6, <1>7

LEMMA CreateObjectStep ==
  ASSUME TypeOK, NoOrphans, Mirror, CreateObject
  PROVE  Mirror'
<1>0. PICK o \in Objects : o = created + 1
  BY DEF CreateObject
<1>1. /\ o \in Objects /\ IdFree(IdOf(o))
      /\ live' = live \cup {o} /\ created' = o
      /\ knowsAbout' = [knowsAbout EXCEPT ![o] = Fresh]
      /\ UNCHANGED <<val, conn, destroyers, window, dataNet, ackNet, client>>
  BY <1>0 DEF CreateObject
<1>2. UNCHANGED <<dataNet, pendingAcks, ackNet, client, val, socket,
                  destroyers, lastNum, cObject, cVal, cLast, cDestroyed, cSeen,
                  cAcks>>
  BY <1>1 DEF window, conn, client
<1>3. created \in Int /\ live \subseteq Objects /\ o > created
      /\ knowsAbout \in [Objects -> Knowledge]
      /\ \A p \in Objects : p \in Int
  BY <1>0 DEF TypeOK, ObjectTypes, Objects
<1>4. o \notin live /\ \A m \in Named : m.object # o
  BY <1>3 DEF Mirror, Latest
<1>5. \A p \in Objects : Begun(p)' => Begun(p)
  BY <1>1, <1>3 DEF Begun, Fresh
<1>6. \A p \in Objects : p # o => knowsAbout'[p] = knowsAbout[p]
                                  /\ (Begun(p)' <=> Begun(p))
  BY <1>1, <1>3 DEF Begun
<1>7. ~ Begun(o)' /\ knowsAbout'[o].exists = FALSE
  <2>1. knowsAbout'[o] = Fresh
    BY <1>1, <1>3
  <2> QED
    BY <2>1 DEF Begun, Fresh
<1>8. \A i : Order(i)' <=> Order(i)
  BY <1>2, GameOnlySame DEF Order
<1>9. \A m \in Named : m \in Messages /\ m.object \in Objects
  BY SentParts
<1>11. Numbered'
  BY <1>2, GameOnlySame DEF Mirror, Numbered
<1>12. Silent'
  BY <1>2, <1>5 DEF Mirror, Silent
<1>13. Latest'
  <2>1. \A m \in pendingAcks : m.kind \in {"create", "sync"} =>
           m \in Named /\ IdOf(m.object) # IdOf(o) /\ m.object \in Objects
    BY <1>1, <1>9 DEF IdFree, Named, Sent
  <2>2. \A p \in live : IdOf(p) # IdOf(o)
    BY <1>1 DEF IdFree
  <2>3. \A p \in Objects : p \in Int
    BY DEF Objects
  <2>4. \A p \in live' : p <= created'
    BY <1>1, <1>3, <2>3 DEF Mirror, Latest
  <2>5. \A m \in Named' : m.object <= created'
    BY <1>1, <1>2, <1>3, <1>9, <2>3, GameOnlySame DEF Mirror, Latest
  <2>6. \A i \in Ids : cObject'[i] # NoObject =>
                      cObject'[i] <= created' /\ IdOf(cObject'[i]) = i
    <3>1. \A i \in Ids : cObject[i] \in Int
      BY DEF TypeOK, ClientTypes, Objects, NoObject
    <3>2. \A i \in Ids : cObject[i] # NoObject =>
                           cObject[i] <= created /\ IdOf(cObject[i]) = i
      BY DEF Mirror, Latest
    <3> QED
      BY <1>1, <1>2, <1>3, <3>1, <3>2
  <2>7. ASSUME NEW p \in Objects, p <= created'
        PROVE  /\ \A q \in live' : IdOf(p) = IdOf(q) => p <= q
               /\ \A m \in pendingAcks' : m.kind \in {"create", "sync"} =>
                    (IdOf(p) = IdOf(m.object) => p <= m.object)
    <3>1. CASE p = o
      BY <1>1, <1>2, <1>3, <2>1, <2>2, <2>3, <3>1
    <3>2. CASE p # o
      <4>1. p <= created
        BY <1>0, <1>1, <1>3, <2>3, <2>7, <3>2
      <4> QED
        BY <1>1, <1>2, <1>3, <2>3, <4>1 DEF Mirror, Latest
    <3> QED
      BY <3>1, <3>2
  <2> QED
    BY <2>4, <2>5, <2>6, <2>7 DEF Latest
<1>14. Beliefs'
  <2>1. \A m \in Named' : m.object \in live' =>
          /\ Begun(m.object)'
          /\ m.kind # "create" => knowsAbout'[m.object].exists = TRUE
    BY <1>1, <1>2, <1>4, <1>6, <1>9, GameOnlySame DEF Mirror, Beliefs
  <2>2. \A p \in live' : Begun(p)' /\ knowsAbout'[p].exists # TRUE =>
          \E m \in pendingAcks' : m.kind = "create" /\ m.object = p
    BY <1>1, <1>2, <1>3, <1>4, <1>6, <1>7 DEF Mirror, Beliefs
  <2> QED
    BY <2>1, <2>2, GameOnlySame, <1>2 DEF Mirror, Beliefs
<1>15. Orders'
  BY <1>1, <1>2, <1>3, <1>4, <1>6, <1>7, <1>8, GameOnlySame DEF Mirror, Orders
<1>16. Copies'
  BY <1>1, <1>2, <1>3, <1>4, <1>6, <1>8, GameOnlySame DEF Mirror, Copies
<1>17. KnownObjectsAgree'
  BY <1>1, <1>2, <1>3, <1>6, <1>7 DEF Mirror, KnownObjectsAgree
<1>18. Ages'
  BY <1>2, GameOnlySame DEF Mirror, Ages
<1> QED
  BY <1>11, <1>12, <1>13, <1>14, <1>15, <1>16, <1>17, <1>18 DEF Mirror

LEMMA ChangeObjectStep ==
  ASSUME TypeOK, NoOrphans, Mirror, NEW o \in Objects, NEW ack \in BOOLEAN,
         ChangeObject(o, ack)
  PROVE  Mirror'
<1>1. /\ o \in live
      /\ val' = [val EXCEPT ![o] = @ + 1]
      /\ knowsAbout' = [knowsAbout EXCEPT ![o].syncReq = TRUE,
                                          ![o].nextSyncAck = @ \/ ack]
      /\ UNCHANGED <<live, created, conn, destroyers, window, dataNet, ackNet,
                     client>>
  BY DEF ChangeObject
<1>2. UNCHANGED <<dataNet, pendingAcks, ackNet, client, live, created, socket,
                  destroyers, lastNum, cObject, cVal, cLast, cDestroyed, cSeen,
                  cAcks>>
  BY <1>1 DEF window, conn, client
<1>3. /\ knowsAbout \in [Objects -> Knowledge] /\ val \in [Objects -> Nat]
      /\ live \subseteq Objects
  BY DEF TypeOK, ObjectTypes
<1>4. \A p \in Objects : /\ knowsAbout'[p].exists = knowsAbout[p].exists
                         /\ knowsAbout'[p].acksPending = knowsAbout[p].acksPending
  BY <1>1, <1>3 DEF Knowledge
<1>5. \A p \in Objects : Begun(p)' <=> Begun(p)
  BY <1>4 DEF Begun
<1>6. \A i : Order(i)' <=> Order(i)
  BY <1>2, GameOnlySame DEF Order
<1>7. \A m \in Named : m \in Messages /\ m.object \in Objects /\ m.val \in Nat
  BY SentParts
<1>11. Numbered'
  BY <1>2, GameOnlySame DEF Mirror, Numbered
<1>12. Silent'
  BY <1>2, <1>5 DEF Mirror, Silent
<1>13. Latest'
  BY <1>2, GameOnlySame DEF Mirror, Latest
<1>14. Beliefs'
  BY <1>2, <1>3, <1>4, <1>5, <1>7, GameOnlySame DEF Mirror, Beliefs
<1>15. Orders'
  BY <1>2, <1>3, <1>5, <1>6, GameOnlySame DEF Mirror, Orders
<1>16. Copies'
  BY <1>2, <1>3, <1>5, <1>6, GameOnlySame DEF Mirror, Copies
<1>17. KnownObjectsAgree'
  BY <1>2, <1>3, <1>4 DEF Mirror, KnownObjectsAgree
<1>18. Ages'
  <2>1. \A p \in Objects : val[p] \in Nat /\ val'[p] \in Nat /\ val[p] <= val'[p]
    BY <1>1, <1>3
  <2>2. \A m \in Named' : m.val <= val'[m.object]
    BY <1>2, <1>7, <2>1, GameOnlySame DEF Mirror, Ages
  <2>3. ASSUME NEW i \in Ids
        PROVE  IF cObject'[i] = NoObject THEN cVal'[i] = 0
               ELSE cVal'[i] <= val'[cObject'[i]]
    <3>1. cVal[i] \in Nat /\ cObject[i] \in Objects \cup {NoObject}
      BY DEF TypeOK, ClientTypes
    <3> QED
      BY <1>2, <2>1, <3>1 DEF Mirror, Ages
  <2> QED
    BY <1>2, <2>2, <2>3, GameOnlySame DEF Mirror, Ages
<1> QED
  BY <1>11, <1>12, <1>13, <1>14, <1>15, <1>16, <1>17, <1>18 DEF Mirror

LEMMA DestroyObjectStep ==
  ASSUME TypeOK, NoOrphans, Mirror, NEW o \in Objects, DestroyObject(o)
  PROVE  Mirror'
<1>1. /\ o \in live
      /\ live' = live \ {o}
      /\ destroyers' = IF Begun(o) THEN destroyers \cup {IdOf(o)} ELSE destroyers
      /\ knowsAbout' = [knowsAbout EXCEPT ![o] = Fresh]
      /\ UNCHANGED <<created, val, conn, window, dataNet, ackNet, client>>
  <2>1. knowsAbout[o].exists \in BOOLEAN
    BY DEF TypeOK, ObjectTypes, Knowledge
  <2> QED
    BY <2>1 DEF DestroyObject, Begun
<1>2. UNCHANGED <<dataNet, pendingAcks, ackNet, client, created, val, socket,
                  lastNum, cObject, cVal, cLast, cDestroyed, cSeen, cAcks>>
  BY <1>1 DEF window, conn, client
<1>3. /\ knowsAbout \in [Objects -> Knowledge] /\ live \subseteq Objects
      /\ IdOf(o) \in Ids
  BY IdOfType DEF TypeOK, ObjectTypes
<1>4. \A p \in Objects : p # o => knowsAbout'[p] = knowsAbout[p]
                                  /\ (Begun(p)' <=> Begun(p))
  BY <1>1, <1>3 DEF Begun
<1>5. ~ Begun(o)' /\ knowsAbout'[o].exists = FALSE
  BY <1>1, <1>3 DEF Begun, Fresh
<1>6. \A i : Order(i)' <=> Order(i) \/ (i = IdOf(o) /\ Begun(o))
  BY <1>1, <1>2, GameOnlySame DEF Order
<1>7. \A m \in Named : m \in Messages /\ m.object \in Objects
  BY SentParts
<1>8. \A p \in live : IdOf(p) = IdOf(o) => p = o
  BY <1>1, <1>3, SameId DEF Mirror, Latest
<1>9. Begun(o) => ~ Order(IdOf(o))
  BY <1>1 DEF Mirror, Orders
<1>10. Begun(o) => cObject[IdOf(o)] # NoObject \/ CreationDue(IdOf(o))
  <2>1. CASE knowsAbout[o].exists = TRUE
    <3>1. cObject[IdOf(o)] = o /\ o # NoObject
      BY <1>1, <2>1 DEF Mirror, KnownObjectsAgree, Objects, NoObject
    <3> QED
      BY <3>1
  <2>2. ASSUME Begun(o), knowsAbout[o].exists # TRUE
        PROVE  cObject[IdOf(o)] # NoObject \/ CreationDue(IdOf(o))
    <3>1. PICK m \in pendingAcks : m.kind = "create" /\ m.object = o
      BY <1>1, <2>2 DEF Mirror, Beliefs
    <3>2. CASE m.num \in cSeen
      <4>1. m \in Named
        BY <3>1 DEF Named, Sent
      <4>2. cObject[IdOf(o)] = o
        BY <1>1, <3>1, <3>2, <4>1 DEF Mirror, Copies
      <4> QED
        BY <4>2 DEF Objects, NoObject
    <3>3. CASE m.num \notin cSeen
      BY <3>1, <3>3 DEF CreationDue, DueCreation, Due
    <3> QED
      BY <3>2, <3>3
  <2> QED
    BY <2>1, <2>2
<1>11. Numbered'
  BY <1>2, GameOnlySame DEF Mirror, Numbered
<1>12. Silent'
  BY <1>1, <1>2, <1>4, <1>5 DEF Mirror, Silent
<1>13. Latest'
  BY <1>1, <1>2, GameOnlySame DEF Mirror, Latest
<1>14. Beliefs'
  BY <1>1, <1>2, <1>3, <1>4, <1>5, <1>7, GameOnlySame DEF Mirror, Beliefs
<1>15. Orders'
  <2>1. \A p \in live' : Order(IdOf(p))' => ~ Begun(p)'
    BY <1>1, <1>3, <1>4, <1>6, <1>8 DEF Mirror, Orders
  <2>2. ASSUME NEW i \in Ids
        PROVE  /\ i \in destroyers' => ~ OrderSent(i)' /\ ~ OrderKept(i)'
               /\ ~ (OrderSent(i)' /\ OrderKept(i)')
               /\ Order(i)' => cObject'[i] # NoObject \/ CreationDue(i)'
    BY <1>1, <1>2, <1>6, <1>9, <1>10, GameOnlySame DEF Mirror, Orders, Order
  <2> QED
    BY <1>2, <2>1, <2>2, GameOnlySame DEF Mirror, Orders
<1>16. Copies'
  <2>1. ASSUME NEW i \in Ids, cObject[i] # NoObject \/ CreationDue(i)
        PROVE  Order(i)' \/ \E p \in live' : IdOf(p) = i /\ Begun(p)'
    <3>1. Order(i) \/ \E p \in live : IdOf(p) = i /\ Begun(p)
      BY <2>1 DEF Mirror, Copies
    <3> QED
      BY <1>1, <1>3, <1>4, <1>6, <3>1
  <2> QED
    BY <1>1, <1>2, <2>1, GameOnlySame DEF Mirror, Copies
<1>17. KnownObjectsAgree'
  BY <1>1, <1>2, <1>3, <1>4 DEF Mirror, KnownObjectsAgree
<1>18. Ages'
  BY <1>2, GameOnlySame DEF Mirror, Ages
<1> QED
  BY <1>11, <1>12, <1>13, <1>14, <1>15, <1>16, <1>17, <1>18 DEF Mirror

-----------------------------------------------------------------------------
(* Steps that send.                                                        *)

(* A new message has a new number, and is due.                             *)
LEMMA SendNewSame ==
  ASSUME TypeOK, Mirror, NEW m \in Messages, m.num = lastNum + 1,
         SendAndWait(m), UNCHANGED <<ackNet, client>>
  PROVE  /\ Sent' = Sent \cup {m} /\ Numbered'
         /\ \A n \in Sent : n # m /\ n.num < m.num
         /\ m.num \notin cSeen
         /\ \A n, i : DueOrder(n, i)' <=>
              DueOrder(n, i) \/ (n = m /\ m.kind = "destroy" /\ i \in m.ids)
         /\ \A n, i : DueCreation(n, i)' <=>
              DueCreation(n, i)
              \/ (n = m /\ m.kind = "create" /\ IdOf(m.object) = i)
         /\ \A n, i : Unfinished(n, i) => Unfinished(n, i)'
         /\ \A i : OrderKept(i)' <=> OrderKept(i)
<1>1. /\ lastNum' = m.num /\ pendingAcks' = pendingAcks \cup {m}
      /\ dataNet' = dataNet \cup {m} /\ lastNum \in Nat
      /\ UNCHANGED <<ackNet, cSeen, cAcks, cDestroyed>>
  BY DEF SendAndWait, TypeOK, WindowTypes, client
<1>2. Sent' = Sent \cup {m}
  BY <1>1 DEF Sent
<1>3. Sent \subseteq Messages /\ \A n \in Sent : n.num \in Nat
  BY SentParts, MessageParts
<1>4. \A n \in Sent : n.num <= lastNum /\ n.num < m.num /\ n # m
  BY <1>1, <1>3 DEF Mirror, Numbered
<1>5. \A n \in cSeen : n \in Nat /\ n <= lastNum
  BY DEF Mirror, Numbered, TypeOK, ClientTypes
<1>6. m.num \notin cSeen
  BY <1>1, <1>5
<1>7. Numbered'
  <2>1. \A n \in Sent' : 0 < n.num /\ n.num <= lastNum'
    BY <1>1, <1>2, <1>3, <1>4 DEF Mirror, Numbered
  <2>2. \A n, p \in Sent' : n.num = p.num => n = p
    BY <1>2, <1>3, <1>4 DEF Mirror, Numbered
  <2>3. \A n \in cSeen' : n <= lastNum'
    BY <1>1, <1>5
  <2> QED
    BY <1>1, <2>1, <2>2, <2>3 DEF Mirror, Numbered
<1>8. \A n, i : DueOrder(n, i)' <=>
        DueOrder(n, i) \/ (n = m /\ m.kind = "destroy" /\ i \in m.ids)
  BY <1>1, <1>6 DEF DueOrder, Due
<1>9. \A n, i : DueCreation(n, i)' <=>
        DueCreation(n, i) \/ (n = m /\ m.kind = "create" /\ IdOf(m.object) = i)
  BY <1>1, <1>6 DEF DueCreation, Due
<1>10. \A n, i : Unfinished(n, i) => Unfinished(n, i)'
  BY <1>1 DEF Unfinished
<1>11. \A i : OrderKept(i)' <=> OrderKept(i)
  BY <1>1 DEF OrderKept
<1> QED
  BY <1>2, <1>4, <1>6, <1>7, <1>8, <1>9, <1>10, <1>11

LEMMA SendDestroyerStep ==
  ASSUME TypeOK, NoOrphans, Mirror, SendDestroyer
  PROVE  Mirror'
<1>1. /\ socket /\ destroyers' = {} /\ SendAndWait(DestroyMessage)
      /\ UNCHANGED <<live, created, val, knowsAbout, socket, ackNet, client,
                     cObject, cVal, cLast, cDestroyed, cSeen, cAcks>>
  BY DEF SendDestroyer, objects, conn, client
<1>2. PICK m \in Messages : m = DestroyMessage
  BY DestroyMessageType
<1>3. m.num = lastNum + 1 /\ m.kind = "destroy" /\ m.ids = destroyers
  BY <1>2 DEF DestroyMessage
<1>4. SendAndWait(m)
  BY <1>1, <1>2
<1>5. /\ Sent' = Sent \cup {m} /\ Numbered'
      /\ \A n, i : DueOrder(n, i)' <=>
           DueOrder(n, i) \/ (n = m /\ i \in destroyers)
      /\ \A n, i : DueCreation(n, i)' <=> DueCreation(n, i)
      /\ \A n, i : Unfinished(n, i) => Unfinished(n, i)'
      /\ \A i : OrderKept(i)' <=> OrderKept(i)
  BY <1>1, <1>3, <1>4, SendNewSame
<1>6. pendingAcks' = pendingAcks \cup {m}
  BY <1>4 DEF SendAndWait
<1>7. Named' = Named
  BY <1>3, <1>5 DEF Named
<1>8. \A i : OrderSent(i)' <=> OrderSent(i) \/ i \in destroyers
  <2>1. \A n, i : DueOrder(n, i) => n \in pendingAcks
    BY DEF DueOrder, Due
  <2>2. m \in pendingAcks'
    BY <1>6
  <2>3. ASSUME NEW i, OrderSent(i)'
        PROVE  OrderSent(i) \/ i \in destroyers
    BY <1>5, <2>1, <2>3 DEF OrderSent
  <2>4. ASSUME NEW i, OrderSent(i)
        PROVE  OrderSent(i)'
    BY <1>5, <1>6, <2>4 DEF OrderSent
  <2>5. ASSUME NEW i, i \in destroyers
        PROVE  OrderSent(i)'
    BY <1>5, <2>2, <2>5 DEF OrderSent
  <2> QED
    BY <2>3, <2>4, <2>5
<1>9. \A i : CreationDue(i)' <=> CreationDue(i)
  BY <1>3, <1>5, <1>6 DEF CreationDue, DueCreation
<1>10. \A i : Order(i)' <=> Order(i)
  BY <1>1, <1>5, <1>8 DEF Order
<1>11. \A o : Begun(o)' <=> Begun(o)
  BY <1>1 DEF Begun
<1>12. Silent'
  BY <1>1 DEF Silent
<1>13. Latest'
  BY <1>1, <1>3, <1>6, <1>7 DEF Mirror, Latest
<1>14. Beliefs'
  BY <1>1, <1>6, <1>7, <1>11 DEF Mirror, Beliefs
<1>15. Orders'
  <2>1. \A i \in Ids, n, p \in pendingAcks' :
          DueOrder(n, i)' /\ DueOrder(p, i)' => n = p
    <3>1. \A i \in Ids : i \in destroyers =>
             \A n \in pendingAcks : ~ DueOrder(n, i)
      BY DEF Mirror, Orders, OrderSent
    <3> QED
      BY <1>5, <1>6, <3>1 DEF Mirror, Orders, DueOrder, Due
  <2>2. \A i \in Ids : ~ (OrderSent(i)' /\ OrderKept(i)')
    BY <1>5, <1>8 DEF Mirror, Orders
  <2>3. \A i \in Ids : OrderKept(i)' /\ cObject'[i] # NoObject =>
           \E n \in pendingAcks' : Unfinished(n, i)'
    BY <1>1, <1>5, <1>6 DEF Mirror, Orders
  <2>4. \A o \in live' : Order(IdOf(o))' => ~ Begun(o)'
    BY <1>1, <1>10, <1>11 DEF Mirror, Orders
  <2>5. \A i \in Ids : /\ i \in destroyers' => ~ OrderSent(i)' /\ ~ OrderKept(i)'
                       /\ Order(i)' => cObject'[i] # NoObject \/ CreationDue(i)'
    BY <1>1, <1>9, <1>10 DEF Mirror, Orders
  <2> QED
    BY <2>1, <2>2, <2>3, <2>4, <2>5 DEF Orders
<1>16. Copies'
  <2>1. \A i \in Ids, n \in pendingAcks' : DueCreation(n, i)' => cObject'[i] = NoObject
    BY <1>1, <1>3, <1>5, <1>6 DEF Mirror, Copies, DueCreation
  <2>2. \A n \in Named' : n.kind = "create" /\ n.object \in live'
                            /\ n.num \in cSeen' =>
          cObject'[IdOf(n.object)] = n.object
    BY <1>1, <1>7 DEF Mirror, Copies
  <2>3. \A i \in Ids : cObject'[i] # NoObject \/ CreationDue(i)' =>
         Order(i)' \/ \E o \in live' : IdOf(o) = i /\ Begun(o)'
    BY <1>1, <1>9, <1>10, <1>11 DEF Mirror, Copies
  <2> QED
    BY <2>1, <2>2, <2>3 DEF Copies
<1>17. KnownObjectsAgree'
  BY <1>1 DEF Mirror, KnownObjectsAgree
<1>18. Ages'
  BY <1>1, <1>7 DEF Mirror, Ages
<1> QED
  BY <1>5, <1>12, <1>13, <1>14, <1>15, <1>16, <1>17, <1>18 DEF Mirror

(* A new message about an object that is there is newer than all others    *)
(* about holders of its id, and shows the object as it is.                 *)
LEMMA AgesSend ==
  ASSUME TypeOK, Mirror, NEW o \in live,
         NEW m \in Messages, m.num = lastNum + 1, m.object = o, m.val = val[o],
         m.kind # "destroy", SendAndWait(m), UNCHANGED <<ackNet, client, val>>,
         cObject[IdOf(o)] \in {o, NoObject}
  PROVE  Ages'
<1>1. /\ Sent' = Sent \cup {m}
      /\ \A n \in Sent : n # m /\ n.num < m.num
  BY SendNewSame
<1>2. Named' = Named \cup {m}
  BY <1>1 DEF Named
<1>3. UNCHANGED <<cObject, cVal, cLast>>
  BY DEF client
<1>4. \A n \in Named : n \in Sent /\ n.val \in Nat /\ n.object \in Objects
                       /\ n.num \in Nat
  BY SentParts
<1>5. m.num \in Nat /\ o \in Objects /\ m.val \in Nat /\ o # NoObject
      /\ \A p \in Objects : p \in Int
  BY MessageParts DEF TypeOK, ObjectTypes, Objects, NoObject
<1>6. \A n \in Named : IdOf(n.object) = IdOf(o) => n.object <= o
  BY <1>4 DEF Mirror, Latest
<1>7. \A i \in Ids : cVal[i] \in Nat /\ cLast[i] \in Int
  BY DEF TypeOK, ClientTypes
<1>8. \A n \in Named' : n.val <= val'[n.object]
  BY <1>2, <1>5 DEF Mirror, Ages
<1>9. ASSUME NEW n \in Named', NEW p \in Named'
      PROVE  /\ n.object = p.object /\ n.num < p.num => n.val <= p.val
             /\ IdOf(n.object) = IdOf(p.object) /\ n.object < p.object =>
                  n.num < p.num
  <2>1. CASE n \in Named /\ p \in Named
    BY <2>1 DEF Mirror, Ages
  <2>2. CASE n \in Named /\ p = m
    <3>1. n.num < m.num /\ n.val <= val[n.object]
      BY <1>1, <1>4, <2>2 DEF Mirror, Ages
    <3> QED
      BY <2>2, <3>1
  <2>3. CASE n = m /\ p \in Named
    <3>1. p.num < m.num /\ ~ (m.num < p.num)
      BY <1>1, <1>4, <1>5, <2>3
    <3>2. IdOf(n.object) = IdOf(p.object) => ~ (n.object < p.object)
      BY <1>4, <1>5, <1>6, <2>3
    <3> QED
      BY <2>3, <3>1, <3>2
  <2>4. CASE n = m /\ p = m
    BY <1>5, <2>4
  <2> QED
    BY <1>2, <2>1, <2>2, <2>3, <2>4
<1>10. ASSUME NEW n \in Named', cObject[IdOf(n.object)] # NoObject
       PROVE  LET i == IdOf(n.object) IN
              /\ n.object <= cObject[i]
              /\ n.object < cObject[i] => n.num <= cLast[i]
              /\ n.object = cObject[i] /\ n.num > cLast[i] => n.val >= cVal[i]
  <2>1. CASE n \in Named
    BY <1>10, <2>1 DEF Mirror, Ages
  <2>2. CASE n = m
    <3>1. cObject[IdOf(o)] = o
      BY <1>10, <2>2
    <3>2. IdOf(o) \in Ids
      BY <1>5, IdOfType
    <3>3. m.val >= cVal[IdOf(o)]
      BY <1>3, <1>5, <3>1, <3>2 DEF Mirror, Ages
    <3> QED
      BY <1>5, <2>2, <3>1, <3>3
  <2> QED
    BY <1>2, <2>1, <2>2
<1> QED
  BY <1>3, <1>8, <1>9, <1>10 DEF Mirror, Ages

(* No order for the id of an object that is not begun, when SyncAll lets a *)
(* creation through.                                                       *)
LEMMA GateHolds ==
  ASSUME TypeOK, CountersExact, Mirror, NEW o \in live, MayCreate(o)
  PROVE  /\ ~ Begun(o) /\ knowsAbout[o].exists # TRUE
         /\ ~ Order(IdOf(o)) /\ ~ CreationDue(IdOf(o))
         /\ cObject[IdOf(o)] = NoObject
<1> DEFINE i == IdOf(o)
<1>1. o \in Objects /\ i \in Ids /\ knowsAbout[o] \in Knowledge
  BY IdOfType DEF TypeOK, ObjectTypes
<1>2. ~ Begun(o) /\ knowsAbout[o].exists # TRUE
  <2>1. knowsAbout[o].exists \in BOOLEAN
    BY <1>1 DEF Knowledge
  <2>2. knowsAbout[o].exists # TRUE /\ knowsAbout[o].acksPending = 0
    BY <2>1 DEF MayCreate
  <2>3. ~ (knowsAbout[o].acksPending > 0)
    BY <2>2
  <2> QED
    BY <2>2, <2>3 DEF Begun
<1>3. Destroys(pendingAcks) = {}
  <2>1. Destroys(pendingAcks) \in SUBSET pendingAcks
    BY DEF Destroys
  <2>2. IsFiniteSet(Destroys(pendingAcks))
    BY <2>1, FS_Subset DEF TypeOK, WindowTypes
  <2>3. Cardinality(Destroys(pendingAcks)) = 0
    BY DEF MayCreate, CountersExact
  <2> QED
    BY <2>2, <2>3, FS_EmptySet
<1>4. \A m \in pendingAcks : m.kind # "destroy"
  BY <1>3 DEF Destroys
<1>5. \A m \in pendingAcks : m.kind = "create" => IdOf(m.object) # i
  <2> SUFFICES ASSUME NEW m \in pendingAcks, m.kind = "create",
                      IdOf(m.object) = i
               PROVE  FALSE
    OBVIOUS
  <2>1. m \in Named /\ m.object \in Objects /\ m.object <= created
    BY SentParts DEF Named, Sent, Mirror, Latest
  <2>2. m.object = o
    BY <2>1, SameId DEF Mirror
  <2> QED
    BY <1>2, <2>1, <2>2 DEF Mirror, Beliefs
<1>6. ~ CreationDue(i)
  BY <1>5 DEF CreationDue, DueCreation
<1>7. ~ OrderSent(i)
  BY <1>4 DEF OrderSent, DueOrder
<1>8. ~ OrderKept(i)
  <2> SUFFICES ASSUME OrderKept(i) PROVE FALSE
    OBVIOUS
  <2>1. cObject[i] # NoObject
    BY <1>1, <1>6 DEF Mirror, Orders, Order
  <2>2. PICK m \in pendingAcks : Unfinished(m, i)
    BY <1>1, <2>1 DEF Mirror, Orders
  <2> QED
    BY <1>4, <1>5, <2>2 DEF Unfinished
<1>9. ~ Order(i)
  BY <1>7, <1>8 DEF Order, MayCreate
<1>10. cObject[i] = NoObject
  <2> SUFFICES ASSUME cObject[i] # NoObject PROVE FALSE
    OBVIOUS
  <2>1. PICK p \in live : IdOf(p) = i /\ Begun(p)
    BY <1>1, <1>9 DEF Mirror, Copies
  <2>2. p = o
    BY <2>1, SameId DEF Mirror, Latest, TypeOK, ObjectTypes
  <2> QED
    BY <1>2, <2>1, <2>2
<1> QED
  BY <1>2, <1>6, <1>9, <1>10

LEMMA SendCreationStep ==
  ASSUME TypeOK, NoOrphans, CountersExact, Mirror, NEW o \in Objects,
         SendCreation(o)
  PROVE  Mirror'
<1>1. /\ o \in live /\ MayCreate(o) /\ socket
      /\ SendAndWait(ObjectMessage("create", o))
      /\ knowsAbout' = [knowsAbout EXCEPT ![o].syncReq = FALSE,
                                          ![o].acksPending = @ + 1]
      /\ UNCHANGED <<live, created, val, socket, ackNet, destroyers, client,
                     cObject, cVal, cLast, cDestroyed, cSeen, cAcks>>
  BY DEF SendCreation, CanSync, objects, conn, client
<1>2. PICK m \in Messages : m = ObjectMessage("create", o)
  BY ObjectMessageType
<1>3. m.num = lastNum + 1 /\ m.kind = "create" /\ m.object = o /\ m.val = val[o]
  BY <1>2 DEF ObjectMessage
<1>4. SendAndWait(m)
  BY <1>1, <1>2
<1> DEFINE i == IdOf(o)
<1>5. /\ ~ Begun(o) /\ knowsAbout[o].exists # TRUE
      /\ ~ Order(i) /\ ~ CreationDue(i) /\ cObject[i] = NoObject
  BY <1>1, GateHolds
<1>6. i \in Ids /\ knowsAbout \in [Objects -> Knowledge] /\ live \subseteq Objects
  BY IdOfType DEF TypeOK, ObjectTypes
<1>7. /\ Sent' = Sent \cup {m} /\ Numbered'
      /\ \A n \in Sent : n # m
      /\ m.num \notin cSeen
      /\ \A n, j : DueOrder(n, j)' <=> DueOrder(n, j)
      /\ \A n, j : DueCreation(n, j)' <=>
           DueCreation(n, j) \/ (n = m /\ j = i)
      /\ \A n, j : Unfinished(n, j) => Unfinished(n, j)'
      /\ \A j : OrderKept(j)' <=> OrderKept(j)
  <2>1. m.kind # "destroy"
    BY <1>3
  <2> QED
    BY <1>1, <1>3, <1>4, <2>1, SendNewSame
<1>8. pendingAcks' = pendingAcks \cup {m}
  BY <1>4 DEF SendAndWait
<1>9. Named' = Named \cup {m}
  BY <1>3, <1>7 DEF Named
<1>10. \A j : OrderSent(j)' <=> OrderSent(j)
  <2>1. \A n, j : DueOrder(n, j) => n \in pendingAcks
    BY DEF DueOrder, Due
  <2> QED
    BY <1>7, <1>8, <2>1 DEF OrderSent
<1>11. \A j : Order(j)' <=> Order(j)
  BY <1>1, <1>7, <1>10 DEF Order
<1>12. \A j : CreationDue(j)' <=> CreationDue(j) \/ j = i
  <2>1. \A n, j : DueCreation(n, j) => n \in pendingAcks
    BY DEF DueCreation, Due
  <2>2. ASSUME NEW j, CreationDue(j)' PROVE CreationDue(j) \/ j = i
    BY <1>7, <2>1, <2>2 DEF CreationDue
  <2>3. ASSUME NEW j, CreationDue(j) PROVE CreationDue(j)'
    BY <1>7, <1>8, <2>3 DEF CreationDue
  <2>4. CreationDue(i)'
    BY <1>7, <1>8 DEF CreationDue
  <2> QED
    BY <2>2, <2>3, <2>4
<1>13. /\ knowsAbout'[o].exists = knowsAbout[o].exists /\ Begun(o)'
       /\ \A p \in Objects : p # o => knowsAbout'[p] = knowsAbout[p]
  <2>1. knowsAbout[o] \in Knowledge /\ knowsAbout[o].acksPending = 0
    BY <1>1, <1>6 DEF MayCreate
  <2>2. /\ knowsAbout'[o].acksPending = knowsAbout[o].acksPending + 1
        /\ knowsAbout'[o].exists = knowsAbout[o].exists
    BY <1>1, <1>6, <2>1 DEF Knowledge
  <2> QED
    BY <1>1, <1>6, <2>1, <2>2 DEF Begun
<1>14. \A p \in Objects : p # o => (Begun(p)' <=> Begun(p))
  BY <1>13 DEF Begun
<1>15. \A n \in Named : n \in Sent /\ n.object \in Objects
  BY SentParts
<1> HIDE DEF i
<1>20. Silent'
  BY <1>1 DEF Silent
<1>21. Latest'
  <2>1. o <= created /\ \A p \in Objects : p <= created /\ IdOf(p) = IdOf(o) =>
          p <= o
    BY <1>1 DEF Mirror, Latest
  <2> QED
    BY <1>1, <1>3, <1>8, <1>9, <2>1 DEF Mirror, Latest
<1>22. Beliefs'
  <2>1. \A n \in Named : n.object # o
    <3>1. \A n \in Named : n.object = o => Begun(n.object)
      BY <1>1 DEF Mirror, Beliefs
    <3> QED
      BY <1>5, <3>1
  <2>2. \A n \in Named' : n.object \in live' =>
          /\ Begun(n.object)'
          /\ n.kind # "create" => knowsAbout'[n.object].exists = TRUE
    BY <1>1, <1>3, <1>6, <1>9, <1>13, <1>14, <1>15, <2>1 DEF Mirror, Beliefs
  <2>3. \A p \in live' : Begun(p)' /\ knowsAbout'[p].exists # TRUE =>
          \E n \in pendingAcks' : n.kind = "create" /\ n.object = p
    <3> SUFFICES ASSUME NEW p \in live, Begun(p)', knowsAbout'[p].exists # TRUE
                 PROVE  \E n \in pendingAcks' : n.kind = "create" /\ n.object = p
      BY <1>1
    <3>1. CASE p = o
      BY <1>3, <1>8, <3>1
    <3>2. CASE p # o
      <4>1. Begun(p) /\ knowsAbout[p].exists # TRUE
        BY <1>6, <1>13, <1>14, <3>2
      <4> QED
        BY <1>8, <4>1 DEF Mirror, Beliefs
    <3> QED
      BY <3>1, <3>2
  <2>4. \A n, p \in Named' : n.kind = "create" /\ p.kind = "create"
                         /\ n.object = p.object => n = p
    BY <1>3, <1>9, <2>1 DEF Mirror, Beliefs
  <2> QED
    BY <2>2, <2>3, <2>4 DEF Beliefs
<1>23. Orders'
  <2>1. \A p \in live' : Order(IdOf(p))' => ~ Begun(p)'
    BY <1>1, <1>5, <1>6, <1>11, <1>14 DEF Mirror, Orders, i
  <2>2. ASSUME NEW j \in Ids
        PROVE  /\ j \in destroyers' => ~ OrderSent(j)' /\ ~ OrderKept(j)'
               /\ ~ (OrderSent(j)' /\ OrderKept(j)')
               /\ Order(j)' => cObject'[j] # NoObject \/ CreationDue(j)'
               /\ OrderKept(j)' /\ cObject'[j] # NoObject =>
                    \E n \in pendingAcks' : Unfinished(n, j)'
    BY <1>1, <1>7, <1>8, <1>10, <1>11, <1>12 DEF Mirror, Orders
  <2>3. \A j \in Ids, n, p \in pendingAcks' :
          DueOrder(n, j)' /\ DueOrder(p, j)' => n = p
    <3>1. \A n, j : DueOrder(n, j) => n \in pendingAcks
      BY DEF DueOrder, Due
    <3> QED
      BY <1>7, <3>1 DEF Mirror, Orders
  <2> QED
    BY <2>1, <2>2, <2>3 DEF Orders
<1>24. Copies'
  <2>1. \A j \in Ids, n \in pendingAcks' :
          DueCreation(n, j)' => cObject'[j] = NoObject
    <3>1. \A n, j : DueCreation(n, j) => n \in pendingAcks
      BY DEF DueCreation, Due
    <3> QED
      BY <1>1, <1>5, <1>7, <3>1 DEF Mirror, Copies
  <2>2. \A n \in Named' : n.kind = "create" /\ n.object \in live'
                            /\ n.num \in cSeen' =>
          cObject'[IdOf(n.object)] = n.object
    BY <1>1, <1>7, <1>9 DEF Mirror, Copies
  <2>3. \A j \in Ids : cObject'[j] # NoObject \/ CreationDue(j)' =>
         Order(j)' \/ \E p \in live' : IdOf(p) = j /\ Begun(p)'
    <3>1. \A p \in live : Begun(p) => Begun(p)'
      BY <1>6, <1>13, <1>14
    <3>2. IdOf(o) = i /\ o \in live' /\ Begun(o)'
      BY <1>1, <1>13 DEF i
    <3> QED
      BY <1>1, <1>11, <1>12, <3>1, <3>2 DEF Mirror, Copies
  <2> QED
    BY <2>1, <2>2, <2>3 DEF Copies
<1>25. KnownObjectsAgree'
  <2>1. \A p \in live : knowsAbout'[p].exists => p # o /\ knowsAbout[p].exists
    <3>1. knowsAbout[o].exists \in BOOLEAN
      BY <1>6 DEF Knowledge
    <3> QED
      BY <1>5, <1>6, <1>13, <3>1
  <2> QED
    BY <1>1, <2>1 DEF Mirror, KnownObjectsAgree
<1>26. Ages'
  <2>1. m.kind # "destroy" /\ cObject[IdOf(o)] \in {o, NoObject}
    BY <1>3, <1>5 DEF i
  <2> QED
    BY <1>1, <1>3, <1>4, <2>1, AgesSend
<1> QED
  BY <1>7, <1>20, <1>21, <1>22, <1>23, <1>24, <1>25, <1>26 DEF Mirror

LEMMA SendSyncStep ==
  ASSUME TypeOK, NoOrphans, Mirror, NEW o \in Objects, SendSync(o)
  PROVE  Mirror'
<1>1. /\ o \in live /\ MaySync(o) /\ socket
      /\ UNCHANGED <<live, created, val, socket, ackNet, destroyers, client,
                     cObject, cVal, cLast, cDestroyed, cSeen, cAcks>>
  BY DEF SendSync, CanSync, objects, conn, client
<1>2. PICK k \in {"sync", "lazy"} : SendAndWait(ObjectMessage(k, o))
  BY DEF SendSync
<1>3. PICK m \in Messages : m = ObjectMessage(k, o)
  BY ObjectMessageType
<1>4. /\ m.num = lastNum + 1 /\ m.kind = k /\ m.object = o /\ m.val = val[o]
      /\ m.kind # "create" /\ m.kind # "destroy"
  BY <1>3 DEF ObjectMessage
<1>5. SendAndWait(m)
  BY <1>2, <1>3
<1>6. /\ IdOf(o) \in Ids /\ knowsAbout \in [Objects -> Knowledge]
      /\ live \subseteq Objects
  BY IdOfType DEF TypeOK, ObjectTypes
<1>7. knowsAbout[o].exists = TRUE
  <2>1. knowsAbout[o].exists \in BOOLEAN
    BY <1>6 DEF Knowledge
  <2> QED
    BY <1>1, <2>1 DEF MaySync
<1>8. cObject[IdOf(o)] = o
  BY <1>1, <1>7 DEF Mirror, KnownObjectsAgree
<1>9. /\ \A p \in Objects : knowsAbout'[p].exists = knowsAbout[p].exists
      /\ \A p \in Objects : p # o => knowsAbout'[p] = knowsAbout[p]
  BY <1>6 DEF SendSync, Knowledge
<1>10. \A p \in Objects : Begun(p)' <=> Begun(p)
  BY <1>7, <1>9 DEF Begun
<1>11. /\ Sent' = Sent \cup {m} /\ Numbered'
       /\ \A n \in Sent : n # m
       /\ m.num \notin cSeen
       /\ \A n, j : DueOrder(n, j)' <=> DueOrder(n, j)
       /\ \A n, j : DueCreation(n, j)' <=> DueCreation(n, j)
       /\ \A n, j : Unfinished(n, j) => Unfinished(n, j)'
       /\ \A j : OrderKept(j)' <=> OrderKept(j)
  BY <1>1, <1>4, <1>5, SendNewSame
<1>12. pendingAcks' = pendingAcks \cup {m}
  BY <1>5 DEF SendAndWait
<1>13. Named' = Named \cup {m}
  BY <1>4, <1>11 DEF Named
<1>14. /\ \A n, j : DueOrder(n, j) => n \in pendingAcks
       /\ \A n, j : DueCreation(n, j) => n \in pendingAcks
  BY DEF DueOrder, DueCreation, Due
<1>15. \A j : OrderSent(j)' <=> OrderSent(j)
  BY <1>11, <1>12, <1>14 DEF OrderSent
<1>16. \A j : Order(j)' <=> Order(j)
  BY <1>1, <1>11, <1>15 DEF Order
<1>17. \A j : CreationDue(j)' <=> CreationDue(j)
  BY <1>11, <1>12, <1>14 DEF CreationDue
<1>18. \A n \in Named : n \in Sent /\ n.object \in Objects
  BY SentParts
<1>20. Silent'
  BY <1>1 DEF Silent
<1>21. Latest'
  <2>1. o <= created /\ \A p \in Objects : p <= created /\ IdOf(p) = IdOf(o) =>
          p <= o
    BY <1>1 DEF Mirror, Latest
  <2> QED
    BY <1>1, <1>4, <1>12, <1>13, <2>1 DEF Mirror, Latest
<1>22. Beliefs'
  <2>1. Begun(o)
    BY <1>7 DEF Begun
  <2>2. \A n \in Named' : n.object \in live' =>
          /\ Begun(n.object)'
          /\ n.kind # "create" => knowsAbout'[n.object].exists = TRUE
    BY <1>1, <1>4, <1>7, <1>9, <1>10, <1>13, <1>18, <2>1 DEF Mirror, Beliefs
  <2>3. \A p \in live' : Begun(p)' /\ knowsAbout'[p].exists # TRUE =>
          \E n \in pendingAcks' : n.kind = "create" /\ n.object = p
    BY <1>1, <1>6, <1>9, <1>10, <1>12 DEF Mirror, Beliefs
  <2>4. \A n, p \in Named' : n.kind = "create" /\ p.kind = "create"
                         /\ n.object = p.object => n = p
    BY <1>4, <1>13 DEF Mirror, Beliefs
  <2> QED
    BY <2>2, <2>3, <2>4 DEF Beliefs
<1>23. Orders'
  <2>1. \A p \in live' : Order(IdOf(p))' => ~ Begun(p)'
    BY <1>1, <1>6, <1>10, <1>16 DEF Mirror, Orders
  <2>2. ASSUME NEW j \in Ids
        PROVE  /\ j \in destroyers' => ~ OrderSent(j)' /\ ~ OrderKept(j)'
               /\ ~ (OrderSent(j)' /\ OrderKept(j)')
               /\ Order(j)' => cObject'[j] # NoObject \/ CreationDue(j)'
               /\ OrderKept(j)' /\ cObject'[j] # NoObject =>
                    \E n \in pendingAcks' : Unfinished(n, j)'
    BY <1>1, <1>11, <1>12, <1>15, <1>16, <1>17 DEF Mirror, Orders
  <2>3. \A j \in Ids, n, p \in pendingAcks' :
          DueOrder(n, j)' /\ DueOrder(p, j)' => n = p
    BY <1>11, <1>14 DEF Mirror, Orders
  <2> QED
    BY <2>1, <2>2, <2>3 DEF Orders
<1>24. Copies'
  <2>1. \A j \in Ids, n \in pendingAcks' :
          DueCreation(n, j)' => cObject'[j] = NoObject
    BY <1>1, <1>11, <1>14 DEF Mirror, Copies
  <2>2. \A n \in Named' : n.kind = "create" /\ n.object \in live'
                            /\ n.num \in cSeen' =>
          cObject'[IdOf(n.object)] = n.object
    BY <1>1, <1>4, <1>13 DEF Mirror, Copies
  <2>3. \A j \in Ids : cObject'[j] # NoObject \/ CreationDue(j)' =>
         Order(j)' \/ \E p \in live' : IdOf(p) = j /\ Begun(p)'
    BY <1>1, <1>6, <1>10, <1>16, <1>17 DEF Mirror, Copies
  <2> QED
    BY <2>1, <2>2, <2>3 DEF Copies
<1>25. KnownObjectsAgree'
  BY <1>1, <1>6, <1>9 DEF Mirror, KnownObjectsAgree
<1>26. Ages'
  BY <1>1, <1>4, <1>5, <1>8, AgesSend
<1> QED
  BY <1>11, <1>20, <1>21, <1>22, <1>23, <1>24, <1>25, <1>26 DEF Mirror

-----------------------------------------------------------------------------
(* An ack.                                                                 *)

LEMMA ReceiveAckStep ==
  ASSUME TypeOK, NoOrphans, Mirror, NEW num \in ackNet, ReceiveAck(num)
  PROVE  Mirror'
<1>1. /\ socket /\ ackNet' = ackNet \ {num}
      /\ UNCHANGED <<live, created, val, socket, destroyers, lastNum, dataNet,
                     client, cObject, cVal, cLast, cDestroyed, cSeen, cAcks>>
  BY DEF ReceiveAck, objects, conn, client
<1>2. CASE ~ \E m \in pendingAcks : m.num = num
  <2>1. NetworkOnly
    BY <1>1, <1>2 DEF ReceiveAck, NetworkOnly, Mirror, Numbered
  <2> QED
    BY <2>1, NetworkOnlyStep
<1>3. CASE \E m \in pendingAcks : m.num = num
  <2>1. PICK m \in pendingAcks :
          m.num = num /\ knowsAbout' = Learn(m) /\ StopWaiting({m})
    BY <1>1, <1>3 DEF ReceiveAck
  <2>2. pendingAcks' = pendingAcks \ {m}
    BY <2>1 DEF StopWaiting
  <2>3. m \in Sent /\ m \in Messages /\ num \in cSeen
    BY <2>1, SentParts DEF Sent, Mirror, Numbered
  <2>4. Sent' \subseteq Sent /\ Named' \subseteq Named
    BY <1>1, <2>2 DEF Sent, Named
  <2>5. \A n \in pendingAcks : n.num # num => n \in pendingAcks'
    BY <2>1, <2>2
  <2>6. /\ \A n, i : DueOrder(n, i)' <=> DueOrder(n, i)
        /\ \A n, i : DueCreation(n, i)' <=> DueCreation(n, i)
    BY <1>1, <2>1, <2>2, <2>3 DEF DueOrder, DueCreation, Due
  <2>7. /\ \A n, i : DueOrder(n, i) => n \in pendingAcks /\ n \in pendingAcks'
        /\ \A n, i : DueCreation(n, i) => n \in pendingAcks /\ n \in pendingAcks'
    BY <1>1, <2>1, <2>2, <2>3 DEF DueOrder, DueCreation, Due
  <2>8. /\ \A i : OrderSent(i)' <=> OrderSent(i)
        /\ \A i : CreationDue(i)' <=> CreationDue(i)
    BY <2>6, <2>7 DEF OrderSent, CreationDue
  <2>9. \A i : OrderKept(i)' <=> OrderKept(i)
    BY <1>1 DEF OrderKept
  <2>10. \A i : Order(i)' <=> Order(i)
    BY <1>1, <2>8, <2>9 DEF Order
  <2>11. \A n, i : Unfinished(n, i) => n \in pendingAcks' /\ Unfinished(n, i)'
    BY <1>1, <2>1, <2>2 DEF Unfinished
  <2>12. /\ knowsAbout \in [Objects -> Knowledge] /\ live \subseteq Objects
         /\ \A p \in Objects : knowsAbout[p].exists \in BOOLEAN
    BY DEF TypeOK, ObjectTypes, Knowledge
  <2> DEFINE Met(p) == /\ m.kind \in {"create", "sync"}
                       /\ p \in live /\ IdOf(p) = IdOf(m.object)
  <2>13. \A p \in Objects :
           IF Met(p) THEN knowsAbout'[p].exists = TRUE
           ELSE knowsAbout'[p] = knowsAbout[p]
    <3> SUFFICES ASSUME NEW p \in Objects
                 PROVE  IF Met(p) THEN knowsAbout'[p].exists = TRUE
                        ELSE knowsAbout'[p] = knowsAbout[p]
      OBVIOUS
    <3>1. CASE Met(p)
      <4>1. knowsAbout'[p] =
              [knowsAbout[p] EXCEPT
                 !.exists = TRUE,
                 !.acksPending = IF @ > 0 THEN @ - 1 ELSE 0]
        BY <2>1, <3>1 DEF Learn
      <4>2. knowsAbout[p] \in Knowledge
        BY <2>12
      <4> QED
        BY <3>1, <4>1, <4>2 DEF Knowledge
    <3>2. CASE ~ Met(p)
      BY <2>1, <2>12, <3>2 DEF Learn
    <3> QED
      BY <3>1, <3>2
  <2>14. \A p \in Objects : Met(p) => m \in Named /\ m.object = p
    <3> SUFFICES ASSUME NEW p \in Objects, Met(p)
                 PROVE  m \in Named /\ m.object = p
      OBVIOUS
    <3>1. m \in Named
      BY <2>3 DEF Named
    <3>2. m.object \in Objects /\ m.object <= created
      BY <3>1, SentParts DEF Mirror, Latest
    <3>3. p = m.object
      BY <2>1, <3>2, SameId DEF Mirror
    <3> QED
      BY <3>1, <3>3
  <2>15. \A p \in Objects : Met(p) => Begun(p) /\ Begun(p)'
    BY <2>13, <2>14 DEF Mirror, Beliefs, Begun
  <2>16. \A p \in Objects : ~ Met(p) => (Begun(p)' <=> Begun(p))
    BY <2>13 DEF Begun
  <2>17. \A p \in Objects : Begun(p)' <=> Begun(p)
    BY <2>15, <2>16
  <2>18. \A p \in Objects : knowsAbout[p].exists = TRUE =>
           knowsAbout'[p].exists = TRUE
    BY <2>13
  <2>19. \A p \in Objects : Met(p) => cObject[IdOf(p)] = p
    <3> SUFFICES ASSUME NEW p \in Objects, Met(p) PROVE cObject[IdOf(p)] = p
      OBVIOUS
    <3>1. m \in Named /\ m.object = p
      BY <2>14
    <3>2. CASE m.kind = "create"
      BY <2>1, <2>3, <3>1, <3>2 DEF Mirror, Copies
    <3>3. CASE m.kind = "sync"
      <4>1. knowsAbout[p].exists = TRUE
        BY <3>1, <3>3 DEF Mirror, Beliefs
      <4> QED
        BY <4>1 DEF Mirror, KnownObjectsAgree
    <3> QED
      BY <3>2, <3>3
  <2> HIDE DEF Met
  <2>20. Numbered'
    <3>1. \A n \in dataNet' : n.num \notin cSeen' /\ n.kind # "lazy" =>
                               n \in pendingAcks'
      <4>1. \A n \in dataNet : n.num \notin cSeen /\ n.kind # "lazy" =>
                               n \in pendingAcks /\ n # m
        BY <2>1, <2>3 DEF Mirror, Numbered
      <4> QED
        BY <1>1, <2>2, <4>1
    <3>2. ackNet' \cup cAcks' \subseteq cSeen'
      BY <1>1 DEF Mirror, Numbered
    <3> QED
      BY <1>1, <2>4, <3>1, <3>2 DEF Mirror, Numbered
  <2>21. Silent'
    BY <1>1 DEF Silent
  <2>22. Latest'
    BY <1>1, <2>2, <2>4 DEF Mirror, Latest
  <2>23. Beliefs'
    <3>1. \A n \in Named' : n.object \in live' =>
            /\ Begun(n.object)'
            /\ n.kind # "create" => knowsAbout'[n.object].exists = TRUE
      BY <1>1, <2>4, <2>12, <2>17, <2>18 DEF Mirror, Beliefs
    <3>2. ASSUME NEW p \in live, Begun(p)', knowsAbout'[p].exists # TRUE
          PROVE  \E n \in pendingAcks' : n.kind = "create" /\ n.object = p
      <4>1. PICK n \in pendingAcks : n.kind = "create" /\ n.object = p
        BY <2>12, <2>17, <2>18, <3>2 DEF Mirror, Beliefs
      <4>2. n # m
        BY <2>12, <2>13, <3>2, <4>1 DEF Met
      <4> QED
        BY <2>2, <4>1, <4>2
    <3> QED
      BY <1>1, <2>4, <3>1, <3>2 DEF Mirror, Beliefs
  <2>24. Orders'
    BY <1>1, <2>2, <2>6, <2>8, <2>9, <2>10, <2>11, <2>12, <2>17
    DEF Mirror, Orders
  <2>25. Copies'
    <3>1. \A i \in Ids, n \in pendingAcks' : DueCreation(n, i)' =>
            cObject'[i] = NoObject
      BY <1>1, <2>2, <2>6 DEF Mirror, Copies
    <3>2. \A n \in Named' : n.kind = "create" /\ n.object \in live'
                              /\ n.num \in cSeen' =>
            cObject'[IdOf(n.object)] = n.object
      BY <1>1, <2>4 DEF Mirror, Copies
    <3>3. \A i \in Ids : cObject'[i] # NoObject \/ CreationDue(i)' =>
            Order(i)' \/ \E p \in live' : IdOf(p) = i /\ Begun(p)'
      BY <1>1, <2>8, <2>10, <2>12, <2>17 DEF Mirror, Copies
    <3> QED
      BY <3>1, <3>2, <3>3 DEF Copies
  <2>26. KnownObjectsAgree'
    BY <1>1, <2>12, <2>13, <2>19 DEF Mirror, KnownObjectsAgree
  <2>27. Ages'
    BY <1>1, <2>4 DEF Mirror, Ages
  <2> QED
    BY <2>20, <2>21, <2>22, <2>23, <2>24, <2>25, <2>26, <2>27 DEF Mirror
<1> QED
  BY <1>2, <1>3

-----------------------------------------------------------------------------
(* Steps of the connection.                                                *)

(* Nothing is under way, and nobody knows of any object.                   *)
Blank ==
  /\ dataNet = {} /\ pendingAcks = {} /\ ackNet = {} /\ destroyers = {}
  /\ cDestroyed = {} /\ cSeen = {} /\ cAcks = {}
  /\ \A i \in Ids : cObject[i] = NoObject /\ cVal[i] = 0
  /\ \A o \in Objects : ~ Begun(o) /\ knowsAbout[o].exists # TRUE
  /\ live \subseteq Objects
  /\ \A o \in live : o <= created
  /\ \A p \in Objects : p <= created =>
       \A o \in live : IdOf(p) = IdOf(o) => p <= o
  /\ \A o \in live : knowsAbout[o].exists \in BOOLEAN /\ IdOf(o) \in Ids

LEMMA BlankMirror == Blank => Mirror
<1> SUFFICES ASSUME Blank PROVE Mirror
  OBVIOUS
<1>1. Sent = {} /\ Named = {}
  BY DEF Blank, Sent, Named
<1>2. \A i : ~ OrderSent(i) /\ ~ OrderKept(i) /\ ~ Order(i) /\ ~ CreationDue(i)
  BY DEF Blank, OrderSent, OrderKept, Order, CreationDue
<1>3. Numbered
  BY <1>1 DEF Blank, Numbered
<1>4. Silent
  BY DEF Blank, Silent
<1>5. Latest
  BY <1>1 DEF Blank, Latest
<1>6. Beliefs
  BY <1>1 DEF Blank, Beliefs
<1>7. Orders
  BY <1>2 DEF Blank, Orders
<1>8. Copies
  BY <1>1, <1>2 DEF Blank, Copies
<1>9. KnownObjectsAgree
  BY DEF Blank, KnownObjectsAgree
<1>10. Ages
  BY <1>1 DEF Blank, Ages
<1> QED
  BY <1>3, <1>4, <1>5, <1>6, <1>7, <1>8, <1>9, <1>10 DEF Mirror

LEMMA FreshKnowsNothing ==
  ASSUME NEW o, knowsAbout[o] = Fresh
  PROVE  /\ ~ Begun(o) /\ knowsAbout[o].exists # TRUE
         /\ knowsAbout[o].exists \in BOOLEAN
<1>1. Fresh.exists = FALSE /\ Fresh.acksPending = 0
  BY DEF Fresh
<1>2. knowsAbout[o].exists = FALSE /\ knowsAbout[o].acksPending = 0
  BY <1>1
<1>3. ~ (knowsAbout[o].acksPending > 0)
  BY <1>2
<1>4. knowsAbout[o].exists # TRUE
  BY <1>2
<1> QED
  BY <1>2, <1>3, <1>4 DEF Begun

LEMMA MirrorInit == Init => Mirror
<1> SUFFICES ASSUME Init PROVE Mirror
  OBVIOUS
<1>1. \A o \in Objects : knowsAbout[o] = Fresh
  BY DEF Init
<1>2. \A o \in Objects : ~ Begun(o) /\ knowsAbout[o].exists # TRUE
  BY <1>1, FreshKnowsNothing
<1> QED
  BY <1>2, BlankMirror DEF Init, Blank

(* The next occupant of the slot knows nothing.                            *)
LEMMA ClearedKnows ==
  ASSUME ClearKnows
  PROVE  \A o \in Objects : /\ ~ Begun(o)' /\ knowsAbout'[o].exists # TRUE
                            /\ knowsAbout'[o].exists \in BOOLEAN
<1>1. \A o \in Objects : knowsAbout'[o] = Fresh
  BY DEF ClearKnows
<1>2. ASSUME NEW o \in Objects
      PROVE  /\ ~ Begun(o)' /\ knowsAbout'[o].exists # TRUE
             /\ knowsAbout'[o].exists \in BOOLEAN
  <2>1. Fresh.exists = FALSE /\ Fresh.acksPending = 0
    BY DEF Fresh
  <2>2. knowsAbout'[o].exists = FALSE /\ knowsAbout'[o].acksPending = 0
    BY <1>1, <2>1
  <2>3. ~ (knowsAbout'[o].acksPending > 0)
    BY <2>2
  <2>4. knowsAbout'[o].exists # TRUE
    BY <2>2
  <2> QED
    BY <2>2, <2>3, <2>4 DEF Begun
<1> QED
  BY <1>2

LEMMA LoginStep ==
  ASSUME TypeOK, NoOrphans, Mirror, Login
  PROVE  Mirror'
<1>1. /\ ~ socket /\ ClearKnows
      /\ UNCHANGED <<live, created, val, destroyers, pendingAcks, dataNet, ackNet,
                     cObject, cVal, cDestroyed, cSeen, cAcks>>
  BY DEF Login, objects, client
<1>2. pendingAcks = {}
  BY <1>1 DEF NoOrphans
<1>3. live \subseteq Objects /\ \A o \in live : IdOf(o) \in Ids
  BY IdOfType DEF TypeOK, ObjectTypes
<1>4. Blank'
  BY <1>1, <1>2, <1>3, ClearedKnows DEF Blank, Mirror, Silent, Latest, Ages
<1> QED
  BY <1>4, BlankMirror, PTL

LEMMA LogoutStep ==
  ASSUME QuietLogout, TypeOK, NoOrphans, Mirror, Logout
  PROVE  Mirror'
<1>1. /\ destroyers = {} /\ ClearKnows /\ NewClient
      /\ UNCHANGED <<live, created, val>>
      /\ pendingAcks' = {} /\ destroyers' = {}
  BY DEF Logout, objects
<1>2. live \subseteq Objects /\ \A o \in live : IdOf(o) \in Ids
  BY IdOfType DEF TypeOK, ObjectTypes
<1>3. Blank'
  BY <1>1, <1>2, ClearedKnows DEF Blank, Mirror, Latest, NewClient
<1> QED
  BY <1>3, BlankMirror, PTL

LEMMA NetworkSteps ==
  ASSUME TypeOK, NoOrphans, Mirror,
         \/ \E m \in pendingAcks : Resend(m)
         \/ ReadyObjects
         \/ \E m \in dataNet : LoseMessage(m)
         \/ \E num \in ackNet : LoseAck(num)
  PROVE  Mirror'
<1> USE DEF objects, conn, client, window
<1>1. cAcks \subseteq cSeen
  BY DEF Mirror, Numbered
<1>2. ASSUME NEW m \in pendingAcks, Resend(m) PROVE NetworkOnly
  <2>1. socket
    BY <1>2 DEF NoOrphans
  <2>2. CASE m.kind = "lazy"
    BY <1>1, <1>2, <2>2 DEF Resend, SendAgain, GiveUp, StopWaiting, NetworkOnly
  <2>3. CASE m.kind # "lazy"
    BY <1>1, <1>2, <2>1, <2>3 DEF Resend, SendAgain, NetworkOnly
  <2> QED
    BY <2>2, <2>3
<1>3. ReadyObjects => NetworkOnly
  BY <1>1 DEF ReadyObjects, NetworkOnly
<1>4. ASSUME NEW m \in dataNet, LoseMessage(m) PROVE NetworkOnly
  BY <1>1, <1>4 DEF LoseMessage, NetworkOnly
<1>5. ASSUME NEW num \in ackNet, LoseAck(num) PROVE NetworkOnly
  BY <1>1, <1>5 DEF LoseAck, NetworkOnly
<1>6. NetworkOnly
  BY <1>2, <1>3, <1>4, <1>5
<1> QED
  BY <1>6, NetworkOnlyStep

-----------------------------------------------------------------------------
(* Steps of the client.                                                    *)

(* A message is handled for the first time: it is no longer due.           *)
Handles(m) ==
  /\ m \in dataNet /\ m.num \notin cSeen
  /\ cSeen' = cSeen \cup {m.num} /\ cAcks' = cAcks \cup {m.num}
  /\ dataNet' = dataNet \ {m}
  /\ UNCHANGED <<live, created, val, knowsAbout, socket, destroyers, lastNum,
                 pendingAcks, ackNet>>

LEMMA HandlesSame ==
  ASSUME TypeOK, NoOrphans, Mirror, NEW m, Handles(m)
  PROVE  /\ m \in Sent /\ m \in Messages /\ socket
         /\ m.kind # "lazy" => m \in pendingAcks
         /\ Sent' \subseteq Sent /\ Named' \subseteq Named
         /\ \A n \in Sent : n.num \in cSeen' => n = m \/ n.num \in cSeen
         /\ \A o : Begun(o)' <=> Begun(o)
         /\ \A n, i : DueOrder(n, i) => n \in pendingAcks
         /\ \A n, i : DueCreation(n, i) => n \in pendingAcks
         /\ \A n, i : DueOrder(n, i)' <=> DueOrder(n, i) /\ n # m
         /\ \A n, i : DueCreation(n, i)' <=> DueCreation(n, i) /\ n # m
         /\ \A n, i : Unfinished(n, i)' <=> Unfinished(n, i)
         /\ Numbered' /\ Silent' /\ Beliefs'
<1> USE DEF Handles
<1>1. m \in Sent /\ m \in Messages /\ (m.kind # "lazy" => m \in pendingAcks)
  BY SentParts DEF Sent, Mirror, Numbered
<1>2. socket
  BY DEF Mirror, Silent
<1>3. Sent' \subseteq Sent
  BY DEF Sent
<1>4. Named' \subseteq Named
  BY <1>3 DEF Named
<1>5. \A n \in Sent : n.num \in cSeen' => n = m \/ n.num \in cSeen
  BY <1>1 DEF Mirror, Numbered
<1>6. \A o : Begun(o)' <=> Begun(o)
  BY DEF Begun
<1>7. /\ \A n, i : DueOrder(n, i) => n \in pendingAcks
      /\ \A n, i : DueCreation(n, i) => n \in pendingAcks
  BY DEF DueOrder, DueCreation, Due
<1>8. \A n : Due(n)' <=> Due(n) /\ n # m
  <2>1. \A n \in pendingAcks : n \in Sent
    BY DEF Sent
  <2> QED
    BY <1>5, <2>1 DEF Due
<1>9. \A n, i : DueOrder(n, i)' <=> DueOrder(n, i) /\ n # m
  BY <1>8 DEF DueOrder
<1>10. \A n, i : DueCreation(n, i)' <=> DueCreation(n, i) /\ n # m
  BY <1>8 DEF DueCreation
<1>11. \A n, i : Unfinished(n, i)' <=> Unfinished(n, i)
  BY DEF Unfinished
<1>12. Numbered'
  <2>1. m.num <= lastNum'
    BY <1>1 DEF Mirror, Numbered
  <2> QED
    BY <1>3, <2>1 DEF Mirror, Numbered
<1>13. Silent'
  BY <1>2 DEF Silent
<1>14. Beliefs'
  BY <1>4, <1>6 DEF Mirror, Beliefs
<1> QED
  BY <1>1, <1>2, <1>3, <1>4, <1>5, <1>6, <1>7, <1>9, <1>10, <1>11, <1>12,
     <1>13, <1>14

(* A destroy message: its orders are no longer sent, but kept.             *)
LEMMA TakeOrders ==
  ASSUME TypeOK, NoOrphans, Mirror, NEW m, Handles(m), m.kind = "destroy",
         cDestroyed' = cDestroyed \cup {[id |-> i, num |-> m.num] : i \in m.ids},
         UNCHANGED <<cObject, cVal, cLast>>
  PROVE  Mirror'
<1> USE DEF Handles
<1>1. m \in pendingAcks /\ m.num \notin ackNet
  BY HandlesSame DEF Mirror, Numbered
<1>2. \A i \in m.ids : DueOrder(m, i) /\ Unfinished(m, i)
  BY <1>1 DEF DueOrder, Due, Unfinished
<1>3. \A i : OrderKept(i)' <=> OrderKept(i) \/ i \in m.ids
  <2>1. ASSUME NEW i, OrderKept(i)' PROVE OrderKept(i) \/ i \in m.ids
    BY <2>1 DEF OrderKept
  <2>2. ASSUME NEW i, OrderKept(i) PROVE OrderKept(i)'
    BY <2>2 DEF OrderKept
  <2>3. ASSUME NEW i \in m.ids PROVE OrderKept(i)'
    <3> DEFINE d == [id |-> i, num |-> m.num]
    <3>1. d \in cDestroyed' /\ d.id = i
      OBVIOUS
    <3> QED
      BY <3>1 DEF OrderKept
  <2> QED
    BY <2>1, <2>2, <2>3
<1>4. \A i \in Ids : OrderSent(i)' <=> OrderSent(i) /\ i \notin m.ids
  <2>1. ASSUME NEW i \in Ids, OrderSent(i)' PROVE OrderSent(i) /\ i \notin m.ids
    <3>1. PICK n \in pendingAcks : DueOrder(n, i) /\ n # m
      BY <2>1, HandlesSame DEF OrderSent
    <3>2. i \notin m.ids
      BY <1>1, <1>2, <3>1 DEF Mirror, Orders
    <3> QED
      BY <3>1, <3>2 DEF OrderSent
  <2>2. ASSUME NEW i \in Ids, OrderSent(i), i \notin m.ids PROVE OrderSent(i)'
    <3>1. PICK n \in pendingAcks : DueOrder(n, i)
      BY <2>2 DEF OrderSent
    <3>2. n # m
      BY <2>2, <3>1 DEF DueOrder
    <3> QED
      BY <3>1, <3>2, HandlesSame DEF OrderSent
  <2> QED
    BY <2>1, <2>2
<1>5. \A i \in Ids : i \in m.ids => OrderSent(i)
  BY <1>1, <1>2 DEF OrderSent
<1>6. \A i \in Ids : Order(i)' <=> Order(i)
  BY <1>3, <1>4, <1>5 DEF Order
<1>7. \A n, i : DueCreation(n, i)' <=> DueCreation(n, i)
  BY HandlesSame DEF DueCreation
<1>8. \A i : CreationDue(i)' <=> CreationDue(i)
  BY <1>7 DEF CreationDue
<1>9. Numbered' /\ Silent' /\ Beliefs' /\ Named' \subseteq Named
  BY HandlesSame
<1>10. live \subseteq Objects /\ \A o \in live : IdOf(o) \in Ids
  BY IdOfType DEF TypeOK, ObjectTypes
<1>11. Latest'
  BY <1>9 DEF Mirror, Latest
<1>12. Orders'
  <2>1. \A o \in live' : Order(IdOf(o))' => ~ Begun(o)'
    BY <1>6, <1>10, HandlesSame DEF Mirror, Orders
  <2>2. ASSUME NEW i \in Ids
        PROVE  /\ i \in destroyers' => ~ OrderSent(i)' /\ ~ OrderKept(i)'
               /\ ~ (OrderSent(i)' /\ OrderKept(i)')
               /\ Order(i)' => cObject'[i] # NoObject \/ CreationDue(i)'
    BY <1>3, <1>4, <1>5, <1>6, <1>8 DEF Mirror, Orders
  <2>3. \A i \in Ids, n, p \in pendingAcks' :
          DueOrder(n, i)' /\ DueOrder(p, i)' => n = p
    BY HandlesSame DEF Mirror, Orders
  <2>4. ASSUME NEW i \in Ids, OrderKept(i)', cObject'[i] # NoObject
        PROVE  \E n \in pendingAcks' : Unfinished(n, i)'
    <3>1. \E n \in pendingAcks : Unfinished(n, i)
      BY <1>1, <1>2, <1>3, <2>4 DEF Mirror, Orders
    <3> QED
      BY <3>1, HandlesSame
  <2> QED
    BY <2>1, <2>2, <2>3, <2>4 DEF Orders
<1>13. Copies'
  <2>1. \A n \in Named' : n.kind = "create" /\ n.num \in cSeen' => n.num \in cSeen
    BY <1>9, HandlesSame DEF Named
  <2>2. \A n \in Named' : n.kind = "create" /\ n.object \in live'
                            /\ n.num \in cSeen' =>
          cObject'[IdOf(n.object)] = n.object
    BY <1>9, <2>1 DEF Mirror, Copies
  <2>3. \A i \in Ids, n \in pendingAcks' :
          DueCreation(n, i)' => cObject'[i] = NoObject
    BY <1>7 DEF Mirror, Copies
  <2>4. \A i \in Ids : cObject'[i] # NoObject \/ CreationDue(i)' =>
         Order(i)' \/ \E o \in live' : IdOf(o) = i /\ Begun(o)'
    BY <1>6, <1>8, HandlesSame DEF Mirror, Copies
  <2> QED
    BY <2>2, <2>3, <2>4 DEF Copies
<1>14. KnownObjectsAgree'
  BY DEF Mirror, KnownObjectsAgree
<1>15. Ages'
  BY <1>9 DEF Mirror, Ages
<1> QED
  BY <1>9, <1>11, <1>12, <1>13, <1>14, <1>15 DEF Mirror

(* A creation finds its id unused, and makes its object.                   *)
LEMMA TakeCreation ==
  ASSUME TypeOK, NoOrphans, Mirror, NEW m, Handles(m), m.kind = "create",
         HandleObject(IdOf(m.object), m), UNCHANGED cDestroyed
  PROVE  Mirror'
<1> USE DEF Handles
<1>1. /\ m \in pendingAcks /\ m.num \notin ackNet /\ m \in Named
      /\ m.object \in Objects /\ m.val \in Nat /\ IdOf(m.object) \in Ids
      /\ m.num \in Nat
  BY HandlesSame, SentParts DEF Mirror, Numbered, Named
<1> DEFINE i == IdOf(m.object)
<1>2. DueCreation(m, i) /\ Unfinished(m, i)
  BY <1>1 DEF DueCreation, Due, Unfinished
<1>3. cObject[i] = NoObject
  BY <1>1, <1>2 DEF Mirror, Copies
<1>4. /\ cObject' = [cObject EXCEPT ![i] = m.object]
      /\ cVal' = [cVal EXCEPT ![i] = m.val]
      /\ cLast' = [cLast EXCEPT ![i] = m.num - 1]
  BY <1>3 DEF HandleObject
<1>5. /\ cObject \in [Ids -> Objects \cup {NoObject}]
      /\ cVal \in [Ids -> Nat] /\ cLast \in [Ids -> Int]
      /\ NoObject \notin Objects /\ live \subseteq Objects
      /\ \A o \in live : IdOf(o) \in Ids
      /\ \A o \in Objects : o \in Int
  BY IdOfType DEF TypeOK, ClientTypes, ObjectTypes, NoObject, Objects
<1>6. /\ i \in Ids /\ cObject'[i] = m.object /\ cVal'[i] = m.val
      /\ cLast'[i] = m.num - 1 /\ m.object # NoObject
      /\ \A j \in Ids : j # i =>
           /\ cObject'[j] = cObject[j] /\ cVal'[j] = cVal[j]
           /\ cLast'[j] = cLast[j]
  BY <1>1, <1>4, <1>5
<1>7. Numbered' /\ Silent' /\ Beliefs' /\ Named' \subseteq Named
  BY HandlesSame
<1>8. \A n, j : DueOrder(n, j)' <=> DueOrder(n, j)
  BY HandlesSame DEF DueOrder
<1>9. \A j : OrderSent(j)' <=> OrderSent(j)
  BY <1>8 DEF OrderSent
<1>10. \A j : OrderKept(j)' <=> OrderKept(j)
  BY DEF OrderKept
<1>11. \A j : Order(j)' <=> Order(j)
  BY <1>9, <1>10 DEF Order
<1>12. \A n \in pendingAcks : DueCreation(n, i) => n = m
  <2> SUFFICES ASSUME NEW n \in pendingAcks, DueCreation(n, i) PROVE n = m
    OBVIOUS
  <2>1. n.kind = "create" /\ IdOf(n.object) = IdOf(m.object)
    BY DEF DueCreation
  <2>2. n \in Named /\ n.object \in Objects
    BY <2>1, SentParts DEF Named, Sent
  <2>3. n.object <= created /\ m.object <= created
    BY <1>1, <2>2 DEF Mirror, Latest
  <2>4. n.object <= m.object /\ m.object <= n.object
    BY <1>1, <2>1, <2>2, <2>3 DEF Mirror, Latest
  <2>5. n.object = m.object
    BY <1>1, <1>5, <2>2, <2>4
  <2> QED
    BY <1>1, <2>1, <2>2, <2>5 DEF Mirror, Beliefs
<1>13. \A j : CreationDue(j)' => CreationDue(j)
  BY HandlesSame DEF CreationDue
<1>14. \A j : CreationDue(j) => j = i \/ CreationDue(j)'
  <2> SUFFICES ASSUME NEW j, CreationDue(j), j # i PROVE CreationDue(j)'
    OBVIOUS
  <2>1. PICK n \in pendingAcks : DueCreation(n, j)
    BY DEF CreationDue
  <2>2. n # m
    BY <2>1 DEF DueCreation
  <2> QED
    BY <2>1, <2>2, HandlesSame DEF CreationDue
<1>15. CreationDue(i)
  BY <1>1, <1>2 DEF CreationDue
<1>16. IdOf(m.object) = i
  OBVIOUS
<1> HIDE DEF i
<1>20. Latest'
  <2>1. m.object <= created
    BY <1>1 DEF Mirror, Latest
  <2>2. \A j \in Ids : cObject'[j] # NoObject =>
                         cObject'[j] <= created' /\ IdOf(cObject'[j]) = j
    BY <1>6, <1>16, <2>1 DEF Mirror, Latest
  <2> QED
    BY <1>7, <2>2 DEF Mirror, Latest
<1>21. Orders'
  <2>1. \A o \in live' : Order(IdOf(o))' => ~ Begun(o)'
    BY <1>11, HandlesSame DEF Mirror, Orders
  <2>2. ASSUME NEW j \in Ids
        PROVE  /\ j \in destroyers' => ~ OrderSent(j)' /\ ~ OrderKept(j)'
               /\ ~ (OrderSent(j)' /\ OrderKept(j)')
               /\ Order(j)' => cObject'[j] # NoObject \/ CreationDue(j)'
    BY <1>6, <1>9, <1>10, <1>11, <1>14 DEF Mirror, Orders
  <2>3. \A j \in Ids, n, p \in pendingAcks' :
          DueOrder(n, j)' /\ DueOrder(p, j)' => n = p
    BY <1>8 DEF Mirror, Orders
  <2>4. ASSUME NEW j \in Ids, OrderKept(j)', cObject'[j] # NoObject
        PROVE  \E n \in pendingAcks' : Unfinished(n, j)'
    <3>1. \E n \in pendingAcks : Unfinished(n, j)
      <4>1. CASE j = i
        BY <1>1, <1>2, <4>1
      <4>2. CASE j # i
        BY <1>6, <1>10, <2>4, <4>2 DEF Mirror, Orders
      <4> QED
        BY <4>1, <4>2
    <3> QED
      BY <3>1, HandlesSame
  <2> QED
    BY <2>1, <2>2, <2>3, <2>4 DEF Orders
<1>22. Copies'
  <2>1. \A j \in Ids, n \in pendingAcks' :
          DueCreation(n, j)' => cObject'[j] = NoObject
    BY <1>6, <1>12, HandlesSame DEF Mirror, Copies
  <2>2. ASSUME NEW n \in Named', n.kind = "create", n.object \in live',
               n.num \in cSeen'
        PROVE  cObject'[IdOf(n.object)] = n.object
    <3>1. CASE n = m
      BY <1>6, <1>16, <3>1
    <3>2. CASE n # m
      <4>1. n \in Named /\ n \in Sent /\ n.object \in Objects
        BY <1>7, SentParts
      <4>2. cObject[IdOf(n.object)] = n.object
        BY <2>2, <3>2, <4>1, HandlesSame DEF Mirror, Copies
      <4>3. IdOf(n.object) # i /\ IdOf(n.object) \in Ids
        BY <1>3, <1>5, <2>2, <4>1, <4>2 DEF i
      <4> QED
        BY <1>6, <4>2, <4>3
    <3> QED
      BY <3>1, <3>2
  <2>3. \A j \in Ids : cObject'[j] # NoObject \/ CreationDue(j)' =>
          Order(j)' \/ \E o \in live' : IdOf(o) = j /\ Begun(o)'
    BY <1>6, <1>11, <1>13, <1>15, HandlesSame DEF Mirror, Copies
  <2> QED
    BY <2>1, <2>2, <2>3 DEF Copies
<1>23. KnownObjectsAgree'
  <2> SUFFICES ASSUME NEW o \in live, knowsAbout[o].exists
               PROVE  cObject'[IdOf(o)] = o
    BY DEF KnownObjectsAgree
  <2>1. cObject[IdOf(o)] = o
    BY DEF Mirror, KnownObjectsAgree
  <2>2. IdOf(o) # i /\ IdOf(o) \in Ids
    BY <1>3, <1>5, <2>1 DEF i
  <2> QED
    BY <1>6, <2>1, <2>2
<1>24. Ages'
  <2>1. ASSUME NEW n \in Named', cObject'[IdOf(n.object)] # NoObject
        PROVE  LET j == IdOf(n.object) IN
                 /\ n.object <= cObject'[j]
                 /\ n.object < cObject'[j] => n.num <= cLast'[j]
                 /\ n.object = cObject'[j] /\ n.num > cLast'[j] =>
                      n.val >= cVal'[j]
    <3>1. n \in Named /\ n \in Sent /\ n.object \in Objects /\ n.num \in Nat
          /\ IdOf(n.object) \in Ids /\ n.val \in Nat
      BY <1>7, SentParts
    <3>2. CASE IdOf(n.object) = i
      <4>1. n.object <= created
        BY <3>1 DEF Mirror, Latest
      <4>2. n.object <= m.object
        BY <1>1, <1>16, <3>1, <3>2, <4>1 DEF Mirror, Latest
      <4>3. n.object < m.object => n.num < m.num
        BY <1>1, <1>16, <3>1, <3>2 DEF Mirror, Ages
      <4>4. n.object = m.object /\ m.num < n.num => m.val <= n.val
        BY <1>1, <3>1 DEF Mirror, Ages
      <4>5. n.num = m.num => n = m
        BY <3>1, HandlesSame DEF Mirror, Numbered
      <4> QED
        BY <1>1, <1>6, <3>1, <3>2, <4>2, <4>3, <4>4, <4>5
    <3>3. CASE IdOf(n.object) # i
      BY <1>6, <2>1, <3>1, <3>3 DEF Mirror, Ages
    <3> QED
      BY <3>2, <3>3
  <2>2. \A j \in Ids : IF cObject'[j] = NoObject THEN cVal'[j] = 0
                        ELSE cVal'[j] <= val'[cObject'[j]]
    <3>1. m.val <= val[m.object]
      BY <1>1 DEF Mirror, Ages
    <3> QED
      BY <1>6, <3>1 DEF Mirror, Ages
  <2>3. \A n \in Named' : n.val <= val'[n.object]
    BY <1>7 DEF Mirror, Ages
  <2>4. \A n, p \in Named' :
          /\ n.object = p.object /\ n.num < p.num => n.val <= p.val
          /\ IdOf(n.object) = IdOf(p.object) /\ n.object < p.object =>
               n.num < p.num
    BY <1>7 DEF Mirror, Ages
  <2> QED
    BY <2>1, <2>2, <2>3, <2>4 DEF Ages
<1> QED
  BY <1>7, <1>20, <1>21, <1>22, <1>23, <1>24 DEF Mirror

(* A newer sync is of the object that is there.                            *)
LEMMA NewerIsOwn ==
  ASSUME TypeOK, Mirror, NEW m \in Named,
         cObject[IdOf(m.object)] # NoObject, SyncIsNew(IdOf(m.object), m)
  PROVE  /\ m.object = cObject[IdOf(m.object)]
         /\ m.val >= cVal[IdOf(m.object)]
         /\ m.num > cLast[IdOf(m.object)] \/ cLast[IdOf(m.object)] = 0
<1> DEFINE i == IdOf(m.object)
<1>1. m.num \in Nat /\ m.num > 0 /\ m.object \in Objects /\ i \in Ids
  BY SentParts DEF Mirror, Numbered
<1>2. cLast[i] \in Int /\ cObject[i] \in Objects /\ cObject[i] \in Int
      /\ m.object \in Int
  BY <1>1 DEF TypeOK, ClientTypes, Objects
<1>3. cLast[i] = 0 \/ m.num > cLast[i]
  BY DEF SyncIsNew
<1>4. m.num > cLast[i]
  BY <1>1, <1>2, <1>3
<1>5. m.object <= cObject[i]
      /\ (m.object < cObject[i] => m.num <= cLast[i])
      /\ (m.object = cObject[i] /\ m.num > cLast[i] => m.val >= cVal[i])
  BY DEF Mirror, Ages
<1> QED
  BY <1>1, <1>2, <1>3, <1>4, <1>5

(* A sync updates the object it is of, or is passed over.                  *)
LEMMA TakeSync ==
  ASSUME TypeOK, NoOrphans, Mirror, NEW m, Handles(m),
         m.kind \in {"sync", "lazy"},
         HandleObject(IdOf(m.object), m), UNCHANGED cDestroyed
  PROVE  Mirror'
<1> USE DEF Handles
<1>1. /\ m \in Named /\ m.object \in Objects /\ m.val \in Nat
      /\ IdOf(m.object) \in Ids /\ m.num \in Nat /\ m.num > 0
      /\ m.kind # "create" /\ m.kind # "destroy"
  BY HandlesSame, SentParts DEF Mirror, Numbered, Named
<1> DEFINE i == IdOf(m.object)
           Taken == cObject[i] # NoObject /\ SyncIsNew(i, m)
<1>2. cObject' = cObject
  BY <1>1 DEF HandleObject
<1>3. /\ cObject \in [Ids -> Objects \cup {NoObject}]
      /\ cVal \in [Ids -> Nat] /\ cLast \in [Ids -> Int]
      /\ live \subseteq Objects /\ \A o \in live : IdOf(o) \in Ids
      /\ \A o \in Objects : o \in Int
  BY IdOfType DEF TypeOK, ClientTypes, ObjectTypes, Objects
<1>4. \A j \in Ids : IF j = i /\ Taken
                     THEN cVal'[j] = m.val /\ cLast'[j] = m.num
                     ELSE cVal'[j] = cVal[j] /\ cLast'[j] = cLast[j]
  BY <1>1, <1>3 DEF HandleObject
<1>5. Taken => /\ m.object = cObject[i] /\ m.val >= cVal[i]
               /\ m.num > cLast[i] \/ cLast[i] = 0
  BY <1>1, NewerIsOwn
<1>6. /\ Numbered' /\ Silent' /\ Beliefs' /\ Named' \subseteq Named
  BY HandlesSame
<1>7. /\ \A n, j : DueOrder(n, j)' <=> DueOrder(n, j)
      /\ \A n, j : DueCreation(n, j)' <=> DueCreation(n, j)
  BY <1>1, HandlesSame DEF DueOrder, DueCreation
<1>8. \A j : OrderSent(j)' <=> OrderSent(j)
  BY <1>7 DEF OrderSent
<1>9. \A j : OrderKept(j)' <=> OrderKept(j)
  BY DEF OrderKept
<1>10. \A j : Order(j)' <=> Order(j)
  BY <1>8, <1>9 DEF Order
<1>11. \A j : CreationDue(j)' <=> CreationDue(j)
  BY <1>7 DEF CreationDue
<1>12. /\ \A o : Begun(o)' <=> Begun(o)
       /\ \A n, j : Unfinished(n, j)' <=> Unfinished(n, j)
  BY HandlesSame
<1> HIDE DEF i, Taken
<1>20. Latest'
  BY <1>2, <1>6 DEF Mirror, Latest
<1>21. Orders'
  BY <1>2, <1>7, <1>8, <1>9, <1>10, <1>11, <1>12 DEF Mirror, Orders
<1>22. Copies'
  <2>1. \A n \in Named' : n.kind = "create" /\ n.num \in cSeen' => n.num \in cSeen
    BY <1>1, <1>6, HandlesSame DEF Named
  <2>2. \A n \in Named' : n.kind = "create" /\ n.object \in live'
                            /\ n.num \in cSeen' =>
          cObject'[IdOf(n.object)] = n.object
    BY <1>2, <1>6, <2>1 DEF Mirror, Copies
  <2>3. \A j \in Ids, n \in pendingAcks' :
          DueCreation(n, j)' => cObject'[j] = NoObject
    BY <1>2, <1>7 DEF Mirror, Copies
  <2>4. \A j \in Ids : cObject'[j] # NoObject \/ CreationDue(j)' =>
         Order(j)' \/ \E o \in live' : IdOf(o) = j /\ Begun(o)'
    BY <1>2, <1>10, <1>11, <1>12 DEF Mirror, Copies
  <2> QED
    BY <2>2, <2>3, <2>4 DEF Copies
<1>23. KnownObjectsAgree'
  BY <1>2 DEF Mirror, KnownObjectsAgree
<1>24. Ages'
  <2>1. ASSUME NEW n \in Named', cObject'[IdOf(n.object)] # NoObject
        PROVE  LET j == IdOf(n.object) IN
                 /\ n.object <= cObject'[j]
                 /\ n.object < cObject'[j] => n.num <= cLast'[j]
                 /\ n.object = cObject'[j] /\ n.num > cLast'[j] =>
                      n.val >= cVal'[j]
    <3>1. n \in Named /\ n.object \in Objects /\ n.num \in Nat
          /\ IdOf(n.object) \in Ids /\ n.val \in Nat /\ n.num > 0
      BY <1>6, SentParts DEF Mirror, Numbered
    <3>2. LET j == IdOf(n.object) IN
            /\ n.object <= cObject[j]
            /\ n.object < cObject[j] => n.num <= cLast[j]
            /\ n.object = cObject[j] /\ n.num > cLast[j] => n.val >= cVal[j]
      BY <1>2, <2>1, <3>1 DEF Mirror, Ages
    <3>3. CASE IdOf(n.object) = i /\ Taken
      <4>1. n.object = m.object /\ m.num < n.num => m.val <= n.val
        BY <1>1, <3>1 DEF Mirror, Ages
      <4>2. cLast[i] \in Int /\ cObject'[i] = m.object /\ m.object \in Int
            /\ n.object \in Int /\ i \in Ids
        BY <1>1, <1>2, <1>3, <1>5, <3>1, <3>3
      <4> QED
        BY <1>1, <1>2, <1>4, <1>5, <3>1, <3>2, <3>3, <4>1, <4>2
    <3>4. CASE ~ (IdOf(n.object) = i /\ Taken)
      BY <1>2, <1>4, <3>1, <3>2, <3>4
    <3> QED
      BY <3>3, <3>4
  <2>2. \A j \in Ids : IF cObject'[j] = NoObject THEN cVal'[j] = 0
                        ELSE cVal'[j] <= val'[cObject'[j]]
    <3>1. m.val <= val[m.object]
      BY <1>1 DEF Mirror, Ages
    <3>2. Taken => cObject[i] # NoObject
      BY DEF Taken
    <3> QED
      BY <1>2, <1>4, <1>5, <3>1, <3>2 DEF Mirror, Ages
  <2>3. \A n \in Named' : n.val <= val'[n.object]
    BY <1>6 DEF Mirror, Ages
  <2>4. \A n, p \in Named' :
          /\ n.object = p.object /\ n.num < p.num => n.val <= p.val
          /\ IdOf(n.object) = IdOf(p.object) /\ n.object < p.object =>
               n.num < p.num
    BY <1>6 DEF Mirror, Ages
  <2> QED
    BY <2>1, <2>2, <2>3, <2>4 DEF Ages
<1> QED
  BY <1>6, <1>20, <1>21, <1>22, <1>23, <1>24 DEF Mirror

LEMMA ReceiveStep ==
  ASSUME TypeOK, NoOrphans, Mirror, NEW m \in dataNet, Receive(m)
  PROVE  Mirror'
<1> USE DEF objects, conn, window
<1>1. /\ dataNet' = dataNet \ {m} /\ cAcks' = cAcks \cup {m.num}
      /\ cSeen' = cSeen \cup {m.num}
      /\ UNCHANGED <<live, created, val, knowsAbout, socket, destroyers,
                     lastNum, pendingAcks, ackNet>>
  BY DEF Receive
<1>2. CASE m.num \in cSeen
  <2>1. UNCHANGED <<cObject, cVal, cLast, cDestroyed>>
    BY <1>2 DEF Receive
  <2>2. cAcks' \subseteq cSeen /\ cSeen' = cSeen
    BY <1>1, <1>2 DEF Mirror, Numbered
  <2>3. NetworkOnly
    BY <1>1, <2>1, <2>2 DEF NetworkOnly
  <2> QED
    BY <2>3, NetworkOnlyStep
<1>3. CASE m.num \notin cSeen
  <2>1. Handles(m)
    BY <1>1, <1>3 DEF Handles
  <2>2. CASE m.kind = "destroy"
    <3>1. /\ cDestroyed' = cDestroyed
                             \cup {[id |-> i, num |-> m.num] : i \in m.ids}
          /\ UNCHANGED <<cObject, cVal, cLast>>
      BY <1>3, <2>2 DEF Receive
    <3> QED
      BY <2>1, <2>2, <3>1, TakeOrders
  <2>3. CASE m.kind # "destroy"
    <3>1. HandleObject(IdOf(m.object), m) /\ UNCHANGED cDestroyed
      BY <1>3, <2>3 DEF Receive
    <3>2. m.kind = "create" \/ m.kind \in {"sync", "lazy"}
      BY <2>3, MessageParts DEF TypeOK, NetTypes
    <3> QED
      BY <2>1, <3>1, <3>2, TakeCreation, TakeSync
  <2> QED
    BY <2>2, <2>3
<1> QED
  BY <1>2, <1>3

(* The client has carried out the orders it could, and acknowledges them.  *)
LEMMA ReceivedCompleteStep ==
  ASSUME TypeOK, NoOrphans, Mirror, ReceivedComplete
  PROVE  Mirror'
<1>1. /\ ackNet' = ackNet \cup cAcks /\ cAcks' = {} /\ DoDestroy
      /\ UNCHANGED <<live, created, val, knowsAbout, socket, destroyers,
                     lastNum, pendingAcks, dataNet, cSeen>>
  BY DEF ReceivedComplete, objects, conn, window
<1> DEFINE Gone(i) == OrderKept(i) /\ cObject[i] # NoObject
<1>2. \A i \in Ids : IF Gone(i)
                     THEN cObject'[i] = NoObject /\ cVal'[i] = 0
                     ELSE /\ cObject'[i] = cObject[i] /\ cVal'[i] = cVal[i]
                          /\ cLast'[i] = cLast[i]
  BY <1>1 DEF DoDestroy, OrderKept
<1>3. \A i : OrderKept(i)' <=> OrderKept(i) /\ ~ Gone(i)
  BY <1>1 DEF DoDestroy, OrderKept
<1>4. /\ live \subseteq Objects /\ \A o \in live : IdOf(o) \in Ids
      /\ NoObject \notin Objects
      /\ \A o \in live : knowsAbout[o].exists \in BOOLEAN
  BY IdOfType DEF TypeOK, ObjectTypes, Objects, NoObject, Knowledge
<1>5. Sent' = Sent /\ Named' = Named /\ \A o : Begun(o)' <=> Begun(o)
  BY <1>1 DEF Sent, Named, Begun
<1>6. /\ \A n, i : DueOrder(n, i)' <=> DueOrder(n, i)
      /\ \A n, i : DueCreation(n, i)' <=> DueCreation(n, i)
  BY <1>1 DEF DueOrder, DueCreation, Due
<1>7. /\ \A i : OrderSent(i)' <=> OrderSent(i)
      /\ \A i : CreationDue(i)' <=> CreationDue(i)
  BY <1>1, <1>6 DEF OrderSent, CreationDue
<1>8. \A i \in Ids : Gone(i) => Order(i) /\ ~ Order(i)' /\ ~ CreationDue(i)
  <2> SUFFICES ASSUME NEW i \in Ids, Gone(i)
               PROVE  Order(i) /\ ~ Order(i)' /\ ~ CreationDue(i)
    OBVIOUS
  <2>1. ~ (i \in destroyers) /\ ~ OrderSent(i) /\ ~ OrderKept(i)'
    BY <1>3 DEF Mirror, Orders
  <2>2. ~ CreationDue(i)
    BY DEF Mirror, Copies, CreationDue
  <2> QED
    BY <1>1, <1>7, <2>1, <2>2 DEF Order
<1>9. \A i \in Ids : ~ Gone(i) => (Order(i)' <=> Order(i))
  BY <1>1, <1>3, <1>7 DEF Order
<1>10. \A o \in live : Begun(o) => ~ Gone(IdOf(o))
  BY <1>4, <1>8 DEF Mirror, Orders
<1> HIDE DEF Gone
<1>20. Numbered'
  BY <1>1, <1>5 DEF Mirror, Numbered
<1>21. Silent'
  BY <1>1 DEF Mirror, Silent, ReceivedComplete
<1>22. Latest'
  <2>1. \A i \in Ids : cObject'[i] # NoObject => cObject'[i] = cObject[i]
    BY <1>2
  <2>2. \A i \in Ids : cObject'[i] # NoObject =>
                         cObject'[i] <= created' /\ IdOf(cObject'[i]) = i
    BY <1>1, <2>1 DEF Mirror, Latest
  <2> QED
    BY <1>1, <1>5, <2>2 DEF Mirror, Latest
<1>23. Beliefs'
  BY <1>1, <1>5 DEF Mirror, Beliefs
<1>24. Orders'
  <2>1. \A o \in live' : Order(IdOf(o))' => ~ Begun(o)'
    BY <1>1, <1>4, <1>5, <1>8, <1>9 DEF Mirror, Orders
  <2>2. ASSUME NEW i \in Ids
        PROVE  /\ i \in destroyers' => ~ OrderSent(i)' /\ ~ OrderKept(i)'
               /\ ~ (OrderSent(i)' /\ OrderKept(i)')
               /\ Order(i)' => cObject'[i] # NoObject \/ CreationDue(i)'
    BY <1>1, <1>2, <1>3, <1>7, <1>8, <1>9 DEF Mirror, Orders
  <2>3. \A i \in Ids, n, p \in pendingAcks' :
          DueOrder(n, i)' /\ DueOrder(p, i)' => n = p
    BY <1>1, <1>6 DEF Mirror, Orders
  <2>4. \A i \in Ids : ~ (OrderKept(i)' /\ cObject'[i] # NoObject)
    BY <1>2, <1>3 DEF Gone
  <2> QED
    BY <2>1, <2>2, <2>3, <2>4 DEF Orders
<1>25. Copies'
  <2>1. \A i \in Ids, n \in pendingAcks' :
          DueCreation(n, i)' => cObject'[i] = NoObject
    BY <1>1, <1>2, <1>6 DEF Mirror, Copies
  <2>2. ASSUME NEW n \in Named', n.kind = "create", n.object \in live',
               n.num \in cSeen'
        PROVE  cObject'[IdOf(n.object)] = n.object
    <3>1. n \in Named /\ n.object \in live /\ n.num \in cSeen
      BY <1>1, <1>5, <2>2
    <3>2. cObject[IdOf(n.object)] = n.object /\ Begun(n.object)
      BY <2>2, <3>1 DEF Mirror, Copies, Beliefs
    <3> QED
      BY <1>2, <1>4, <1>10, <3>1, <3>2
  <2>3. \A i \in Ids : cObject'[i] # NoObject \/ CreationDue(i)' =>
         Order(i)' \/ \E o \in live' : IdOf(o) = i /\ Begun(o)'
    BY <1>1, <1>2, <1>5, <1>7, <1>8, <1>9 DEF Mirror, Copies
  <2> QED
    BY <2>1, <2>2, <2>3 DEF Copies
<1>26. KnownObjectsAgree'
  <2> SUFFICES ASSUME NEW o \in live, knowsAbout[o].exists
               PROVE  cObject'[IdOf(o)] = o
    BY <1>1 DEF KnownObjectsAgree
  <2>1. cObject[IdOf(o)] = o
    BY DEF Mirror, KnownObjectsAgree
  <2>2. knowsAbout[o].exists = TRUE
    BY <1>4
  <2>3. Begun(o)
    BY <2>2 DEF Begun
  <2> QED
    BY <1>2, <1>4, <1>10, <2>1, <2>3
<1>27. Ages'
  <2>1. \A n \in Named : IdOf(n.object) \in Ids
    BY SentParts
  <2>2. \A n \in Named' : LET i == IdOf(n.object) IN
          cObject'[i] # NoObject =>
            /\ n.object <= cObject'[i]
            /\ n.object < cObject'[i] => n.num <= cLast'[i]
            /\ n.object = cObject'[i] /\ n.num > cLast'[i] => n.val >= cVal'[i]
    BY <1>2, <1>5, <2>1 DEF Mirror, Ages
  <2>3. \A i \in Ids : IF cObject'[i] = NoObject THEN cVal'[i] = 0
                        ELSE cVal'[i] <= val'[cObject'[i]]
    BY <1>1, <1>2 DEF Mirror, Ages
  <2> QED
    BY <1>1, <1>5, <2>2, <2>3 DEF Mirror, Ages
<1> QED
  BY <1>20, <1>21, <1>22, <1>23, <1>24, <1>25, <1>26, <1>27 DEF Mirror

-----------------------------------------------------------------------------
(* The theorems.                                                           *)

LEMMA MirrorStep ==
  ASSUME QuietLogout
  PROVE  CountersInv /\ Mirror /\ [Next]_vars => Mirror'
<1> SUFFICES ASSUME TypeOK, NoOrphans, CountersExact, Mirror, [Next]_vars
             PROVE  Mirror'
  BY DEF CountersInv
<1>1. CASE Next
  BY <1>1, CreateObjectStep, ChangeObjectStep, DestroyObjectStep,
     SendDestroyerStep, SendCreationStep, SendSyncStep, ReceiveAckStep,
     NetworkSteps, LoginStep, LogoutStep, ReceiveStep, ReceivedCompleteStep
  DEF Next
<1>2. CASE UNCHANGED vars
  <2>1. cAcks \subseteq cSeen
    BY DEF Mirror, Numbered
  <2>2. NetworkOnly
    BY <1>2, <2>1 DEF NetworkOnly, vars, objects, conn, window, client
  <2> QED
    BY <2>2, NetworkOnlyStep
<1> QED
  BY <1>1, <1>2

(* What the server believes the client knows, the client has, as long as   *)
(* nobody leaves while a destroy message is being collected for it: an     *)
(* object whose creation was acknowledged stays on the client until the    *)
(* server destroys it, for any loss and any order of the messages.         *)
THEOREM ClientAgrees ==
  ASSUME QuietLogout
  PROVE  Spec => []KnownObjectsAgree
<1>1. Init => CountersInv /\ Mirror
  BY CountersInit, MirrorInit
<1>2. CountersInv /\ Mirror /\ [Next]_vars => CountersInv' /\ Mirror'
  BY CountersStep, MirrorStep
<1>3. Mirror => KnownObjectsAgree
  BY DEF Mirror
<1> QED
  BY <1>1, <1>2, <1>3, PTL DEF Spec

LEMMA AdvanceStep ==
  ASSUME TypeOK, Mirror, [Next]_vars, NEW i \in Ids, cObject'[i] = cObject[i]
  PROVE  cVal'[i] >= cVal[i]
<1> USE DEF client
<1>1. cVal[i] \in Nat /\ (cObject[i] = NoObject => cVal[i] = 0)
  BY DEF TypeOK, ClientTypes, Mirror, Ages
<1>2. CASE UNCHANGED cVal
  BY <1>1, <1>2
<1>3. CASE Logout
  BY <1>1, <1>3 DEF Logout, NewClient
<1>4. CASE ReceivedComplete
  <2>1. cVal'[i] = cVal[i] \/ (cVal'[i] = 0 /\ cObject'[i] = NoObject)
    BY <1>4 DEF ReceivedComplete, DoDestroy
  <2> QED
    BY <1>1, <2>1
<1>5. ASSUME NEW m \in dataNet, Receive(m) PROVE cVal'[i] >= cVal[i]
  <2>1. CASE UNCHANGED cVal
    BY <1>1, <2>1
  <2>2. CASE m.num \notin cSeen /\ m.kind # "destroy"
    <3>1. m \in Named /\ IdOf(m.object) \in Ids /\ m.object # NoObject
          /\ m.val \in Nat
      BY <2>2, SentParts DEF Named, Sent, Objects, NoObject
    <3> DEFINE j == IdOf(m.object)
    <3>2. HandleObject(j, m)
      BY <1>5, <2>2 DEF Receive
    <3>3. cVal \in [Ids -> Nat] /\ cObject \in [Ids -> Objects \cup {NoObject}]
      BY DEF TypeOK, ClientTypes
    <3>4. CASE cObject[j] # NoObject /\ SyncIsNew(j, m)
      <4>1. m.val >= cVal[j] /\ cVal' = [cVal EXCEPT ![j] = m.val]
        BY <3>1, <3>2, <3>4, NewerIsOwn DEF HandleObject
      <4> QED
        BY <1>1, <3>1, <3>3, <4>1
    <3>5. CASE cObject[j] = NoObject /\ m.kind = "create"
      <4>1. /\ cVal' = [cVal EXCEPT ![j] = m.val]
            /\ cObject' = [cObject EXCEPT ![j] = m.object]
        BY <3>2, <3>5 DEF HandleObject
      <4>2. i # j
        BY <3>1, <3>3, <3>5, <4>1
      <4> QED
        BY <1>1, <3>3, <4>1, <4>2
    <3>6. CASE \/ cObject[j] # NoObject /\ ~ SyncIsNew(j, m)
               \/ cObject[j] = NoObject /\ m.kind # "create"
      BY <1>1, <3>2, <3>6 DEF HandleObject
    <3> QED
      BY <3>4, <3>5, <3>6
  <2> QED
    BY <1>5, <2>1, <2>2 DEF Receive
<1>6. ASSUME NEW o \in Objects, SendCreation(o) \/ SendSync(o) PROVE UNCHANGED cVal
  BY <1>6 DEF SendCreation, SendSync
<1>7. ASSUME NEW m \in pendingAcks, Resend(m) PROVE UNCHANGED cVal
  BY <1>7 DEF Resend
<1>8. ASSUME NEW num \in ackNet, ReceiveAck(num) PROVE UNCHANGED cVal
  BY <1>8 DEF ReceiveAck
<1>9. CASE Next
  BY <1>2, <1>3, <1>4, <1>5, <1>6, <1>7, <1>8, <1>9
  DEF Next, CreateObject, ChangeObject, DestroyObject, SendDestroyer, Login,
      ReadyObjects, LoseMessage, LoseAck
<1> QED
  BY <1>2, <1>9 DEF vars

(* No step takes the client's copy of an object back to an earlier state,  *)
(* nor to one of another object that had the id before: an update that     *)
(* sn_Update lets through is a later one of the same object.               *)
THEOREM NeverOlder ==
  ASSUME QuietLogout
  PROVE  Spec => StateAdvances
<1>1. Init => CountersInv /\ Mirror
  BY CountersInit, MirrorInit
<1>2. CountersInv /\ Mirror /\ [Next]_vars => CountersInv' /\ Mirror'
  BY CountersStep, MirrorStep
<1>3. CountersInv /\ Mirror /\ [Next]_vars =>
        [\A i \in Ids : cObject'[i] = cObject[i] => cVal'[i] >= cVal[i]]_vars
  BY AdvanceStep DEF CountersInv
<1> QED
  BY <1>1, <1>2, <1>3, PTL DEF Spec, StateAdvances

-----------------------------------------------------------------------------
(* The client's copies and the server's objects are a replicated store.    *)

(* The server has begun to tell the client about what it has of the living.*)
Announced == \A o \in live : cObject[IdOf(o)] = o => Begun(o)

LEMMA AnnouncedInit == Init => Announced
BY DEF Init, Announced

(* Every step keeps that: only creation messages bring objects, and no     *)
(* note about an object that exists is dropped while its client stays.     *)
LEMMA AnnouncedStep ==
  ASSUME TypeOK, Mirror, Announced, [Next]_vars
  PROVE  Announced'
<1> USE DEF client, objects, conn, window
<1>1. /\ live \subseteq Objects /\ \A o \in Objects : IdOf(o) \in Ids
      /\ NoObject \notin Objects /\ \A o \in Objects : o \in Nat
      /\ created \in Nat
      /\ knowsAbout \in [Objects -> Knowledge]
      /\ cObject \in [Ids -> Objects \cup {NoObject}]
  BY IdOfType DEF TypeOK, ObjectTypes, ClientTypes, Objects, NoObject
<1>2. CASE CreateObject
  <2>1. \A o \in live' : o \in live \/ o = created + 1
    BY <1>2 DEF CreateObject
  <2>2. \A i \in Ids : cObject[i] # created + 1
    <3>1. \A i \in Ids : cObject[i] # NoObject => cObject[i] <= created
      BY DEF Mirror, Latest
    <3> QED
      BY <1>1, <3>1 DEF NoObject
  <2>3. \A o \in live : o # created + 1
    BY <1>1 DEF Mirror, Latest
  <2>4. created + 1 \in Objects
    BY <1>2 DEF CreateObject
  <2>5. \A o \in live : Begun(o)' <=> Begun(o)
    BY <1>1, <1>2, <2>3 DEF CreateObject, Begun
  <2> QED
    BY <1>1, <1>2, <2>1, <2>2, <2>4, <2>5 DEF CreateObject, Announced
<1>3. ASSUME NEW o \in Objects, NEW ack \in BOOLEAN, ChangeObject(o, ack)
      PROVE  Announced'
  BY <1>1, <1>3 DEF ChangeObject, Announced, Begun, Knowledge
<1>4. ASSUME NEW o \in Objects, DestroyObject(o)
      PROVE  Announced'
  BY <1>1, <1>4 DEF DestroyObject, Announced, Begun
<1>5. ASSUME NEW o \in Objects, SendCreation(o) \/ SendSync(o)
      PROVE  Announced'
  <2>1. knowsAbout[o].acksPending \in 0 .. 2
    BY <1>1 DEF Knowledge
  <2>2. \A p \in Objects : Begun(p) => Begun(p)'
    BY <1>1, <1>5, <2>1 DEF SendCreation, SendSync, Begun, Knowledge
  <2>3. UNCHANGED <<live, cObject>>
    BY <1>5 DEF SendCreation, SendSync
  <2> QED
    BY <1>1, <2>2, <2>3 DEF Announced
<1>6. ASSUME NEW num \in ackNet, ReceiveAck(num)
      PROVE  Announced'
  <2>1. UNCHANGED knowsAbout \/ \E m : knowsAbout' = Learn(m)
    BY <1>6 DEF ReceiveAck
  <2>2. ASSUME NEW p \in Objects, Begun(p)
        PROVE  Begun(p)'
    <3>1. \/ knowsAbout'[p] = knowsAbout[p]
          \/ \E n \in 0 .. 2 :
               knowsAbout'[p] =
                 [knowsAbout[p] EXCEPT !.exists = TRUE, !.acksPending = n]
      <4>1. knowsAbout[p].acksPending \in 0 .. 2
        BY <1>1 DEF Knowledge
      <4> DEFINE k == knowsAbout[p].acksPending
                 n == IF k > 0 THEN k - 1 ELSE 0
      <4>2. n \in 0 .. 2
        BY <4>1
      <4>3. ASSUME NEW m, knowsAbout' = Learn(m), knowsAbout'[p] # knowsAbout[p]
            PROVE  knowsAbout'[p] =
                     [knowsAbout[p] EXCEPT !.exists = TRUE, !.acksPending = n]
        BY <4>3, Zenon DEF Learn
      <4> QED
        BY <2>1, <4>2, <4>3
    <3>2. knowsAbout[p] \in Knowledge
      BY <1>1
    <3> QED
      BY <2>2, <3>1, <3>2 DEF Begun, Knowledge
  <2> QED
    BY <1>1, <1>6, <2>2 DEF ReceiveAck, Announced
<1>7. CASE Login
  <2>1. \A i \in Ids : cObject'[i] = NoObject
    BY <1>7 DEF Login, Mirror, Silent
  <2> QED
    BY <1>1, <1>7, <2>1 DEF Login, Announced
<1>8. CASE Logout
  BY <1>1, <1>8 DEF Logout, NewClient, Announced
<1>9. ASSUME NEW m \in dataNet, Receive(m)
      PROVE  Announced'
  <2>1. UNCHANGED <<live, knowsAbout>>
    BY <1>9 DEF Receive
  <2>2. CASE UNCHANGED cObject
    BY <2>1, <2>2 DEF Announced, Begun
  <2>3. CASE m.kind # "destroy" /\ m.kind = "create"
             /\ cObject' = [cObject EXCEPT ![IdOf(m.object)] = m.object]
    <3>1. m \in Named
      BY <2>3 DEF Named, Sent
    <3>2. m.object \in live => Begun(m.object)
      BY <3>1 DEF Mirror, Beliefs
    <3>3. \A o \in Objects : cObject'[IdOf(o)] = o => cObject[IdOf(o)] = o \/ o = m.object
      BY <1>1, <2>3
    <3> QED
      BY <1>1, <2>1, <3>2, <3>3 DEF Announced, Begun
  <2> QED
    BY <1>9, <2>2, <2>3 DEF Receive, HandleObject
<1>10. CASE ReceivedComplete
  <2>1. \A i \in Ids : cObject'[i] = cObject[i] \/ cObject'[i] = NoObject
    BY <1>10 DEF ReceivedComplete, DoDestroy
  <2> QED
    BY <1>1, <1>10, <2>1 DEF ReceivedComplete, Announced, Begun
<1>11. CASE UNCHANGED <<live, knowsAbout, cObject>>
  BY <1>11 DEF Announced, Begun
<1>12. ASSUME NEW m \in pendingAcks, Resend(m) PROVE Announced'
  BY <1>11, <1>12 DEF Resend
<1> QED
  BY <1>2, <1>3, <1>4, <1>5, <1>6, <1>7, <1>8, <1>9, <1>10, <1>11, <1>12
  DEF Next, SendDestroyer, ReadyObjects, LoseMessage, LoseAck, vars

LEMMA StoreInit == Init => Store!Init
<1> SUFFICES ASSUME Init PROVE Store!Init
  OBVIOUS
<1>1. (1 .. created) \ live = {}
  BY DEF Init
<1>2. {p \in Objects : cObject[IdOf(p)] = p} = {}
  BY IdOfType DEF Init, Objects, NoObject
<1>3. Replica = [o \in {} |-> 0]
  BY <1>2 DEF Replica
<1> QED
  BY <1>1, <1>3 DEF Init, Store!Init

LEMMA StoreStutters ==
  ASSUME UNCHANGED <<live, created, val, cObject, cVal>>
  PROVE  UNCHANGED Store!vars
BY DEF Store!vars, Replica

LEMMA StoreCreates ==
  ASSUME TypeOK, Mirror, CreateObject
  PROVE  \E o \in Objects : Store!Create(o)
<1> DEFINE o == created + 1
<1>1. /\ o \in Objects /\ live' = live \cup {o} /\ created' = o
      /\ UNCHANGED <<val, cObject, cVal>>
  BY DEF CreateObject, client
<1>2. live \subseteq 1 .. created /\ created \in Nat
  BY DEF TypeOK, ObjectTypes, Mirror, Latest, Objects
<1>3. o \notin live \cup ((1 .. created) \ live)
  BY <1>2
<1>4. (1 .. o) \ (live \cup {o}) = (1 .. created) \ live
  BY <1>2
<1>5. Replica' = Replica
  BY <1>1 DEF Replica
<1> QED
  BY <1>1, <1>3, <1>4, <1>5 DEF Store!Create

LEMMA StoreChanges ==
  ASSUME NEW o \in Objects, NEW ack \in BOOLEAN, ChangeObject(o, ack)
  PROVE  Store!Change(o)
BY DEF ChangeObject, client, Replica, Store!Change

LEMMA StoreDestroys ==
  ASSUME TypeOK, Mirror, NEW o \in Objects, DestroyObject(o)
  PROVE  Store!Destroy(o)
<1>1. /\ o \in live /\ live' = live \ {o}
      /\ UNCHANGED <<created, val, cObject, cVal>>
  BY DEF DestroyObject, client
<1>2. live \subseteq 1 .. created
  BY DEF TypeOK, ObjectTypes, Mirror, Latest, Objects
<1>3. (1 .. created) \ (live \ {o}) = ((1 .. created) \ live) \cup {o}
  BY <1>1, <1>2
<1>4. Replica' = Replica
  BY <1>1 DEF Replica
<1> QED
  BY <1>1, <1>3, <1>4 DEF Store!Destroy

LEMMA StoreReplaced ==
  ASSUME Logout
  PROVE  Store!Replace
<1>1. UNCHANGED <<live, created, val>> /\ cObject' = [i \in Ids |-> NoObject]
  BY DEF Logout, NewClient, objects
<1>2. {p \in Objects : cObject'[IdOf(p)] = p} = {}
  BY <1>1, IdOfType DEF Objects, NoObject
<1>3. Replica' = [o \in {} |-> 0]
  BY <1>2 DEF Replica
<1> QED
  BY <1>1, <1>3 DEF Store!Replace

(* What the client has under an id is a copy of the store.                 *)
LEMMA ReplicaHas ==
  ASSUME TypeOK, Mirror, NEW i \in Ids, cObject[i] # NoObject
  PROVE  /\ cObject[i] \in DOMAIN Replica /\ Replica[cObject[i]] = cVal[i]
         /\ cObject[i] \in 1 .. created /\ IdOf(cObject[i]) = i
         /\ cVal[i] \in 0 .. val[cObject[i]]
<1>1. cObject[i] \in Objects /\ IdOf(cObject[i]) = i /\ cObject[i] \in 1 .. created
  BY DEF TypeOK, ClientTypes, ObjectTypes, Mirror, Latest, Objects, NoObject
<1>2. cVal[i] \in Nat /\ val[cObject[i]] \in Nat /\ cVal[i] <= val[cObject[i]]
  BY <1>1 DEF TypeOK, ClientTypes, ObjectTypes, Mirror, Ages
<1> QED
  BY <1>1, <1>2 DEF Replica

(* A creation message brings an object the client has no copy of, in a     *)
(* state it was in when the message was sent.                              *)
LEMMA StoreAppears ==
  ASSUME TypeOK, Mirror, NEW m \in Named,
         UNCHANGED <<live, created, val>>,
         cObject[IdOf(m.object)] = NoObject,
         cObject' = [cObject EXCEPT ![IdOf(m.object)] = m.object],
         cVal' = [cVal EXCEPT ![IdOf(m.object)] = m.val]
  PROVE  Store!Appear(m.object)
<1> DEFINE o == m.object
           i == IdOf(o)
<1>1. o \in Objects /\ i \in Ids /\ m.val \in Nat /\ o # NoObject
  BY SentParts DEF Objects, NoObject
<1>2. o \in 1 .. created
  BY <1>1 DEF TypeOK, ObjectTypes, Mirror, Latest, Objects
<1>3. m.val \in 0 .. val[o]
  BY <1>1 DEF TypeOK, ObjectTypes, Mirror, Ages
<1>4. /\ cObject \in [Ids -> Objects \cup {NoObject}] /\ cVal \in [Ids -> Nat]
      /\ \A p \in Objects : IdOf(p) \in Ids /\ p # NoObject
  BY IdOfType DEF TypeOK, ClientTypes, Objects, NoObject
<1>5. o \notin DOMAIN Replica
  BY <1>1 DEF Replica
<1>6. {p \in Objects : cObject'[IdOf(p)] = p} = DOMAIN Replica \cup {o}
  BY <1>1, <1>4 DEF Replica
<1>7. \A p \in DOMAIN Replica : IdOf(p) # i /\ Replica[p] = cVal[IdOf(p)]
                                /\ p \in Objects
  BY <1>1, <1>4 DEF Replica
<1>8. Replica' = [p \in DOMAIN Replica \cup {o} |-> cVal'[IdOf(p)]]
  BY <1>6 DEF Replica
<1>9. \A p \in DOMAIN Replica \cup {o} :
        cVal'[IdOf(p)] = IF p = o THEN m.val ELSE Replica[p]
  BY <1>1, <1>4, <1>7, <1>5
<1>10. Replica' = [p \in DOMAIN Replica \cup {o} |->
                     IF p = o THEN m.val ELSE Replica[p]]
  BY <1>8, <1>9
<1> QED
  BY <1>2, <1>3, <1>5, <1>10 DEF Store!Appear

(* An update that sn_Update lets through is of the object the client has.  *)
LEMMA StoreRefreshes ==
  ASSUME TypeOK, Mirror, NEW m \in Named,
         UNCHANGED <<live, created, val, cObject>>,
         cObject[IdOf(m.object)] # NoObject, SyncIsNew(IdOf(m.object), m),
         cVal' = [cVal EXCEPT ![IdOf(m.object)] = m.val]
  PROVE  m.object \in DOMAIN Replica /\ Store!Refresh(m.object)
<1> DEFINE o == m.object
           i == IdOf(o)
<1>1. o \in Objects /\ i \in Ids /\ m.val \in Nat
  BY SentParts
<1>2. o = cObject[i] /\ m.val >= cVal[i]
  BY NewerIsOwn
<1>3. o \in DOMAIN Replica /\ Replica[o] = cVal[i]
  BY <1>1, <1>2, ReplicaHas
<1>4. m.val \in Replica[o] .. val[o]
  BY <1>1, <1>2, <1>3 DEF TypeOK, ObjectTypes, ClientTypes, Mirror, Ages
<1>5. cVal \in [Ids -> Nat] /\ \A p \in Objects : IdOf(p) \in Ids
  BY IdOfType DEF TypeOK, ClientTypes
<1>6. DOMAIN Replica = {p \in Objects : cObject[IdOf(p)] = p}
  BY DEF Replica
<1>7. Replica' = [p \in DOMAIN Replica |-> cVal'[IdOf(p)]]
  BY <1>6 DEF Replica
<1>8. \A p \in DOMAIN Replica :
        cVal'[IdOf(p)] = IF p = o THEN m.val ELSE Replica[p]
  BY <1>1, <1>2, <1>5, <1>6 DEF Replica
<1>9. Replica' = [Replica EXCEPT ![o] = m.val]
  <2>1. Replica = [p \in DOMAIN Replica |-> Replica[p]]
    BY DEF Replica
  <2> QED
    BY <1>7, <1>8, <2>1, <1>3
<1> QED
  BY <1>3, <1>4, <1>9 DEF Store!Refresh

(* The orders that the client carries out are for dead objects only: an    *)
(* object in existence that it has was announced to it, and no order is    *)
(* around for its id.                                                      *)
LEMMA StoreDisappears ==
  ASSUME TypeOK, Mirror, Announced, ReceivedComplete
  PROVE  \E gone \in SUBSET Objects : Store!Disappear(gone)
<1> DEFINE ids  == {d.id : d \in {e \in cDestroyed : cObject[e.id] # NoObject}}
           gone == {p \in DOMAIN Replica : IdOf(p) \in ids}
<1>1. /\ cObject' = [i \in Ids |-> IF i \in ids THEN NoObject ELSE cObject[i]]
      /\ cVal' = [i \in Ids |-> IF i \in ids THEN 0 ELSE cVal[i]]
      /\ UNCHANGED <<live, created, val>>
  BY DEF ReceivedComplete, DoDestroy, objects
<1>2. \A i \in ids : OrderKept(i)
  BY DEF OrderKept
<1> HIDE DEF ids
<1>3. DOMAIN Replica = {p \in Objects : cObject[IdOf(p)] = p}
  BY DEF Replica
<1>4. \A p \in Objects : IdOf(p) \in Ids /\ p # NoObject
  BY IdOfType DEF Objects, NoObject
<1>5. ASSUME NEW p \in gone
      PROVE  p \in (1 .. created) \ live
  <2>1. p \in 1 .. created
    BY <1>3, <1>4, ReplicaHas
  <2>2. p \notin live
    BY <1>2, <1>3 DEF Announced, Mirror, Orders, Order
  <2> QED
    BY <2>1, <2>2
<1>6. {p \in Objects : cObject'[IdOf(p)] = p} = DOMAIN Replica \ gone
  BY <1>1, <1>3, <1>4
<1>7. Replica' = [p \in DOMAIN Replica \ gone |-> cVal'[IdOf(p)]]
  BY <1>6 DEF Replica
<1>8. \A p \in DOMAIN Replica \ gone : cVal'[IdOf(p)] = Replica[p]
  BY <1>1, <1>3, <1>4 DEF Replica
<1>9. Replica' = [p \in DOMAIN Replica \ gone |-> Replica[p]]
  BY <1>7, <1>8
<1>10. gone \in SUBSET Objects
  BY <1>3
<1> HIDE DEF gone
<1> QED
  BY <1>1, <1>5, <1>9, <1>10 DEF Store!Disappear

LEMMA StoreReceives ==
  ASSUME TypeOK, Mirror, NEW m \in dataNet, Receive(m)
  PROVE  \/ \E o \in Objects : Store!Appear(o)
         \/ \E o \in DOMAIN Replica : Store!Refresh(o)
         \/ UNCHANGED Store!vars
<1>1. UNCHANGED <<live, created, val>>
  BY DEF Receive, objects
<1>2. CASE UNCHANGED <<cObject, cVal>>
  BY <1>1, <1>2, StoreStutters
<1>3. CASE m.num \notin cSeen /\ m.kind # "destroy"
  <2>1. HandleObject(IdOf(m.object), m)
    BY <1>3 DEF Receive
  <2>2. m \in Named /\ m.object \in Objects
    BY <1>3, SentParts DEF Named, Sent
  <2>3. CASE cObject[IdOf(m.object)] # NoObject /\ SyncIsNew(IdOf(m.object), m)
    BY <1>1, <2>1, <2>2, <2>3, StoreRefreshes DEF HandleObject
  <2>4. CASE cObject[IdOf(m.object)] = NoObject /\ m.kind = "create"
    BY <1>1, <2>1, <2>2, <2>4, StoreAppears DEF HandleObject
  <2> QED
    BY <1>2, <2>1, <2>3, <2>4 DEF HandleObject
<1> QED
  BY <1>2, <1>3 DEF Receive

(* Every step of the protocol is a step of the store or a stutter.         *)
LEMMA StoreStep ==
  ASSUME TypeOK, Mirror, Announced, [Next]_vars
  PROVE  [Store!Next]_Store!vars
<1> USE DEF client, objects
<1>1. CASE CreateObject
  BY <1>1, StoreCreates DEF Store!Next
<1>2. ASSUME NEW o \in Objects, NEW ack \in BOOLEAN, ChangeObject(o, ack)
      PROVE  Store!Next
  BY <1>2, StoreChanges DEF Store!Next
<1>3. ASSUME NEW o \in Objects, DestroyObject(o)
      PROVE  Store!Next
  BY <1>3, StoreDestroys DEF Store!Next
<1>4. CASE Logout
  BY <1>4, StoreReplaced DEF Store!Next
<1>5. ASSUME NEW m \in dataNet, Receive(m)
      PROVE  Store!Next \/ UNCHANGED Store!vars
  BY <1>5, StoreReceives DEF Store!Next
<1>6. CASE ReceivedComplete
  BY <1>6, StoreDisappears DEF Store!Next
<1>7. ASSUME NEW o \in Objects, SendCreation(o) \/ SendSync(o)
      PROVE  UNCHANGED Store!vars
  BY <1>7, StoreStutters DEF SendCreation, SendSync
<1>8. ASSUME NEW m \in pendingAcks, Resend(m)
      PROVE  UNCHANGED Store!vars
  BY <1>8, StoreStutters DEF Resend
<1>9. ASSUME NEW num \in ackNet, ReceiveAck(num)
      PROVE  UNCHANGED Store!vars
  BY <1>9, StoreStutters DEF ReceiveAck
<1>10. CASE \/ SendDestroyer \/ Login \/ ReadyObjects
            \/ \E m \in dataNet : LoseMessage(m)
            \/ \E num \in ackNet : LoseAck(num)
  BY <1>10, StoreStutters
  DEF SendDestroyer, Login, ReadyObjects, LoseMessage, LoseAck
<1>11. CASE UNCHANGED vars
  BY <1>11, StoreStutters DEF vars
<1> QED
  BY <1>1, <1>2, <1>3, <1>4, <1>5, <1>6, <1>7, <1>8, <1>9, <1>10, <1>11 DEF Next

(* As long as nobody leaves while a destroy message is being collected for *)
(* it, what the client has is a copy of what the server has or had: copies *)
(* are in states their objects were in, only get newer, and go only when   *)
(* their objects are destroyed or the client is replaced, for any loss and *)
(* any order of the messages and although ids are used again.              *)
THEOREM ReplicationImplementsStore ==
  ASSUME QuietLogout
  PROVE  Spec => ImplementsStore
<1>1. Init => CountersInv /\ Mirror /\ Announced /\ Store!Init
  BY CountersInit, MirrorInit, AnnouncedInit, StoreInit
<1>2. CountersInv /\ Mirror /\ Announced /\ [Next]_vars =>
        CountersInv' /\ Mirror' /\ Announced'
  BY CountersStep, MirrorStep, AnnouncedStep DEF CountersInv
<1>3. CountersInv /\ Mirror /\ Announced /\ [Next]_vars =>
        [Store!Next]_Store!vars
  BY StoreStep DEF CountersInv
<1> QED
  BY <1>1, <1>2, <1>3, PTL DEF Spec, ImplementsStore, Store!Spec
=============================================================================
