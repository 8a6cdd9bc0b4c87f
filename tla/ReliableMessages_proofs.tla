----------------------- MODULE ReliableMessages_proofs -----------------------
(***************************************************************************)
(* Proofs about ReliableMessages: type correctness; that no message is     *)
(* lost, for every identifier space, ring size, window and pace allowed by *)
(* the assumptions on the constants; and, for a pace that the ring and the *)
(* fresh window are made for, that no message is handled twice and that    *)
(* the protocol implements the service of MessageService.                  *)
(***************************************************************************)
EXTENDS ReliableMessages, FiniteSetTheorems, TLAPS

-----------------------------------------------------------------------------
(* Arithmetic of wire identifiers.                                         *)

(* A wire identifier is one of the IdSpace values.                         *)
LEMMA WireType ==
  ASSUME NEW a \in Int
  PROVE  Wire(a) \in WireIds
BY IdsAssumption DEF Wire, WireIds

(* The full identifier is the wire identifier plus a number of whole laps. *)
LEMMA WireLaps ==
  ASSUME NEW a \in Int
  PROVE  a = IdSpace * (a \div IdSpace) + Wire(a)
BY IdsAssumption DEF Wire

(* No multiple of the identifier space but zero is shorter than a lap.     *)
LEMMA LessThanALap ==
  ASSUME NEW d \in Int, IdSpace * d < IdSpace, -IdSpace < IdSpace * d
  PROVE  d = 0
BY IdsAssumption

(* Two messages less than a lap apart are told apart by their wire ids:    *)
(* the reason the code may compare 16 bit values.                          *)
LEMMA WireInjective ==
  ASSUME NEW a \in Nat, NEW b \in Nat, Wire(a) = Wire(b),
         a - b < IdSpace, b - a < IdSpace
  PROVE  a = b
<1> DEFINE la == a \div IdSpace
           lb == b \div IdSpace
<1>1. la \in Int /\ lb \in Int /\ Wire(a) \in Int /\ IdSpace \in Int
  BY IdsAssumption, WireType DEF WireIds
<1>2. a = IdSpace * la + Wire(a) /\ b = IdSpace * lb + Wire(a)
  BY WireLaps
<1> HIDE DEF la, lb
<1>3. a - b = IdSpace * (la - lb)
  BY <1>1, <1>2
<1>4. la - lb = 0
  BY <1>1, <1>3, LessThanALap
<1> QED
  BY <1>1, <1>3, <1>4

(* The message constructor counts up and never uses a reserved identifier. *)
LEMMA NextIdProperties ==
  ASSUME NEW a \in Nat
  PROVE  /\ NextId(a) \in Nat
         /\ NextId(a) > a
         /\ Wire(NextId(a)) > IdsReserved
<1>1. NextId(a) \in Nat /\ NextId(a) > a
  BY IdsAssumption DEF NextId
<1>2. CASE Wire(a + 1) <= IdsReserved
  <2>1. Wire(a + 1) + IdsReserved + 1 < IdSpace
    BY <1>2, IdsAssumption, WireType DEF WireIds
  <2>2. a + 1 = IdSpace * ((a + 1) \div IdSpace) + Wire(a + 1)
    BY WireLaps
  <2>3. Wire(a + IdsReserved + 2) = Wire(a + 1) + IdsReserved + 1
    BY <2>1, <2>2, IdsAssumption DEF Wire
  <2> QED
    BY <1>2, <2>3, IdsAssumption, WireType DEF NextId, WireIds
<1>3. CASE ~ (Wire(a + 1) <= IdsReserved)
  BY <1>3, IdsAssumption, WireType DEF NextId, WireIds
<1> QED
  BY <1>1, <1>2, <1>3

(* Zero, the value of an empty ring slot, is the wire id of no message.    *)
LEMMA WireZero == Wire(0) = 0
BY IdsAssumption DEF Wire

-----------------------------------------------------------------------------
(* The inductive invariant.                                                *)

(* Every message of this connection was posted, got an identifier the      *)
(* counter has passed, and that identifier is not reserved.                *)
PostedIds ==
  /\ \A m \in posted : m <= current_id /\ Wire(m) # 0
  /\ send_queue \cup pendingAcks \cup dataNet \cup handled \subseteq posted

(* What is acknowledged, and what the ring remembers, has been handled.    *)
HandledIds ==
  /\ AckQueue \subseteq handled
  /\ \A ids \in ackNet : ids \subseteq handled
  /\ \A i \in Slots : lastacks[i] # None => lastacks[i] \in handled

(* Nothing on its way, and nothing remembered, is older than the pace of   *)
(* the environment allows.                                                 *)
Recent ==
  /\ \A m \in send_queue \cup pendingAcks \cup dataNet \cup AckQueue :
        current_id - m <= MaxLag
  /\ \A ids \in ackNet : \A m \in ids : current_id - m <= MaxLag
  /\ \A m \in Remembered \ {None} : current_id - m <= MaxRingSpan

Inv ==
  /\ TypeOK
  /\ PostedIds
  /\ HandledIds
  /\ Recent
  /\ NothingLost

-----------------------------------------------------------------------------
(* Lemmas about the helpers of the specification.                          *)

(* The acknowledgement queue after one more entry.                         *)
LEMMA AppendAck ==
  ASSUME NEW q \in Seq(Nat), NEW m \in Nat
  PROVE  /\ Append(q, m) \in Seq(Nat)
         /\ Len(Append(q, m)) = Len(q) + 1
         /\ {Append(q, m)[i] : i \in DOMAIN Append(q, m)}
              = {q[i] : i \in DOMAIN q} \cup {m}
<1>1. Append(q, m) \in Seq(Nat) /\ Len(Append(q, m)) = Len(q) + 1
  OBVIOUS
<1>2. DOMAIN Append(q, m) = 1 .. Len(q) + 1 /\ DOMAIN q = 1 .. Len(q)
  OBVIOUS
<1>3. \A i \in 1 .. Len(q) : Append(q, m)[i] = q[i]
  OBVIOUS
<1>4. Append(q, m)[Len(q) + 1] = m
  OBVIOUS
<1>5. 1 .. Len(q) + 1 = (1 .. Len(q)) \cup {Len(q) + 1}
  OBVIOUS
<1> QED
  BY <1>1, <1>2, <1>3, <1>4, <1>5

(* The acknowledgements in the queue are full identifiers.                 *)
LEMMA AckQueueType ==
  ASSUME acks \in Seq(Nat)
  PROVE  AckQueue \subseteq Nat
BY DEF AckQueue

(* What rec_peer does to the acknowledgement queue and the network, in the *)
(* terms of sets: one more identifier, and nothing else, is acknowledged.  *)
LEMMA QueueAckEffect ==
  ASSUME acks \in Seq(Nat), Len(acks) <= AckFlush, NEW m \in Nat, QueueAck(m)
  PROVE  /\ acks' \in Seq(Nat) /\ Len(acks') <= AckFlush
         /\ AckQueue' \subseteq AckQueue \cup {m}
         /\ \/ ackNet' = ackNet
            \/ ackNet' = ackNet \cup {AckQueue \cup {m}}
<1> DEFINE queue == Append(acks, m)
<1>1. queue \in Seq(Nat) /\ Len(queue) = Len(acks) + 1
  BY AppendAck
<1>2. {queue[i] : i \in DOMAIN queue} = AckQueue \cup {m}
  BY AppendAck DEF AckQueue
<1>3. CASE Len(queue) > AckFlush
  <2>1. acks' = <<>> /\ ackNet' = ackNet \cup {AckQueue \cup {m}}
    BY <1>2, <1>3 DEF QueueAck
  <2>2. AckQueue' = {}
    BY <2>1 DEF AckQueue
  <2> QED
    BY <2>1, <2>2, ReliableAssumption
<1>4. CASE ~ (Len(queue) > AckFlush)
  <2>1. acks' = queue /\ ackNet' = ackNet
    BY <1>4 DEF QueueAck
  <2>2. AckQueue' = AckQueue \cup {m}
    BY <2>1, <1>2 DEF AckQueue
  <2> QED
    BY <2>1, <2>2, <1>1, <1>4, ReliableAssumption
<1> QED
  BY <1>3, <1>4

(* The window of unacknowledged messages, with one more message in it and  *)
(* with some taken out.                                                    *)
LEMMA WindowGrows ==
  ASSUME NEW S, IsFiniteSet(S), Cardinality(S) < MaxNoAck, NEW m
  PROVE  IsFiniteSet(S \cup {m}) /\ Cardinality(S \cup {m}) <= MaxNoAck
<1>1. Cardinality(S) \in Nat
  BY FS_CardinalityType
<1>2. /\ IsFiniteSet(S \cup {m})
      /\ \/ Cardinality(S \cup {m}) = Cardinality(S)
         \/ Cardinality(S \cup {m}) = Cardinality(S) + 1
  BY FS_AddElement
<1> QED
  BY <1>1, <1>2, ReliableAssumption

(* And taking messages out of it does too.                                 *)
LEMMA WindowShrinks ==
  ASSUME NEW S, IsFiniteSet(S), Cardinality(S) <= MaxNoAck,
         NEW T \in SUBSET S
  PROVE  IsFiniteSet(T) /\ Cardinality(T) <= MaxNoAck
<1>1. /\ IsFiniteSet(T) /\ Cardinality(T) <= Cardinality(S)
      /\ Cardinality(T) \in Nat /\ Cardinality(S) \in Nat
  BY FS_Subset, FS_CardinalityType
<1> QED
  BY <1>1, ReliableAssumption

-----------------------------------------------------------------------------
(* Type correctness.                                                       *)

(* The types hold in the beginning.                                        *)
LEMMA TypeInit == Init => TypeOK
<1> SUFFICES ASSUME Init PROVE TypeOK
  OBVIOUS
<1>1. IsFiniteSet(pendingAcks) /\ Cardinality(pendingAcks) <= MaxNoAck
  BY FS_EmptySet, ReliableAssumption DEF Init
<1> QED
  BY <1>1, IdsAssumption, ReliableAssumption
  DEF Init, TypeOK, Slots, None, WireIds

(* Every step keeps the variables in their types, one action at a time.    *)
LEMMA TypeStep == TypeOK /\ [Next]_vars => TypeOK'
<1> SUFFICES ASSUME TypeOK, [Next]_vars
             PROVE  TypeOK'
  OBVIOUS
<1> USE DEF TypeOK, sender, network, receiver
<1>1. CASE PostMessage
  <2>1. current_id' \in Nat
    BY <1>1, NextIdProperties DEF PostMessage, Advance
  <2>2. dataNet' \subseteq dataNet /\ ackNet' \subseteq ackNet
    BY <1>1 DEF PostMessage, Advance
  <2> QED
    BY <1>1, <2>1, <2>2 DEF PostMessage
<1>2. CASE OtherPeersMessage
  <2>1. current_id' \in Nat
    BY <1>2, NextIdProperties DEF OtherPeersMessage, Advance
  <2>2. dataNet' \subseteq dataNet /\ ackNet' \subseteq ackNet
    BY <1>2 DEF OtherPeersMessage, Advance
  <2> QED
    BY <1>2, <2>1, <2>2 DEF OtherPeersMessage
<1>3. ASSUME NEW m \in send_queue, SendPlanned(m)
      PROVE  TypeOK'
  <2>1. IsFiniteSet(pendingAcks') /\ Cardinality(pendingAcks') <= MaxNoAck
    BY <1>3, WindowGrows DEF SendPlanned
  <2> QED
    BY <1>3, <2>1 DEF SendPlanned
<1>4. ASSUME NEW m \in pendingAcks, Resend(m)
      PROVE  TypeOK'
  BY <1>4, ReliableAssumption DEF Resend, CountTimeout
<1>5. CASE TotalTimeout
  <2>1. IsFiniteSet(pendingAcks') /\ Cardinality(pendingAcks') <= MaxNoAck
    BY <1>5, FS_EmptySet, ReliableAssumption DEF TotalTimeout, Disconnect
  <2>2. timeouts' \in 0 .. TimeoutLimit + 1
    BY <1>5, ReliableAssumption DEF TotalTimeout, Disconnect, CountTimeout
  <2> QED
    BY <1>5, <2>1, <2>2 DEF TotalTimeout, Disconnect
<1>6. ASSUME NEW m \in dataNet, ReceiveMessage(m)
      PROVE  TypeOK'
  <2>1. m \in Nat /\ Wire(m) \in WireIds
    BY WireType
  <2>2. /\ acks' \in Seq(Nat) /\ Len(acks') <= AckFlush
        /\ ackNet' \subseteq SUBSET Nat
    <3>1. QueueAck(m) /\ AckQueue \cup {m} \in SUBSET Nat
      BY <1>6, <2>1, AckQueueType DEF ReceiveMessage
    <3>2. acks \in Seq(Nat) /\ Len(acks) <= AckFlush
      OBVIOUS
    <3>3. /\ acks' \in Seq(Nat) /\ Len(acks') <= AckFlush
          /\ \/ ackNet' = ackNet
             \/ ackNet' = ackNet \cup {AckQueue \cup {m}}
      BY <2>1, <3>1, <3>2, QueueAckEffect
    <3> QED
      BY <3>1, <3>3
  <2>3. highest_ack' \in WireIds
    BY <1>6, <2>1 DEF ReceiveMessage
  <2>4. lastacks' \in [Slots -> Nat]
    BY <1>6, <2>1 DEF ReceiveMessage
  <2>5. lastackPos' \in Slots
    BY <1>6, ReliableAssumption DEF ReceiveMessage, Slots, NextSlot
  <2>6. handled' \subseteq Nat /\ handledTwice' \subseteq Nat
    BY <1>6, <2>1 DEF ReceiveMessage
  <2> QED
    BY <1>6, <2>2, <2>3, <2>4, <2>5, <2>6 DEF ReceiveMessage
<1>7. CASE SendAcks
  <2>1. acks' \in Seq(Nat) /\ Len(acks') <= AckFlush
    BY <1>7, ReliableAssumption DEF SendAcks
  <2>2. ackNet' \subseteq SUBSET Nat
    BY <1>7, AckQueueType DEF SendAcks
  <2> QED
    BY <1>7, <2>1, <2>2 DEF SendAcks
<1>8. ASSUME NEW ackIds \in ackNet, ReceiveAcks(ackIds)
      PROVE  TypeOK'
  <2>1. pendingAcks' \subseteq pendingAcks
    BY <1>8 DEF ReceiveAcks
  <2>2. IsFiniteSet(pendingAcks') /\ Cardinality(pendingAcks') <= MaxNoAck
    BY <2>1, WindowShrinks
  <2>3. timeouts' \in 0 .. TimeoutLimit + 1
    BY <1>8, ReliableAssumption DEF ReceiveAcks
  <2> QED
    BY <1>8, <2>1, <2>2, <2>3 DEF ReceiveAcks
<1>9. ASSUME NEW m \in dataNet, LoseData(m)
      PROVE  TypeOK'
  BY <1>9 DEF LoseData
<1>10. ASSUME NEW ackIds \in ackNet, LoseAcks(ackIds)
       PROVE  TypeOK'
  BY <1>10 DEF LoseAcks
<1>11. CASE SendQueueOverflow
  <2>1. IsFiniteSet(pendingAcks') /\ Cardinality(pendingAcks') <= MaxNoAck
    BY <1>11, FS_EmptySet, ReliableAssumption DEF SendQueueOverflow, Disconnect
  <2> QED
    BY <1>11, <2>1 DEF SendQueueOverflow, Disconnect
<1>12. CASE UNCHANGED vars
  BY <1>12 DEF vars
<1> QED
  BY <1>1, <1>2, <1>3, <1>4, <1>5, <1>6, <1>7, <1>8, <1>9, <1>10, <1>11, <1>12
  DEF Next

(* TypeOK holds in every reachable state: in particular never more than    *)
(* sn_maxNoAck messages await an acknowledgement, and the ring position    *)
(* stays in the ring.                                                      *)
THEOREM TypeCorrect == Spec => []TypeOK
BY TypeInit, TypeStep, PTL DEF Spec

-----------------------------------------------------------------------------
(* No message is lost.                                                     *)

(* A message the duplicate check rejects has been handled: the ring entry  *)
(* with its wire id is less than a lap away, so it is the same message.    *)
LEMMA RejectedWasHandled ==
  ASSUME Inv, NEW m \in dataNet, ~ IsNew(m)
  PROVE  m \in handled
<1>1. PICK i \in Slots : Wire(lastacks[i]) = Wire(m)
  BY DEF IsNew
<1>2. m \in posted /\ m \in Nat /\ Wire(m) # 0 /\ m <= current_id
  BY DEF Inv, TypeOK, PostedIds
<1>3. lastacks[i] # None /\ lastacks[i] \in handled
  BY <1>1, <1>2, WireZero DEF Inv, HandledIds, None
<1>4. lastacks[i] \in Nat /\ lastacks[i] <= current_id
  BY <1>3 DEF Inv, TypeOK, PostedIds
<1>5. current_id - lastacks[i] < IdSpace
  <2>1. current_id - lastacks[i] <= MaxRingSpan
    BY <1>3 DEF Inv, Recent, Remembered
  <2> QED
    BY <2>1, <1>4, ReliableAssumption, IdsAssumption DEF Inv, TypeOK
<1>6. current_id - m < IdSpace
  <2>1. current_id - m <= MaxLag
    BY DEF Inv, Recent
  <2> QED
    BY <2>1, <1>2, ReliableAssumption, IdsAssumption DEF Inv, TypeOK
<1>7. current_id \in Nat
  BY DEF Inv, TypeOK
<1>8. lastacks[i] - m < IdSpace /\ m - lastacks[i] < IdSpace
  BY <1>2, <1>4, <1>5, <1>6, <1>7, IdsAssumption
<1> QED
  BY <1>1, <1>2, <1>3, <1>4, <1>8, WireInjective

(* An acknowledgement that matches a pending message is that message's.    *)
LEMMA AckedWasHandled ==
  ASSUME Inv, NEW ids \in ackNet, NEW p \in pendingAcks, Acked(p, ids)
  PROVE  p \in handled
<1>1. PICK a \in ids : Wire(a) = Wire(p)
  BY DEF Acked
<1>2. a \in handled /\ a \in Nat /\ a <= current_id
  BY DEF Inv, TypeOK, HandledIds, PostedIds
<1>3. p \in Nat /\ p <= current_id /\ current_id \in Nat
  BY DEF Inv, TypeOK, PostedIds
<1>4. current_id - a <= MaxLag /\ current_id - p <= MaxLag
  BY DEF Inv, Recent
<1>5. a - p < IdSpace /\ p - a < IdSpace
  BY <1>2, <1>3, <1>4, ReliableAssumption, IdsAssumption
<1> QED
  BY <1>1, <1>2, <1>3, <1>5, WireInjective

(* The inductive invariant holds in the beginning.                         *)
LEMMA InvInit == Init => Inv
<1> SUFFICES ASSUME Init PROVE Inv
  OBVIOUS
<1>1. TypeOK
  BY TypeInit
<1>2. PostedIds
  BY DEF Init, PostedIds
<1>3. AckQueue = {} /\ Remembered \ {None} = {}
  BY DEF Init, AckQueue, Remembered
<1>4. HandledIds
  BY <1>3 DEF Init, HandledIds
<1>5. Recent
  BY <1>3 DEF Init, Recent
<1>6. NothingLost
  BY DEF Init, NothingLost
<1> QED
  BY <1>1, <1>2, <1>4, <1>5, <1>6 DEF Inv

(* The counter moves on: what is on its way ages, within the pace.         *)
LEMMA AdvanceAges ==
  ASSUME Inv, Advance(NextId(current_id)), UNCHANGED <<acks, lastacks>>
  PROVE  /\ current_id' \in Nat /\ current_id' > current_id
         /\ Wire(current_id') # 0
         /\ \A m \in send_queue \cup pendingAcks \cup dataNet' \cup AckQueue' :
               current_id' - m <= MaxLag
         /\ \A ids \in ackNet' : \A m \in ids : current_id' - m <= MaxLag
         /\ \A m \in Remembered' \ {None} : current_id' - m <= MaxRingSpan
         /\ dataNet' \subseteq dataNet /\ ackNet' \subseteq ackNet
         /\ AckQueue' = AckQueue
<1>1. current_id' = NextId(current_id) /\ current_id \in Nat
  BY DEF Advance, Inv, TypeOK
<1>2. AckQueue' = AckQueue /\ Remembered' = Remembered
  BY DEF AckQueue, Remembered
<1>3. /\ current_id' \in Nat /\ current_id' > current_id
      /\ Wire(current_id') # 0
  BY <1>1, NextIdProperties, WireType, IdsAssumption DEF WireIds
<1> QED
  BY <1>1, <1>2, <1>3 DEF Advance

(* The invariant is inductive: one step per action.                        *)
LEMMA InvStep == Inv /\ [Next]_vars => Inv'
<1> SUFFICES ASSUME Inv, [Next]_vars
             PROVE  Inv'
  OBVIOUS
<1>0. TypeOK /\ TypeOK'
  BY TypeStep DEF Inv
<1> SUFFICES PostedIds' /\ HandledIds' /\ Recent' /\ NothingLost'
  BY <1>0 DEF Inv
<1> USE DEF sender, network, receiver
<1>1. CASE PostMessage
  <2>1. UNCHANGED <<acks, lastacks, handled, pendingAcks>> /\ socket
    BY <1>1 DEF PostMessage
  <2>2. Advance(NextId(current_id))
    BY <1>1 DEF PostMessage
  <2>3. posted' = posted \cup {current_id'}
        /\ send_queue' = send_queue \cup {current_id'}
    BY <1>1 DEF PostMessage
  <2>4. current_id' - current_id' <= MaxLag
    BY <2>1, <2>2, AdvanceAges, ReliableAssumption
  <2>5. PostedIds'
    BY <1>0, <2>1, <2>2, <2>3, AdvanceAges DEF PostedIds, Inv, TypeOK
  <2>6. HandledIds'
    BY <2>1, <2>2, AdvanceAges DEF HandledIds, Inv
  <2>7. Recent'
    BY <2>1, <2>2, <2>3, <2>4, AdvanceAges DEF Recent, Inv
  <2>8. NothingLost'
    BY <1>1, <2>1, <2>3 DEF NothingLost, Inv
  <2> QED
    BY <2>5, <2>6, <2>7, <2>8
<1>2. CASE OtherPeersMessage
  <2>1. UNCHANGED <<acks, lastacks, handled, pendingAcks, posted, send_queue,
                    socket>>
    BY <1>2 DEF OtherPeersMessage
  <2>2. Advance(NextId(current_id))
    BY <1>2 DEF OtherPeersMessage
  <2>3. PostedIds'
    BY <1>0, <2>1, <2>2, AdvanceAges DEF PostedIds, Inv, TypeOK
  <2>4. HandledIds'
    BY <2>1, <2>2, AdvanceAges DEF HandledIds, Inv
  <2>5. Recent'
    BY <2>1, <2>2, AdvanceAges DEF Recent, Inv
  <2>6. NothingLost'
    BY <2>1 DEF NothingLost, Inv
  <2> QED
    BY <2>3, <2>4, <2>5, <2>6
<1>3. ASSUME NEW m \in send_queue, SendPlanned(m)
      PROVE  PostedIds' /\ HandledIds' /\ Recent' /\ NothingLost'
  BY <1>3 DEF SendPlanned, Inv, PostedIds, HandledIds, Recent, NothingLost,
     AckQueue, Remembered
<1>4. ASSUME NEW m \in pendingAcks, Resend(m)
      PROVE  PostedIds' /\ HandledIds' /\ Recent' /\ NothingLost'
  BY <1>4 DEF Resend, Inv, PostedIds, HandledIds, Recent, NothingLost,
     AckQueue, Remembered
<1>5. CASE TotalTimeout
  BY <1>5 DEF TotalTimeout, Disconnect, Inv, PostedIds, HandledIds, Recent, NothingLost,
     AckQueue, Remembered
<1>6. ASSUME NEW m \in dataNet, ReceiveMessage(m)
      PROVE  PostedIds' /\ HandledIds' /\ Recent' /\ NothingLost'
  <2>1. m \in posted /\ m \in Nat /\ current_id - m <= MaxLag
        /\ m <= current_id /\ current_id \in Nat
    BY DEF Inv, PostedIds, Recent, TypeOK
  <2>2. UNCHANGED <<current_id, posted, send_queue, pendingAcks, socket,
                    dataNet>>
    BY <1>6 DEF ReceiveMessage
  <2>3. handled' = handled \cup {m}
    BY <1>6, RejectedWasHandled DEF ReceiveMessage
  <2>4. \A i \in Slots : lastacks'[i] = lastacks[i] \/ lastacks'[i] = m
    BY <1>0, <1>6 DEF ReceiveMessage, TypeOK
  <2>5. AckQueue' \subseteq AckQueue \cup {m}
        /\ \A ids \in ackNet' : ids \in ackNet \/ ids = AckQueue \cup {m}
    BY <1>0, <1>6, <2>1, QueueAckEffect DEF ReceiveMessage, TypeOK
  <2>6. PostedIds'
    BY <2>1, <2>2, <2>3 DEF PostedIds, Inv
  <2>7. HandledIds'
    BY <2>3, <2>4, <2>5 DEF HandledIds, Inv
  <2>8. Remembered' \subseteq Remembered \cup {m}
    BY <2>4 DEF Remembered
  <2>9. current_id - m <= MaxRingSpan
    BY <2>1, ReliableAssumption
  <2>10. Recent'
    BY <2>1, <2>2, <2>5, <2>8, <2>9 DEF Recent, Inv
  <2>11. NothingLost'
    BY <2>2, <2>3 DEF NothingLost, Inv
  <2> QED
    BY <2>6, <2>7, <2>10, <2>11
<1>7. CASE SendAcks
  <2>1. AckQueue' = {} /\ ackNet' = ackNet \cup {AckQueue}
    BY <1>7 DEF SendAcks, AckQueue
  <2> QED
    BY <1>7, <2>1 DEF SendAcks, Inv, PostedIds, HandledIds, Recent,
       NothingLost, Remembered
<1>8. ASSUME NEW ackIds \in ackNet, ReceiveAcks(ackIds)
      PROVE  PostedIds' /\ HandledIds' /\ Recent' /\ NothingLost'
  <2>1. pendingAcks' \subseteq pendingAcks
        /\ \A p \in pendingAcks \ pendingAcks' : p \in handled
    BY <1>8, AckedWasHandled DEF ReceiveAcks
  <2> QED
    BY <1>8, <2>1 DEF ReceiveAcks, Inv, PostedIds, HandledIds, Recent,
       NothingLost, AckQueue, Remembered
<1>9. ASSUME NEW m \in dataNet, LoseData(m)
      PROVE  PostedIds' /\ HandledIds' /\ Recent' /\ NothingLost'
  BY <1>9 DEF LoseData, Inv, PostedIds, HandledIds, Recent, NothingLost,
     AckQueue, Remembered
<1>10. ASSUME NEW ackIds \in ackNet, LoseAcks(ackIds)
       PROVE  PostedIds' /\ HandledIds' /\ Recent' /\ NothingLost'
  BY <1>10 DEF LoseAcks, Inv, PostedIds, HandledIds, Recent, NothingLost,
     AckQueue, Remembered
<1>11. CASE SendQueueOverflow
  BY <1>11 DEF SendQueueOverflow, Disconnect, Inv, PostedIds, HandledIds,
     Recent, NothingLost, AckQueue, Remembered
<1>12. CASE UNCHANGED vars
  BY <1>12 DEF vars, Inv, PostedIds, HandledIds, Recent, NothingLost,
     AckQueue, Remembered
<1> QED
  BY <1>1, <1>2, <1>3, <1>4, <1>5, <1>6, <1>7, <1>8, <1>9, <1>10, <1>11, <1>12
  DEF Next

(* The invariant holds in every reachable state.                           *)
THEOREM Invariance == Spec => []Inv
BY InvInit, InvStep, PTL DEF Spec

(* No message is lost: while the sender has the connection, every posted   *)
(* message is queued, awaits its ack, or has been handled, although only   *)
(* 16 bit identifiers are compared.                                        *)
THEOREM NoMessageLost == Spec => []NothingLost
<1>1. Inv => NothingLost
  BY DEF Inv
<1> QED
  BY <1>1, Invariance, PTL

(* A message leaves the sender's books only after it has been handled, or  *)
(* together with the connection.                                           *)
THEOREM AcksAreHonest == Spec => AckedOnlyIfHandled
<1> DEFINE Honest == \A m \in pendingAcks \ pendingAcks' :
                        ~ socket' \/ m \in handled
<1>1. Inv /\ [Next]_vars => [Honest]_vars
  <2> SUFFICES ASSUME Inv, Next, NEW m \in pendingAcks \ pendingAcks'
               PROVE  ~ socket' \/ m \in handled
    OBVIOUS
  <2> USE DEF sender, network, receiver
  <2>1. ASSUME NEW ackIds \in ackNet, ReceiveAcks(ackIds)
        PROVE  m \in handled
    BY <2>1, AckedWasHandled DEF ReceiveAcks
  <2>2. CASE TotalTimeout
    BY <2>2 DEF TotalTimeout, Disconnect
  <2>3. CASE SendQueueOverflow
    BY <2>3 DEF SendQueueOverflow, Disconnect
  <2> QED
    BY <2>1, <2>2, <2>3 DEF Next, PostMessage, OtherPeersMessage, SendPlanned,
       Resend, ReceiveMessage, SendAcks, LoseData, LoseAcks
<1>2. Spec => [][Honest]_vars
  BY <1>1, Invariance, PTL DEF Spec
<1> QED
  BY <1>2 DEF AckedOnlyIfHandled
-----------------------------------------------------------------------------
(* The duplicate check.  It is right when the network and the traffic keep *)
(* a certain pace: the ring holds more messages than can be handed out     *)
(* before and after one while copies of it are around; the highest id      *)
(* handled is never so far behind the newest, or ahead of an old copy, that*)
(* the comparison takes one for the other; and the first messages of the   *)
(* connection are all, or all but those after the next wrap, surely new    *)
(* when compared with the zero that a login leaves in highest_ack.         *)
KeepsPace ==
  /\ 2 * MaxLag < AckBack
  /\ MaxBehind < FreshWindow
  /\ MaxLag + FreshWindow <= IdSpace
  /\ \/ Wire(StartId) + MaxBehind < FreshWindow
     \/ Wire(StartId) >= FreshWindow

(* The identifier that the zero in highest_ack stands for.                 *)
Base ==
  IF Wire(StartId) >= FreshWindow
  THEN StartId - Wire(StartId) + IdSpace
  ELSE StartId - Wire(StartId)

(* Ring slot i was written before slot j.                                  *)
Earlier(i, j) ==
  \/ i < j /\ (j < lastackPos \/ lastackPos <= i)
  \/ j < lastackPos /\ lastackPos <= i

(* The ring fills slot by slot with different messages, none of them much  *)
(* older than one that came before it.                                     *)
InTurn ==
  \A i, j \in Slots :
    Earlier(i, j) /\ lastacks[i] # None =>
      /\ lastacks[j] # None
      /\ lastacks[j] # lastacks[i]
      /\ lastacks[i] - MaxLag <= lastacks[j]

(* The ring remembers every message of which copies may be around.         *)
Covered ==
  \A m \in handled : current_id - m <= MaxLag => m \in Remembered

(* The counter moves on from its start to its bound, and not far from what *)
(* is handled.                                                             *)
NotBehind ==
  /\ StartId <= current_id /\ \A m \in posted : StartId < m /\ m <= MaxId
  /\ \/ handled = {} /\ current_id - StartId <= MaxBehind
     \/ \E m \in handled : current_id - m <= MaxBehind

(* highest_ack stands for the highest id handled, or for one no higher     *)
(* than which anything has been handled yet.                               *)
Newest(h) ==
  /\ h \in Nat /\ Wire(h) = highest_ack
  /\ h = Base \/ h \in handled
  /\ \A m \in handled : m <= h

Once == InTurn /\ Covered /\ NotBehind /\ (\E h : Newest(h)) /\ AtMostOnce

(* The difference of wire identifiers is that of the messages.             *)
LEMMA WireDifference ==
  ASSUME NEW a \in Nat, NEW b \in Nat, NEW r \in WireIds,
         a - b = r \/ a - b = r - IdSpace
  PROVE  (Wire(a) - Wire(b)) % IdSpace = r
<1> DEFINE la == a \div IdSpace
           lb == b \div IdSpace
           w == Wire(a) - Wire(b)
           lw == w \div IdSpace
           rw == w % IdSpace
<1>1. /\ la \in Int /\ lb \in Int /\ Wire(a) \in Int /\ Wire(b) \in Int
      /\ IdSpace \in Int /\ IdSpace > 0
  BY IdsAssumption, WireType DEF WireIds
<1>2. a = IdSpace * la + Wire(a) /\ b = IdSpace * lb + Wire(b)
  BY WireLaps
<1>3. w \in Int
  BY <1>1
<1>4. lw \in Int /\ w = IdSpace * lw + rw /\ rw \in WireIds
  <2> HIDE DEF w
  <2>1. w = IdSpace * (w \div IdSpace) + Wire(w) /\ Wire(w) \in WireIds
    BY <1>3, WireLaps, WireType
  <2>2. lw \in Int
    BY <1>3, IdsAssumption
  <2> QED
    BY <2>1, <2>2 DEF Wire
<1> HIDE DEF la, lb, lw, rw
<1>5. a - b = IdSpace * (la - lb) + IdSpace * lw + rw
  <2> DEFINE xa == IdSpace * la
             xb == IdSpace * lb
             xw == IdSpace * lw
  <2>1. xa \in Int /\ xb \in Int /\ xw \in Int /\ rw \in Int
        /\ IdSpace * (la - lb) = xa - xb
    BY <1>1, <1>4 DEF WireIds
  <2>2. a = xa + Wire(a) /\ b = xb + Wire(b) /\ Wire(a) - Wire(b) = xw + rw
    BY <1>2, <1>4
  <2> HIDE DEF xa, xb, xw
  <2>3. a - b = xa - xb + xw + rw
    BY <1>1, <2>1, <2>2
  <2> QED
    BY <2>1, <2>3 DEF xw
<1>6. a - b = IdSpace * (la - lb + lw) + rw /\ la - lb + lw \in Int
  BY <1>1, <1>4, <1>5
<1> DEFINE d == la - lb + lw
<1>7. a - b = IdSpace * d + rw /\ d \in Int
  BY <1>6
<1> HIDE DEF d
<1>8. CASE a - b = r
  <2>1. IdSpace * d = r - rw
    BY <1>1, <1>4, <1>7, <1>8 DEF WireIds
  <2>2. d = 0
    BY <1>1, <1>4, <1>7, <2>1, LessThanALap DEF WireIds
  <2> QED
    BY <1>1, <1>4, <2>1, <2>2 DEF rw, WireIds
<1>9. CASE a - b = r - IdSpace
  <2>1. IdSpace * (d + 1) = r - rw
    BY <1>1, <1>4, <1>7, <1>9 DEF WireIds
  <2>2. d + 1 = 0
    BY <1>1, <1>4, <1>7, <2>1, LessThanALap DEF WireIds
  <2> QED
    BY <1>1, <1>4, <2>1, <2>2 DEF rw, WireIds
<1> QED
  BY <1>8, <1>9

(* What SurelyNew says of two messages that are not too far apart.         *)
LEMMA SurelyNewMeans ==
  ASSUME NEW a \in Nat, NEW b \in Nat
  PROVE  /\ b < a /\ a - b < FreshWindow => SurelyNew(Wire(a), Wire(b))
         /\ a <= b /\ b - a <= IdSpace - FreshWindow =>
              ~ SurelyNew(Wire(a), Wire(b))
<1>1. ASSUME b < a, a - b < FreshWindow
      PROVE  SurelyNew(Wire(a), Wire(b))
  <2>1. a - b \in WireIds
    BY <1>1, IdsAssumption DEF WireIds
  <2>2. (Wire(a) - Wire(b)) % IdSpace = a - b
    BY <2>1, WireDifference
  <2> QED
    BY <1>1, <2>2 DEF SurelyNew
<1>2. ASSUME a <= b, b - a <= IdSpace - FreshWindow
      PROVE  ~ SurelyNew(Wire(a), Wire(b))
  <2>1. CASE a = b
    <3>1. 0 \in WireIds /\ a - b = 0
      BY <2>1, IdsAssumption DEF WireIds
    <3>2. (Wire(a) - Wire(b)) % IdSpace = 0
      BY <3>1, WireDifference
    <3> QED
      BY <3>2 DEF SurelyNew
  <2>2. CASE a < b
    <3> DEFINE r == a - b + IdSpace
    <3>1. r \in WireIds /\ r >= FreshWindow /\ a - b = r - IdSpace
      BY <1>2, <2>2, IdsAssumption DEF WireIds
    <3> HIDE DEF r
    <3>2. (Wire(a) - Wire(b)) % IdSpace = r
      BY <3>1, WireDifference
    <3> QED
      BY <3>1, <3>2, IdsAssumption DEF SurelyNew, WireIds
  <2> QED
    BY <1>2, <2>1, <2>2
<1> QED
  BY <1>1, <1>2

LEMMA BaseProperties ==
  ASSUME KeepsPace
  PROVE  /\ Base \in Nat /\ Wire(Base) = 0
         /\ StartId + MaxBehind < Base + FreshWindow
         /\ Base - StartId <= IdSpace - FreshWindow
<1>1. StartId = IdSpace * (StartId \div IdSpace) + Wire(StartId)
      /\ Wire(StartId) \in WireIds /\ StartId \in Nat
  BY WireLaps, WireType, ReliableAssumption
<1> DEFINE q == StartId \div IdSpace
<1>2. q \in Nat
  BY <1>1, IdsAssumption, ReliableAssumption
<1>3. Base = IdSpace * q \/ Base = IdSpace * (q + 1)
  BY <1>1, <1>2, IdsAssumption DEF Base, WireIds
<1>4. Base \in Nat
  BY <1>2, <1>3, IdsAssumption
<1>5. Wire(Base) = 0
  BY <1>2, <1>3, IdsAssumption DEF Wire
<1>6. StartId + MaxBehind < Base + FreshWindow
      /\ Base - StartId <= IdSpace - FreshWindow
  BY <1>1, IdsAssumption, ReliableAssumption DEF Base, KeepsPace, WireIds
<1> QED
  BY <1>4, <1>5, <1>6

(* More values than fit within MaxLag of one of them: two are the same.    *)
LEMMA Crowded ==
  ASSUME NEW o \in Nat, NEW f \in [0 .. AckBack -> Int], 2 * MaxLag < AckBack,
         \A x \in 0 .. AckBack : o - MaxLag <= f[x] /\ f[x] <= o + MaxLag
  PROVE  \E x, y \in 0 .. AckBack : x < y /\ f[x] = f[y]
<1> DEFINE lo == o - MaxLag
           hi == o + MaxLag
<1>1. lo \in Int /\ hi \in Int /\ hi - lo + 1 < AckBack + 1 /\ ~ (lo > hi)
      /\ AckBack \in Int /\ 0 \in Int /\ ~ (0 > AckBack)
  BY ReliableAssumption
<1>2. f \in [0 .. AckBack -> lo .. hi]
  BY <1>1
<1>3. IsFiniteSet(lo .. hi) /\ Cardinality(lo .. hi) = hi - lo + 1
  <2> HIDE DEF lo, hi
  <2> QED
    BY <1>1, FS_Interval
<1>4. IsFiniteSet(0 .. AckBack) /\ Cardinality(0 .. AckBack) = AckBack - 0 + 1
  BY <1>1, FS_Interval
<1> HIDE DEF lo, hi
<1>5. PICK x, y \in 0 .. AckBack : x # y /\ f[x] = f[y]
  <2>1. Cardinality(lo .. hi) < Cardinality(0 .. AckBack)
    BY <1>1, <1>3, <1>4
  <2> QED
    BY <1>2, <1>3, <1>4, <2>1, FS_PigeonHole
<1> QED
  BY <1>1, <1>5

(* Of any two slots one was written first.                                 *)
LEMMA EarlierTotal ==
  ASSUME lastackPos \in Slots, NEW i \in Slots, NEW j \in Slots, i # j
  PROVE  Earlier(i, j) \/ Earlier(j, i)
BY ReliableAssumption DEF Earlier, Slots

(* The slot written next holds the oldest message.                         *)
LEMMA OldestSlot ==
  ASSUME lastackPos \in Slots, NEW i \in Slots, i # lastackPos
  PROVE  Earlier(lastackPos, i)
BY ReliableAssumption DEF Earlier, Slots

(* The order of the slots after one more was written: the one written is   *)
(* last, the others keep their places.                                     *)
LEMMA EarlierStep ==
  ASSUME lastackPos \in Slots, lastackPos' = NextSlot(lastackPos),
         NEW i \in Slots, NEW j \in Slots, Earlier(i, j)'
  PROVE  /\ i # lastackPos /\ i # j
         /\ j = lastackPos \/ Earlier(i, j)
BY ReliableAssumption DEF Earlier, Slots, NextSlot

(* What the duplicate check says of a copy that arrives.                   *)
LEMMA CheckIsRight ==
  ASSUME KeepsPace, Inv, Once, NEW m \in dataNet, NEW h, Newest(h)
  PROVE  /\ m > h => SurelyNew(Wire(m), highest_ack)
         /\ m <= h => ~ SurelyNew(Wire(m), highest_ack)
         /\ IsNew(m) => m \notin handled
<1>1. m \in posted /\ m \in Nat /\ m <= current_id /\ Wire(m) # 0
      /\ current_id - m <= MaxLag /\ current_id \in Nat /\ StartId < m
  BY DEF Inv, PostedIds, Recent, TypeOK, Once, NotBehind
<1>2. h \in Nat /\ Wire(h) = highest_ack /\ (h = Base \/ h \in handled)
      /\ \A x \in handled : x <= h
  BY DEF Newest
<1>3. handled \subseteq Nat /\ \A x \in handled : x <= current_id
  BY DEF Inv, PostedIds, TypeOK
<1>4. ASSUME m > h PROVE SurelyNew(Wire(m), highest_ack)
  <2>1. m - h < FreshWindow
    <3>1. CASE handled = {} /\ current_id - StartId <= MaxBehind
      BY <1>1, <1>2, <3>1, BaseProperties, ReliableAssumption, IdsAssumption
    <3>2. ASSUME NEW x \in handled, current_id - x <= MaxBehind
          PROVE  m - h < FreshWindow
      BY <1>1, <1>2, <1>3, <3>2, ReliableAssumption, IdsAssumption
      DEF KeepsPace
    <3> QED
      BY <3>1, <3>2 DEF Once, NotBehind
  <2> QED
    BY <1>1, <1>2, <1>4, <2>1, SurelyNewMeans
<1>5. ASSUME m <= h PROVE ~ SurelyNew(Wire(m), highest_ack)
  <2>1. h - m <= IdSpace - FreshWindow
    <3>1. CASE h = Base
      BY <1>1, <1>2, <3>1, BaseProperties, ReliableAssumption, IdsAssumption
    <3>2. CASE h \in handled
      BY <1>1, <1>2, <1>3, <3>2, ReliableAssumption, IdsAssumption
      DEF KeepsPace
    <3> QED
      BY <1>2, <3>1, <3>2
  <2> QED
    BY <1>1, <1>2, <1>5, <2>1, SurelyNewMeans
<1>6. ASSUME m \in handled, IsNew(m) PROVE FALSE
  <2>1. m \in Remembered
    BY <1>1, <1>6 DEF Once, Covered
  <2>2. SurelyNew(Wire(m), highest_ack)
    BY <1>6, <2>1 DEF IsNew, Remembered
  <2> QED
    BY <1>2, <1>5, <1>6, <2>2
<1> QED
  BY <1>4, <1>5, <1>6

(* The message forgotten for a new one is too old to come again.           *)
LEMMA ForgottenIsOld ==
  ASSUME KeepsPace, Inv, Once, NEW m \in dataNet, m \notin handled,
         lastacks[lastackPos] # None
  PROVE  current_id - lastacks[lastackPos] > MaxLag
<1> DEFINE o == lastacks[lastackPos]
           f == [x \in 0 .. AckBack |-> IF x = AckBack THEN m ELSE lastacks[x]]
<1>1. m \in Nat /\ m <= current_id /\ current_id - m <= MaxLag
      /\ current_id \in Nat
  BY DEF Inv, PostedIds, Recent, TypeOK
<1>2. lastackPos \in Slots /\ o \in Nat /\ lastacks \in [Slots -> Nat]
  BY DEF Inv, TypeOK
<1>3. \A i \in Slots : lastacks[i] # None /\ o - MaxLag <= lastacks[i]
  BY <1>2, OldestSlot, ReliableAssumption DEF Once, InTurn
<1>4. \A i \in Slots : lastacks[i] \in handled /\ lastacks[i] <= current_id
  BY <1>3 DEF Inv, HandledIds, PostedIds
<1>5. \A i, j \in Slots : i # j => lastacks[i] # lastacks[j]
  BY <1>2, <1>3, EarlierTotal DEF Once, InTurn
<1>6. o <= current_id
  BY <1>2, <1>4
<1> SUFFICES ASSUME current_id - o <= MaxLag PROVE FALSE
  BY <1>1, <1>2, ReliableAssumption
<1>7. \A x \in 0 .. AckBack : x = AckBack \/ x \in Slots
  BY ReliableAssumption DEF Slots
<1>8. f \in [0 .. AckBack -> Int]
  BY <1>1, <1>2, <1>7
<1>9. \A x \in 0 .. AckBack : o - MaxLag <= f[x] /\ f[x] <= o + MaxLag
  <2> SUFFICES ASSUME NEW x \in 0 .. AckBack
               PROVE  o - MaxLag <= f[x] /\ f[x] <= o + MaxLag
    OBVIOUS
  <2>1. CASE x = AckBack
    BY <1>1, <1>2, <1>6, <2>1, ReliableAssumption
  <2>2. CASE x # AckBack
    BY <1>1, <1>2, <1>3, <1>4, <1>7, <2>2, ReliableAssumption
  <2> QED
    BY <2>1, <2>2
<1> HIDE DEF o
<1>10. PICK x, y \in 0 .. AckBack : x < y /\ f[x] = f[y]
  <2> HIDE DEF f
  <2> QED
    BY <1>2, <1>8, <1>9, Crowded DEF KeepsPace
<1>11. x \in Slots /\ f[x] = lastacks[x]
  BY <1>7, <1>10, ReliableAssumption
<1>12. CASE y = AckBack
  BY <1>4, <1>10, <1>11, <1>12
<1>13. CASE y \in Slots
  <2>1. y # AckBack
    BY <1>13, ReliableAssumption DEF Slots
  <2> QED
    BY <1>5, <1>10, <1>11, <1>13, <2>1
<1> QED
  BY <1>7, <1>12, <1>13

(* A new message takes its turn in the ring.                               *)
LEMMA InTurnStep ==
  ASSUME Inv, InTurn, NEW m \in dataNet, m \notin handled,
         lastacks' = [lastacks EXCEPT ![lastackPos] = m],
         lastackPos' = NextSlot(lastackPos)
  PROVE  InTurn'
<1>1. m \in Nat /\ m <= current_id /\ current_id - m <= MaxLag
      /\ current_id \in Nat /\ m # None
  BY WireZero DEF Inv, PostedIds, Recent, TypeOK, None
<1>2. lastackPos \in Slots /\ lastacks \in [Slots -> Nat]
  BY DEF Inv, TypeOK
<1>3. \A i \in Slots : lastacks[i] # None =>
        lastacks[i] \in handled /\ lastacks[i] <= current_id
  BY DEF Inv, HandledIds, PostedIds
<1>4. \A i \in Slots : lastacks'[i] = IF i = lastackPos THEN m ELSE lastacks[i]
  BY <1>2
<1> SUFFICES ASSUME NEW i \in Slots, NEW j \in Slots, Earlier(i, j)',
                    lastacks'[i] # None
             PROVE  /\ lastacks'[j] # None
                    /\ lastacks'[j] # lastacks'[i]
                    /\ lastacks'[i] - MaxLag <= lastacks'[j]
  BY DEF InTurn, Slots, None
<1>5. i # lastackPos /\ (j = lastackPos \/ Earlier(i, j))
  BY <1>2, EarlierStep
<1>6. lastacks'[i] = lastacks[i] /\ lastacks[i] # None
  BY <1>4, <1>5
<1>7. CASE j = lastackPos
  <2>1. lastacks'[j] = m
    BY <1>4, <1>7
  <2>2. lastacks[i] \in handled /\ lastacks[i] <= current_id
        /\ lastacks[i] \in Nat
    BY <1>2, <1>3, <1>6
  <2> QED
    BY <1>1, <1>6, <2>1, <2>2, ReliableAssumption
<1>8. CASE j # lastackPos
  BY <1>4, <1>5, <1>6, <1>8 DEF InTurn
<1> QED
  BY <1>7, <1>8

LEMMA OnceInit == KeepsPace /\ Init => Once
<1> SUFFICES ASSUME KeepsPace, Init PROVE Once
  OBVIOUS
<1>1. InTurn
  BY DEF Init, InTurn
<1>2. Covered
  BY DEF Init, Covered
<1>3. NotBehind
  BY ReliableAssumption DEF Init, NotBehind
<1>4. Newest(Base)
  BY BaseProperties DEF Init, Newest
<1>5. AtMostOnce
  BY DEF Init, AtMostOnce
<1> QED
  BY <1>1, <1>2, <1>3, <1>4, <1>5 DEF Once

(* The counter moves on: fewer messages have to be remembered.             *)
LEMMA OnceAdvances ==
  ASSUME Inv, Once, Advance(NextId(current_id)),
         posted' \subseteq posted \cup {current_id'},
         UNCHANGED <<lastacks, lastackPos, highest_ack, handled, handledTwice>>
  PROVE  Once'
<1>1. current_id' = NextId(current_id) /\ current_id \in Nat
  BY DEF Advance, Inv, TypeOK
<1>2. current_id' \in Nat /\ current_id' > current_id
  BY <1>1, NextIdProperties
<1>3. InTurn' /\ AtMostOnce'
  BY DEF Once, InTurn, AtMostOnce, Earlier
<1>4. handled \subseteq Nat
  BY DEF Inv, TypeOK
<1>5. Covered'
  <2> SUFFICES ASSUME NEW m \in handled, current_id' - m <= MaxLag
               PROVE  m \in Remembered
    BY DEF Covered, Remembered
  <2>1. current_id - m <= MaxLag
    BY <1>1, <1>2, <1>4, ReliableAssumption
  <2> QED
    BY <2>1 DEF Once, Covered
<1>6. StartId < current_id' /\ current_id' <= MaxId
  <2>1. StartId <= current_id
    BY DEF Once, NotBehind
  <2> QED
    BY <1>1, <1>2, <2>1, ReliableAssumption DEF Advance
<1>7. NotBehind'
  BY <1>1, <1>2, <1>6, ReliableAssumption DEF Once, NotBehind, Advance
<1>8. \E h : Newest(h)'
  BY DEF Once, Newest
<1> QED
  BY <1>3, <1>5, <1>7, <1>8 DEF Once

(* Everything of the receiver's duplicate check is left alone.             *)
LEMMA OnceUnchanged ==
  ASSUME Once, posted' = posted, current_id' = current_id,
         UNCHANGED <<lastacks, lastackPos, highest_ack, handled, handledTwice>>
  PROVE  Once'
BY DEF Once, InTurn, Earlier, Covered, Remembered, NotBehind, Newest,
   AtMostOnce

LEMMA OnceReceives ==
  ASSUME KeepsPace, Inv, Once, NEW m \in dataNet, ReceiveMessage(m)
  PROVE  Once'
<1>1. UNCHANGED <<posted, current_id>>
  BY DEF ReceiveMessage, sender
<1>2. PICK h : Newest(h)
  BY DEF Once
<1>3. /\ m > h => SurelyNew(Wire(m), highest_ack)
      /\ m <= h => ~ SurelyNew(Wire(m), highest_ack)
      /\ IsNew(m) => m \notin handled
  BY <1>2, CheckIsRight
<1>4. m \in Nat /\ handled \subseteq Nat /\ h \in Nat /\ lastackPos \in Slots
      /\ lastacks \in [Slots -> Nat]
  BY <1>2 DEF Inv, TypeOK, Newest
<1>5. CASE ~ IsNew(m)
  <2>1. UNCHANGED <<lastacks, lastackPos, handled, handledTwice>>
    BY <1>5 DEF ReceiveMessage
  <2>2. highest_ack' = highest_ack
    BY <1>5 DEF ReceiveMessage, IsNew
  <2> QED
    BY <1>1, <2>1, <2>2, OnceUnchanged
<1>6. CASE IsNew(m)
  <2>1. /\ lastacks' = [lastacks EXCEPT ![lastackPos] = m]
        /\ lastackPos' = NextSlot(lastackPos)
        /\ handled' = handled \cup {m}
        /\ handledTwice' = handledTwice \cup (handled \cap {m})
        /\ highest_ack' = IF SurelyNew(Wire(m), highest_ack)
                          THEN Wire(m) ELSE highest_ack
    BY <1>6 DEF ReceiveMessage
  <2>2. m \notin handled
    BY <1>3, <1>6
  <2>3. InTurn'
    BY <2>1, <2>2, InTurnStep DEF Once
  <2>4. AtMostOnce'
    BY <2>1, <2>2 DEF Once, AtMostOnce
  <2>5. Covered'
    <3> SUFFICES ASSUME NEW x \in handled', current_id - x <= MaxLag
                 PROVE  x \in Remembered'
      BY <1>1 DEF Covered
    <3>1. \A i \in Slots : lastacks'[i] = IF i = lastackPos THEN m
                                          ELSE lastacks[i]
      BY <1>4, <2>1
    <3>2. CASE x = m
      BY <1>4, <3>1, <3>2 DEF Remembered
    <3>3. CASE x \in handled
      <4>1. PICK i \in Slots : lastacks[i] = x
        BY <3>3 DEF Once, Covered, Remembered
      <4>2. x # None
        BY <3>3, WireZero DEF Inv, PostedIds, None
      <4>3. i # lastackPos
        <5> SUFFICES ASSUME i = lastackPos PROVE FALSE
          OBVIOUS
        <5>1. current_id - x > MaxLag
          BY <2>2, <4>1, <4>2, ForgottenIsOld
        <5>2. current_id \in Nat /\ x \in Nat
          BY <1>4, <3>3 DEF Inv, TypeOK
        <5> QED
          BY <5>1, <5>2, ReliableAssumption
      <4>4. lastacks'[i] = x
        BY <3>1, <4>1, <4>3
      <4> QED
        BY <4>1, <4>4 DEF Remembered
    <3> QED
      BY <2>1, <3>2, <3>3
  <2>6. NotBehind'
    <3>1. StartId < m /\ current_id \in Nat
      BY DEF Once, NotBehind, Inv, PostedIds, TypeOK
    <3>2. \E x \in handled' : current_id - x <= MaxBehind
      <4>1. CASE handled = {} /\ current_id - StartId <= MaxBehind
        <5>1. current_id - m <= MaxBehind
          BY <1>4, <3>1, <4>1, ReliableAssumption
        <5> QED
          BY <2>1, <5>1
      <4>2. CASE \E x \in handled : current_id - x <= MaxBehind
        BY <2>1, <4>2
      <4> QED
        BY <4>1, <4>2 DEF Once, NotBehind
    <3> QED
      BY <1>1, <3>2 DEF Once, NotBehind
  <2>7. \E g : Newest(g)'
    <3>1. CASE m > h
      <4>1. highest_ack' = Wire(m)
        BY <1>3, <2>1, <3>1
      <4>2. Newest(m)'
        BY <1>2, <1>4, <2>1, <3>1, <4>1 DEF Newest
      <4> QED
        BY <4>2
    <3>2. CASE m <= h
      <4>1. highest_ack' = highest_ack
        BY <1>3, <2>1, <3>2
      <4>2. Newest(h)'
        BY <1>2, <1>4, <2>1, <3>2, <4>1 DEF Newest
      <4> QED
        BY <4>2
    <3> QED
      BY <1>4, <3>1, <3>2
  <2> QED
    BY <2>3, <2>4, <2>5, <2>6, <2>7 DEF Once
<1> QED
  BY <1>5, <1>6

(* The invariant of the duplicate check is inductive.                      *)
LEMMA OnceStep == KeepsPace /\ Inv /\ Once /\ [Next]_vars => Once'
<1> SUFFICES ASSUME KeepsPace, Inv, Once, [Next]_vars
             PROVE  Once'
  OBVIOUS
<1> USE DEF sender, network, receiver
<1>1. CASE PostMessage
  BY <1>1, OnceAdvances DEF PostMessage
<1>2. CASE OtherPeersMessage
  BY <1>2, OnceAdvances DEF OtherPeersMessage
<1>3. ASSUME NEW m \in send_queue, SendPlanned(m)
      PROVE  Once'
  BY <1>3, OnceUnchanged DEF SendPlanned
<1>4. ASSUME NEW m \in pendingAcks, Resend(m)
      PROVE  Once'
  BY <1>4, OnceUnchanged DEF Resend
<1>5. CASE TotalTimeout
  BY <1>5, OnceUnchanged DEF TotalTimeout
<1>6. CASE SendQueueOverflow
  BY <1>6, OnceUnchanged DEF SendQueueOverflow
<1>7. ASSUME NEW m \in dataNet, ReceiveMessage(m)
      PROVE  Once'
  BY <1>7, OnceReceives
<1>8. CASE SendAcks
  BY <1>8, OnceUnchanged DEF SendAcks
<1>9. ASSUME NEW ackIds \in ackNet, ReceiveAcks(ackIds)
      PROVE  Once'
  BY <1>9, OnceUnchanged DEF ReceiveAcks
<1>10. ASSUME NEW m \in dataNet, LoseData(m)
       PROVE  Once'
  BY <1>10, OnceUnchanged DEF LoseData
<1>11. ASSUME NEW ackIds \in ackNet, LoseAcks(ackIds)
       PROVE  Once'
  BY <1>11, OnceUnchanged DEF LoseAcks
<1>12. CASE UNCHANGED vars
  BY <1>12, OnceUnchanged DEF vars
<1> QED
  BY <1>1, <1>2, <1>3, <1>4, <1>5, <1>6, <1>7, <1>8, <1>9, <1>10, <1>11, <1>12
  DEF Next

(* The receiver's handlers see a message at most once if network and       *)
(* traffic keep the pace the ring and the fresh window are made for.       *)
THEOREM HandledOnce ==
  ASSUME KeepsPace
  PROVE  Spec => []AtMostOnce
<1>1. Init => Inv /\ Once
  BY InvInit, OnceInit
<1>2. Inv /\ Once /\ [Next]_vars => (Inv /\ Once)'
  BY InvStep, OnceStep
<1>3. Once => AtMostOnce
  BY DEF Once
<1> QED
  BY <1>1, <1>2, <1>3, PTL DEF Spec

-----------------------------------------------------------------------------
(* The protocol implements the message service.                            *)

LEMMA ServiceInit == Init => Service!Init
BY DEF Init, Service!Init

LEMMA ServicePosts ==
  ASSUME Inv, AtMostOnce, AtMostOnce', PostMessage
  PROVE  \E m \in 1 .. MaxId : Service!Post(m)
<1>1. /\ socket /\ socket' = socket
      /\ posted' = posted \cup {current_id'}
      /\ UNCHANGED <<acks, lastacks, handled>>
      /\ Advance(NextId(current_id))
  BY DEF PostMessage, receiver
<1>2. current_id' \in Nat /\ current_id' > current_id /\ current_id \in Nat
  BY <1>1, AdvanceAges DEF Inv, TypeOK
<1>3. current_id' \in 1 .. MaxId
  BY <1>1, <1>2, ReliableAssumption DEF Advance
<1>4. current_id' \notin posted /\ current_id' \notin handled
  BY <1>2 DEF Inv, PostedIds, TypeOK
<1>5. handledTwice = {} /\ handledTwice' = {}
  BY DEF AtMostOnce
<1>6. PICK m \in 1 .. MaxId : m = current_id'
  BY <1>3
<1>7. Service!Post(m)
  BY <1>1, <1>4, <1>5, <1>6 DEF Service!Post
<1> QED
  BY <1>7

LEMMA ServiceDelivers ==
  ASSUME Inv, AtMostOnce, AtMostOnce', NEW m \in dataNet, ReceiveMessage(m)
  PROVE  Service!Deliver(m) \/ UNCHANGED Service!vars
<1>1. m \in posted
  BY DEF Inv, PostedIds
<1>2. UNCHANGED <<posted, socket>>
  BY DEF ReceiveMessage, sender
<1>3. handledTwice = {} /\ handledTwice' = {}
  BY DEF AtMostOnce
<1>4. CASE IsNew(m)
  <2>1. m \notin handled /\ handled' = handled \cup {m}
    BY <1>3, <1>4 DEF ReceiveMessage
  <2> QED
    BY <1>1, <1>2, <1>3, <2>1 DEF Service!Deliver
<1>5. CASE ~ IsNew(m)
  BY <1>2, <1>5 DEF ReceiveMessage, Service!vars
<1> QED
  BY <1>4, <1>5

LEMMA ServiceCloses ==
  ASSUME socket, socket' = FALSE,
         UNCHANGED <<posted, handled, handledTwice>>
  PROVE  Service!Close
BY DEF Service!Close

LEMMA ServiceStutters ==
  ASSUME UNCHANGED <<posted, handled, handledTwice, socket>>
  PROVE  UNCHANGED Service!vars
BY DEF Service!vars

(* Every step of the protocol is a step of the service, or none.           *)
LEMMA ServiceStep ==
  Inv /\ Once /\ Once' /\ [Next]_vars
    => [Service!Next]_Service!vars
<1> SUFFICES ASSUME Inv, Once, Once', [Next]_vars
             PROVE  Service!Next \/ UNCHANGED Service!vars
  OBVIOUS
<1> USE DEF sender, network, receiver
<1>0. AtMostOnce /\ AtMostOnce'
  BY DEF Once
<1>1. CASE PostMessage
  BY <1>0, <1>1, ServicePosts DEF Service!Next
<1>2. CASE OtherPeersMessage
  BY <1>2, ServiceStutters DEF OtherPeersMessage
<1>3. ASSUME NEW m \in send_queue, SendPlanned(m)
      PROVE  UNCHANGED Service!vars
  BY <1>3, ServiceStutters DEF SendPlanned
<1>4. ASSUME NEW m \in pendingAcks, Resend(m)
      PROVE  UNCHANGED Service!vars
  BY <1>4, ServiceStutters DEF Resend
<1>5. CASE TotalTimeout
  BY <1>5, ServiceCloses DEF TotalTimeout, Disconnect, Service!Next
<1>6. CASE SendQueueOverflow
  BY <1>6, ServiceCloses DEF SendQueueOverflow, Disconnect, Service!Next
<1>7. ASSUME NEW m \in dataNet, ReceiveMessage(m)
      PROVE  Service!Next \/ UNCHANGED Service!vars
  <2>1. m \in 1 .. MaxId
    BY ReliableAssumption DEF Inv, PostedIds, TypeOK, Once, NotBehind
  <2> QED
    BY <1>0, <1>7, <2>1, ServiceDelivers DEF Service!Next
<1>8. CASE SendAcks
  BY <1>8, ServiceStutters DEF SendAcks
<1>9. ASSUME NEW ackIds \in ackNet, ReceiveAcks(ackIds)
      PROVE  UNCHANGED Service!vars
  BY <1>9, ServiceStutters DEF ReceiveAcks
<1>10. ASSUME NEW m \in dataNet, LoseData(m)
       PROVE  UNCHANGED Service!vars
  BY <1>10, ServiceStutters DEF LoseData
<1>11. ASSUME NEW ackIds \in ackNet, LoseAcks(ackIds)
       PROVE  UNCHANGED Service!vars
  BY <1>11, ServiceStutters DEF LoseAcks
<1>12. CASE UNCHANGED vars
  BY <1>12, ServiceStutters DEF vars
<1> QED
  BY <1>1, <1>2, <1>3, <1>4, <1>5, <1>6, <1>7, <1>8, <1>9, <1>10, <1>11, <1>12
  DEF Next

(* Within its pace the protocol does what the rest of the program expects  *)
(* of Send: a message posted to an open connection is delivered once, a    *)
(* message never posted is not delivered, and nothing is posted to a closed*)
(* connection.  That every message is delivered in the end is liveness,    *)
(* which TLC checks.                                                       *)
THEOREM ProtocolImplementsService ==
  ASSUME KeepsPace
  PROVE  Spec => Service!Spec
<1>1. Init => Inv /\ Once /\ Service!Init
  BY InvInit, OnceInit, ServiceInit
<1>2. Inv /\ Once /\ [Next]_vars => (Inv /\ Once)'
  BY InvStep, OnceStep
<1>3. Inv /\ Once /\ (Inv /\ Once)' /\ [Next]_vars
        => [Service!Next]_Service!vars
  BY ServiceStep
<1> QED
  BY <1>1, <1>2, <1>3, PTL DEF Spec, Service!Spec
=============================================================================
