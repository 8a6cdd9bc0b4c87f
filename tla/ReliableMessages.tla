-------------------------- MODULE ReliableMessages --------------------------
(***************************************************************************)
(* Reliable messages from one peer to another over UDP (nNetwork.cpp):     *)
(* the send queue, pending acknowledgements (nWaitForAck) and resends on   *)
(* the sending side; the duplicate check, the acknowledgement queue and    *)
(* the message handling of rec_peer on the receiving side.                 *)
(*                                                                         *)
(* Messages are named by their full identifier (messageIDBig_); the code   *)
(* under test compares Wire(id) only.  The network may drop, duplicate and *)
(* reorder: a copy stays in flight until Lose takes it.                    *)
(***************************************************************************)
EXTENDS MessageIds, Sequences, FiniteSets

CONSTANTS
  AckBack,        \* ACKBACK: identifiers remembered by the receiver
  MaxNoAck,       \* sn_maxNoAck: unacknowledged messages allowed
  AckFlush,       \* acks_ queue length that forces an ack message out
  TimeoutLimit,   \* resends without an answer that allow a total timeout
  StartId,        \* value of current_id when the connection starts
  MaxId,          \* bound on the identifiers handed out
  (* The pace of the environment: bounds on what the network and the       *)
  (* traffic to other peers may do between two messages of this connection.*)
  MaxLag,         \* identifiers handed out while a copy or ack is around
  MaxRingSpan,    \* identifiers handed out while lastacks remembers one
  MaxBehind,      \* identifiers handed out since the newest handled one
  Lossy           \* packets may also vanish before their time is over

ASSUME ReliableAssumption ==
  /\ AckBack \in Nat \ {0} /\ MaxNoAck \in Nat \ {0}
  /\ AckFlush \in Nat /\ TimeoutLimit \in Nat
  /\ StartId \in Nat /\ MaxId \in Nat
  /\ MaxLag \in Nat /\ MaxRingSpan \in Nat /\ MaxBehind \in Nat
  /\ Lossy \in BOOLEAN
  /\ MaxLag <= MaxRingSpan /\ MaxRingSpan < IdSpace

VARIABLES
  current_id,     \* the sender's identifier counter
  posted,         \* messages given to Send for this peer (history)
  send_queue,     \* messages planned for this peer
  pendingAcks,    \* messages sent that await their acknowledgement
  timeouts,       \* resends since the last acknowledgement
  socket,         \* the sender still has the connection
  dataNet,        \* copies of messages in flight
  ackNet,         \* acknowledgement messages in flight: sets of ids
  highest_ack,    \* receiver: the highest wire id taken as surely new
  lastacks,       \* receiver: ring of remembered ids
  lastackPos,     \* receiver: next ring slot
  acks,           \* receiver: the acks_ queue
  handled,        \* messages handed to the message handlers (history)
  handledTwice    \* messages handled more than once (history)

sender   == <<current_id, posted, send_queue, pendingAcks, timeouts, socket>>
network  == <<dataNet, ackNet>>
receiver == <<highest_ack, lastacks, lastackPos, acks, handled, handledTwice>>
vars     == <<sender, network, receiver>>

(* No message: zero, the value reset_last_acks clears the ring with.       *)
None == 0

Slots == 0 .. AckBack - 1

Remembered == {lastacks[i] : i \in Slots}

AckQueue == {acks[i] : i \in DOMAIN acks}

-----------------------------------------------------------------------------
(* reset_last_acks on the receiver; the sender's counter runs on from      *)
(* earlier connections of the same process.                                *)
Init ==
  /\ current_id = StartId
  /\ posted = {} /\ send_queue = {} /\ pendingAcks = {}
  /\ timeouts = 0 /\ socket = TRUE
  /\ dataNet = {} /\ ackNet = {}
  /\ highest_ack = 0
  /\ lastacks = [i \in Slots |-> None]
  /\ lastackPos = 0
  /\ acks = <<>>
  /\ handled = {} /\ handledTwice = {}

(* The environment's pace: the counter reaches id only while nothing of    *)
(* this connection lags behind by more than the named bounds, and packets  *)
(* older than MaxLag are gone for good.                                    *)
Advance(id) ==
  /\ id <= MaxId
  /\ \A m \in send_queue \cup pendingAcks \cup AckQueue : id - m <= MaxLag
  /\ \A m \in Remembered \ {None} : id - m <= MaxRingSpan
  /\ \/ handled = {} /\ id - StartId <= MaxBehind
     \/ \E m \in handled : id - m <= MaxBehind
  /\ current_id' = id
  /\ dataNet' = {m \in dataNet : id - m <= MaxLag}
  /\ ackNet' = {ids \in ackNet : \A m \in ids : id - m <= MaxLag}

(* A message for this peer is built and given to nMessageBase::Send.       *)
PostMessage ==
  /\ socket
  /\ Advance(NextId(current_id))
  /\ posted' = posted \cup {current_id'}
  /\ send_queue' = send_queue \cup {current_id'}
  /\ UNCHANGED <<pendingAcks, timeouts, socket, receiver>>

(* A message for some other peer takes an identifier of the same counter.  *)
OtherPeersMessage ==
  /\ Advance(NextId(current_id))
  /\ UNCHANGED <<posted, send_queue, pendingAcks, timeouts, socket, receiver>>

(* sn_SendPlanned1, one turn of its loop: the most urgent message leaves   *)
(* the queue.  Urgency is the caller's choice, so any message may be it.   *)
SendPlanned(m) ==
  /\ socket
  /\ Cardinality(pendingAcks) < MaxNoAck
  /\ m \in send_queue
  /\ send_queue' = send_queue \ {m}
  /\ pendingAcks' = pendingAcks \cup {m}
  /\ dataNet' = dataNet \cup {m}
  /\ UNCHANGED <<current_id, posted, timeouts, socket, ackNet, receiver>>

(* Resends are counted up to where the comparison with the limit is decided.*)
CountTimeout ==
  timeouts' = IF timeouts <= TimeoutLimit THEN timeouts + 1 ELSE timeouts

(* nWaitForAck::Resend for one overdue message, short of a total timeout.  *)
Resend(m) ==
  /\ socket
  /\ m \in pendingAcks
  /\ CountTimeout
  /\ dataNet' = dataNet \cup {m}
  /\ UNCHANGED <<current_id, posted, send_queue, pendingAcks, socket,
                 ackNet, receiver>>

(* sn_DisconnectUser, as far as it concerns what is on its way to the      *)
(* peer: AckAllPeer, the send queue and the socket.                        *)
Disconnect ==
  /\ socket' = FALSE
  /\ pendingAcks' = {} /\ send_queue' = {}

(* nWaitForAck::Resend that finds the message too old and the peer silent. *)
TotalTimeout ==
  /\ socket
  /\ pendingAcks # {}
  /\ timeouts + 1 > TimeoutLimit
  /\ CountTimeout
  /\ Disconnect
  /\ UNCHANGED <<current_id, posted, network, receiver>>

(* nMessage_planned_send::execute on a message that waited far too long.   *)
SendQueueOverflow ==
  /\ socket
  /\ Cardinality(pendingAcks) < MaxNoAck
  /\ send_queue # {}
  /\ Disconnect
  /\ UNCHANGED <<current_id, posted, timeouts, network, receiver>>

-----------------------------------------------------------------------------
(* rec_peer: is the message new?                                           *)
IsNew(m) ==
  \/ SurelyNew(Wire(m), highest_ack)
  \/ \A i \in Slots : Wire(lastacks[i]) # Wire(m)

(* Faulty receiver: no answer to a message it knows already.               *)
QueueAckOfNewOnly(m) ==
  /\ acks' = IF IsNew(m) THEN Append(acks, m) ELSE acks
  /\ UNCHANGED ackNet

(* rec_peer: the acks_ queue takes the message, new or not; a long queue   *)
(* goes out as one ack message at once (sn_SendAcks).                      *)
QueueAck(m) ==
  LET queue == Append(acks, m)
  IN  IF Len(queue) > AckFlush
      THEN /\ acks' = <<>>
           /\ ackNet' = ackNet \cup {{queue[i] : i \in DOMAIN queue}}
      ELSE /\ acks' = queue
           /\ UNCHANGED ackNet

(* rec_peer: the ring slot after this one.                                 *)
NextSlot(pos) == IF pos + 1 >= AckBack THEN 0 ELSE pos + 1

(* rec_peer for one received message: acknowledge, remember and handle.    *)
ReceiveMessage(m) ==
  /\ m \in dataNet
  /\ QueueAck(m)
  /\ highest_ack' = IF SurelyNew(Wire(m), highest_ack)
                    THEN Wire(m) ELSE highest_ack
  /\ IF IsNew(m)
     THEN /\ lastacks' = [lastacks EXCEPT ![lastackPos] = m]
          /\ lastackPos' = NextSlot(lastackPos)
          /\ handled' = handled \cup {m}
          /\ handledTwice' = handledTwice \cup (handled \cap {m})
     ELSE UNCHANGED <<lastacks, lastackPos, handled, handledTwice>>
  /\ UNCHANGED <<sender, dataNet>>

(* sn_SendPlanned: the queued acknowledgements leave as one message.       *)
SendAcks ==
  /\ acks # <<>>
  /\ ackNet' = ackNet \cup {AckQueue}
  /\ acks' = <<>>
  /\ UNCHANGED <<sender, dataNet, highest_ack, lastacks, lastackPos,
                 handled, handledTwice>>

(* nWaitForAck::Ackt: every pending message with that wire id is done.     *)
Acked(p, ackIds) == \E a \in ackIds : Wire(a) = Wire(p)

(* sn_AckHandler: all identifiers of the message, and a sign of life if    *)
(* one of them was waited for.                                             *)
ReceiveAcks(ackIds) ==
  /\ socket
  /\ ackIds \in ackNet
  /\ pendingAcks' = {p \in pendingAcks : ~ Acked(p, ackIds)}
  /\ timeouts' = IF pendingAcks' # pendingAcks THEN 0 ELSE timeouts
  /\ UNCHANGED <<current_id, posted, send_queue, socket, network, receiver>>

-----------------------------------------------------------------------------
(* The network drops the last copy of a message or of an ack message.  For *)
(* safety a packet that is never received is as good as lost, so the large *)
(* instances leave these steps out (Lossy = FALSE).                        *)
LoseData(m) ==
  /\ Lossy
  /\ m \in dataNet
  /\ dataNet' = dataNet \ {m}
  /\ UNCHANGED <<sender, ackNet, receiver>>

LoseAcks(ackIds) ==
  /\ Lossy
  /\ ackIds \in ackNet
  /\ ackNet' = ackNet \ {ackIds}
  /\ UNCHANGED <<sender, dataNet, receiver>>

Next ==
  \/ PostMessage
  \/ OtherPeersMessage
  \/ \E m \in send_queue : SendPlanned(m)
  \/ \E m \in pendingAcks : Resend(m)
  \/ TotalTimeout
  \/ SendQueueOverflow
  \/ \E m \in dataNet : ReceiveMessage(m)
  \/ SendAcks
  \/ \E ackIds \in ackNet : ReceiveAcks(ackIds)
  \/ \E m \in dataNet : LoseData(m)
  \/ \E ackIds \in ackNet : LoseAcks(ackIds)

Spec == Init /\ [][Next]_vars

(* Both processes keep calling sn_SendPlanned and sn_Receive, and a        *)
(* message or ack that is sent over and over gets through at last.         *)
Fairness ==
  /\ \A m \in 1 .. MaxId :
       /\ WF_vars(SendPlanned(m))
       /\ WF_vars(Resend(m))
       /\ SF_vars(ReceiveMessage(m))
       /\ SF_vars(\E ackIds \in ackNet : m \in ackIds /\ ReceiveAcks(ackIds))
  /\ WF_vars(SendAcks)

FairSpec == Spec /\ Fairness

-----------------------------------------------------------------------------
(* The variables keep their types; the sender's window and counters stay   *)
(* within the limits of nNetwork.cpp.                                      *)
TypeOK ==
  /\ current_id \in Nat
  /\ posted \subseteq Nat /\ send_queue \subseteq Nat
  /\ pendingAcks \subseteq Nat /\ IsFiniteSet(pendingAcks)
  /\ Cardinality(pendingAcks) <= MaxNoAck
  /\ timeouts \in 0 .. TimeoutLimit + 1
  /\ socket \in BOOLEAN
  /\ dataNet \subseteq Nat /\ ackNet \subseteq SUBSET Nat
  /\ highest_ack \in WireIds
  /\ lastacks \in [Slots -> Nat]
  /\ lastackPos \in Slots
  /\ acks \in Seq(Nat) /\ Len(acks) <= AckFlush
  /\ handled \subseteq Nat /\ handledTwice \subseteq Nat

(* No message is lost: as long as the sender has the connection, a message *)
(* it forgot about (neither queued nor awaiting an ack) has been handled by*)
(* the receiver.  Covers acks of other messages taken for this one's, and  *)
(* messages acknowledged as duplicates that never were handled.            *)
NothingLost ==
  socket => \A m \in posted : m \in send_queue \cup pendingAcks \cup handled

(* The receiver's handlers see a message at most once, whatever copies the *)
(* network and the resends deliver (highest_ack and lastacks in rec_peer). *)
AtMostOnce == handledTwice = {}

(* The sender drops a message it waits for only when the receiver has it,  *)
(* or the connection with it.                                              *)
AckedOnlyIfHandled ==
  [][\A m \in pendingAcks \ pendingAcks' : ~ socket' \/ m \in handled]_vars

(* Every message posted is handled in the end unless the connection times  *)
(* out.                                                                    *)
EventuallyHandled ==
  \A m \in 1 .. MaxId : m \in posted ~> (m \in handled \/ ~ socket)

(* The whole protocol is an implementation of the message service.         *)
Service == INSTANCE MessageService WITH
  Messages   <- 1 .. MaxId,
  deliveries <- [m \in posted |-> IF m \in handledTwice THEN 2
                                  ELSE IF m \in handled THEN 1 ELSE 0],
  open       <- socket

(* Resends, acks and the duplicate check together look to the program like *)
(* a service that delivers each posted message exactly once.               *)
ImplementsService == Service!FairSpec
=============================================================================
