----------------------------- MODULE LoginSlots -----------------------------
(***************************************************************************)
(* How a server gives its connection slots to clients and takes them back  *)
(* (nNetwork.cpp): sn_LoginHandler with its limits per machine, the kicks  *)
(* that make room on a full server, timeouts and logouts; and how a client *)
(* learns of it (sn_Connect and the handlers of the server's answers).     *)
(*                                                                         *)
(* The client sends its login over and over, and no login, denial or       *)
(* logout is acknowledged: copies of them may arrive at any later time, or *)
(* never.  A login that is accepted is a message that arrives once if it   *)
(* arrives (ReliableMessages); waits for acks time out when the peer does  *)
(* not answer.                                                             *)
(***************************************************************************)
EXTENDS SlotLimits

CONSTANTS
  Machines,
  MaxClients,    \* sn_maxClients, and the number of slots
  SoftLimit,     \* sn_allowSameIPCountSoft
  MaxAttempts,   \* bounds on the times each client connects
  MaxGrants,     \* bounds on the slots given away
  MaxKicks,      \* and on the kicks
  Patient,       \* waits time out only for peers that do not answer
  Heard          \* the clients whose messages get through now and then

(* What is assumed of them.                                                *)
LimitsAreSound ==
  /\ MachineOf \in [Clients -> Machines]
  /\ MaxClients \in Nat \ {0}
  /\ MaxGrants \in Nat /\ MaxKicks \in Nat
  /\ MaxAttempts \in [Clients -> Nat]
  /\ SoftLimit \in Nat /\ HardLimit \in Nat
  /\ Patient \in BOOLEAN /\ Heard \subseteq Clients
  /\ NoAddress \notin Clients \X Nat

ASSUME SlotsAssumption == LimitsAreSound

VARIABLES
  lastPeers,   \* server: the address that was there before
  sameIP,      \* server: what CountSameIP remembers for each slot
  grants,      \* server: how many slots it has given away
  accepts,     \* LoginAccepted messages on their way
  denials,     \* the addresses with a LoginDenied on its way
  logouts      \* Logout messages on their way

server  == <<peers, lastPeers, sameIP, grants, kicks>>
client  == <<mode, attempt, netId>>
network == <<accepts, denials, logouts>>
vars    == <<server, client, network>>

Slots == 1 .. MaxClients

Addresses == UNION {{c} \X (1 .. MaxAttempts[c]) : c \in Clients}

(* Messages to the socket of an earlier attempt are lost, and not kept.    *)
Listening == {Address(c) : c \in {d \in Clients : mode[d] # "standalone"}}

Init ==
  /\ peers = [s \in Slots |-> NoAddress]
  /\ lastPeers = [s \in Slots |-> NoAddress]
  /\ sameIP = [s \in Slots |-> 0]
  /\ grants = 0 /\ kicks = 0
  /\ mode = [c \in Clients |-> "standalone"]
  /\ attempt = [c \in Clients |-> 0]
  /\ netId = [c \in Clients |-> 0]
  /\ accepts = {} /\ denials = {} /\ logouts = {}

-----------------------------------------------------------------------------
(* The server.                                                             *)

(* Faulty test: also ignores whoever was in a slot last, as rec_peer does. *)
NeverThere(a) == \A s \in Slots : a \notin {peers[s], lastPeers[s]}

(* CountSameConnection finds no slot with this address.                    *)
NotLoggedIn(a) == \A s \in Slots : peers[s] # a

(* Faulty limit: one too many.                                             *)
WithinLimitOffByOne(a) == Cardinality(SameMachine(a)) <= HardLimit

WithinLimit(a) == Cardinality(SameMachine(a)) < HardLimit

(* The tests of sn_LoginHandler before it looks for a slot.                *)
Admissible(a) == NotLoggedIn(a) /\ WithinLimit(a)

(* The slot GetFreeSlot finds: the first free one, or else the first of    *)
(* those with the most neighbours of the same machine, by what was counted *)
(* when each of them logged in, provided that is enough.                   *)
IsFreeSlot(s) ==
  IF Taken # Slots
  THEN s \notin Taken /\ \A t \in Slots : t < s => t \in Taken
  ELSE /\ sameIP[s] >= SoftLimit
       /\ \A t \in Slots : sameIP[t] <= sameIP[s]
       /\ \A t \in Slots : t < s => sameIP[t] < sameIP[s]

Grantable(a, s) == Admissible(a) /\ IsFreeSlot(s)

(* sn_DisconnectUser tells the peer; the message asks for no ack.          *)
Deny(a) == denials' = denials \cup ({a} \cap Listening)

(* sn_LoginHandler gives a slot to an address, and throws out whoever was  *)
(* in it.                                                                  *)
Grant(a, s) ==
  /\ Grantable(a, s)
  /\ grants < MaxGrants
  /\ grants' = grants + 1
  /\ peers' = [peers EXCEPT ![s] = a]
  /\ IF s \in Taken
     THEN /\ Deny(peers[s])
          /\ lastPeers' = [lastPeers EXCEPT ![s] = peers[s]]
     ELSE UNCHANGED <<denials, lastPeers>>
  /\ sameIP' = [sameIP EXCEPT ![s] = Cardinality(SameMachine(a) \ {s})]
  /\ accepts' = accepts \cup
       {[to |-> b, slot |-> s, num |-> grants + 1] : b \in {a} \cap Listening}
  /\ UNCHANGED <<kicks, client, logouts>>

(* sn_LoginHandler finds no slot.                                          *)
Full(a) ==
  /\ NotLoggedIn(a) /\ \A s \in Slots : ~ Grantable(a, s)
  /\ Deny(a)
  /\ UNCHANGED <<server, client, accepts, logouts>>

(* sn_LoginHandler for a machine that is banned; this comes before the     *)
(* other tests.                                                            *)
Banned(a) ==
  /\ Deny(a)
  /\ UNCHANGED <<server, client, accepts, logouts>>

(* A copy of the login of some attempt reaches the server.                 *)
ReceiveLogin(a) ==
  /\ a[2] <= attempt[a[1]]
  /\ (\E s \in Slots : Grant(a, s)) \/ Full(a) \/ Banned(a)

(* sn_DisconnectUserNoWarn for a client; the count of the slot stays.      *)
Disconnect(s) ==
  /\ s \in Taken
  /\ peers' = [peers EXCEPT ![s] = NoAddress]
  /\ lastPeers' = [lastPeers EXCEPT ![s] = peers[s]]
  /\ Deny(peers[s])
  /\ UNCHANGED <<sameIP, grants, client, accepts, logouts>>

(* sn_KickUser and the other reasons to throw somebody out.                *)
Kick(s) ==
  /\ kicks < MaxKicks
  /\ Disconnect(s)
  /\ kicks' = kicks + 1

Silent(s) == ~ Answers(s) \/ ~ Patient

(* nWaitForAck::Resend gives up: total timeout.                            *)
Timeout(s) ==
  /\ Silent(s)
  /\ Disconnect(s)
  /\ UNCHANGED kicks

(* Faulty logout: goes by the id alone.                                    *)
ReceiveLogoutById(m) ==
  /\ Disconnect(m.slot)
  /\ UNCHANGED kicks

(* sn_LogoutHandler: a logout counts if it comes from the address in the   *)
(* slot it names (rec_peer).                                               *)
ReceiveLogout(m) ==
  /\ peers[m.slot] = m.from
  /\ Disconnect(m.slot)
  /\ UNCHANGED kicks

(* rec_peer for a packet of a client that is no longer in its slot.  From  *)
(* the last address in that slot it is ignored, so that the client times   *)
(* out; otherwise it is handled as if it came from a client logging in,    *)
(* and most messages of a game make the server disconnect that (Cheater).  *)
StrayPacket(c) ==
  /\ mode[c] = "connected"
  /\ Address(c) \notin {peers[netId[c]], lastPeers[netId[c]]}
  /\ Deny(Address(c))
  /\ UNCHANGED <<server, client, accepts, logouts>>

-----------------------------------------------------------------------------
(* Clients.                                                                *)

(* sn_Connect, until the login has left.                                   *)
Connect(c) ==
  /\ mode[c] = "standalone"
  /\ attempt[c] < MaxAttempts[c]
  /\ mode' = [mode EXCEPT ![c] = "login"]
  /\ attempt' = [attempt EXCEPT ![c] = @ + 1]
  /\ UNCHANGED <<server, netId, network>>

(* sn_LoginAcceptedHandler.                                                *)
ReceiveAccepted(c, m) ==
  /\ mode[c] # "standalone"
  /\ m.to = Address(c)
  /\ mode' = [mode EXCEPT ![c] = "connected"]
  /\ netId' = [netId EXCEPT ![c] = m.slot]
  /\ accepts' = accepts \ {m}
  /\ UNCHANGED <<server, attempt, denials, logouts>>

(* sn_SetNetState(nSTANDALONE): a logout is sent a few times, under the id *)
(* the client has by then.  Without one it means nothing to the server.    *)
GoStandalone(c) ==
  /\ mode[c] # "standalone"
  /\ mode' = [mode EXCEPT ![c] = "standalone"]
  /\ netId' = [netId EXCEPT ![c] = 0]
  /\ logouts' = IF netId[c] = 0 THEN logouts
                ELSE logouts \cup {[from |-> Address(c), slot |-> netId[c]]}
  /\ accepts' = {m \in accepts : m.to # Address(c)}
  /\ denials' = denials \ {Address(c)}
  /\ UNCHANGED <<server, attempt>>

(* sn_LoginDeniedHandler.                                                  *)
ReceiveDenied(c) ==
  /\ Address(c) \in denials
  /\ GoStandalone(c)

(* The user leaves or gives up, or the five seconds of sn_Connect are over.*)
Leave(c) == GoStandalone(c)

(* Faulty test: takes the acks for whoever is in its slot for its own.     *)
ForgottenIfFree(c) == peers[netId[c]] = NoAddress

(* The server does not answer: it ignores the client, or has a slot for it *)
(* under another id.                                                       *)
Forgotten(c) == peers[netId[c]] # Address(c) \/ ~ Patient

(* nWaitForAck::Resend on the client.                                      *)
ClientTimeout(c) ==
  /\ mode[c] = "connected"
  /\ Forgotten(c)
  /\ GoStandalone(c)

Next ==
  \/ \E a \in Addresses : ReceiveLogin(a)
  \/ \E s \in Slots : Kick(s) \/ Timeout(s)
  \/ \E m \in logouts : ReceiveLogout(m)
  \/ \E c \in Clients :
       \/ StrayPacket(c)
       \/ Connect(c) \/ Leave(c) \/ ReceiveDenied(c) \/ ClientTimeout(c)
       \/ \E m \in accepts : ReceiveAccepted(c, m)

Spec == Init /\ [][Next]_vars

(* A login is sent again and again until it is answered, and one of its    *)
(* copies gets through; so does one of the answers as long as the server   *)
(* repeats them: an acceptance that it waits for an ack of, a denial of    *)
(* each copy that finds no slot.                                           *)
LoginGetsThrough(c) ==
  /\ mode[c] = "login"
  /\ (\E s \in Slots : Grant(Address(c), s)) \/ Full(Address(c))

AcceptedGetsThrough(c) ==
  \E m \in accepts : peers[m.slot] = m.to /\ ReceiveAccepted(c, m)

DeniedGetsThrough(c) ==
  /\ mode[c] = "login"
  /\ NotLoggedIn(Address(c)) /\ \A s \in Slots : ~ Grantable(Address(c), s)
  /\ ReceiveDenied(c)

(* A client in the game has messages that wait for acks, at first its      *)
(* request for ids (first_fill_ids) and later what its players do, and     *)
(* gives up when none comes.  Nobody has to leave, to come back or to kick *)
(* anybody, and no single message has to arrive.                           *)
Fairness ==
  \A c \in Heard :
    /\ SF_vars(LoginGetsThrough(c))
    /\ SF_vars(AcceptedGetsThrough(c))
    /\ SF_vars(DeniedGetsThrough(c))
    /\ WF_vars(ClientTimeout(c))

FairSpec == Spec /\ Fairness

-----------------------------------------------------------------------------
(* The variables keep their types.                                         *)
TypeOK ==
  /\ peers \in [Slots -> Addresses \cup {NoAddress}]
  /\ lastPeers \in [Slots -> Addresses \cup {NoAddress}]
  /\ sameIP \in [Slots -> Nat]
  /\ grants \in 0 .. MaxGrants /\ kicks \in 0 .. MaxKicks
  /\ mode \in [Clients -> {"standalone", "login", "connected"}]
  /\ attempt \in [Clients -> Nat]
  /\ \A c \in Clients : attempt[c] <= MaxAttempts[c]
  /\ netId \in [Clients -> 0 .. MaxClients]
  /\ \A c \in Clients : mode[c] = "connected" <=> netId[c] # 0
  /\ \A c \in Clients : mode[c] # "standalone" => attempt[c] > 0
  /\ accepts \subseteq [to : Listening, slot : Slots, num : 1 .. MaxGrants]
  /\ denials \subseteq Listening
  /\ logouts \subseteq [from : Addresses, slot : Slots]

(* A login ends: with a slot that server and client agree on, or with the  *)
(* client back on its own.  It is neither ignored because of what it       *)
(* followed (a slot lost or timed out before the answer came, an earlier   *)
(* session that still has its slot), nor does the client play on under an  *)
(* id that is not its own any more.  Only the bound on the grants may      *)
(* leave it without an answer.                                             *)
LoginsSettle ==
  \A c \in Heard :
    mode[c] = "login"
      ~> \/ mode[c] = "standalone"
         \/ mode[c] = "connected" /\ peers[netId[c]] = Address(c)
         \/ grants = MaxGrants /\ NotLoggedIn(Address(c))
=============================================================================
