----------------------------- MODULE SlotLimits -----------------------------
(***************************************************************************)
(* A server's connection slots as its clients see them: which addresses    *)
(* are in them, which clients play in them, and what must hold of that     *)
(* whatever clients and the network do.                                    *)
(***************************************************************************)
EXTENDS Integers, FiniteSets

CONSTANTS
  Clients,
  MachineOf,     \* the machine, or IP address, of each client
  HardLimit,     \* sn_allowSameIPCountHard
  NoAddress      \* what is in a free slot

VARIABLES
  peers,       \* server: the address in each slot
  kicks,       \* server: how many clients have been kicked
  mode,        \* client: "standalone", "login" or "connected"
  attempt,     \* client: how often it has connected
  netId        \* client: sn_myNetID, 0 before the login is accepted

(* An address is a client and the number of its attempt to connect: each   *)
(* attempt is made from a socket of its own, sn_Connect resets them.       *)
IP(a) == MachineOf[a[1]]
Address(c) == <<c, attempt[c]>>

Taken == {s \in DOMAIN peers : peers[s] # NoAddress}

(* CountSameIP with reset, for a new address.                              *)
SameMachine(a) == {s \in Taken : IP(peers[s]) = IP(a)}

(* The client of the slot answers from its address and under its id.       *)
Answers(s) ==
  \E c \in Clients :
    mode[c] = "connected" /\ peers[s] = Address(c) /\ netId[c] = s

(* A machine never has more slots than the hard limit allows, whoever is   *)
(* thrown out to make room and whatever is counted for those who stay.     *)
SameIPLimit ==
  \A s \in Taken : Cardinality(SameMachine(peers[s])) <= HardLimit

(* Only a kick, or somebody who comes while all slots are taken, costs a   *)
(* client that answers its slot.  The logouts, logins and timeouts of      *)
(* those who had the slot before, or of its own earlier sessions, do not,  *)
(* however late they come.                                                 *)
PlayersStay ==
  [][\A s \in Taken :
       Answers(s) /\ peers'[s] # peers[s]
         => \/ kicks' # kicks
            \/ Taken = DOMAIN peers /\ peers'[s] # NoAddress]_peers
=============================================================================
