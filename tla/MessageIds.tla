----------------------------- MODULE MessageIds -----------------------------
(***************************************************************************)
(* Message identifiers of the network layer (nNetwork.cpp, nNetwork.h).    *)
(* A process counts messages with one counter, current_id, that is never   *)
(* reset; only its low bits travel (nMessageBase::MessageID).  The low     *)
(* values are reserved: zero marks a message that wants no acknowledgement.*)
(***************************************************************************)
EXTENDS Integers

CONSTANTS
  IdSpace,        \* number of identifiers on the wire: 2^16 in the code
  IdsReserved,    \* IDS_RESERVED, 16 in the code
  FreshWindow     \* 10000 in rec_peer: how far ahead an id is surely new

ASSUME IdsAssumption ==
  /\ IdSpace \in Nat \ {0}
  /\ IdsReserved \in Nat
  /\ FreshWindow \in Nat
  /\ 2 * IdsReserved + 2 < IdSpace
  /\ FreshWindow < IdSpace

(* nMessageBase::MessageID: the part of an identifier that is sent.        *)
Wire(id) == id % IdSpace

WireIds == 0 .. IdSpace - 1

(* A faulty constructor that forgets the reserved identifiers.             *)
NextIdUnreserved(id) == id + 1

(* The message constructor: count on, and jump over the reserved values.   *)
NextId(id) ==
  IF Wire(id + 1) <= IdsReserved THEN id + IdsReserved + 2 ELSE id + 1

(* Faulty comparisons: every other identifier counts as new, and the       *)
(* highest one itself does.                                                *)
SurelyNewUnbounded(w, highest) == w # highest
SurelyNewInclusive(w, highest) == (w - highest) % IdSpace < FreshWindow

(* rec_peer's comparison in unsigned shorts: w is 1 .. FreshWindow - 1     *)
(* ahead of the highest identifier acknowledged so far.                    *)
SurelyNew(w, highest) ==
  LET diff == (w - highest) % IdSpace
  IN  diff > 0 /\ diff < FreshWindow
=============================================================================
