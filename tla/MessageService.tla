--------------------------- MODULE MessageService ---------------------------
(***************************************************************************)
(* What the rest of the program expects of nMessageBase::Send with an ack: *)
(* every message posted to an open connection is delivered exactly once,   *)
(* in any order, unless the connection is closed first.                    *)
(***************************************************************************)
EXTENDS Integers

CONSTANT Messages

VARIABLES
  deliveries,     \* how often each posted message was delivered
  open            \* the sender has not given up the connection

vars == <<deliveries, open>>

Init == deliveries = <<>> /\ open = TRUE

Post(m) ==
  /\ open
  /\ m \notin DOMAIN deliveries
  /\ deliveries' = [x \in DOMAIN deliveries \cup {m} |->
                      IF x = m THEN 0 ELSE deliveries[x]]
  /\ UNCHANGED open

Deliver(m) ==
  /\ m \in DOMAIN deliveries
  /\ deliveries[m] = 0
  /\ deliveries' = [deliveries EXCEPT ![m] = 1]
  /\ UNCHANGED open

Close ==
  /\ open
  /\ open' = FALSE
  /\ UNCHANGED deliveries

Next ==
  \/ \E m \in Messages : Post(m) \/ Deliver(m)
  \/ Close

Spec == Init /\ [][Next]_vars

FairSpec == Spec /\ \A m \in Messages : WF_vars(open /\ Deliver(m))
=============================================================================
