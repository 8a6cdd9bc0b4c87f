--------------------------- MODULE ReplicatedStore ---------------------------
(***************************************************************************)
(* What the game expects of network objects: a client's copies are of      *)
(* objects the server has or had, in states they were in on the server,    *)
(* they only get newer, and a copy goes only when its object is destroyed  *)
(* or the client is replaced by another one.                               *)
(***************************************************************************)
EXTENDS Integers

CONSTANT Objects

VARIABLES
  live,     \* the objects on the server
  dead,     \* the objects it has destroyed
  state,    \* the state of each object, counted in changes
  copies    \* the objects the client has, each with a state

vars == <<live, dead, state, copies>>

Init ==
  /\ live = {} /\ dead = {}
  /\ state = [o \in Objects |-> 0]
  /\ copies = [o \in {} |-> 0]

Create(o) ==
  /\ o \notin live /\ o \notin dead
  /\ live' = live \cup {o}
  /\ UNCHANGED <<dead, state, copies>>

Change(o) ==
  /\ o \in live
  /\ state' = [state EXCEPT ![o] = @ + 1]
  /\ UNCHANGED <<live, dead, copies>>

Destroy(o) ==
  /\ o \in live
  /\ live' = live \ {o}
  /\ dead' = dead \cup {o}
  /\ UNCHANGED <<state, copies>>

(* The client gets an object, perhaps after its end on the server.         *)
Appear(o) ==
  /\ o \in live \cup dead
  /\ o \notin DOMAIN copies
  /\ \E s \in 0 .. state[o] :
       copies' = [p \in DOMAIN copies \cup {o} |->
                    IF p = o THEN s ELSE copies[p]]
  /\ UNCHANGED <<live, dead, state>>

Refresh(o) ==
  /\ \E s \in copies[o] .. state[o] : copies' = [copies EXCEPT ![o] = s]
  /\ UNCHANGED <<live, dead, state>>

(* Only dead objects go.                                                   *)
Disappear(gone) ==
  /\ gone \subseteq dead
  /\ copies' = [o \in DOMAIN copies \ gone |-> copies[o]]
  /\ UNCHANGED <<live, dead, state>>

(* The client leaves; the next one has nothing.                            *)
Replace ==
  /\ copies' = [o \in {} |-> 0]
  /\ UNCHANGED <<live, dead, state>>

Next ==
  \/ Replace
  \/ \E o \in DOMAIN copies : Refresh(o)
  \/ \E o \in Objects : Create(o) \/ Change(o) \/ Destroy(o) \/ Appear(o)
  \/ \E gone \in SUBSET Objects : Disappear(gone)

Spec == Init /\ [][Next]_vars
=============================================================================
