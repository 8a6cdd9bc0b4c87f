---------------------------- MODULE MCLoginSlots ----------------------------
(* Small instances of LoginSlots for TLC.                                    *)
EXTENDS LoginSlots, TLC

CONSTANTS c1, c2, c3, m1, m2, m3

(* Three clients, three machines.                                           *)
EachItsOwn == (c1 :> m1) @@ (c2 :> m2) @@ (c3 :> m3)

(* The first client may come back, from the same machine.                    *)
FirstTwice == [c \in Clients |-> IF c = c1 THEN 2 ELSE 1]
=============================================================================
