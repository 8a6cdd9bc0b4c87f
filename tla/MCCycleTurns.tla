---------------------------- MODULE MCCycleTurns ----------------------------
(* A small instance of CycleTurns for TLC.                                   *)
EXTENDS CycleTurns

BothSides == {-1, 1}

(* The second destination follows the first one at once; between the second *)
(* and the third the client may have sent other messages.                   *)
LastMayBeApart ==
  [i \in 1 .. MaxCommands |-> IF i < MaxCommands THEN {TRUE} ELSE BOOLEAN]
=============================================================================
