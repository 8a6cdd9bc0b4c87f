------------------------------ MODULE MCVotes -------------------------------
(* A small instance of Votes for TLC.  The machines are alike.               *)
EXTENDS Votes

FirstSlot == {1}
LastSlot == {MaxClients}
SymMachines == Permutations(Machines)
=============================================================================
