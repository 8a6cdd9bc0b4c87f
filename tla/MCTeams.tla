------------------------------- MODULE MCTeams -------------------------------
(***************************************************************************)
(* A small server for the model checker: see Teams.                        *)
(***************************************************************************)
EXTENDS Teams, TLC

symmetry == Permutations(Player) \cup Permutations(Team)
=============================================================================
