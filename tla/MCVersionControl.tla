--------------------------- MODULE MCVersionControl ---------------------------
(***************************************************************************)
(* Settings for the runs of VersionControl: one that shuts old clients out *)
(* and one that reverts to its default for them, introduced in different   *)
(* versions.                                                               *)
(***************************************************************************)
EXTENDS VersionControl

BothItems == <<"blocks", "reverts">>
FirstVersions == [x \in Items |-> IF x = "reverts" THEN 3 ELSE 2]
Behaviors == [x \in Items |-> IF x = "blocks" THEN "block" ELSE "revert"]
=============================================================================
