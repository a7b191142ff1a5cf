---------------------------- MODULE MCATCommands ----------------------------
(* ATCommands for TLC: one kind of command sent alone, and the configuration *)
(* pair, whose first command is the longer one.                              *)
EXTENDS ATCommands

MCKinds == {"REF"}
MCSize == [k \in AllKinds |-> IF k = "CONFIG_IDS" THEN 2 ELSE 1]
=============================================================================
