-------------------------- MODULE MCPanickingDrop --------------------------
(* The instances of MCTreeMap, with values whose drop may panic.           *)
EXTENDS MCTreeMap, PanickingDrop
=============================================================================
