--------------------------- MODULE PanickingDrop ---------------------------
(***************************************************************************)
(* TreeMap::clear, and Drop for TreeMap, when the drop of a value panics   *)
(* (src/collections/map.rs, src/nodes/operations.rs).  deallocate_tree     *)
(* moves a leaf out of its allocation, which is freed, and then drops the  *)
(* leaf.  The panic unwinds through clear before root and num_entries are  *)
(* reset, and out of the scope of the map, which is dropped.               *)
(***************************************************************************)
EXTENDS TreeMap

(* A panic while the map is dropped by the unwinding aborts the program.   *)
DropPanics ==
  /\ op.pc = "dealloc" /\ op.call = "clear"
  /\ \E p \in op.stack : IsLeaf(p) /\ heap' = Deallocate(heap, p)
  /\ op' = [IdleOp EXCEPT !.pc = "unwinding", !.call = "clear"]
  /\ UNCHANGED <<root, num_entries>>

(* Drop for TreeMap, which is clear. *)
DropMap ==
  /\ op.pc = "unwinding" /\ root # None
  /\ op' = [IdleOp EXCEPT !.pc = "dealloc", !.call = "drop", !.stack = {root}]
  /\ UNCHANGED <<heap, root, num_entries>>

PanicNext == Next \/ DropPanics \/ DropMap

PanicSpec == Init /\ [][PanicNext]_vars
-----------------------------------------------------------------------------
(* deallocate_tree is given live nodes only: it "must only be called once  *)
(* for this root node and all descendants, otherwise a double-free could   *)
(* result" (operations.rs:22).                                             *)
FreedOnce == op.pc = "dealloc" => op.stack \subseteq DOMAIN heap
=============================================================================
