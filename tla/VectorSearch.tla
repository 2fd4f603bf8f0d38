---------------------------- MODULE VectorSearch ----------------------------
(***************************************************************************)
(* The searches of the nightly build, which compare many bytes with one    *)
(* vector instruction (the functions under cfg(feature = "nightly") in     *)
(* src/nodes/representation/inner_node_*.rs).  A comparison answers a bit  *)
(* mask, here the set of the positions whose bit is set.                   *)
(***************************************************************************)
EXTENDS NodeLayout

CONSTANT LaneWidth  (* the bytes of Node48 and Node256 compared at once, 64 in the code *)

Lanes == 0 .. Cardinality(Byte) \div LaneWidth - 1

(* Bytes are all the positions of the masks, and None is no position.      *)
ASSUME LaneAssumption ==
  /\ LaneWidth \in Nat \ {0} /\ Cardinality(Byte) % LaneWidth = 0
  /\ Byte = 0 .. Cardinality(Byte) - 1
  /\ None \notin Slots("Node16")

(* Mutant of Masked: the bits of unused slots are kept.                    *)
MaskedNot(nd, cmp) == cmp

(* The vector holds all 16 keys; the bits of unused ones are masked out.   *)
Masked(nd, cmp) == {i \in cmp : i < nd.num_children}

(* InnerNode16::lookup_child_index *)
VectorLookup(nd, byte) ==
  LET bitfield == Masked(nd, {i \in Slots("Node16") : nd.keys[i] = byte})
  IN  IF bitfield = {} THEN None ELSE Min(bitfield)

(* InnerNode16::find_write_point *)
VectorWritePoint(nd, byte) ==
  LET bitfield == Masked(nd, {i \in Slots("Node16") : byte < nd.keys[i]})
  IN  IF VectorLookup(nd, byte) # None THEN [kind |-> "Existing", at |-> VectorLookup(nd, byte)]
      ELSE IF bitfield # {} THEN [kind |-> "Shift", at |-> Min(bitfield)]
      ELSE [kind |-> "Last", at |-> nd.num_children]

(* The runs of set bits at the low and at the high end of one mask; vacant *)
(* is the set of all bytes whose bit is set in theirs.                     *)
TrailingOnes(vacant, lane) ==
  Min({i \in 0 .. LaneWidth : i < LaneWidth => lane * LaneWidth + i \notin vacant})
LeadingOnes(vacant, lane) ==
  Min({i \in 0 .. LaneWidth : i < LaneWidth => (lane + 1) * LaneWidth - 1 - i \notin vacant})

(* The masks that are not all ones. *)
Broken(vacant) == {lane \in Lanes : TrailingOnes(vacant, lane) < LaneWidth}

(* min: the first such mask, or the last one whatever it is. *)
FirstByte(vacant) ==
  LET lane == IF Broken(vacant) = {} THEN Max(Lanes) ELSE Min(Broken(vacant))
  IN  lane * LaneWidth + TrailingOnes(vacant, lane)

(* max: the last such mask, or the first one whatever it is. *)
LastByte(vacant) ==
  LET lane == IF Broken(vacant) = {} THEN 0 ELSE Max(Broken(vacant))
  IN  (lane + 1) * LaneWidth - 1 - LeadingOnes(vacant, lane)

(* InnerNode48 compares its indices with 48, InnerNode256 its pointers     *)
(* with 0, which is None.                                                  *)
VectorMinIndexed(nd) ==
  LET b == FirstByte({c \in Byte : nd.child_indices[c] = EMPTY}) IN <<b, LookupIndexed(nd, b)>>
VectorMaxIndexed(nd) ==
  LET b == LastByte({c \in Byte : nd.child_indices[c] = EMPTY}) IN <<b, LookupIndexed(nd, b)>>
VectorMinDirect(nd) ==
  LET b == FirstByte({c \in Byte : nd.child_pointers[c] = None}) IN <<b, LookupDirect(nd, b)>>
VectorMaxDirect(nd) ==
  LET b == LastByte({c \in Byte : nd.child_pointers[c] = None}) IN <<b, LookupDirect(nd, b)>>
-----------------------------------------------------------------------------
(* Both builds find the same children: what unused key slots hold after    *)
(* shifts, removals and growth does not matter, and the ends are found in  *)
(* whatever part of the 256 bytes they lie.                                *)
VectorSearchAgrees ==
  node # None =>
    /\ node.type = "Node16" =>
         \A b \in Byte :
           /\ VectorLookup(node, b) =
                IF KeyIndices(node, b) = {} THEN None ELSE Min(KeyIndices(node, b))
           /\ VectorWritePoint(node, b) = FindWritePoint(node, b)
    /\ IsIndexed(node) =>
         VectorMinIndexed(node) = MinIndexed(node) /\ VectorMaxIndexed(node) = MaxIndexed(node)
    /\ IsDirect(node) =>
         VectorMinDirect(node) = MinDirect(node) /\ VectorMaxDirect(node) = MaxDirect(node)
=============================================================================
