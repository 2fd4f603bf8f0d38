------------------------------ MODULE TreeWalk ------------------------------
(***************************************************************************)
(* What every walk over the tree uses (iterators and visitors): the        *)
(* children of a node in key order, and the whole compressed path of a     *)
(* node, read back from a leaf when it is longer than the header's array.  *)
(* A walk borrows the map, so the tree does not change below it and the    *)
(* descent to that leaf can be one step.                                   *)
(***************************************************************************)
EXTENDS TreeMapProperties

(* The key bytes of InnerNode::iter, in its order. *)
BytesInOrder(n) == Ascending(ChildBytes(n))

(* minimum_unchecked *)
MinimumLeaf(n) ==
  LET min[p \in DOMAIN heap] == IF IsLeaf(p) THEN p ELSE min[Child(p, MinByte(heap[p]))]
  IN  min[n]

(* Mutant of ReadFullPrefix: the bytes beyond the array are not read back. *)
ReadStoredPrefix(n, depth) == ReadPrefix(heap[n].header)

(* InnerNode::read_full_prefix *)
ReadFullPrefix(n, depth) ==
  LET header == heap[n].header
  IN  IF header.prefix_len > PREFIX_LEN
      THEN SubSeq(heap[MinimumLeaf(n)].key, depth + 1, depth + header.prefix_len)
      ELSE ReadPrefix(header)
=============================================================================
