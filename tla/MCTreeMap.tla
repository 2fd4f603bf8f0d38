----------------------------- MODULE MCTreeMap -----------------------------
(***************************************************************************)
(* Small instances of TreeMap for TLC.  The capacities are scaled down so  *)
(* that six children reach the largest node type, and PREFIX_LEN so that   *)
(* paths of two and three bytes are already longer than the array.         *)
(***************************************************************************)
EXTENDS TreeMapInvariant

(* 4, 16, 48, 256 become 3, 4, 5, 6: a Node4 has a child to spare, and     *)
(* every other type is one insert or one delete away from its neighbours.  *)
SmallCapacity == [Node4 |-> 3, Node16 |-> 4, Node48 |-> 5, Node256 |-> 6]

Bytes == 0 .. 5

(* Six branches at the root, one of them with a path longer than the      *)
(* array and branches of its own, and a key that conflicts with them.      *)
WideKeys ==
  {<<0>>, <<1>>, <<2>>, <<3, 0, 1, 0>>, <<3, 0, 1, 1>>, <<3, 0, 0>>, <<3, 1>>, <<4>>, <<5>>, <<3, 0>>}

(* Long shared paths that split and merge, at lengths below, at and above  *)
(* PREFIX_LEN, with the empty key and inner prefixes as conflicts.         *)
DeepKeys ==
  {<<0, 1, 0, 1, 0>>, <<0, 1, 0, 1, 1>>, <<0, 1, 0, 0>>, <<0, 1, 1>>, <<1, 0, 0>>,
   <<0, 1, 2>>, <<0, 1>>, << >>}

(* A fourth branch below a path, so that the node there changes its type.  *)
DeepAndWideKeys == DeepKeys \cup {<<0, 1, 3>>}
=============================================================================
