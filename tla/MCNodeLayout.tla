---------------------------- MODULE MCNodeLayout ----------------------------
(* A small instance of NodeLayout: capacities 2, 4, 5, 6 and six bytes, so *)
(* that every type is entered by growth and by shrinking.                  *)
EXTENDS NodeRange, VectorSearch

SmallCapacity == [Node4 |-> 2, Node16 |-> 4, Node48 |-> 5, Node256 |-> 6]
Bytes == 0 .. 5
=============================================================================
