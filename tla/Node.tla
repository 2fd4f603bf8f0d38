-------------------------------- MODULE Node --------------------------------
(***************************************************************************)
(* Inner nodes as the operations of the tree see them: a node type with a  *)
(* capacity, and a partial function from key bytes to children             *)
(* (src/nodes/representation.rs: NodeType and the trait InnerNode).        *)
(* Module NodeLayout shows that the four layouts implement this view.      *)
(***************************************************************************)
EXTENDS ByteStrings, FiniteSets

CONSTANT UpperCapacity  (* NodeType::upper_capacity; 4, 16, 48, 256 in the code *)

InnerType == {"Node4", "Node16", "Node48", "Node256"}
NextLarger  == [Node4 |-> "Node16", Node16 |-> "Node48", Node48 |-> "Node256"]
NextSmaller == [Node16 |-> "Node4", Node48 |-> "Node16", Node256 |-> "Node48"]

ASSUME CapacityAssumption ==
  /\ UpperCapacity \in [InnerType -> Nat]
  /\ UpperCapacity["Node4"] >= 2
  /\ \A t \in DOMAIN NextLarger : UpperCapacity[t] < UpperCapacity[NextLarger[t]]
  /\ IsFiniteSet(Byte) /\ Cardinality(Byte) <= UpperCapacity["Node256"]
-----------------------------------------------------------------------------
(* The function f, with f[x] = y; and f without x. *)
With(f, x, y) == [z \in DOMAIN f \cup {x} |-> IF z = x THEN y ELSE f[z]]
Without(f, x) == [z \in DOMAIN f \ {x} |-> f[z]]

Inner(header, children) == [header |-> header, children |-> children]

NumChildren(node) == Cardinality(DOMAIN node.children)

(* Mutant of IsFull: a node takes one child too many before it grows.      *)
IsFullLate(type, node) == NumChildren(node) > UpperCapacity[type]
IsFull(type, node) == NumChildren(node) >= UpperCapacity[type]

(* Mutant of ShouldShrink: a node that would just fit is not shrunk.       *)
ShouldShrinkLate(type, n) == type # "Node4" /\ n < UpperCapacity[NextSmaller[type]]

(* NodeType::should_shrink_inner_node: the children fit the next smaller type. *)
ShouldShrink(type, n) == type # "Node4" /\ n <= UpperCapacity[NextSmaller[type]]

(* InnerNode::write_child and InnerNode::remove_child. *)
WriteChild(node, byte, child) ==
  Inner(node.header, With(node.children, byte, child))
RemoveChild(node, byte) ==
  Inner(node.header, Without(node.children, byte))

(* Mutant of MinByte: the other end of the node.                           *)
MinByteGreatest(node) ==
  CHOOSE b \in DOMAIN node.children : \A c \in DOMAIN node.children : c <= b

(* The key bytes of InnerNode::min and InnerNode::max. *)
MinByte(node) == CHOOSE b \in DOMAIN node.children : \A c \in DOMAIN node.children : b <= c
MaxByte(node) == CHOOSE b \in DOMAIN node.children : \A c \in DOMAIN node.children : c <= b
=============================================================================
