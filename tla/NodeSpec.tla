------------------------------ MODULE NodeSpec ------------------------------
(***************************************************************************)
(* What the insert, delete and clone operations take an inner node for: a  *)
(* type and a partial function from key bytes to children, changed by the  *)
(* operators that module TreeMap uses.  `out' is what the last removal     *)
(* returned: the removed child, and when a single one was left, that one   *)
(* with its key byte.                                                      *)
(***************************************************************************)
EXTENDS Node

CONSTANTS
  Child,  (* pointers to children                            *)
  None    (* Option::None, and a node that has been freed    *)

VARIABLES type, children, out

specVars == <<type, children, out>>

View == Inner(None, children)

Free ==
  /\ type' = None
  /\ children' = [b \in {} |-> None]

Init == \E b, c \in Byte, x, y \in Child :
  /\ b < c
  /\ type = "Node4"
  /\ children = [e \in {b, c} |-> IF e = b THEN x ELSE y]
  /\ out = None

(* A new Node4 for two subtrees (InsertAtMismatch, InsertAtLeaf). *)
Create(b, c, x, y) ==
  /\ type = None /\ b # c
  /\ type' = "Node4"
  /\ children' = [e \in {b, c} |-> IF e = b THEN x ELSE y]
  /\ UNCHANGED out

(* InsertIntoNode and InsertIntoGrownNode *)
InsertChild(b, x) ==
  /\ type # None /\ b \notin DOMAIN children
  /\ type' = IF IsFull(type, View) THEN NextLarger[type] ELSE type
  /\ children' = WriteChild(View, b, x).children
  /\ UNCHANGED out

(* A grown, split, shrunk or merged child is written back.                 *)
ReplaceChild(b, x) ==
  /\ type # None /\ b \in DOMAIN children
  /\ children' = WriteChild(View, b, x).children
  /\ UNCHANGED <<type, out>>

(* DeleteAndMerge, DeleteAndShrink and DeleteInPlace *)
DeleteChild(b) ==
  LET left   == RemoveChild(View, b)
      merged == NumChildren(left) = 1
  IN  /\ type # None /\ b \in DOMAIN children
      /\ out' = <<children[b],
                  IF merged THEN <<MinByte(left), left.children[MinByte(left)]>> ELSE None>>
      /\ IF merged
         THEN Free
         ELSE /\ type' = IF ShouldShrink(type, NumChildren(left)) THEN NextSmaller[type]
                         ELSE type
              /\ children' = left.children

Next ==
  \E b \in Byte, x \in Child :
    \/ InsertChild(b, x) \/ ReplaceChild(b, x) \/ DeleteChild(b)
    \/ \E c \in Byte, y \in Child : Create(b, c, x, y)

Spec == Init /\ [][Next]_specVars
=============================================================================
