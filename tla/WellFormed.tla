----------------------------- MODULE WellFormed -----------------------------
(***************************************************************************)
(* WellFormedChecker (src/nodes/visitor/well_formed.rs), the visitor with  *)
(* which tests and users check a tree: no node is met twice, every inner   *)
(* node has as many children as its type accepts, and the bytes on the way *)
(* to a leaf are the start of its key.  Those bytes are one vector that    *)
(* every visit extends and cuts back.                                      *)
(***************************************************************************)
EXTENDS VisitCall

WellFormedChecker ==
  [pc |-> "visiting", visitor |-> "WellFormedChecker", node |-> None, frames |-> << >>,
   current_key_prefix |-> << >>, seen_nodes |-> {}, count |-> 0, result |-> None]

Checking == Visiting("WellFormedChecker")

(* The locals of visit_inner_node. *)
Frame(node, original_len) ==
  [node |-> node, todo |-> BytesInOrder(node), original_key_prefix_len |-> original_len,
   num_children |-> 0]

Passed(count) == <<"Ok", count>>
Failed(c, error) == [c EXCEPT !.pc = "done", !.result = <<"Err", error>>]

(* Mutant of CapacityRange: every lower bound is one too high.             *)
CapacityRangeTight(type) ==
  IF type = "Node4" THEN 2 .. UpperCapacity["Node4"]
  ELSE UpperCapacity[NextSmaller[type]] + 2 .. UpperCapacity[type]

(* NodeType::capacity_range, a range without its end: for Node256 the end  *)
(* is the capacity itself, for the others one more.                        *)
CapacityRange(type) ==
  CASE type = "Node4"   -> 1 .. UpperCapacity["Node4"]
    [] type = "Node256" -> UpperCapacity["Node48"] + 1 .. UpperCapacity["Node256"] - 1
    [] OTHER            -> UpperCapacity[NextSmaller[type]] + 1 .. UpperCapacity[type]
-----------------------------------------------------------------------------
(* WellFormedChecker::check *)
CheckEmpty ==
  /\ CanVisit /\ root = None
  /\ visit' = IF num_entries = 0
              THEN [WellFormedChecker EXCEPT !.pc = "done", !.result = Passed(0)]
              ELSE Failed(WellFormedChecker, "EmptyTreeWithLen")
  /\ UNCHANGED vars

CheckTree ==
  /\ CanVisit /\ root # None
  /\ visit' = [WellFormedChecker EXCEPT !.node = root, !.seen_nodes = {root}]
  /\ UNCHANGED vars

(* visit_inner_node up to its loop: the path of the node is added. *)
EnterInner ==
  LET from == Len(visit.current_key_prefix)
  IN  /\ Checking /\ visit.node # None /\ IsInner(visit.node)
      /\ visit' = [visit EXCEPT
                     !.node = None,
                     !.frames = Append(@, Frame(visit.node, from)),
                     !.current_key_prefix = @ \o ReadFullPrefix(visit.node, from)]
      /\ UNCHANGED vars

(* One turn of the loop, up to the visit of the child. *)
EnterChild ==
  /\ Checking /\ visit.node = None /\ Top.todo # << >>
  /\ LET byte  == Head(Top.todo)
         child == Child(Top.node, byte)
     IN  visit' = IF child \in visit.seen_nodes
                  THEN Failed(visit, "LoopFound")
                  ELSE [visit EXCEPT
                          !.node = child,
                          !.frames = WithTop([Top EXCEPT !.todo = Tail(@)]),
                          !.seen_nodes = @ \cup {child},
                          !.current_key_prefix = Append(@, byte)]
  /\ UNCHANGED vars

ChildCounted(frame) == [frame EXCEPT !.num_children = @ + 1]

(* Mutant of Returned: the byte of the child stays on the vector.          *)
ReturnedKeepingByte(c) ==
  IF c.frames = << >> THEN [c EXCEPT !.pc = "done", !.node = None, !.result = Passed(c.count)]
  ELSE [c EXCEPT !.node = None,
                 !.frames = Append(Front(@), ChildCounted(Last(@)))]

(* The visit of a child has ended and the loop above it goes on: the byte  *)
(* of the child is taken off.  There is none above the root.               *)
Returned(c) ==
  IF c.frames = << >> THEN [c EXCEPT !.pc = "done", !.node = None, !.result = Passed(c.count)]
  ELSE [c EXCEPT !.node = None,
                 !.frames = Append(Front(@), ChildCounted(Last(@))),
                 !.current_key_prefix = Front(@)]

VisitLeaf ==
  /\ Checking /\ visit.node # None /\ IsLeaf(visit.node)
  /\ visit' = IF IsPrefix(visit.current_key_prefix, heap[visit.node].key)
              THEN Returned([visit EXCEPT !.count = @ + 1])
              ELSE Failed(visit, "PrefixMismatch")
  /\ UNCHANGED vars

(* visit_inner_node after its loop. *)
LeaveInner ==
  /\ Checking /\ visit.node = None /\ Top.todo = << >>
  /\ visit' = IF Top.num_children \in CapacityRange(Top.node.type)
              THEN Returned([visit EXCEPT
                               !.count = @ + 1,
                               !.frames = Front(@),
                               !.current_key_prefix =
                                 TakeFirst(@, Top.original_key_prefix_len)])
              ELSE Failed(visit, "WrongChildrenCount")
  /\ UNCHANGED vars

CheckerStep ==
  CheckEmpty \/ CheckTree \/ EnterInner \/ EnterChild \/ VisitLeaf \/ LeaveInner
-----------------------------------------------------------------------------
(* The checker accepts every tree the operations of the map can build, and *)
(* counts each of its nodes once.  Its documentation asks of an inner node *)
(* "a number of children that is in range for the inner node type"         *)
(* (well_formed.rs), and that of Node256 is "between 49 and 256 children"  *)
(* (representation.rs).                                                    *)
AcceptsEveryTree ==
  Visited("WellFormedChecker") => visit.result = Passed(Cardinality(DOMAIN heap))

(* Whenever a visit starts, the vector holds the bytes that lead to the    *)
(* node, whatever was visited and cut back before: read_full_prefix cuts   *)
(* the path of a node out of a leaf by the length of this vector.          *)
PrefixLeadsToNode ==
  (Checking /\ visit.node # None) =>
    /\ IsPrefix(visit.current_key_prefix, visit.node.at)
    /\ visit.frames # << >> => Len(visit.current_key_prefix) = Len(Top.node.at) + 1
=============================================================================
