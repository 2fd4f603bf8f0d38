----------------------------- MODULE VisitCall -----------------------------
(***************************************************************************)
(* What the visitors of a tree have in common (src/nodes/visitor.rs): a    *)
(* caller starts one at the root, it walks the tree, and the caller takes  *)
(* its result.  WellFormed and TreeStats say what each visitor does on the *)
(* way; Visitors puts them together.  The recursion of the visit functions *)
(* is a stack of frames.                                                   *)
(***************************************************************************)
EXTENDS TreeWalk

VARIABLE visit  (* the running visitor and its locals *)

visitVars == <<heap, root, num_entries, op, visit>>

(***************************************************************************)
(* pc: "none", "visiting", "done".  A running visitor has its name, the    *)
(* node whose visit starts (None between two children of the node on top   *)
(* of the frames), the frames, and fields of its own.                      *)
(***************************************************************************)
NoVisit == [pc |-> "none"]

VisitInit == Init /\ visit = NoVisit

(* The other calls of the map, when no visitor is running. *)
OtherCall == visit.pc = "none" /\ Next /\ UNCHANGED visit

CanVisit == visit.pc = "none" /\ op.pc = "idle"

Visiting(visitor) == visit.pc = "visiting" /\ visit.visitor = visitor
Visited(visitor)  == visit.pc = "done" /\ visit.visitor = visitor

Top == Last(visit.frames)
WithTop(frame) == Append(Front(visit.frames), frame)

(* The caller takes the result. *)
Taken ==
  /\ visit.pc = "done"
  /\ visit' = NoVisit
  /\ UNCHANGED vars
=============================================================================
