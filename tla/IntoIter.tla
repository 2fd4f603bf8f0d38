------------------------------ MODULE IntoIter ------------------------------
(***************************************************************************)
(* IntoIter, IntoKeys and IntoValues: the iterators that own the map       *)
(* (iterators/into_iter.rs).  next is pop_first and next_back is pop_last, *)
(* so the tree stays a tree between two answers, and the size is the       *)
(* length of what is left of the map; the rest is freed when the iterator  *)
(* is dropped.                                                             *)
(***************************************************************************)
EXTENDS IterCall

Owned == [kind |-> "owned"]

Owning == iter.query = Owned

OpenOwned ==
  /\ CanOpen
  /\ iter' = [NoIter EXCEPT !.pc = "open", !.query = Owned]
  /\ UNCHANGED vars

PopAt(end) == IF end = "next" THEN "pop_first" ELSE "pop_last"

AdvanceOwned(end) ==
  /\ iter.pc = "open" /\ Owning
  /\ iter' = [iter EXCEPT !.pc = "walking", !.end = end]
  /\ \/ CallAtEnd(PopAt(end))
     \/ /\ root = None
        /\ op' = Done(PopAt(end), << >>, None, None)
        /\ UNCHANGED <<heap, root, num_entries>>

StepOwned == iter.pc = "walking" /\ Owning /\ Run /\ UNCHANGED iter

TakenOwned ==
  /\ iter.pc = "walking" /\ Owning /\ Return
  /\ iter' = [iter EXCEPT !.pc = "open", !.end = None]

(* The drop of the map clears it. *)
DropOwned ==
  /\ iter.pc = "open" /\ Owning
  /\ iter' = NoIter
  /\ ClearStart \/ ClearEmpty

OwnedStep == StepOwned \/ TakenOwned \/ DropOwned
=============================================================================
