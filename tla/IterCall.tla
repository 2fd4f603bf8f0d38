------------------------------ MODULE IterCall ------------------------------
(***************************************************************************)
(* What all iterators of a map have in common: a caller opens one, asks it *)
(* for the next entry from one end or the other, takes the answer, and     *)
(* drops it when it likes.  Iterators, Fuzzy and IntoIter say what happens *)
(* between the question and the answer; MapIterators puts them together.   *)
(* One record holds whatever the open iterator holds; iterators only read  *)
(* a borrowed map, so one at a time shows all that can happen.             *)
(***************************************************************************)
EXTENDS TreeWalk

VARIABLE iter  (* the open iterator *)

iterVars == <<heap, root, num_entries, op, iter>>

(***************************************************************************)
(* pc: "none", "open", "walking" in the loop of next or next_back (end     *)
(* says which), "answered".  nodes holds the subtrees that are not yet     *)
(* visited, arena the rows of a fuzzy search, size the count of entries    *)
(* that size_hint answers from.                                            *)
(***************************************************************************)
NoIter ==
  [pc |-> "none", query |-> None, nodes |-> << >>, arena |-> << >>, size |-> 0,
   end |-> None, out |-> None]

IterInit == Init /\ iter = NoIter

(* The other calls of the map, when no iterator is open. *)
OtherCall == iter.pc = "none" /\ Next /\ UNCHANGED iter

CanOpen == iter.pc = "none" /\ op.pc = "idle"

(* new of the iterators that borrow the map: only the root is queued. *)
Opened(query, pending, arena) ==
  [NoIter EXCEPT !.pc = "open", !.query = query, !.size = num_entries, !.arena = arena,
                 !.nodes = IF root = None THEN << >> ELSE <<pending>>]

(* next and next_back of an iterator that borrows the map. *)
Advance(end) ==
  /\ iter.pc = "open" /\ iter.query.kind # "owned"
  /\ end = "next_back" => iter.query.kind # "fuzzy"
  /\ iter' = [iter EXCEPT !.pc = "walking", !.end = end]
  /\ UNCHANGED vars

(* The caller takes the answer. *)
Taken ==
  /\ iter.pc = "answered"
  /\ iter' = [iter EXCEPT !.pc = "open", !.end = None, !.out = None]
  /\ UNCHANGED vars

(* The caller drops an iterator that borrows the map. *)
Drop ==
  /\ iter.pc = "open" /\ iter.query.kind # "owned"
  /\ iter' = NoIter
  /\ UNCHANGED vars
=============================================================================
