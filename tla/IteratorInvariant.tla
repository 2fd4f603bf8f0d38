------------------------- MODULE IteratorInvariant -------------------------
(***************************************************************************)
(* The inductive invariant of the iterators: what the queue of a borrowing *)
(* iterator holds between two turns of its loop, and how a map and its     *)
(* iterator wait for each other.                                           *)
(***************************************************************************)
EXTENDS MapIterators, TreeMapInvariant

(* The queue of an iterator, as the sequence of the paths to its subtrees, *)
(* from the front of a walk to its back; the stack of a fuzzy search is    *)
(* the other way round.  The paths descend, and none is a prefix of        *)
(* another: no key is below two of them, and the keys below one come all   *)
(* before or all after those below another.                                *)
WalkPaths(nodes) == [i \in 1 .. Len(nodes) |-> nodes[i].node.at]
StackPaths(nodes) == [i \in 1 .. Len(nodes) |-> nodes[Len(nodes) - i + 1].at]
Descending(s) == \A i, j \in DOMAIN s : i < j => Precedes(s[j], s[i])

(* The keys of K below some path of s, and those the iterator may yet meet.*)
KeysUnder(K, s) == {k \in K : \E i \in DOMAIN s : IsPrefix(s[i], k)}
KeysAlong(nodes) == KeysUnder(StoredKeys, WalkPaths(nodes))
KeysInStack(nodes) == KeysUnder(StoredKeys, StackPaths(nodes))

QueueEntry == [node : DOMAIN heap, depth : Nat]

HoldsWalk(q, nodes) ==
  /\ nodes \in Seq(QueueEntry)
  /\ Descending(WalkPaths(nodes))
  /\ q.kind = "prefix" => \A i \in DOMAIN nodes : LeadsToNode(q.prefix, nodes[i])

HoldsStack(nodes) == nodes \in Seq(DOMAIN heap) /\ Descending(StackPaths(nodes))

(* size counts at least the keys to come, exactly if all keys are asked    *)
(* for: a leaf is counted off when it is met, and those in subtrees that   *)
(* are skipped stay counted.                                               *)
Counts(size, K) == size \in Nat /\ size >= Cardinality(K)

QueueHolds(q, nodes, size) ==
  IF q.kind = "fuzzy" THEN HoldsStack(nodes) /\ Counts(size, KeysInStack(nodes))
  ELSE /\ HoldsWalk(q, nodes) /\ Counts(size, KeysAlong(nodes))
       /\ q.kind = "all" => size = Cardinality(KeysAlong(nodes))

Borrowing == iter.pc # "none" /\ iter.query.kind # "owned"

IterType ==
  /\ iter = [pc |-> iter.pc, query |-> iter.query, nodes |-> iter.nodes, arena |-> iter.arena,
             size |-> iter.size, end |-> iter.end, out |-> iter.out]
  /\ iter.pc \in {"none", "open", "walking", "answered"}
  /\ iter.pc = "none" => iter = NoIter
  /\ iter.pc # "none" => iter.query \in Queries
  /\ iter.pc \in {"walking", "answered"} => iter.end \in {"next", "next_back"}
  /\ iter.pc = "answered" => Borrowing /\ iter.out \in Keys \cup {None}
  /\ iter.pc # "answered" => iter.out = None

(* What pop_first and pop_last answer with. *)
PopIsAnswered ==
  op.pc = "done" => op.out = None \/ \E entry \in Keys \X Values : op.out = Some(entry)

(* The map stays as it is while an iterator borrows it, and does nothing   *)
(* but pop while an iterator owns it.                                      *)
MapIsHeld ==
  /\ Borrowing => op.pc = "idle"
  /\ (iter.pc # "none" /\ Owning) =>
       \/ iter.pc = "open" /\ op.pc = "idle"
       \/ /\ iter.pc = "walking" /\ op.pc \in {"search", "apply", "done"}
          /\ op.call = PopAt(iter.end) /\ PopIsAnswered

IterInvariant ==
  /\ IterType
  /\ MapIsHeld
  /\ Borrowing => QueueHolds(iter.query, iter.nodes, iter.size)
=============================================================================
