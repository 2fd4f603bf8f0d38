-------------------------- MODULE TreeMapInvariant --------------------------
(***************************************************************************)
(* The inductive invariant of TreeMap.  The safety properties of           *)
(* TreeMapProperties speak of the tree between two steps; what makes them  *)
(* survive a step is that a search in progress has not lost anything:      *)
(* every node that runs along the bytes the search has passed lies below   *)
(* the node it stands at (NothingIsPassedBy).                              *)
(***************************************************************************)
EXTENDS TreeMapProperties

(* There are finitely many allocations, so that leaves can be counted. *)
HeapIsFinite == IsFiniteSet(DOMAIN heap)

(* A leaf has nothing below it: no search can be led past it. *)
LeavesAreLowest ==
  \A p \in Leaves(heap), x \in DOMAIN heap : IsPrefix(p.at, x.at) => x = p

(* Some call is walking, or has an insert or delete point in hand. *)
Walking == op.pc \in {"search", "apply"}

(* The depth the search arrived at its node with. *)
EntryDepth == IF op.parent = None THEN 0 ELSE Len(op.parent.node.at) + 1

(* A search by key has matched op.depth bytes of the path to its node, and *)
(* its header stands for the rest of that path.                            *)
SearchIsOnPath ==
  (Walking /\ op.call \in KeyCalls) =>
    /\ op.key \in Keys
    /\ op.call \in {"try_insert", "get_mut"} => op.value \in Values
    /\ AgreeOn(op.key, op.node.at, op.depth)
    /\ (op.pc = "search" /\ IsInner(op.node)) =>
         Represents(CurrentHeader, DropFirst(op.node.at, op.depth))
    /\ (op.pc = "search" /\ TracksParents(op.call)) => op.depth = EntryDepth
    /\ op.parent # None => AgreeOn(op.key, op.node.at, Len(op.parent.node.at) + 1)

(* What lies under the key lies below the node.  A delete point knows its  *)
(* leaf already; one that an entry makes comes from no search of its own.  *)
NothingIsPassedBy ==
  (Walking /\ op.call \in KeyCalls /\ ~Applying("Delete")) =>
    \A x \in DOMAIN heap : AgreeOn(op.key, x.at, op.depth) => IsPrefix(op.node.at, x.at)

(* The cursor that looks for a leaf stays below the node. *)
CursorIsBelow ==
  (op.pc = "search" /\ op.cursor # None) =>
    op.cursor \in DOMAIN heap /\ IsPrefix(op.node.at, op.cursor.at)

(* What an insert or delete point says of the node it was found at. *)
PointFitsNode ==
  op.pc = "apply" =>
    /\ op.point \in PointType
    /\ op.point.kind = "Delete" => IsLeaf(op.node) /\ TracksParents(op.call)
    /\ op.point.kind # "Delete" => op.call = "try_insert"
    /\ op.point.kind = "Exact" => IsLeaf(op.node) /\ LeafKey = op.key
    /\ op.point.kind = "IntoExisting" =>
         /\ IsInner(op.node) /\ op.depth = Len(op.node.at) /\ op.depth < Len(op.key)
         /\ op.key[op.depth + 1] \notin ChildBytes(op.node)
    /\ op.point.kind = "SplitLeaf" =>
         LET used == op.point.new_key_bytes_used
         IN  /\ IsLeaf(op.node) /\ op.depth = EntryDepth /\ op.depth <= used
             /\ AgreeOn(op.key, LeafKey, used)
             /\ used < Len(op.key) /\ used < Len(LeafKey)
             /\ op.key[used + 1] # LeafKey[used + 1]
    /\ op.point.kind = "MismatchPrefix" =>
         LET used == op.depth + op.point.matched_bytes
         IN  /\ IsInner(op.node) /\ op.depth = EntryDepth
             /\ Represents(CurrentHeader, DropFirst(op.node.at, op.depth))
             /\ AgreeOn(op.key, op.node.at, used)
             /\ used < Len(op.key) /\ used < Len(op.node.at)
             /\ op.point.prefix_byte = op.node.at[used + 1]
             /\ op.point.prefix_byte # op.key[used + 1]
             /\ IF op.point.leaf_ptr = None THEN ~PrefixIsImplicit
                ELSE /\ op.point.leaf_ptr \in Leaves(heap)
                     /\ IsPrefix(op.node.at, op.point.leaf_ptr.at)

(* deallocate_tree holds the roots of disjoint subtrees, and they hold     *)
(* every allocation that is left: nothing is freed twice and nothing leaks.*)
TeardownIsExact ==
  TearingDown =>
    /\ op.stack \subseteq DOMAIN heap
    /\ \A x \in DOMAIN heap : \E p \in op.stack : IsPrefix(p.at, x.at)
    /\ \A p, q \in op.stack : PrefixRelated(p.at, q.at) => p = q

TreeInvariant ==
  /\ TypeOK
  /\ HeapIsFinite
  /\ AddressesAreFresh
  /\ LeavesAreLowest
  /\ ChildrenAreLive
  /\ RoutesToEveryNode
  /\ RootIsAboveAll
  /\ PrefixesAreFaithful
  /\ NodesFitTheirType
  /\ CountIsExact

CallInvariant ==
  /\ SearchKeepsItsPath
  /\ SearchIsOnPath
  /\ NothingIsPassedBy
  /\ CursorIsBelow
  /\ PointFitsNode
  /\ TeardownIsExact

Invariant == TreeInvariant /\ CallInvariant
-----------------------------------------------------------------------------
(***************************************************************************)
(* What the answers rest on.  No safety property of the tree needs it; the *)
(* refinement of MapSpec does.                                             *)
(***************************************************************************)

(* s and t part, and s has the smaller byte there. *)
Precedes(s, t) ==
  \E i \in 1 .. Lesser(Len(s), Len(t)) :
    (\A j \in 1 .. i - 1 : s[j] = t[j]) /\ s[i] < t[i]

(* A walk to the first or the last leaf has no smaller, or no greater, leaf*)
(* beside it.                                                              *)
EndIsAhead ==
  Walking =>
    /\ op.call \in MinCalls =>
         \A p \in Leaves(heap) : IsPrefix(op.node.at, p.at) \/ Precedes(op.node.at, p.at)
    /\ op.call \in MaxCalls =>
         \A p \in Leaves(heap) : IsPrefix(op.node.at, p.at) \/ Precedes(p.at, op.node.at)

(* The call that runs, with what it was called with, and for removals the  *)
(* leaf they are about to remove.                                          *)
CallIsKept ==
  /\ Walking => op.call \in KeyCalls \cup MinCalls \cup MaxCalls
  /\ op.call \in {"remove_entry", "get"} => op.value = None
  /\ op.call \in MinCalls \cup MaxCalls => op.key = << >> /\ op.value = None
  /\ TearingDown => op.call = "clear" /\ op.key = << >> /\ op.value = None /\ op.out = None
  /\ Applying("Delete") => op.call # "try_insert"
  /\ (Applying("Delete") /\ op.call = "remove_entry") => LeafKey = op.key

AnswerInvariant == EndIsAhead /\ CallIsKept
=============================================================================
