----------------------------- MODULE Iterators -----------------------------
(***************************************************************************)
(* The double-ended iterators over a map: TreeIterator and its twins for   *)
(* keys, values and mutable values (iterators/iterator.rs), and Prefix and *)
(* its twins, which visit the keys that start with given bytes             *)
(* (iterators/prefix.rs).                                                  *)
(*                                                                         *)
(* Both keep one queue of subtrees that are not yet visited.  next takes   *)
(* from its back and next_back from its front, and each puts the children  *)
(* of an inner node back at its own end, so the two walks share the queue  *)
(* and meet in the middle.  A step is one turn of the loop of next or      *)
(* next_back.                                                              *)
(***************************************************************************)
EXTENDS IterCall

(* The bytes Prefix iterators are opened with. *)
CONSTANT SearchPrefixes
ASSUME SearchPrefixesAssumption == SearchPrefixes \subseteq ByteString

AllKeys == [kind |-> "all", prefix |-> << >>]
StartingWith(prefix) == [kind |-> "prefix", prefix |-> prefix]
WalkQueries == {AllKeys} \cup {StartingWith(prefix) : prefix \in SearchPrefixes}

(* A queued subtree and the number of key bytes that lead to it;           *)
(* TreeIterator has no such number, and it is 0 here.                      *)
Pending(node, depth) == [node |-> node, depth |-> depth]

(* TreeIterator::new and Prefix::new *)
OpenWalk(query) ==
  /\ CanOpen
  /\ iter' = Opened(query, Pending(root, 0), << >>)
  /\ UNCHANGED vars
-----------------------------------------------------------------------------
(* The children of a node, in the order of InnerNode::iter. *)
ChildrenInOrder(n, depth) ==
  LET bytes == BytesInOrder(n)
  IN  [i \in DOMAIN bytes |-> Pending(Child(n, bytes[i]), depth)]

(* Prefix::is_prefix_of: one of the two starts with the other. *)
IsPrefixOf(a, b) == MatchedBytes(a, b) = Lesser(Len(a), Len(b))

(* add_children below a node that may still part from the searched prefix: *)
(* all children if the prefix ends here, one if it goes on, none if the    *)
(* path of the node differs from it.                                       *)
MatchingChildren(n, depth) ==
  LET prefix    == iter.query.prefix
      path      == ReadFullPrefix(n, depth)
      new_depth == depth + Lesser(Len(path), Len(prefix) - depth)
      byte      == prefix[new_depth + 1]
  IN  IF ~IsPrefixOf(path, DropFirst(prefix, depth)) THEN << >>
      ELSE IF new_depth >= Len(prefix) THEN ChildrenInOrder(n, new_depth + 1)
      ELSE IF byte \in ChildBytes(n) THEN << Pending(Child(n, byte), new_depth + 1) >>
      ELSE << >>

(* The children that are queued for an inner node. *)
Queued(n, depth) ==
  CASE iter.query.kind = "all" -> ChildrenInOrder(n, 0)
    [] iter.query.kind = "prefix" /\ depth >= Len(iter.query.prefix) ->
         ChildrenInOrder(n, depth + heap[n].header.prefix_len + 1)
    [] OTHER -> MatchingChildren(n, depth)

(* Prefix::handle_leaf: TRUE if the leaf is yielded. *)
Yielded(leaf, depth) ==
  \/ iter.query.kind = "all"
  \/ depth >= Len(iter.query.prefix)
  \/ /\ Len(iter.query.prefix) <= Len(heap[leaf].key)
     /\ IsPrefixOf(DropFirst(heap[leaf].key, depth), DropFirst(iter.query.prefix, depth))
-----------------------------------------------------------------------------
Iterating == iter.pc = "walking" /\ iter.query.kind \in {"all", "prefix"}
Back == iter.end = "next"

(* pop_back of next, pop_front of next_back *)
Popped == IF Back THEN Last(iter.nodes) ELSE Head(iter.nodes)
Rest   == IF Back THEN Front(iter.nodes) ELSE Tail(iter.nodes)

(* Mutant of PushedAt: the children are put at the front in key order.     *)
PushedAtUnreversed(nodes, children) ==
  IF Back THEN nodes \o Reverse(children) ELSE children \o nodes

(* push_back_rev_iter and push_front: at the back the children are pushed  *)
(* from the last to the first, at the front from the first to the last.    *)
PushedAt(nodes, children) ==
  IF Back THEN nodes \o Reverse(children) ELSE Reverse(children) \o nodes

VisitInner ==
  /\ Iterating /\ iter.nodes # << >> /\ IsInner(Popped.node)
  /\ iter' = [iter EXCEPT !.nodes = PushedAt(Rest, Queued(Popped.node, Popped.depth))]
  /\ UNCHANGED vars

(* Mutant of VisitLeaf: only the entries that are yielded are counted off  *)
(* by next, and next_back forgets to count.                                *)
VisitLeafUncounted ==
  /\ Iterating /\ iter.nodes # << >> /\ IsLeaf(Popped.node)
  /\ LET counted == [iter EXCEPT !.nodes = Rest, !.size = IF Back THEN @ - 1 ELSE @]
     IN  iter' = IF Yielded(Popped.node, Popped.depth)
                 THEN [counted EXCEPT !.pc = "answered", !.out = heap[Popped.node].key]
                 ELSE counted
  /\ UNCHANGED vars

VisitLeaf ==
  /\ Iterating /\ iter.nodes # << >> /\ IsLeaf(Popped.node)
  /\ LET counted == [iter EXCEPT !.nodes = Rest, !.size = @ - 1]
     IN  iter' = IF Yielded(Popped.node, Popped.depth)
                 THEN [counted EXCEPT !.pc = "answered", !.out = heap[Popped.node].key]
                 ELSE counted
  /\ UNCHANGED vars

Exhausted ==
  /\ Iterating /\ iter.nodes = << >>
  /\ iter' = [iter EXCEPT !.pc = "answered"]
  /\ UNCHANGED vars

WalkStep == VisitInner \/ VisitLeaf \/ Exhausted
-----------------------------------------------------------------------------
WalkMatching == [q \in WalkQueries |-> {k \in Keys : q.kind = "all" \/ IsPrefix(q.prefix, k)}]

KeysBelow(p) == {k \in StoredKeys : IsPrefix(p.at, k)}
KeysToWalk == UNION {KeysBelow(iter.nodes[i].node) : i \in DOMAIN iter.nodes}

(* What read_full_prefix and the slices of prefix.rs rely on: a subtree    *)
(* that is queued before the searched prefix is used up is queued with the *)
(* number of bytes that lead to it, and those bytes are the prefix's; one  *)
(* that is queued after that holds matching keys only.                     *)
LeadsToNode(prefix, p) ==
  IF p.depth < Len(prefix)
  THEN /\ IsPrefix(TakeFirst(prefix, p.depth), p.node.at)
       /\ IF p.node = root THEN p.depth = 0
          ELSE \E n \in Inners(heap) : p.depth = Len(n.at) + 1 /\ p.node \in ChildrenOf(n)
  ELSE IsPrefix(prefix, p.node.at)

DepthsLeadToNodes ==
  (iter.pc # "none" /\ iter.query.kind = "prefix") =>
    \A i \in DOMAIN iter.nodes : LeadsToNode(iter.query.prefix, iter.nodes[i])
=============================================================================
