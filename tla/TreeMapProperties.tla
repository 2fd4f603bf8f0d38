------------------------- MODULE TreeMapProperties -------------------------
(***************************************************************************)
(* What makes the tree of module TreeMap correct.  Every condition is      *)
(* local: it speaks of one node and its children, or of two nodes, and not *)
(* of paths, so that a step is judged by the few nodes it touches.         *)
(***************************************************************************)
EXTENDS TreeMap

Child(n, b) == heap[n].children[b]
ChildBytes(n) == DOMAIN heap[n].children

(* x lies below the inner node n: all keys below x run through n.          *)
Below(x, n) == IsPrefix(n.at, x.at) /\ Len(n.at) < Len(x.at)
ByteTowards(x, n) == x.at[Len(n.at) + 1]

(* deallocate_tree has freed part of the tree and root still points to it. *)
TearingDown == op.pc = "dealloc"
-----------------------------------------------------------------------------
(* Every variable ranges over what the fields of the code can hold.        *)
PointerType == LeafPointer \cup InnerPointer
PointType ==
  [kind : {"Exact", "IntoExisting", "Delete"}]
  \cup [kind : {"SplitLeaf"}, new_key_bytes_used : Nat]
  \cup [kind : {"MismatchPrefix"}, matched_bytes : Nat, prefix_byte : Byte,
        leaf_ptr : LeafPointer \cup {None}]

OutType ==
  {None, InsertPrefixError, Ok(None)} \cup {Ok(Some(v)) : v \in Values}
  \cup {Some(v) : v \in Values} \cup {Some(entry) : entry \in Keys \X Values}
OpType ==
  [pc : {"idle", "search", "apply", "dealloc", "done"}, call : Calls \cup {None},
   key : Keys \cup {<< >>}, value : Values \cup {None},
   node : PointerType \cup {None}, depth : Nat,
   parent : EdgeType \cup {None}, grandparent : EdgeType \cup {None},
   cursor : PointerType \cup {None}, point : PointType \cup {None},
   stack : SUBSET PointerType, out : OutType]

(* An answer is something, also when its parts are nothing. *)
ASSUME AnswerAssumption ==
  None \notin [call : Calls \cup {None}, key : Keys \cup {<< >>},
                value : Values \cup {None}, out : OutType]

LeafOK(p) == heap[p] \in [key : Keys, value : Values] /\ heap[p].key = p.at
InnerOK(p) ==
  /\ heap[p] = Inner(heap[p].header, heap[p].children)
  /\ heap[p].header \in HeaderType
  /\ \E D \in SUBSET Byte : heap[p].children \in [D -> PointerType]

TypeOK ==
  /\ DOMAIN heap \subseteq PointerType
  /\ \A p \in Leaves(heap) : LeafOK(p)
  /\ \A p \in Inners(heap) : InnerOK(p)
  /\ root \in PointerType \cup {None}
  /\ num_entries \in Nat
  /\ op \in OpType
-----------------------------------------------------------------------------
(* A node that is not the root is the child of exactly one node under      *)
(* exactly one byte, and nothing refers to the root: nothing is leaked,    *)
(* shared or reachable twice after a split, a merge, a grow or a shrink,   *)
(* and deallocate_tree frees each node once.                               *)
EveryNodeIsReferencedOnce ==
  ~TearingDown =>
    /\ root = None <=> DOMAIN heap = {}
    /\ \A x \in DOMAIN heap :
         Cardinality({e \in UNION {{<<n, b>> : b \in ChildBytes(n)} : n \in Inners(heap)} :
                        Child(e[1], e[2]) = x}) = (IF x = root THEN 0 ELSE 1)

(* Every child pointer is live: no write-back of a grow, a shrink or a     *)
(* merge leaves a pointer to the node it replaced.                         *)
ChildrenAreLive ==
  \A n \in Inners(heap) : \A b \in ChildBytes(n) :
    /\ Child(n, b) \in DOMAIN heap
    /\ IsPrefix(Append(n.at, b), Child(n, b).at)

(* From a node above x, the child under the next byte of x leads to x: a   *)
(* search for any stored key cannot miss it.                               *)
RoutesToEveryNode ==
  \A n \in Inners(heap), x \in DOMAIN heap :
    Below(x, n) => /\ ByteTowards(x, n) \in ChildBytes(n)
                   /\ IsPrefix(Child(n, ByteTowards(x, n)).at, x.at)

RootIsAboveAll ==
  ~TearingDown =>
    /\ root = None <=> DOMAIN heap = {}
    /\ root # None => root \in DOMAIN heap
    /\ \A x \in DOMAIN heap : IsPrefix(root.at, x.at)

(* The header of every inner node stands for exactly the bytes between its *)
(* parent's branch and its own, through any sequence of splits (ltrim_by,  *)
(* ltrim_by_with_leaf) and merges (push_prefix), also when the path is     *)
(* longer than PREFIX_LEN.                                                 *)
PrefixesAreFaithful ==
  /\ \A n \in Inners(heap) : \A b \in ChildBytes(n) :
       IsInner(Child(n, b)) =>
         Represents(heap[Child(n, b)].header, DropFirst(Child(n, b).at, Len(n.at) + 1))
  /\ (root # None /\ IsInner(root) /\ ~TearingDown) => Represents(heap[root].header, root.at)

(* An inner node has at least two children, no more than its type holds,   *)
(* and more than the next smaller type would hold.                         *)
NodesFitTheirType ==
  \A n \in Inners(heap) :
    /\ NumChildren(heap[n]) \in 2 .. UpperCapacity[n.type]
    /\ ~ShouldShrink(n.type, NumChildren(heap[n]))

(* The number of entries is the number of leaves, although it is kept by   *)
(* counting inserts and deletes.                                           *)
CountIsExact == ~TearingDown => num_entries = Cardinality(Leaves(heap))

(* The shape of the tree depends on the keys alone and not on the order of *)
(* calls that led to it: its inner nodes are the places where two keys     *)
(* part.  (Only the node types remember the past, by one step.)            *)
ShapeIsCanonical ==
  ~TearingDown =>
    {n.at : n \in Inners(heap)} =
      {CommonPrefix(heap[e[1]].key, heap[e[2]].key) :
         e \in {pair \in Leaves(heap) \X Leaves(heap) : pair[1] # pair[2]}}
-----------------------------------------------------------------------------
(* What the code takes for granted with assume!, expect, unwrap_unchecked, *)
(* slice indexing and its panics, wherever a step relies on it.            *)

(* Pointers a search holds lead to live nodes, and the edges it remembers  *)
(* are the edges it came by (DeletePoint: no parent means the leaf is the  *)
(* root, a grandparent needs a parent).                                    *)
SearchKeepsItsPath ==
  op.pc \in {"search", "apply"} =>
    /\ op.node \in DOMAIN heap
    /\ TracksParents(op.call) =>
         /\ op.parent = None => op.node = root /\ op.grandparent = None
         /\ op.parent # None =>
              /\ op.parent.node \in DOMAIN heap
              /\ op.parent.byte \in ChildBytes(op.parent.node)
              /\ Child(op.parent.node, op.parent.byte) = op.node
              /\ op.grandparent = None => op.parent.node = root
         /\ op.grandparent # None =>
              /\ op.grandparent.node \in DOMAIN heap
              /\ op.grandparent.byte \in ChildBytes(op.grandparent.node)
              /\ Child(op.grandparent.node, op.grandparent.byte) = op.parent.node

(* match_prefix and inner_read_full_prefix stay inside the key and inside  *)
(* the leaf they read the prefix from; the leaf comparison starts inside   *)
(* both keys.                                                              *)
DepthStaysInBounds ==
  (op.pc = "search" /\ op.call \in KeyCalls) =>
    /\ op.depth <= Len(op.key)
    /\ IsLeaf(op.node) => op.depth <= Len(LeafKey)
    /\ (IsInner(op.node) /\ PrefixIsImplicit /\ CursorAtLeaf) =>
         op.depth + CurrentHeader.prefix_len <= Len(heap[op.cursor].key)

(* Every index and size an insert or delete point relies on when it is     *)
(* applied: the split stays inside the prefix and both keys, ltrim_by does *)
(* not underflow, no write goes to a full node, no Node256 grows, the two  *)
(* children of a new Node4 have different bytes, the child is present.     *)
PointsAreApplicable ==
  /\ Applying("MismatchPrefix") =>
       LET m == op.point.matched_bytes
       IN  /\ op.depth + m < Len(op.key)
           /\ m + 1 <= CurrentHeader.prefix_len
           /\ op.point.prefix_byte # op.key[op.depth + m + 1]
           /\ IF op.point.leaf_ptr = None
              THEN CurrentHeader.prefix_len <= PREFIX_LEN
              ELSE op.depth + CurrentHeader.prefix_len <= Len(heap[op.point.leaf_ptr].key)
  /\ Applying("SplitLeaf") =>
       LET used == op.point.new_key_bytes_used
       IN  /\ op.depth <= used /\ used < Len(op.key) /\ used < Len(LeafKey)
           /\ LeafKey[used + 1] # op.key[used + 1]
  /\ Applying("IntoExisting") =>
       /\ op.depth < Len(op.key)
       /\ op.key[op.depth + 1] \notin ChildBytes(op.node)
       /\ IsFull(op.node.type, heap[op.node]) => op.node.type # "Node256"
  /\ (Applying("Delete") /\ op.parent # None) => op.parent.byte \in ChildBytes(op.parent.node)

(* No allocation is made at a live address: the abstraction of addresses   *)
(* to byte strings never identifies two nodes.                             *)
AddressesAreFresh == \A p, q \in DOMAIN heap : p.at = q.at => p = q
-----------------------------------------------------------------------------
(* A call that has been made returns.                                      *)
CallsReturn == [](op.pc \in {"search", "apply", "dealloc"} => <>(op.pc = "done"))

(***************************************************************************)
(* The dictionary the tree stands for, and the answer the caller sees.     *)
(* clear takes effect when it starts: nothing can look at the map while it *)
(* is being torn down.                                                     *)
(***************************************************************************)
StoredKeys == {heap[p].key : p \in Leaves(heap)}
AbstractMap ==
  IF TearingDown THEN [k \in {} |-> None]
  ELSE [k \in StoredKeys |->
          heap[CHOOSE p \in Leaves(heap) : heap[p].key = k].value]
AbstractRet ==
  IF op.pc \in {"done", "dealloc"}
  THEN [call |-> op.call, key |-> op.key, value |-> op.value, out |-> op.out]
  ELSE None

Dictionary == INSTANCE MapSpec WITH map <- AbstractMap, ret <- AbstractRet

(* Every call does to the dictionary what MapSpec says, and answers so.    *)
ImplementsDictionary == Dictionary!Spec

(* No stored key is a proper prefix of another one.                        *)
KeysArePrefixFree == PrefixFree(StoredKeys)
=============================================================================
