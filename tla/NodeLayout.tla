----------------------------- MODULE NodeLayout -----------------------------
(***************************************************************************)
(* The four layouts of an inner node, and the way the operations of the    *)
(* tree use them (src/nodes/representation/inner_node_*.rs):               *)
(*                                                                         *)
(*   Node4, Node16   sorted key bytes, with the children at the same index *)
(*   Node48          256 indices into an array of 48 children              *)
(*   Node256         one slot per byte                                     *)
(*                                                                         *)
(* Arrays are indexed from 0 as in the code.  The prefix of the header is  *)
(* module Header; its num_children lives here.  MaybeUninit memory holds   *)
(* Uninit until it is written.                                             *)
(***************************************************************************)
EXTENDS Node

CONSTANTS
  Child,   (* pointers to children                          *)
  None,    (* Option::None, and a node that has been freed  *)
  Uninit   (* memory that was never written                 *)

ASSUME ChildAssumption == None \notin Child /\ Uninit \notin Child \cup Byte

VARIABLES
  node,  (* the node in its layout *)
  out    (* what the last removal returned *)

layoutVars == <<node, out>>

(* RestrictedNodeIndex::<48>::EMPTY *)
EMPTY == UpperCapacity["Node48"]

Slots(type) == 0 .. UpperCapacity[type] - 1
Used(nd) == 0 .. nd.num_children - 1

(* InnerNodeCompressed, InnerNode48 and InnerNode256 *)
Compressed(type, n, keys, pointers) ==
  [type |-> type, num_children |-> n, keys |-> keys, child_pointers |-> pointers]
Indexed(n, indices, pointers) ==
  [type |-> "Node48", num_children |-> n, child_indices |-> indices, child_pointers |-> pointers]
Direct(n, pointers) ==
  [type |-> "Node256", num_children |-> n, child_pointers |-> pointers]

CompressedNode(type) ==
  [type : {type}, num_children : Nat,
   keys : [Slots(type) -> Byte \cup {Uninit}],
   child_pointers : [Slots(type) -> Child \cup {Uninit}]]
IndexedNode ==
  [type : {"Node48"}, num_children : Nat,
   child_indices : [Byte -> 0 .. EMPTY],
   child_pointers : [Slots("Node48") -> Child \cup {Uninit}]]
DirectNode ==
  [type : {"Node256"}, num_children : Nat, child_pointers : [Byte -> Child \cup {None}]]

ASSUME NoneAssumption ==
  /\ None \notin InnerType
  /\ \A type \in {"Node4", "Node16"} : None \notin CompressedNode(type)
  /\ None \notin IndexedNode /\ None \notin DirectNode

IsCompressed(nd) == nd.type \in {"Node4", "Node16"}
IsIndexed(nd)    == nd.type = "Node48"
IsDirect(nd)     == nd.type = "Node256"

(* slice::copy_within(from .. to, dest) *)
CopyWithin(array, from, to, dest) ==
  [i \in DOMAIN array |->
     IF i \in dest .. dest + (to - from) - 1 THEN array[from + (i - dest)] ELSE array[i]]

(* An array of the size of a type, with the first n elements of another.   *)
Resize(type, array, n, fill) ==
  [i \in Slots(type) |-> IF i < n THEN array[i] ELSE fill]
-----------------------------------------------------------------------------
(* from_header of the four types, for a header with n children.            *)

FromHeader4(n) ==
  Compressed("Node4", n, [i \in Slots("Node4") |-> Uninit], [i \in Slots("Node4") |-> Uninit])
FromHeader16(n) ==
  Compressed("Node16", n, [i \in Slots("Node16") |-> 0], [i \in Slots("Node16") |-> Uninit])
FromHeader48(n) ==
  Indexed(n, [b \in Byte |-> EMPTY], [i \in Slots("Node48") |-> Uninit])
FromHeader256(n) == Direct(n, [b \in Byte |-> None])

(* The first elements of an array, those of a sequence. *)
Overwrite(array, elements) ==
  [i \in DOMAIN array |-> IF i < Len(elements) THEN elements[i + 1] ELSE array[i]]
-----------------------------------------------------------------------------
(* Lookups.                                                                *)

(* lookup_child_index: the first initialized key that is equal. *)
KeyIndices(nd, byte) == {i \in Used(nd) : nd.keys[i] = byte}

LookupCompressed(nd, byte) ==
  IF KeyIndices(nd, byte) = {} THEN None ELSE nd.child_pointers[Min(KeyIndices(nd, byte))]

LookupIndexed(nd, byte) ==
  IF nd.child_indices[byte] = EMPTY THEN None ELSE nd.child_pointers[nd.child_indices[byte]]

LookupDirect(nd, byte) == nd.child_pointers[byte]

LookupChild(nd, byte) ==
  CASE IsCompressed(nd) -> LookupCompressed(nd, byte)
    [] IsIndexed(nd)    -> LookupIndexed(nd, byte)
    [] IsDirect(nd)     -> LookupDirect(nd, byte)

(* InnerNode::iter: the pairs of key byte and child, in the order of the   *)
(* array for a compressed node and of the 256 bytes for the others.        *)
IterCompressed(nd) ==
  [i \in 1 .. nd.num_children |-> <<nd.keys[i - 1], nd.child_pointers[i - 1]>>]

PairsAt(bytes, nd) ==
  [i \in 1 .. Cardinality(bytes) |->
     LET b == Ascending(bytes)[i] IN <<b, LookupChild(nd, b)>>]

(* Node48Iter and Node256Iter skip the bytes that have no child. *)
OccupiedIndices(nd) == {b \in Byte : nd.child_indices[b] # EMPTY}
OccupiedPointers(nd) == {b \in Byte : nd.child_pointers[b] # None}

IterIndexed(nd) == PairsAt(OccupiedIndices(nd), nd)
IterDirect(nd)  == PairsAt(OccupiedPointers(nd), nd)

Occupied(nd) == IF IsIndexed(nd) THEN OccupiedIndices(nd) ELSE OccupiedPointers(nd)

Iter(nd) ==
  CASE IsCompressed(nd) -> IterCompressed(nd)
    [] IsIndexed(nd)    -> IterIndexed(nd)
    [] IsDirect(nd)     -> IterDirect(nd)

(* InnerNode::min and InnerNode::max: the ends of the initialized portion  *)
(* of a compressed node; a search over all 256 bytes for the others, from  *)
(* the first to the last and from the last to the first.                   *)
MinCompressed(nd) == <<nd.keys[0], nd.child_pointers[0]>>
MaxCompressed(nd) ==
  LET n == nd.num_children IN <<nd.keys[n - 1], nd.child_pointers[n - 1]>>

MinIndexed(nd) == LET b == Min(OccupiedIndices(nd)) IN <<b, LookupIndexed(nd, b)>>
MaxIndexed(nd) == LET b == Max(OccupiedIndices(nd)) IN <<b, LookupIndexed(nd, b)>>

MinDirect(nd) == LET b == Min(OccupiedPointers(nd)) IN <<b, LookupDirect(nd, b)>>
MaxDirect(nd) == LET b == Max(OccupiedPointers(nd)) IN <<b, LookupDirect(nd, b)>>

MinChild(nd) ==
  CASE IsCompressed(nd) -> MinCompressed(nd)
    [] IsIndexed(nd)    -> MinIndexed(nd)
    [] IsDirect(nd)     -> MinDirect(nd)
MaxChild(nd) ==
  CASE IsCompressed(nd) -> MaxCompressed(nd)
    [] IsIndexed(nd)    -> MaxIndexed(nd)
    [] IsDirect(nd)     -> MaxDirect(nd)
-----------------------------------------------------------------------------
(* write_child.                                                            *)

(* Mutant of FindWritePoint: new keys always go to the end.                *)
FindWritePointLast(nd, byte) ==
  IF KeyIndices(nd, byte) = {} THEN [kind |-> "Last", at |-> nd.num_children]
  ELSE [kind |-> "Existing", at |-> Min(KeyIndices(nd, byte))]

(* find_write_point: the first key that is not smaller, or the end. *)
FindWritePoint(nd, byte) ==
  LET ahead == {i \in Used(nd) : byte <= nd.keys[i]}
  IN  IF ahead = {} THEN [kind |-> "Last", at |-> nd.num_children]
      ELSE [kind |-> IF nd.keys[Min(ahead)] = byte THEN "Existing" ELSE "Shift",
            at   |-> Min(ahead)]

WriteCompressed(nd, byte, child) ==
  LET n       == nd.num_children
      point   == FindWritePoint(nd, byte)
      shifted == IF point.kind = "Shift"
                 THEN [nd EXCEPT !.keys = CopyWithin(@, point.at, n, point.at + 1),
                                 !.child_pointers = CopyWithin(@, point.at, n, point.at + 1)]
                 ELSE nd
  IN  [shifted EXCEPT !.num_children = IF point.kind = "Existing" THEN @ ELSE @ + 1,
                      !.keys[point.at] = byte,
                      !.child_pointers[point.at] = child]

(* A new child goes behind the others, whatever its byte.                  *)
WriteIndexed(nd, byte, child) ==
  LET n == nd.num_children
  IN  IF nd.child_indices[byte] = EMPTY
      THEN [nd EXCEPT !.child_indices[byte] = n,
                      !.num_children = n + 1,
                      !.child_pointers[n] = child]
      ELSE [nd EXCEPT !.child_pointers[nd.child_indices[byte]] = child]

WriteDirect(nd, byte, child) ==
  [nd EXCEPT !.child_pointers[byte] = child,
             !.num_children = IF nd.child_pointers[byte] = None THEN @ + 1 ELSE @]

Write(nd, byte, child) ==
  CASE IsCompressed(nd) -> WriteCompressed(nd, byte, child)
    [] IsIndexed(nd)    -> WriteIndexed(nd, byte, child)
    [] IsDirect(nd)     -> WriteDirect(nd, byte, child)

(* write_child_unchecked: the next key and its child, whatever the order.  *)
WriteUnchecked(nd, byte, child) ==
  LET n == nd.num_children
  IN  [nd EXCEPT !.keys[n] = byte, !.child_pointers[n] = child, !.num_children = n + 1]

(* Mutant of NewNode4: the bytes are not compared first.                   *)
NewNode4Unsorted(b, c, x, y) ==
  WriteUnchecked(WriteUnchecked(FromHeader4(0), b, x), c, y)

(* Two calls of write_child_unchecked on an empty Node4, in the order of   *)
(* the two bytes, as both splits of InsertPoint::apply do it.              *)
NewNode4(b, c, x, y) ==
  IF b < c THEN WriteUnchecked(WriteUnchecked(FromHeader4(0), b, x), c, y)
  ELSE WriteUnchecked(WriteUnchecked(FromHeader4(0), c, y), b, x)
-----------------------------------------------------------------------------
(* remove_child.                                                           *)

RemoveCompressed(nd, byte) ==
  LET n == nd.num_children
      i == Min(KeyIndices(nd, byte))
  IN  [nd EXCEPT !.child_pointers = CopyWithin([@ EXCEPT ![i] = Uninit], i + 1, n, i),
                 !.keys = CopyWithin(@, i + 1, n, i),
                 !.num_children = n - 1]

(* Mutant of MovedIndex: the indices above the gap are left as they are.   *)
MovedIndexUnchanged(index, removed) == index

(* RestrictedNodeIndex::partial_cmp: EMPTY is not above any index. *)
MovedIndex(index, removed) ==
  IF index # EMPTY /\ removed < index THEN index - 1 ELSE index

(* The children behind the removed one move down, and so do the indices    *)
(* that lead to them.                                                      *)
RemoveIndexed(nd, byte) ==
  LET n == nd.num_children
      i == nd.child_indices[byte]
  IN  [nd EXCEPT !.child_pointers = CopyWithin([@ EXCEPT ![i] = Uninit], i + 1, n, i),
                 !.child_indices = [b \in Byte |-> IF b = byte THEN EMPTY
                                                   ELSE MovedIndex(@[b], i)],
                 !.num_children = n - 1]

RemoveDirect(nd, byte) ==
  [nd EXCEPT !.child_pointers[byte] = None, !.num_children = @ - 1]

Removed(nd, byte) ==
  CASE IsCompressed(nd) -> RemoveCompressed(nd, byte)
    [] IsIndexed(nd)    -> RemoveIndexed(nd, byte)
    [] IsDirect(nd)     -> RemoveDirect(nd, byte)
-----------------------------------------------------------------------------
(* grow and shrink.                                                        *)

(* change_block_size: Node4 to Node16 and back; unused keys are 0.         *)
ChangeBlockSize(nd, type) ==
  Compressed(type, nd.num_children, Resize(type, nd.keys, nd.num_children, 0),
             Resize(type, nd.child_pointers, nd.num_children, Uninit))

GrowNode48(nd) ==
  Indexed(nd.num_children,
          [b \in Byte |-> IF KeyIndices(nd, b) = {} THEN EMPTY ELSE Min(KeyIndices(nd, b))],
          Resize("Node48", nd.child_pointers, nd.num_children, Uninit))

Grow48(nd) ==
  Direct(nd.num_children, [b \in Byte |-> LookupChild(nd, b)])

(* slice::sort_unstable_by_key for pairs whose bytes all differ.           *)
SortedByByte(pairs) ==
  LET bytes == {pairs[i][1] : i \in DOMAIN pairs}
  IN  [i \in 1 .. Len(pairs) |->
         pairs[CHOOSE j \in DOMAIN pairs : pairs[j][1] = Ascending(bytes)[i]]]

(* InnerNode48::shrink: the pairs of the iterator, sorted by their bytes,  *)
(* in arrays that start out uninitialized.                                 *)
Shrink48(nd) ==
  LET pairs == SortedByByte(Iter(nd))
      slots(k) == [i \in Slots("Node16") |-> IF i < Len(pairs) THEN pairs[i + 1][k] ELSE Uninit]
  IN  Compressed("Node16", nd.num_children, slots(1), slots(2))

(* The positions of the key bytes in an iteration, and its children.       *)
Positions(pairs) ==
  [b \in Byte |-> LET at == {i \in DOMAIN pairs : pairs[i][1] = b}
                  IN  IF at = {} THEN EMPTY ELSE Min(at) - 1]
Pointees(pairs) == [i \in DOMAIN pairs |-> pairs[i][2]]

(* InnerNode256::shrink *)
Shrink256(nd) ==
  [FromHeader48(nd.num_children) EXCEPT
     !.child_indices = Positions(IterDirect(nd)),
     !.child_pointers = Overwrite(@, Pointees(IterDirect(nd)))]

(* grow of a Node256 and shrink of a Node4 panic. *)
Grow(nd) ==
  CASE nd.type = "Node4"  -> ChangeBlockSize(nd, "Node16")
    [] nd.type = "Node16" -> GrowNode48(nd)
    [] nd.type = "Node48" -> Grow48(nd)
Shrink(nd) ==
  CASE nd.type = "Node16"  -> ChangeBlockSize(nd, "Node4")
    [] nd.type = "Node48"  -> Shrink48(nd)
    [] nd.type = "Node256" -> Shrink256(nd)
-----------------------------------------------------------------------------
(* deep_clone: from_header, then the children of the iteration one after   *)
(* the other; a Node48 is renumbered on the way.                           *)
CloneCompressed(nd) ==
  LET pairs == IterCompressed(nd)
      new   == IF nd.type = "Node4" THEN FromHeader4(nd.num_children)
               ELSE FromHeader16(nd.num_children)
  IN  [new EXCEPT !.keys = Overwrite(@, [i \in DOMAIN pairs |-> pairs[i][1]]),
                  !.child_pointers = Overwrite(@, Pointees(pairs))]

CloneIndexed(nd) ==
  [FromHeader48(nd.num_children) EXCEPT
     !.child_indices = Positions(IterIndexed(nd)),
     !.child_pointers = Overwrite(@, Pointees(IterIndexed(nd)))]

CloneDirect(nd) ==
  [FromHeader256(nd.num_children) EXCEPT
     !.child_pointers = [b \in Byte |-> IF b \in OccupiedPointers(nd)
                                        THEN nd.child_pointers[b] ELSE @[b]]]

DeepClone(nd) ==
  CASE IsCompressed(nd) -> CloneCompressed(nd)
    [] IsIndexed(nd)    -> CloneIndexed(nd)
    [] IsDirect(nd)     -> CloneDirect(nd)
-----------------------------------------------------------------------------
(* How InsertPoint::apply, DeletePoint::apply and the clone of a tree use  *)
(* a node.                                                                 *)

Absent(b)  == node # None /\ LookupChild(node, b) = None
Present(b) == node # None /\ LookupChild(node, b) # None

Init ==
  /\ \E b, c \in Byte, x, y \in Child : b < c /\ node = NewNode4(b, c, x, y)
  /\ out = None

Create(b, c, x, y) ==
  /\ node = None /\ b # c
  /\ node' = NewNode4(b, c, x, y)
  /\ UNCHANGED out

(* write_new_child_in_existing_inner_node *)
InsertChild(b, x) ==
  /\ Absent(b)
  /\ node' = IF node.num_children >= UpperCapacity[node.type]
             THEN Write(Grow(node), b, x) ELSE Write(node, b, x)
  /\ UNCHANGED out

(* parent_write_child, and the write to the grandparent after a removal. *)
ReplaceChild(b, x) ==
  /\ Present(b)
  /\ node' = Write(node, b, x)
  /\ UNCHANGED out

(* remove_child_from_inner_node_and_compress: a node with one child left   *)
(* is freed.                                                               *)
DeleteChild(b) ==
  LET left   == Removed(node, b)
      merged == left.num_children = 1
  IN  /\ Present(b)
      /\ out' = <<LookupChild(node, b), IF merged THEN Iter(left)[1] ELSE None>>
      /\ node' = IF merged THEN None
                 ELSE IF ShouldShrink(node.type, left.num_children) THEN Shrink(left)
                 ELSE left

(* TreeMap::clone *)
Clone ==
  /\ node # None
  /\ node' = DeepClone(node)
  /\ UNCHANGED out

Next ==
  \/ \E b \in Byte, x \in Child :
       \/ InsertChild(b, x) \/ ReplaceChild(b, x)
       \/ \E c \in Byte, y \in Child : Create(b, c, x, y)
  \/ \E b \in Byte : DeleteChild(b)
  \/ Clone

Spec == Init /\ [][Next]_layoutVars
-----------------------------------------------------------------------------
(* The partial function that lookup_child computes. *)
Children ==
  IF node = None THEN [b \in {} |-> None]
  ELSE [b \in {c \in Byte : LookupChild(node, c) # None} |-> LookupChild(node, b)]

Abstract ==
  INSTANCE NodeSpec WITH type <- IF node = None THEN None ELSE node.type,
                         children <- Children

(* Every layout behaves as a partial function from bytes to children, with *)
(* the type the tree expects: a child that is written is found under its   *)
(* byte and no other child is disturbed, whatever was removed, grown,      *)
(* shrunk or cloned before.                                                *)
ImplementsChildren == Abstract!Spec

(* The conditions the code states next to its unchecked accesses: the key  *)
(* bytes in use are sorted, the indices in use are exactly 0 up to the     *)
(* number of children, and the children they lead to are initialized.      *)
SoundCompressed(nd) ==
  /\ nd.type \in {"Node4", "Node16"} /\ nd \in CompressedNode(nd.type)
  /\ nd.num_children <= UpperCapacity[nd.type]
  /\ \A i \in Used(nd) : nd.keys[i] \in Byte /\ nd.child_pointers[i] \in Child
  /\ \A i, j \in Used(nd) : i < j => nd.keys[i] < nd.keys[j]

SoundIndexed(nd) ==
  /\ nd \in IndexedNode
  /\ nd.num_children <= EMPTY
  /\ \A b, c \in OccupiedIndices(nd) : nd.child_indices[b] = nd.child_indices[c] => b = c
  /\ {nd.child_indices[b] : b \in OccupiedIndices(nd)} = Used(nd)
  /\ \A i \in Used(nd) : nd.child_pointers[i] \in Child

SoundDirect(nd) ==
  /\ nd \in DirectNode
  /\ nd.num_children = Cardinality(OccupiedPointers(nd))

SoundNode(nd) == SoundCompressed(nd) \/ SoundIndexed(nd) \/ SoundDirect(nd)

(* After every operation of the tree the node is sound, has at least two   *)
(* children, and has the layout that fits them.                            *)
LayoutIsSound ==
  node # None =>
    /\ SoundNode(node)
    /\ node.num_children >= 2
    /\ ~ShouldShrink(node.type, node.num_children)

(* iter visits every child once, in the order of the key bytes, and min    *)
(* and max are its ends: the order of the map rests on this alone, since a *)
(* tree walk compares no keys.                                             *)
IterationIsOrdered ==
  node # None =>
    /\ Len(Iter(node)) = Cardinality(DOMAIN Children)
    /\ \A i \in 1 .. Len(Iter(node)) : Iter(node)[i][2] = Children[Iter(node)[i][1]]
    /\ \A i, j \in 1 .. Len(Iter(node)) : i < j => Iter(node)[i][1] < Iter(node)[j][1]
    /\ MinChild(node) = Iter(node)[1]
    /\ MaxChild(node) = Last(Iter(node))

(* lookup_child_index of a Node16 with vector instructions reads all 16    *)
(* keys, and InnerNode48::shrink leaves the unused ones uninitialized.     *)
(* None is unused then: a Node48 shrinks with the removal that leaves it   *)
(* exactly the children a Node16 holds, and keys are never unset later.    *)
Node16KeysAreFilled ==
  (node # None /\ node.type = "Node16") => \A i \in Slots("Node16") : node.keys[i] # Uninit
=============================================================================
