------------------------------ MODULE TreeMap ------------------------------
(***************************************************************************)
(* The adaptive radix tree behind TreeMap: src/collections/map.rs and      *)
(* src/nodes/operations/{insert,delete,lookup,minmax}.rs.                  *)
(*                                                                         *)
(* A call walks from the root one node per step (the loops of the search   *)
(* functions are actions here), stops at an insert point or a delete point *)
(* and applies it.  The map is borrowed exclusively by the running call,   *)
(* so one record, op, holds the locals of whichever function is running.   *)
(*                                                                         *)
(* A pointer (OpaqueNodePtr) carries the node type in its tag.  Its        *)
(* address is abstracted to the byte string the allocation is made for:    *)
(* the key of a leaf, and for an inner node the bytes all keys below it    *)
(* share.  No step reads that string: the code only ever compares and      *)
(* follows pointers.  It never changes while the node is allocated, and    *)
(* AddressesAreFresh states that no allocation is made at a live address.  *)
(*                                                                         *)
(* A node's children are a partial function from key bytes to pointers     *)
(* (module Node); NodeLayout shows that the node layouts implement it.     *)
(***************************************************************************)
EXTENDS Header, Node

CONSTANTS
  Keys,    (* the byte strings used as keys *)
  Values,  (* the values stored             *)
  None     (* Option::None                  *)

Pointer(type, at) == [type |-> type, at |-> at]
LeafPointer  == [type : {"Leaf"}, at : ByteString]
InnerPointer == [type : InnerType, at : ByteString]

(* A pointer to an inner node and the byte of one of its children: the     *)
(* pairs (parent_ptr, child_key_byte) of insert and delete points.         *)
Edge(node, byte) == [node |-> node, byte |-> byte]
EdgeType == [node : InnerPointer, byte : Byte]

ASSUME KeysAssumption == Keys \subseteq ByteString
ASSUME NoneAssumption ==
  None \notin Values /\ None \notin LeafPointer \cup InnerPointer /\ None \notin EdgeType

VARIABLES
  heap,         (* the live allocations: pointer -> leaf or inner node      *)
  root,         (* TreeMap::root                                            *)
  num_entries,  (* TreeMap::num_entries                                     *)
  op            (* the running call and its locals                          *)

vars == <<heap, root, num_entries, op>>
-----------------------------------------------------------------------------
(* Nodes.                                                                  *)

Leaf(key, value) == [key |-> key, value |-> value]

IsLeaf(p)  == p.type = "Leaf"
IsInner(p) == p.type \in InnerType

Leaves(h) == {p \in DOMAIN h : IsLeaf(p)}
Inners(h) == {p \in DOMAIN h : IsInner(p)}

(* NodePtr::allocate_node_ptr and NodePtr::deallocate_node_ptr. *)
Allocate(h, p, node) == With(h, p, node)
Deallocate(h, p) == Without(h, p)
-----------------------------------------------------------------------------
(* The running call.                                                       *)

Calls == {"try_insert", "remove_entry", "get", "get_mut", "clear",
          "pop_first", "pop_last", "first_key_value", "last_key_value"}

(* The calls that walk by a key, and the ones that walk to one end. *)
KeyCalls == {"try_insert", "remove_entry", "get", "get_mut"}
MinCalls == {"pop_first", "first_key_value"}
MaxCalls == {"pop_last", "last_key_value"}

(* The searches that remember the way back: search_for_insert_point,       *)
(* search_for_delete_point, find_minimum/maximum_to_delete.                *)
TracksParents(call) == call \in {"try_insert", "remove_entry", "pop_first", "pop_last"}

Some(v) == <<"Some", v>>
Ok(old) == <<"Ok", old>>
InsertPrefixError == <<"InsertPrefixError">>

(***************************************************************************)
(* pc: "idle", or "search" in a search loop, "apply" with an insert or     *)
(* delete point in hand, "dealloc" in deallocate_tree, "done" with the     *)
(* answer out.  node, depth, parent and grandparent are the locals         *)
(* current_node, current_depth, current_parent and current_grandparent of  *)
(* the search loops; cursor walks to the minimum leaf when a prefix is     *)
(* read back; point is the InsertPoint or DeletePoint; stack is the stack  *)
(* of deallocate_tree.                                                     *)
(***************************************************************************)
IdleOp ==
  [pc |-> "idle", call |-> None, key |-> << >>, value |-> None,
   node |-> None, depth |-> 0, parent |-> None, grandparent |-> None,
   cursor |-> None, point |-> None, stack |-> {}, out |-> None]

Start(call, key, value) ==
  [IdleOp EXCEPT !.pc = "search", !.call = call, !.key = key,
                 !.value = value, !.node = root]

Done(call, key, value, out) ==
  [IdleOp EXCEPT !.pc = "done", !.call = call, !.key = key,
                 !.value = value, !.out = out]

Finish(out) == op' = Done(op.call, op.key, op.value, out)
-----------------------------------------------------------------------------
(* Calls.                                                                  *)

Init ==
  /\ heap = [p \in {} |-> None]
  /\ root = None
  /\ num_entries = 0
  /\ op = IdleOp

(* TreeMap::try_insert, get, get_mut, remove_entry, pop_* and *_key_value  *)
(* on a map with a root: enter the search loop.                            *)
CallByKey(k, v) ==
  /\ op.pc = "idle" /\ root # None
  /\ \/ \E call \in {"try_insert", "get_mut"} : op' = Start(call, k, v)
     \/ \E call \in {"remove_entry", "get"} : op' = Start(call, k, None)
  /\ UNCHANGED <<heap, root, num_entries>>

CallAtEnd(call) ==
  /\ op.pc = "idle" /\ root # None
  /\ op' = Start(call, << >>, None)
  /\ UNCHANGED <<heap, root, num_entries>>

(* Mutant of InitTree: the first entry is not counted.                     *)
InitTreeUncounted(k, v) ==
  LET leaf == Pointer("Leaf", k)
  IN  /\ op.pc = "idle" /\ root = None
      /\ heap' = Allocate(heap, leaf, Leaf(k, v))
      /\ root' = leaf
      /\ num_entries' = num_entries
      /\ op' = Done("try_insert", k, v, Ok(None))

(* ... and on an empty map: init_tree for try_insert, None for the others. *)
InitTree(k, v) ==
  LET leaf == Pointer("Leaf", k)
  IN  /\ op.pc = "idle" /\ root = None
      /\ heap' = Allocate(heap, leaf, Leaf(k, v))
      /\ root' = leaf
      /\ num_entries' = 1
      /\ op' = Done("try_insert", k, v, Ok(None))

CallOnEmpty(k, v) ==
  /\ op.pc = "idle" /\ root = None
  /\ \/ op' = Done("get_mut", k, v, None)
     \/ \E call \in {"remove_entry", "get"} : op' = Done(call, k, None, None)
     \/ \E call \in MinCalls \cup MaxCalls : op' = Done(call, << >>, None, None)
  /\ UNCHANGED <<heap, root, num_entries>>

(* The caller takes the answer. *)
Return ==
  /\ op.pc = "done"
  /\ op' = IdleOp
  /\ UNCHANGED <<heap, root, num_entries>>
-----------------------------------------------------------------------------
(* Reading the prefix of the current node: Header::inner_read_full_prefix. *)

AtInner == op.pc = "search" /\ IsInner(op.node)
AtLeaf  == op.pc = "search" /\ IsLeaf(op.node)
CurrentHeader == heap[op.node].header

PrefixIsImplicit == CurrentHeader.prefix_len > PREFIX_LEN
CursorAtLeaf == op.cursor # None /\ IsLeaf(op.cursor)
PrefixIsRead == PrefixIsImplicit => CursorAtLeaf

(* One step of minimum_unchecked, towards the leaf whose key holds the     *)
(* bytes of a prefix that is longer than the header's array.               *)
StepToMinimum ==
  /\ AtInner /\ op.call \in KeyCalls /\ ~PrefixIsRead
  /\ LET from == heap[IF op.cursor = None THEN op.node ELSE op.cursor]
     IN  op' = [op EXCEPT !.cursor = from.children[MinByte(from)]]
  /\ UNCHANGED <<heap, root, num_entries>>

FullPrefix ==
  IF PrefixIsImplicit
  THEN SubSeq(heap[op.cursor].key, op.depth + 1, op.depth + CurrentHeader.prefix_len)
  ELSE ReadPrefix(CurrentHeader)

(* InnerNode::match_prefix *)
Matched == MatchedBytes(FullPrefix, DropFirst(op.key, op.depth))
PrefixMatches == Matched >= Len(FullPrefix)

(* The key has bytes left once the matched part of the prefix is passed.   *)
KeyGoesOn == op.depth + Matched < Len(op.key)
NextByte == op.key[op.depth + Matched + 1]
HasNextChild == NextByte \in DOMAIN heap[op.node].children

(* Mutants of MoveTo: the byte of the edge is counted twice; the edge      *)
(* above is kept instead of the edge just left; the loop stays where it is.*)
MoveToTooDeep(byte, depth) ==
  op' = [op EXCEPT !.node = heap[op.node].children[byte], !.depth = depth + 1, !.cursor = None]
MoveToForgettingParent(byte, depth) ==
  op' = [op EXCEPT !.node = heap[op.node].children[byte],
                   !.depth = depth,
                   !.parent = IF TracksParents(op.call) THEN Edge(op.node, byte) ELSE None,
                   !.cursor = None]
MoveToNowhere(byte, depth) == op' = [op EXCEPT !.cursor = None]

(* The search loop moves to a child. *)
MoveTo(byte, depth) ==
  op' = [op EXCEPT !.node = heap[op.node].children[byte],
                   !.depth = depth,
                   !.grandparent = IF TracksParents(op.call) THEN op.parent ELSE None,
                   !.parent = IF TracksParents(op.call) THEN Edge(op.node, byte) ELSE None,
                   !.cursor = None]

(* The body of the loops of search_for_insert_point, search_for_delete_    *)
(* point and search_unchecked when the prefix matches and there is a child *)
(* for the next byte of the key.                                           *)
DescendByKey ==
  /\ AtInner /\ op.call \in KeyCalls /\ PrefixIsRead
  /\ PrefixMatches /\ KeyGoesOn /\ HasNextChild
  /\ MoveTo(NextByte, op.depth + Matched + 1)
  /\ UNCHANGED <<heap, root, num_entries>>

(* find_minimum_to_delete, find_maximum_to_delete, minimum_unchecked and   *)
(* maximum_unchecked.                                                      *)
DescendToEnd ==
  /\ AtInner
  /\ \/ op.call \in MinCalls /\ MoveTo(MinByte(heap[op.node]), 0)
     \/ op.call \in MaxCalls /\ MoveTo(MaxByte(heap[op.node]), 0)
  /\ UNCHANGED <<heap, root, num_entries>>
-----------------------------------------------------------------------------
(* Ends of search_for_insert_point.                                        *)

StopAt(point, depth) == op' = [op EXCEPT !.pc = "apply", !.point = point, !.depth = depth]

(* The key ends inside the prefix or at the node: it is a prefix of every  *)
(* key below.                                                              *)
InsertKeyTooShort ==
  /\ AtInner /\ op.call = "try_insert" /\ PrefixIsRead /\ ~KeyGoesOn
  /\ Finish(InsertPrefixError)
  /\ UNCHANGED <<heap, root, num_entries>>

FindMismatch ==
  /\ AtInner /\ op.call = "try_insert" /\ PrefixIsRead /\ ~PrefixMatches /\ KeyGoesOn
  /\ StopAt([kind |-> "MismatchPrefix",
             matched_bytes |-> Matched,
             prefix_byte |-> FullPrefix[Matched + 1],
             leaf_ptr |-> IF PrefixIsImplicit THEN op.cursor ELSE None],
            op.depth)
  /\ UNCHANGED <<heap, root, num_entries>>

FindVacancy ==
  /\ AtInner /\ op.call = "try_insert" /\ PrefixIsRead
  /\ PrefixMatches /\ KeyGoesOn /\ ~HasNextChild
  /\ StopAt([kind |-> "IntoExisting"], op.depth + Matched)
  /\ UNCHANGED <<heap, root, num_entries>>

LeafKey == heap[op.node].key

(* Mutant of SharedBytes: one byte short.                                  *)
SharedBytesShort ==
  LET n == MatchedBytes(DropFirst(LeafKey, op.depth), DropFirst(op.key, op.depth))
  IN  op.depth + (IF n = 0 THEN 0 ELSE n - 1)

(* new_key_bytes_used at a leaf *)
SharedBytes ==
  op.depth + MatchedBytes(DropFirst(LeafKey, op.depth), DropFirst(op.key, op.depth))

FindExact ==
  /\ AtLeaf /\ op.call = "try_insert" /\ LeafKey = op.key
  /\ StopAt([kind |-> "Exact"], op.depth)
  /\ UNCHANGED <<heap, root, num_entries>>

(* Mutant of FindLeafToSplit: a stored key that is a prefix goes unnoticed.*)
FindLeafToSplitUnchecked ==
  /\ AtLeaf /\ op.call = "try_insert" /\ LeafKey # op.key
  /\ IF SharedBytes >= Len(op.key)
     THEN Finish(InsertPrefixError)
     ELSE StopAt([kind |-> "SplitLeaf", new_key_bytes_used |-> SharedBytes], op.depth)
  /\ UNCHANGED <<heap, root, num_entries>>

FindLeafToSplit ==
  /\ AtLeaf /\ op.call = "try_insert" /\ LeafKey # op.key
  /\ IF SharedBytes >= Len(op.key) \/ SharedBytes >= Len(LeafKey)
     THEN Finish(InsertPrefixError)
     ELSE StopAt([kind |-> "SplitLeaf", new_key_bytes_used |-> SharedBytes], op.depth)
  /\ UNCHANGED <<heap, root, num_entries>>

(* Ends of search_unchecked and search_for_delete_point: nothing found.    *)
LookupMiss ==
  /\ op.call \in {"get", "get_mut", "remove_entry"}
  /\ \/ AtInner /\ PrefixIsRead /\ ~(PrefixMatches /\ KeyGoesOn /\ HasNextChild)
     \/ AtLeaf /\ LeafKey # op.key
  /\ Finish(None)
  /\ UNCHANGED <<heap, root, num_entries>>

FindLeafToDelete ==
  /\ AtLeaf
  /\ op.call \in {"pop_first", "pop_last"} \/ (op.call = "remove_entry" /\ LeafKey = op.key)
  /\ StopAt([kind |-> "Delete"], op.depth)
  /\ UNCHANGED <<heap, root, num_entries>>

(* TreeMap::get, and get_mut with the caller's write through the result.   *)
ReadLeaf ==
  /\ AtLeaf
  /\ \/ /\ op.call = "get" /\ LeafKey = op.key
        /\ Finish(Some(heap[op.node].value))
     \/ /\ op.call \in {"first_key_value", "last_key_value"}
        /\ Finish(Some(<<LeafKey, heap[op.node].value>>))
  /\ UNCHANGED <<heap, root, num_entries>>

WriteLeafValue ==
  /\ AtLeaf /\ op.call = "get_mut" /\ LeafKey = op.key
  /\ heap' = [heap EXCEPT ![op.node].value = op.value]
  /\ Finish(Some(heap[op.node].value))
  /\ UNCHANGED <<root, num_entries>>
-----------------------------------------------------------------------------
(* InsertPoint::apply and TreeMap::apply_insert_point.                     *)

Applying(kind) == op.pc = "apply" /\ op.point.kind = kind

NewLeaf == Pointer("Leaf", op.key)

(* Write the node that replaces the current one to its parent, or make it  *)
(* the root (parent_write_child and new_root).                             *)
WriteBack(h, new) ==
  IF op.parent = None THEN h
  ELSE [h EXCEPT ![op.parent.node] = WriteChild(@, op.parent.byte, new)]

NewRoot(new) == IF op.parent = None THEN new ELSE root

Inserted(h, new) ==
  /\ heap' = WriteBack(Allocate(h, NewLeaf, Leaf(op.key, op.value)), new)
  /\ root' = NewRoot(new)
  /\ num_entries' = num_entries + 1
  /\ Finish(Ok(None))

(* Mutant of TwoChildren: the two bytes are swapped.                       *)
TwoChildrenSwapped(header, byte, child, key_byte) ==
  Inner(header, [b \in {byte, key_byte} |-> IF b = key_byte THEN child ELSE NewLeaf])

(* The Node4 that two subtrees are hung under, one of them the new leaf.   *)
TwoChildren(header, byte, child, key_byte) ==
  Inner(header, [b \in {byte, key_byte} |-> IF b = byte THEN child ELSE NewLeaf])

(* An inner node whose prefix differs from the key: a new parent takes the *)
(* matched bytes, the node keeps what follows the mismatched byte.         *)
InsertAtMismatch ==
  /\ Applying("MismatchPrefix")
  /\ LET matched == op.point.matched_bytes
         header  == CurrentHeader
         n4      == Pointer("Node4", TakeFirst(op.key, op.depth + matched))
         shared  == TakeFirst(ReadPrefix(header), Lesser(CappedPrefixLen(header), matched))
         trimmed == IF op.point.leaf_ptr # None
                    THEN LTrimByWithLeaf(header, matched + 1, op.depth,
                                         heap[op.point.leaf_ptr].key)
                    ELSE LTrimBy(header, matched + 1)
         node    == TwoChildren(NewHeader(shared, matched), op.point.prefix_byte,
                                op.node, op.key[op.depth + matched + 1])
     IN  Inserted(Allocate([heap EXCEPT ![op.node].header = trimmed], n4, node), n4)

(* A leaf with another key: both leaves go under a new Node4.              *)
InsertAtLeaf ==
  /\ Applying("SplitLeaf")
  /\ LET used == op.point.new_key_bytes_used
         n4   == Pointer("Node4", TakeFirst(op.key, used))
         node == TwoChildren(NewHeader(SubSeq(op.key, op.depth + 1, used), used - op.depth),
                             LeafKey[used + 1], op.node, op.key[used + 1])
     IN  Inserted(Allocate(heap, n4, node), n4)

(* An inner node without a child for the next byte, with room for one ...  *)
InsertIntoNode ==
  LET node == heap[op.node]
  IN  /\ Applying("IntoExisting")
      /\ ~IsFull(op.node.type, node)
      /\ Inserted([heap EXCEPT ![op.node] = WriteChild(@, op.key[op.depth + 1], NewLeaf)],
                  op.node)

(* ... and without: the next larger type takes its place.                  *)
InsertIntoGrownNode ==
  LET node  == heap[op.node]
      grown == Pointer(NextLarger[op.node.type], op.node.at)
  IN  /\ Applying("IntoExisting")
      /\ IsFull(op.node.type, node)
      /\ Inserted(Allocate(Deallocate(heap, op.node), grown,
                           WriteChild(node, op.key[op.depth + 1], NewLeaf)),
                  grown)

(* Mutant of InsertReplace: the replaced entry is counted again.           *)
InsertReplaceCounting ==
  /\ Applying("Exact")
  /\ heap' = [heap EXCEPT ![op.node] = Leaf(op.key, op.value)]
  /\ Finish(Ok(Some(heap[op.node].value)))
  /\ num_entries' = num_entries + 1
  /\ UNCHANGED root

(* The key is present: the leaf is replaced, nothing else changes.         *)
InsertReplace ==
  /\ Applying("Exact")
  /\ heap' = [heap EXCEPT ![op.node] = Leaf(op.key, op.value)]
  /\ Finish(Ok(Some(heap[op.node].value)))
  /\ UNCHANGED <<root, num_entries>>
-----------------------------------------------------------------------------
(* DeletePoint::apply, inner_delete_non_root_unchecked and                 *)
(* TreeMap::apply_delete_point.                                            *)

DeletedEntry == Some(<<LeafKey, heap[op.node].value>>)

Deleted(h, new_root) ==
  /\ heap' = Deallocate(h, op.node)
  /\ root' = new_root
  /\ num_entries' = num_entries - 1
  /\ Finish(DeletedEntry)

(* The leaf was the root.                                                  *)
DeleteRoot ==
  /\ Applying("Delete") /\ op.parent = None
  /\ Deleted(heap, None)

(* The parent after remove_child, in                                       *)
(* remove_child_from_inner_node_and_compress.                              *)
Bereft == RemoveChild(heap[op.parent.node], op.parent.byte)
ParentType == op.parent.node.type

(* Mutant of OneChildLeft: nothing is merged.                              *)
OneChildLeftIgnored == FALSE
(* One child is left, and the parent is merged into it. *)
OneChildLeft == NumChildren(Bereft) = 1

(* Mutants of ReplaceParent: the parent is not freed; the grandparent is   *)
(* not written.                                                            *)
ReplaceParentLeaking(h, new) ==
  IF op.grandparent = None
  THEN Deleted(h, new)
  ELSE Deleted([h EXCEPT ![op.grandparent.node] = WriteChild(@, op.grandparent.byte, new)], root)
ReplaceParentUnlinked(h, new) ==
  LET cut == Deallocate(h, op.parent.node)
  IN  IF op.grandparent = None THEN Deleted(cut, new) ELSE Deleted(cut, root)

(* The node that takes the parent's place goes to the grandparent.         *)
ReplaceParent(h, new) ==
  LET cut == Deallocate(h, op.parent.node)
  IN  IF op.grandparent = None
      THEN Deleted(cut, new)
      ELSE Deleted([cut EXCEPT ![op.grandparent.node] = WriteChild(@, op.grandparent.byte, new)],
                   root)

(* One child is left: it takes the parent's place, and the parent's path.  *)
DeleteAndMerge ==
  /\ Applying("Delete") /\ op.parent # None
  /\ OneChildLeft
  /\ LET byte  == MinByte(Bereft)
         child == Bereft.children[byte]
         h     == IF IsLeaf(child) THEN heap
                  ELSE [heap EXCEPT ![child].header = MergedHeader(Bereft.header, byte, @)]
     IN  ReplaceParent(h, child)

(* The children fit the next smaller type: a node of that type takes the   *)
(* parent's place.                                                         *)
DeleteAndShrink ==
  /\ Applying("Delete") /\ op.parent # None
  /\ ~OneChildLeft
  /\ ShouldShrink(ParentType, NumChildren(Bereft))
  /\ LET shrunk == Pointer(NextSmaller[ParentType], op.parent.node.at)
     IN  ReplaceParent(Allocate(heap, shrunk, Bereft), shrunk)

DeleteInPlace ==
  /\ Applying("Delete") /\ op.parent # None
  /\ ~OneChildLeft
  /\ ~ShouldShrink(ParentType, NumChildren(Bereft))
  /\ Deleted([heap EXCEPT ![op.parent.node] = Bereft], root)
-----------------------------------------------------------------------------
(* TreeMap::clear and deallocate_tree.                                     *)

ClearEmpty ==
  /\ op.pc = "idle" /\ root = None
  /\ op' = Done("clear", << >>, None, None)
  /\ UNCHANGED <<heap, root, num_entries>>

ClearStart ==
  /\ op.pc = "idle" /\ root # None
  /\ op' = [IdleOp EXCEPT !.pc = "dealloc", !.call = "clear", !.stack = {root}]
  /\ UNCHANGED <<heap, root, num_entries>>

(* Mutant of ChildrenOf: the subtree below an inner node is forgotten.     *)
ChildrenOfNone(p) == {}

ChildrenOf(p) ==
  IF IsLeaf(p) THEN {} ELSE {heap[p].children[b] : b \in DOMAIN heap[p].children}

(* Pop a node, push its children, deallocate it.  The order of the stack   *)
(* is abstracted: any node on it may be the next.                          *)
ClearPop ==
  /\ op.pc = "dealloc" /\ op.stack # {}
  /\ \E p \in op.stack :
       /\ heap' = Deallocate(heap, p)
       /\ op' = [op EXCEPT !.stack = (@ \ {p}) \cup ChildrenOf(p)]
  /\ UNCHANGED <<root, num_entries>>

ClearEnd ==
  /\ op.pc = "dealloc" /\ op.stack = {}
  /\ root' = None
  /\ num_entries' = 0
  /\ Finish(None)
  /\ UNCHANGED heap
-----------------------------------------------------------------------------
Call ==
  \/ \E k \in Keys, v \in Values : CallByKey(k, v) \/ InitTree(k, v) \/ CallOnEmpty(k, v)
  \/ \E call \in MinCalls \cup MaxCalls : CallAtEnd(call)
  \/ ClearEmpty \/ ClearStart

Search ==
  \/ StepToMinimum \/ DescendByKey \/ DescendToEnd
  \/ InsertKeyTooShort \/ FindMismatch \/ FindVacancy \/ FindExact \/ FindLeafToSplit
  \/ LookupMiss \/ FindLeafToDelete \/ ReadLeaf \/ WriteLeafValue

ApplyInsert ==
  \/ InsertAtMismatch \/ InsertAtLeaf \/ InsertIntoNode \/ InsertIntoGrownNode
  \/ InsertReplace

ApplyDelete == DeleteRoot \/ DeleteAndMerge \/ DeleteAndShrink \/ DeleteInPlace

Dealloc == ClearPop \/ ClearEnd

(* What a call does once it has been made: it runs to its answer.          *)
Run == Search \/ ApplyInsert \/ ApplyDelete \/ Dealloc

Next == Call \/ Run \/ Return

Spec == Init /\ [][Next]_vars

(* A function that has been called keeps running: nothing can suspend it.  *)
FairSpec == Spec /\ WF_vars(Run)
=============================================================================
