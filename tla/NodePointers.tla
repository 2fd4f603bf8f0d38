---------------------------- MODULE NodePointers ----------------------------
(***************************************************************************)
(* Pointers to nodes (src/nodes/representation.rs): OpaqueNodePtr is a     *)
(* tagged pointer to a placeholder of alignment 8 that carries the type of *)
(* the node; NodePtr<N> is the plain pointer to a node of a known type.    *)
(* Nodes are allocated and freed; their pointers are kept by other nodes,  *)
(* and turned into concrete ones whenever a node is visited.               *)
(*                                                                         *)
(* An alignment larger than that of the placeholder belongs to a leaf with *)
(* an over-aligned key or value.                                           *)
(***************************************************************************)
EXTENDS TaggedPointer, FiniteSets

CONSTANTS
  Absent,         (* the None of an Option                                 *)
  EndOfMemory,    (* the bound on addresses                                *)
  MaxNodes,       (* the bound on the nodes alive at a time                *)
  EntryAlignments (* the alignments of the key and value types looked at   *)

ASSUME MaxNodesAssumption == MaxNodes \in Nat /\ EndOfMemory \in Nat

VARIABLES
  entryAlign,  (* the alignment of the keys and values, or Absent          *)
  memory,      (* the types of the live nodes, by their addresses          *)
  held,        (* opaque pointers, each with the node it was made for      *)
  looked       (* what a pointer was asked and what it answered, or Absent *)

pointerVars == <<entryAlign, memory, held, looked>>
-----------------------------------------------------------------------------
NodeType == [Node4 |-> 0, Node16 |-> 1, Node48 |-> 2, Node256 |-> 3, Leaf |-> 4]

(* OpaqueValue, the placeholder type, and Header. *)
OpaqueAlign == 8
HeaderAlign == 8

(* Alignments are powers of two, and the one of the placeholder leaves the *)
(* bits that the compiler asks for (NUM_BITS).                             *)
ASSUME AlignmentAssumption ==
  /\ 2 ^ MIN_BITS \in 1 .. OpaqueAlign
  /\ EntryAlignments \subseteq Nat /\ Absent \notin EntryAlignments
  /\ \A align \in EntryAlignments : align > OpaqueAlign => align % OpaqueAlign = 0

(* Mutant of LeafAlign: LeafNode without repr(align(8)).                   *)
LeafAlignNatural == entryAlign

LeafAlign == IF entryAlign > 8 THEN entryAlign ELSE 8

AlignOf(type) == IF type = "Leaf" THEN LeafAlign ELSE 8

(* No node is smaller than its alignment, and inner nodes have a header.   *)
SizeOf(type) == IF type = "Leaf" THEN LeafAlign ELSE 16

Extent(addr, type) == addr .. addr + SizeOf(type) - 1

(* Where the allocator may place a node. *)
FreeAddresses(type) ==
  {addr \in 1 .. EndOfMemory - SizeOf(type) :
     /\ addr % AlignOf(type) = 0
     /\ \A a \in DOMAIN memory : Extent(addr, type) \cap Extent(a, memory[a]) = {}}
-----------------------------------------------------------------------------
(* OpaqueNodePtr::new *)
Opaque(addr, type) ==
  LET word == NewUnchecked(addr, AlignOf(type))
      cast == Cast(word, AlignOf(type), OpaqueAlign)
  IN  IF ~HasBits(AlignOf(type)) \/ Panic \in {word, cast} THEN Panic
      ELSE SetData(cast, NodeType[type], OpaqueAlign)

Is(word, type) == ToData(word, OpaqueAlign) = NodeType[type]

(* The plain pointer that a tagged one of the given alignment turns into.  *)
Into(word, align) == IF word = Panic THEN Panic ELSE ToPtr(word, align)

Concrete(word, type) == Into(Cast(word, OpaqueAlign, AlignOf(type)), AlignOf(type))
-----------------------------------------------------------------------------
PointersInit == entryAlign = Absent /\ memory = << >> /\ held = {} /\ looked = Absent

(* A map with keys and values of some alignment. *)
Instantiate ==
  /\ entryAlign = Absent
  /\ entryAlign' \in EntryAlignments
  /\ UNCHANGED <<memory, held, looked>>

(* NodePtr::allocate_node_ptr(..).to_opaque() *)
AllocateNode(type) ==
  /\ entryAlign # Absent /\ looked = Absent /\ Cardinality(DOMAIN memory) < MaxNodes
  /\ \E addr \in FreeAddresses(type) :
       /\ memory' = [a \in DOMAIN memory \cup {addr} |-> IF a = addr THEN type ELSE memory[a]]
       /\ held' = held \cup {[word |-> Opaque(addr, type), node |-> addr]}
  /\ UNCHANGED <<entryAlign, looked>>

Answer(method, ptr, type, found) ==
  /\ looked = Absent
  /\ looked' = [method |-> method, held |-> ptr, type |-> type, found |-> found]

(* OpaqueNodePtr::to_node_ptr; the type comes from the bits of the pointer.*)
ToNodePtr(ptr) ==
  /\ \E type \in DOMAIN NodeType :
       Is(ptr.word, type) /\ Answer("to_node_ptr", ptr, type, Concrete(ptr.word, type))
  /\ UNCHANGED <<entryAlign, memory, held>>

(* OpaqueNodePtr::cast *)
CastNodePtr(ptr, type) ==
  /\ Answer("cast", ptr, type, IF Is(ptr.word, type) THEN Concrete(ptr.word, type) ELSE Absent)
  /\ UNCHANGED <<entryAlign, memory, held>>

(* OpaqueNodePtr::header_mut; the header is the first field of every inner *)
(* node.                                                                   *)
HeaderMut(ptr) ==
  /\ Answer("header_mut", ptr, "Header",
            IF Is(ptr.word, "Leaf") THEN Absent
            ELSE Into(Cast(ptr.word, OpaqueAlign, HeaderAlign), HeaderAlign))
  /\ UNCHANGED <<entryAlign, memory, held>>

(* NodePtr::to_opaque, of a pointer that was made concrete. *)
ToOpaque ==
  /\ looked # Absent /\ looked.method = "to_node_ptr"
  /\ held' = held \cup {[word |-> Opaque(looked.found, looked.type), node |-> looked.held.node]}
  /\ looked' = Absent
  /\ UNCHANGED <<entryAlign, memory>>

(* NodePtr::deallocate_node_ptr; the tree has dropped its pointers to it.  *)
DeallocateNode ==
  /\ looked # Absent /\ looked.method = "to_node_ptr"
  /\ memory' = [a \in DOMAIN memory \ {looked.found} |-> memory[a]]
  /\ held' = {ptr \in held : ptr.node # looked.held.node}
  /\ looked' = Absent
  /\ UNCHANGED entryAlign

(* The caller is done with the reference. *)
LetGo == looked # Absent /\ looked' = Absent /\ UNCHANGED <<entryAlign, memory, held>>

PointersNext ==
  \/ Instantiate
  \/ \E type \in DOMAIN NodeType : AllocateNode(type)
  \/ \E ptr \in held : ToNodePtr(ptr) \/ HeaderMut(ptr)
  \/ \E ptr \in held, type \in DOMAIN NodeType : CastNodePtr(ptr, type)
  \/ ToOpaque \/ DeallocateNode \/ LetGo

PointersSpec == PointersInit /\ [][PointersNext]_pointerVars
-----------------------------------------------------------------------------
(* Whatever is kept leads to the live node it was made for, and to that    *)
(* node's type: to_node_ptr finds it, cast finds it for its type and for   *)
(* no other, header_mut finds the header of inner nodes only.  No          *)
(* assertion fails on the way, with keys and values of any alignment.      *)
PointersLeadToNodes ==
  /\ \A ptr \in held : ptr.word \notin {0, Panic} /\ ptr.node \in DOMAIN memory
  /\ looked # Absent =>
       LET node == looked.held.node
       IN  looked.found =
             IF CASE looked.method = "to_node_ptr" -> looked.type = memory[node]
                  [] looked.method = "cast"        -> looked.type = memory[node]
                  [] looked.method = "header_mut"  -> memory[node] # "Leaf"
             THEN node ELSE Absent

(* Opaque pointers are compared and hashed as words, with the tag in them: *)
(* equal words are pointers to one node, and a node has one word, however  *)
(* often its pointer was made concrete and opaque again.                   *)
PointersIdentifyNodes ==
  \A p, q \in held : p.word = q.word <=> p.node = q.node
=============================================================================
