------------------------- MODULE NodePointersProofs -------------------------
(***************************************************************************)
(* Every tagged pointer leads to the live node it was made for, whatever   *)
(* the addresses and the alignments of keys and values are.                *)
(***************************************************************************)
EXTENDS NodePointers, TLAPS

(* Division with remainder. *)
LEMMA Division ==
  ASSUME NEW x \in Nat, NEW a \in Nat, a > 0
  PROVE  \E q \in Nat : x = a * q + (x % a) /\ x % a \in 0 .. a - 1
<1>1. x = a * (x \div a) + (x % a) /\ x \div a \in Nat /\ x % a \in 0 .. a - 1  OBVIOUS
<1> QED  BY <1>1

LEMMA Remainder ==
  ASSUME NEW a \in Nat, a > 0, NEW q \in Nat, NEW r \in 0 .. a - 1
  PROVE  (a * q + r) % a = r
<1>1. PICK x \in Nat : x = a * q + r  OBVIOUS
<1>2. PICK p \in Nat : x = a * p + (x % a) /\ x % a \in 0 .. a - 1  BY <1>1, Division
<1>3. PICK s \in 0 .. a - 1 : s = x % a  BY <1>2
<1>4. a * p + s = a * q + r  BY <1>1, <1>2, <1>3
<1>5. ~(p < q)
  <2>1. p < q => a * (p + 1) <= a * q  OBVIOUS
  <2>2. a * (p + 1) = a * p + a  OBVIOUS
  <2>3. a * p \in Nat /\ a * q \in Nat  OBVIOUS
  <2> QED  BY <1>4, <2>1, <2>2, <2>3
<1>6. ~(q < p)
  <2>1. q < p => a * (q + 1) <= a * p  OBVIOUS
  <2>2. a * (q + 1) = a * q + a  OBVIOUS
  <2>3. a * p \in Nat /\ a * q \in Nat  OBVIOUS
  <2> QED  BY <1>4, <2>1, <2>2, <2>3
<1>7. p = q  BY <1>5, <1>6
<1>8. a * q \in Nat  OBVIOUS
<1>9. s = r  BY <1>4, <1>7, <1>8
<1> QED  BY <1>1, <1>3, <1>9

(* A multiple of a multiple of eight is one itself. *)
LEMMA EightDivides ==
  ASSUME NEW x \in Nat, NEW a \in Nat, a > 0, a % 8 = 0, x % a = 0
  PROVE  x % 8 = 0
<1>1. PICK q \in Nat : x = a * q  BY Division
<1>2. PICK m \in Nat : a = 8 * m  OBVIOUS
<1>3. PICK k \in Nat : k = m * q  OBVIOUS
<1>4. x = 8 * k  BY <1>1, <1>2, <1>3
<1> QED  BY <1>4

(* The address of a node, and its tag, in a word. *)
LEMMA WordParts ==
  ASSUME NEW x \in Nat, NEW a \in Nat, a > 0, x % a = 0, NEW t \in 0 .. a - 1
  PROVE  ToData(x + t, a) = t /\ ToPtr(x + t, a) = x
<1>1. PICK q \in Nat : x = a * q  BY Division
<1>2. (x + t) % a = t  BY <1>1, Remainder
<1> QED  BY <1>2 DEF ToData, ToPtr
-----------------------------------------------------------------------------
(* Alignments and tags.                                                    *)
LEMMA AlignmentFacts ==
  ASSUME entryAlign \in EntryAlignments, NEW type \in DOMAIN NodeType
  PROVE  /\ AlignOf(type) \in Nat /\ AlignOf(type) >= 8 /\ AlignOf(type) % 8 = 0
         /\ SizeOf(type) \in Nat /\ SizeOf(type) >= 1
         /\ HasBits(AlignOf(type))
<1>1. LeafAlign \in Nat /\ LeafAlign >= 8 /\ LeafAlign % 8 = 0
  BY AlignmentAssumption DEF LeafAlign, OpaqueAlign
<1>2. AlignOf(type) \in Nat /\ AlignOf(type) >= 8 /\ AlignOf(type) % 8 = 0
  BY <1>1 DEF AlignOf
<1>3. SizeOf(type) \in Nat /\ SizeOf(type) >= 1  BY <1>1 DEF SizeOf
<1>4. PICK b \in 1 .. 8 : b = 2 ^ MIN_BITS  BY AlignmentAssumption DEF OpaqueAlign
<1>5. b <= AlignOf(type)  BY <1>2
<1> QED  BY <1>2, <1>3, <1>4, <1>5 DEF HasBits

LEMMA TagFacts ==
  /\ \A t \in DOMAIN NodeType : NodeType[t] \in 0 .. 4
  /\ \A t, u \in DOMAIN NodeType : NodeType[t] = NodeType[u] => t = u
BY DEF NodeType

(* A place where a node of a type may be. *)
Placed(addr, type) ==
  /\ entryAlign \in EntryAlignments /\ type \in DOMAIN NodeType
  /\ addr \in Nat \ {0} /\ addr % AlignOf(type) = 0

LEMMA OpaqueIs ==
  ASSUME NEW addr, NEW type, Placed(addr, type)
  PROVE  Opaque(addr, type) = addr + NodeType[type]
<1>1. PICK a \in Nat : a = AlignOf(type)  BY AlignmentFacts DEF Placed
<1>2. a >= 8 /\ a % 8 = 0 /\ HasBits(a) /\ addr \in Nat /\ addr % a = 0
  BY <1>1, AlignmentFacts DEF Placed
<1>3. addr % 8 = 0  BY <1>2, EightDivides
<1>4. PICK t \in 0 .. 4 : t = NodeType[type]  BY TagFacts DEF Placed
<1>5. addr # Panic  BY <1>2, MinBitsAssumption
<1>6. NewUnchecked(addr, a) = addr  BY <1>2 DEF NewUnchecked, ToData
<1>7. ToPtr(addr, a) = addr /\ ToData(addr, a) = 0  BY <1>2 DEF ToPtr, ToData
<1>8. NewUnchecked(addr, 8) = addr /\ ToPtr(addr, 8) = addr
  BY <1>2, <1>3 DEF NewUnchecked, ToData, ToPtr
<1>9. ToPtr(0, 8) = 0 /\ ToPtr(t, 8) = 0  BY DEF ToPtr
<1>10. Cast(addr, a, 8) = addr  BY <1>2, <1>5, <1>7, <1>8, <1>9 DEF Cast, SetData
<1>11. SetData(addr, t, 8) = addr + t  BY <1>8, <1>9 DEF SetData
<1> QED  BY <1>1, <1>2, <1>4, <1>5, <1>6, <1>10, <1>11 DEF Opaque, OpaqueAlign

LEMMA IsByTag ==
  ASSUME NEW addr, NEW type, Placed(addr, type), NEW other \in DOMAIN NodeType
  PROVE  Is(addr + NodeType[type], other) <=> other = type
<1>1. AlignOf(type) \in Nat /\ AlignOf(type) > 0 /\ AlignOf(type) % 8 = 0
  BY AlignmentFacts DEF Placed
<1>2. addr \in Nat /\ addr % 8 = 0  BY <1>1, EightDivides DEF Placed
<1>3. NodeType[type] \in 0 .. 7  BY TagFacts DEF Placed
<1>4. ToData(addr + NodeType[type], 8) = NodeType[type]  BY <1>2, <1>3, WordParts
<1> QED  BY <1>4, TagFacts DEF Is, OpaqueAlign, Placed

(* Turning an opaque pointer concrete, for an alignment its node has.      *)
LEMMA IntoIs ==
  ASSUME NEW addr \in Nat, NEW t \in 0 .. 4, addr % 8 = 0,
         NEW a \in Nat, a >= 8, addr % a = 0
  PROVE  Into(Cast(addr + t, 8, a), a) = addr
<1>1. ToPtr(addr + t, 8) = addr /\ ToData(addr + t, 8) = t
  <2>1. PICK e \in Nat : e = 8  OBVIOUS
  <2>2. t \in 0 .. e - 1 /\ e > 0 /\ addr % e = 0  BY <2>1
  <2>3. ToPtr(addr + t, e) = addr /\ ToData(addr + t, e) = t  BY <2>2, WordParts
  <2> QED  BY <2>1, <2>3
<1>2. NewUnchecked(addr, a) = addr  BY DEF NewUnchecked, ToData
<1>3. addr # Panic /\ addr + t # Panic  BY MinBitsAssumption
<1>4. t \in 0 .. a - 1 /\ 0 \in 0 .. a - 1  OBVIOUS
<1>5. ToPtr(addr, a) = addr  BY DEF ToPtr
<1>6. ToPtr(t, a) = 0
  <2>1. 0 % a = 0  BY Remainder
  <2> QED  BY <1>4, <2>1, WordParts
<1>7. Cast(addr + t, 8, a) = addr + t  BY <1>1, <1>2, <1>3, <1>5, <1>6 DEF Cast, SetData
<1>8. ToPtr(addr + t, a) = addr
  <2>1. a > 0  OBVIOUS
  <2> QED  BY <1>4, <2>1, WordParts
<1> QED  BY <1>3, <1>7, <1>8 DEF Into

LEMMA ConcreteIs ==
  ASSUME NEW addr, NEW type, Placed(addr, type)
  PROVE  /\ Concrete(addr + NodeType[type], type) = addr
         /\ Into(Cast(addr + NodeType[type], OpaqueAlign, HeaderAlign), HeaderAlign) = addr
<1>1. PICK a \in Nat : a = AlignOf(type)  BY AlignmentFacts DEF Placed
<1>2. a >= 8 /\ a % 8 = 0 /\ addr \in Nat /\ addr % a = 0
  BY <1>1, AlignmentFacts DEF Placed
<1>3. addr % 8 = 0  BY <1>2, EightDivides
<1>4. PICK t \in 0 .. 4 : t = NodeType[type]  BY TagFacts DEF Placed
<1>5. Into(Cast(addr + t, 8, a), a) = addr /\ Into(Cast(addr + t, 8, 8), 8) = addr
  BY <1>2, <1>3, IntoIs
<1> QED  BY <1>1, <1>4, <1>5 DEF Concrete, OpaqueAlign, HeaderAlign
-----------------------------------------------------------------------------
(* The inductive invariant: the live nodes are where nodes of their types  *)
(* may be, a word is the address of its node with the tag of its type, and *)
(* what a pointer was asked is judged by its node.                         *)
MemoryInvariant ==
  /\ entryAlign \in EntryAlignments \cup {Absent}
  /\ memory = [a \in DOMAIN memory |-> memory[a]]
  /\ \A a \in DOMAIN memory : Placed(a, memory[a])

HeldInvariant ==
  \A ptr \in held :
    ptr.node \in DOMAIN memory /\ ptr.word = ptr.node + NodeType[memory[ptr.node]]

LookedInvariant ==
  looked # Absent =>
    /\ looked.held \in held
    /\ looked.method \in {"to_node_ptr", "cast", "header_mut"}
    /\ looked.method = "to_node_ptr" =>
         looked.type = memory[looked.held.node] /\ looked.found = looked.held.node
    /\ looked.method = "cast" =>
         looked.found = IF looked.type = memory[looked.held.node]
                        THEN looked.held.node ELSE Absent
    /\ looked.method = "header_mut" =>
         looked.found = IF memory[looked.held.node] # "Leaf" THEN looked.held.node ELSE Absent

PointersInvariant == MemoryInvariant /\ HeldInvariant /\ LookedInvariant

LEMMA PointersInitHolds == PointersInit => PointersInvariant
<1> SUFFICES ASSUME PointersInit PROVE PointersInvariant  OBVIOUS
<1>1. DOMAIN memory = {} /\ memory = [a \in DOMAIN memory |-> memory[a]]
  BY DEF PointersInit
<1> QED  BY <1>1
    DEF PointersInit, PointersInvariant, MemoryInvariant, HeldInvariant, LookedInvariant

LEMMA InstantiateKeeps ==
  ASSUME PointersInvariant, Instantiate
  PROVE  PointersInvariant'
<1>1. /\ entryAlign = Absent /\ entryAlign' \in EntryAlignments
      /\ memory' = memory /\ held' = held /\ looked' = looked
  BY DEF Instantiate
<1>2. \A a \in DOMAIN memory : Placed(a, memory[a])'
  <2> SUFFICES ASSUME NEW a \in DOMAIN memory PROVE Placed(a, memory[a])'  OBVIOUS
  <2>1. Placed(a, memory[a]) /\ entryAlign \in EntryAlignments
    BY DEF PointersInvariant, MemoryInvariant, Placed
  <2> QED  BY <1>1, <2>1, AlignmentAssumption
<1> QED  BY <1>1, <1>2
    DEF PointersInvariant, MemoryInvariant, HeldInvariant, LookedInvariant

LEMMA AllocateNodeKeeps ==
  ASSUME PointersInvariant, NEW type \in DOMAIN NodeType, AllocateNode(type)
  PROVE  PointersInvariant'
<1>1. /\ entryAlign \in EntryAlignments /\ entryAlign' = entryAlign
      /\ looked = Absent /\ looked' = looked
  BY DEF AllocateNode, PointersInvariant, MemoryInvariant
<1>2. PICK addr \in FreeAddresses(type) :
        /\ memory' = [a \in DOMAIN memory \cup {addr} |-> IF a = addr THEN type ELSE memory[a]]
        /\ held' = held \cup {[word |-> Opaque(addr, type), node |-> addr]}
  BY DEF AllocateNode
<1>3. Placed(addr, type)
  <2>1. addr \in 1 .. EndOfMemory - SizeOf(type) /\ addr % AlignOf(type) = 0
    BY DEF FreeAddresses
  <2>2. addr \in Nat \ {0}  BY <1>1, <2>1, MaxNodesAssumption, AlignmentFacts
  <2> QED  BY <1>1, <2>1, <2>2 DEF Placed
<1>4. \A a \in DOMAIN memory : Placed(a, memory[a])
  BY DEF PointersInvariant, MemoryInvariant
<1>5. addr \notin DOMAIN memory
  <2>1. SUFFICES ASSUME addr \in DOMAIN memory PROVE FALSE  OBVIOUS
  <2>2. Extent(addr, type) \cap Extent(addr, memory[addr]) = {}  BY <2>1 DEF FreeAddresses
  <2>3. \A t \in DOMAIN NodeType : addr \in Extent(addr, t)
    <3> SUFFICES ASSUME NEW t \in DOMAIN NodeType PROVE addr \in Extent(addr, t)  OBVIOUS
    <3>1. SizeOf(t) \in Nat /\ SizeOf(t) >= 1 /\ addr \in Nat  BY <1>1, <1>3, AlignmentFacts DEF Placed
    <3> QED  BY <3>1 DEF Extent
  <2>4. memory[addr] \in DOMAIN NodeType  BY <1>4, <2>1 DEF Placed
  <2> QED  BY <2>2, <2>3, <2>4
<1>6. /\ DOMAIN memory' = DOMAIN memory \cup {addr}
      /\ memory'[addr] = type
      /\ \A a \in DOMAIN memory : memory'[a] = memory[a]
  BY <1>2, <1>5
<1>7. MemoryInvariant'
  <2>1. \A a, t : Placed(a, t)' <=> Placed(a, t)  BY <1>1 DEF Placed, AlignOf, LeafAlign
  <2>2. memory' = [a \in DOMAIN memory' |-> memory'[a]]  BY <1>2
  <2>3. (\A a \in DOMAIN memory : Placed(a, memory[a]))'  BY <1>3, <1>4, <1>6, <2>1
  <2> QED  BY <1>1, <2>2, <2>3 DEF MemoryInvariant
<1>8. HeldInvariant'
  <2>1. Opaque(addr, type) = addr + NodeType[type]  BY <1>3, OpaqueIs
  <2> QED  BY <1>2, <1>6, <2>1 DEF HeldInvariant, PointersInvariant
<1>9. LookedInvariant'  BY <1>1 DEF LookedInvariant
<1> QED  BY <1>7, <1>8, <1>9 DEF PointersInvariant

LEMMA MemoryStays ==
  ASSUME MemoryInvariant, entryAlign' = entryAlign, memory' = memory
  PROVE  MemoryInvariant'
<1>1. \A a, t : Placed(a, t)' <=> Placed(a, t)  BY DEF Placed, AlignOf, LeafAlign
<1> QED  BY <1>1 DEF MemoryInvariant

(* What the invariant says of one pointer. *)
LEMMA HeldFacts ==
  ASSUME PointersInvariant, NEW ptr \in held
  PROVE  /\ ptr.node \in DOMAIN memory /\ Placed(ptr.node, memory[ptr.node])
         /\ ptr.word = ptr.node + NodeType[memory[ptr.node]]
         /\ memory[ptr.node] \in DOMAIN NodeType
BY DEF PointersInvariant, HeldInvariant, MemoryInvariant, Placed

LEMMA ToNodePtrKeeps ==
  ASSUME PointersInvariant, NEW ptr \in held, ToNodePtr(ptr)
  PROVE  PointersInvariant'
<1>1. PICK type \in DOMAIN NodeType :
        Is(ptr.word, type) /\ Answer("to_node_ptr", ptr, type, Concrete(ptr.word, type))
  BY DEF ToNodePtr
<1>2. entryAlign' = entryAlign /\ memory' = memory /\ held' = held  BY DEF ToNodePtr
<1>3. type = memory[ptr.node] /\ Concrete(ptr.word, type) = ptr.node
  BY <1>1, HeldFacts, IsByTag, ConcreteIs
<1>4. MemoryInvariant' /\ HeldInvariant'
  BY <1>2, MemoryStays DEF PointersInvariant, HeldInvariant
<1>5. LookedInvariant'  BY <1>1, <1>2, <1>3 DEF LookedInvariant, Answer
<1> QED  BY <1>4, <1>5 DEF PointersInvariant

LEMMA CastNodePtrKeeps ==
  ASSUME PointersInvariant, NEW ptr \in held, NEW type \in DOMAIN NodeType, CastNodePtr(ptr, type)
  PROVE  PointersInvariant'
<1>1. Answer("cast", ptr, type, IF Is(ptr.word, type) THEN Concrete(ptr.word, type) ELSE Absent)
  BY DEF CastNodePtr
<1>2. entryAlign' = entryAlign /\ memory' = memory /\ held' = held  BY DEF CastNodePtr
<1>3. /\ Is(ptr.word, type) <=> type = memory[ptr.node]
      /\ type = memory[ptr.node] => Concrete(ptr.word, type) = ptr.node
  BY HeldFacts, IsByTag, ConcreteIs
<1>4. MemoryInvariant' /\ HeldInvariant'
  BY <1>2, MemoryStays DEF PointersInvariant, HeldInvariant
<1>5. LookedInvariant'  BY <1>1, <1>2, <1>3 DEF LookedInvariant, Answer
<1> QED  BY <1>4, <1>5 DEF PointersInvariant

LEMMA HeaderMutKeeps ==
  ASSUME PointersInvariant, NEW ptr \in held, HeaderMut(ptr)
  PROVE  PointersInvariant'
<1> DEFINE header == Into(Cast(ptr.word, OpaqueAlign, HeaderAlign), HeaderAlign)
<1>1. Answer("header_mut", ptr, "Header", IF Is(ptr.word, "Leaf") THEN Absent ELSE header)
  BY DEF HeaderMut
<1>2. entryAlign' = entryAlign /\ memory' = memory /\ held' = held  BY DEF HeaderMut
<1>3. "Leaf" \in DOMAIN NodeType  BY DEF NodeType
<1>4. (Is(ptr.word, "Leaf") <=> memory[ptr.node] = "Leaf") /\ header = ptr.node
  BY <1>3, HeldFacts, IsByTag, ConcreteIs
<1> HIDE DEF header
<1>5. MemoryInvariant' /\ HeldInvariant'
  BY <1>2, MemoryStays DEF PointersInvariant, HeldInvariant
<1>6. LookedInvariant'  BY <1>1, <1>2, <1>4 DEF LookedInvariant, Answer
<1> QED  BY <1>5, <1>6 DEF PointersInvariant

(* The pointer that to_node_ptr gave is opaque again, and equal.           *)
LEMMA ToOpaqueKeeps ==
  ASSUME PointersInvariant, ToOpaque
  PROVE  PointersInvariant'
<1>1. /\ looked # Absent /\ looked.method = "to_node_ptr" /\ looked' = Absent
      /\ held' = held \cup {[word |-> Opaque(looked.found, looked.type), node |-> looked.held.node]}
      /\ entryAlign' = entryAlign /\ memory' = memory
  BY DEF ToOpaque
<1>2. PICK ptr \in held : ptr = looked.held  BY <1>1 DEF PointersInvariant, LookedInvariant
<1>3. looked.type = memory[ptr.node] /\ looked.found = ptr.node
  BY <1>1, <1>2 DEF PointersInvariant, LookedInvariant
<1>4. Opaque(looked.found, looked.type) = ptr.node + NodeType[memory[ptr.node]]
  BY <1>3, HeldFacts, OpaqueIs
<1>5. HeldInvariant'
  BY <1>1, <1>2, <1>4, HeldFacts DEF HeldInvariant, PointersInvariant
<1>6. MemoryInvariant'  BY <1>1, MemoryStays DEF PointersInvariant
<1>7. LookedInvariant'  BY <1>1 DEF LookedInvariant
<1> QED  BY <1>5, <1>6, <1>7 DEF PointersInvariant

LEMMA DeallocateNodeKeeps ==
  ASSUME PointersInvariant, DeallocateNode
  PROVE  PointersInvariant'
<1>1. /\ looked # Absent /\ looked.method = "to_node_ptr" /\ looked' = Absent
      /\ memory' = [a \in DOMAIN memory \ {looked.found} |-> memory[a]]
      /\ held' = {ptr \in held : ptr.node # looked.held.node}
      /\ entryAlign' = entryAlign
  BY DEF DeallocateNode
<1>2. looked.found = looked.held.node  BY <1>1 DEF PointersInvariant, LookedInvariant
<1>3. \A a, t : Placed(a, t)' <=> Placed(a, t)  BY <1>1 DEF Placed, AlignOf, LeafAlign
<1>4. MemoryInvariant'
  <2>1. \A a \in DOMAIN memory' : a \in DOMAIN memory /\ memory'[a] = memory[a]  BY <1>1
  <2>2. memory' = [a \in DOMAIN memory' |-> memory'[a]]  BY <1>1
  <2> QED  BY <1>1, <1>3, <2>1, <2>2 DEF MemoryInvariant, PointersInvariant
<1>5. HeldInvariant'  BY <1>1, <1>2 DEF HeldInvariant, PointersInvariant
<1>6. LookedInvariant'  BY <1>1 DEF LookedInvariant
<1> QED  BY <1>4, <1>5, <1>6 DEF PointersInvariant

LEMMA PointersStep == PointersInvariant /\ [PointersNext]_pointerVars => PointersInvariant'
<1> SUFFICES ASSUME PointersInvariant, [PointersNext]_pointerVars PROVE PointersInvariant'
  OBVIOUS
<1>1. CASE Instantiate  BY <1>1, InstantiateKeeps
<1>2. CASE \E type \in DOMAIN NodeType : AllocateNode(type)  BY <1>2, AllocateNodeKeeps
<1>3. CASE \E ptr \in held : ToNodePtr(ptr) \/ HeaderMut(ptr)
  BY <1>3, ToNodePtrKeeps, HeaderMutKeeps
<1>4. CASE \E ptr \in held, type \in DOMAIN NodeType : CastNodePtr(ptr, type)
  BY <1>4, CastNodePtrKeeps
<1>5. CASE ToOpaque  BY <1>5, ToOpaqueKeeps
<1>6. CASE DeallocateNode  BY <1>6, DeallocateNodeKeeps
<1>7. CASE LetGo
  <2>1. looked' = Absent /\ entryAlign' = entryAlign /\ memory' = memory /\ held' = held
    BY <1>7 DEF LetGo
  <2> QED  BY <2>1, MemoryStays
      DEF PointersInvariant, HeldInvariant, LookedInvariant
<1>8. CASE UNCHANGED pointerVars
  <2>1. looked' = looked /\ entryAlign' = entryAlign /\ memory' = memory /\ held' = held
    BY <1>8 DEF pointerVars
  <2> QED  BY <2>1, MemoryStays
      DEF PointersInvariant, HeldInvariant, LookedInvariant
<1> QED  BY <1>1, <1>2, <1>3, <1>4, <1>5, <1>6, <1>7, <1>8 DEF PointersNext

LEMMA PointersHold == PointersSpec => []PointersInvariant
BY PointersInitHolds, PointersStep, PTL DEF PointersSpec
-----------------------------------------------------------------------------
(* to_node_ptr, cast and header_mut find the live node a pointer was made  *)
(* for and its type, with keys and values of any alignment, and no         *)
(* assertion of TaggedPointer fails on the way.                            *)
THEOREM LeadToNodes == PointersSpec => []PointersLeadToNodes
<1>1. PointersInvariant => PointersLeadToNodes
  <2> SUFFICES ASSUME PointersInvariant PROVE PointersLeadToNodes  OBVIOUS
  <2>1. \A ptr \in held : ptr.word \notin {0, Panic} /\ ptr.node \in DOMAIN memory
    <3> SUFFICES ASSUME NEW ptr \in held
                 PROVE  ptr.word \notin {0, Panic} /\ ptr.node \in DOMAIN memory
      OBVIOUS
    <3>1. ptr.node \in Nat \ {0} /\ ptr.node \in DOMAIN memory  BY HeldFacts DEF Placed
    <3>2. NodeType[memory[ptr.node]] \in 0 .. 4  BY HeldFacts, TagFacts
    <3>3. ptr.word \in Nat \ {0}  BY <3>1, <3>2, HeldFacts
    <3> QED  BY <3>1, <3>3, MinBitsAssumption
  <2>2. looked # Absent =>
          LET node == looked.held.node
          IN  looked.found =
                IF CASE looked.method = "to_node_ptr" -> looked.type = memory[node]
                     [] looked.method = "cast"        -> looked.type = memory[node]
                     [] looked.method = "header_mut"  -> memory[node] # "Leaf"
                THEN node ELSE Absent
    <3> SUFFICES ASSUME looked # Absent, LookedInvariant
                 PROVE  LET node == looked.held.node
                        IN  looked.found =
                              IF CASE looked.method = "to_node_ptr" -> looked.type = memory[node]
                                   [] looked.method = "cast"        -> looked.type = memory[node]
                                   [] looked.method = "header_mut"  -> memory[node] # "Leaf"
                              THEN node ELSE Absent
      BY DEF PointersInvariant
    <3>1. CASE looked.method = "to_node_ptr"  BY <3>1 DEF LookedInvariant
    <3>2. CASE looked.method = "cast"  BY <3>2 DEF LookedInvariant
    <3>3. CASE looked.method = "header_mut"  BY <3>3 DEF LookedInvariant
    <3> QED  BY <3>1, <3>2, <3>3 DEF LookedInvariant
  <2> QED  BY <2>1, <2>2 DEF PointersLeadToNodes
<1> QED  BY <1>1, PointersHold, PTL

(* Comparing and hashing pointers as words, tag included, compares nodes.  *)
THEOREM IdentifyNodes == PointersSpec => []PointersIdentifyNodes
<1>1. PointersInvariant => PointersIdentifyNodes
  <2> SUFFICES ASSUME PointersInvariant, NEW p \in held, NEW q \in held
               PROVE  p.word = q.word <=> p.node = q.node
    BY DEF PointersIdentifyNodes
  <2>1. \A ptr \in held : ToPtr(ptr.word, 8) = ptr.node
    <3> SUFFICES ASSUME NEW ptr \in held PROVE ToPtr(ptr.word, 8) = ptr.node  OBVIOUS
    <3>1. ptr.node \in Nat /\ ptr.node % AlignOf(memory[ptr.node]) = 0
          /\ entryAlign \in EntryAlignments /\ memory[ptr.node] \in DOMAIN NodeType
      BY HeldFacts DEF Placed
    <3>2. ptr.node % 8 = 0
      <4>1. PICK a \in Nat : a = AlignOf(memory[ptr.node])  BY <3>1, AlignmentFacts
      <4>2. a > 0 /\ a % 8 = 0  BY <3>1, <4>1, AlignmentFacts
      <4> QED  BY <3>1, <4>1, <4>2, EightDivides
    <3>3. NodeType[memory[ptr.node]] \in 0 .. 8 - 1 /\ 8 \in Nat /\ 8 > 0
      BY <3>1, TagFacts
    <3> QED  BY <3>1, <3>2, <3>3, HeldFacts, WordParts
  <2>2. p.node = q.node => p.word = q.word  BY HeldFacts
  <2> QED  BY <2>1, <2>2
<1> QED  BY <1>1, PointersHold, PTL
=============================================================================
