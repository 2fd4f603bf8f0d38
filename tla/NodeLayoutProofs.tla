-------------------------- MODULE NodeLayoutProofs --------------------------
(***************************************************************************)
(* The layouts of inner nodes are sound and implement NodeSpec, and the    *)
(* vector searches find in them what the plain searches find, and ranges   *)
(* what is within their bounds, for all sets of bytes and children and all *)
(* increasing capacities.                                                  *)
(***************************************************************************)
EXTENDS VectorSearch, NodeRange, ByteStringsProofs

(* Min and Max of sets of numbers. *)
LEMMA MinFacts ==
  ASSUME NEW S \in SUBSET Nat, S # {}
  PROVE  Min(S) \in S /\ \A m \in S : Min(S) <= m
BY LeastExists DEF Min

LEMMA MaxFacts ==
  ASSUME NEW S \in SUBSET Nat, S # {}, IsFiniteSet(S)
  PROVE  Max(S) \in S /\ \A m \in S : m <= Max(S)
<1>1. PICK B \in Nat : \A n \in S : n <= B  BY FiniteIsBounded
<1>2. PICK n \in S : \A m \in S : m <= n  BY <1>1, GreatestExists
<1>3. \A m \in S : n >= m  BY <1>2
<1>4. \A x \in S : (\A y \in S : x >= y) => \A y \in S : y <= x  OBVIOUS
<1> QED  BY <1>3, <1>4 DEF Max

LEMMA MinUnique ==
  ASSUME NEW S, NEW x \in Nat, x \in S, \A y \in S : y \in Nat /\ x <= y
  PROVE  Min(S) = x
<1>1. \A z \in S : (\A y \in S : z <= y) => z = x  OBVIOUS
<1>2. \E z \in S : \A y \in S : z <= y  OBVIOUS
<1> QED  BY <1>1, <1>2 DEF Min

LEMMA MaxUnique ==
  ASSUME NEW S, NEW x \in Nat, x \in S, \A y \in S : y \in Nat /\ y <= x
  PROVE  Max(S) = x
<1>1. \A z \in S : (\A y \in S : z >= y) => z = x  OBVIOUS
<1>2. \E z \in S : \A y \in S : z >= y  OBVIOUS
<1> QED  BY <1>1, <1>2 DEF Max

LEMMA CapacityFacts ==
  /\ \A t \in InnerType : UpperCapacity[t] \in Nat
  /\ EMPTY \in Nat /\ EMPTY = UpperCapacity["Node48"]
  /\ 2 <= UpperCapacity["Node4"]
  /\ UpperCapacity["Node4"] < UpperCapacity["Node16"]
  /\ UpperCapacity["Node16"] < UpperCapacity["Node48"]
  /\ UpperCapacity["Node48"] < UpperCapacity["Node256"]
  /\ Cardinality(Byte) <= UpperCapacity["Node256"]
<1>1. /\ UpperCapacity["Node4"] \in Nat /\ UpperCapacity["Node16"] \in Nat
      /\ UpperCapacity["Node48"] \in Nat /\ UpperCapacity["Node256"] \in Nat
  BY CapacityAssumption DEF InnerType
<1>2. \A t \in {"Node4", "Node16", "Node48"} : UpperCapacity[t] < UpperCapacity[NextLarger[t]]
  BY CapacityAssumption DEF NextLarger
<1>3. NextLarger["Node4"] = "Node16" /\ NextLarger["Node16"] = "Node48" /\ NextLarger["Node48"] = "Node256"
  BY DEF NextLarger
<1> QED  BY <1>1, <1>2, <1>3, CapacityAssumption DEF InnerType, EMPTY
-----------------------------------------------------------------------------
(* What the proofs say of a node: the bytes with a child; that one node    *)
(* has the children of another, but for one byte; that the key array of a  *)
(* Node16 holds no uninitialized byte; that a sequence of pairs is the     *)
(* iteration of a node in the order of the bytes.                          *)
BytesOf(nd) == {b \in Byte : LookupChild(nd, b) # None}

Agrees(new, nd) == \A b \in Byte : LookupChild(new, b) = LookupChild(nd, b)
Differs(new, nd, byte, child) ==
  \A b \in Byte : LookupChild(new, b) = IF b = byte THEN child ELSE LookupChild(nd, b)

Filled(nd) == nd.type = "Node16" => \A i \in Slots("Node16") : nd.keys[i] # Uninit

Lists(pairs, nd) ==
  /\ pairs \in [1 .. nd.num_children -> Byte \X Child]
  /\ \A i \in 1 .. nd.num_children : pairs[i][2] = LookupChild(nd, pairs[i][1])
  /\ \A i, j \in 1 .. nd.num_children : i < j => pairs[i][1] < pairs[j][1]
  /\ \A b \in BytesOf(nd) : \E i \in 1 .. nd.num_children : pairs[i][1] = b
-----------------------------------------------------------------------------
(* Compressed nodes.                                                       *)

LEMMA CompressedType ==
  ASSUME NEW nd, SoundCompressed(nd)
  PROVE  /\ nd.type \in {"Node4", "Node16"}
         /\ nd = Compressed(nd.type, nd.num_children, nd.keys, nd.child_pointers)
         /\ nd.num_children \in Nat /\ UpperCapacity[nd.type] \in Nat
         /\ nd.num_children <= UpperCapacity[nd.type]
         /\ nd.keys \in [Slots(nd.type) -> Byte \cup {Uninit}]
         /\ nd.child_pointers \in [Slots(nd.type) -> Child \cup {Uninit}]
         /\ Used(nd) = 0 .. nd.num_children - 1
         /\ Slots(nd.type) = 0 .. UpperCapacity[nd.type] - 1
         /\ Used(nd) \subseteq Slots(nd.type)
         /\ \A i \in Used(nd) : nd.keys[i] \in Byte /\ nd.keys[i] \in Nat
                                /\ nd.child_pointers[i] \in Child
         /\ \A i, j \in Used(nd) : i < j => nd.keys[i] < nd.keys[j]
         /\ IsCompressed(nd) /\ ~IsIndexed(nd) /\ ~IsDirect(nd)
<1>1. /\ nd.type \in {"Node4", "Node16"} /\ nd \in CompressedNode(nd.type)
      /\ nd.num_children <= UpperCapacity[nd.type]
      /\ \A i \in Used(nd) : nd.keys[i] \in Byte /\ nd.child_pointers[i] \in Child
      /\ \A i, j \in Used(nd) : i < j => nd.keys[i] < nd.keys[j]
  BY DEF SoundCompressed
<1>2. /\ nd = Compressed(nd.type, nd.num_children, nd.keys, nd.child_pointers)
      /\ nd.num_children \in Nat
      /\ nd.keys \in [Slots(nd.type) -> Byte \cup {Uninit}]
      /\ nd.child_pointers \in [Slots(nd.type) -> Child \cup {Uninit}]
  BY <1>1 DEF CompressedNode, Compressed
<1>3. UpperCapacity[nd.type] \in Nat  BY <1>1, CapacityFacts DEF InnerType
<1>4. Used(nd) \subseteq Slots(nd.type)
  BY <1>1, <1>2, <1>3 DEF Used, Slots
<1> QED  BY <1>1, <1>2, <1>3, <1>4, ByteAssumption DEF Used, Slots, IsCompressed, IsIndexed, IsDirect

(* A record of the right type is sound. *)
LEMMA CompressedIsSound ==
  ASSUME NEW t \in {"Node4", "Node16"}, NEW n \in Nat, n <= UpperCapacity[t],
         NEW keys \in [Slots(t) -> Byte \cup {Uninit}],
         NEW pointers \in [Slots(t) -> Child \cup {Uninit}],
         \A i \in 0 .. n - 1 : keys[i] \in Byte /\ pointers[i] \in Child,
         \A i, j \in 0 .. n - 1 : i < j => keys[i] < keys[j]
  PROVE  SoundCompressed(Compressed(t, n, keys, pointers))
BY DEF SoundCompressed, Compressed, CompressedNode, Used

LEMMA CompressedKeys ==
  ASSUME NEW nd, SoundCompressed(nd)
  PROVE  \A i, j \in Used(nd) : nd.keys[i] = nd.keys[j] => i = j
<1>1. SUFFICES ASSUME NEW i \in Used(nd), NEW j \in Used(nd), nd.keys[i] = nd.keys[j], i # j
               PROVE  FALSE
  OBVIOUS
<1>2. i \in Nat /\ j \in Nat /\ nd.keys[i] \in Nat  BY CompressedType
<1>3. i < j \/ j < i  BY <1>1, <1>2
<1>4. nd.keys[i] < nd.keys[j] \/ nd.keys[j] < nd.keys[i]  BY <1>3, CompressedType
<1> QED  BY <1>1, <1>2, <1>4

LEMMA CompressedLookup ==
  ASSUME NEW nd, SoundCompressed(nd)
  PROVE  /\ \A i \in Used(nd) : /\ KeyIndices(nd, nd.keys[i]) = {i}
                                 /\ Min(KeyIndices(nd, nd.keys[i])) = i
                                 /\ LookupChild(nd, nd.keys[i]) = nd.child_pointers[i]
         /\ \A b \in Byte : (\A i \in Used(nd) : nd.keys[i] # b) =>
              KeyIndices(nd, b) = {} /\ LookupChild(nd, b) = None
         /\ \A b \in Byte : LookupChild(nd, b) \in Child \cup {None}
         /\ BytesOf(nd) = {nd.keys[i] : i \in Used(nd)}
<1>1. \A b : LookupChild(nd, b) = LookupCompressed(nd, b)
  BY CompressedType DEF LookupChild
<1>2. ASSUME NEW i \in Used(nd)
      PROVE  /\ KeyIndices(nd, nd.keys[i]) = {i}
             /\ Min(KeyIndices(nd, nd.keys[i])) = i
             /\ LookupChild(nd, nd.keys[i]) = nd.child_pointers[i]
             /\ LookupChild(nd, nd.keys[i]) \in Child
  <2>1. KeyIndices(nd, nd.keys[i]) = {i}  BY CompressedKeys DEF KeyIndices
  <2>2. i \in Nat  BY CompressedType
  <2>3. Min({i}) = i  BY <2>2, MinUnique
  <2>4. LookupChild(nd, nd.keys[i]) = nd.child_pointers[i]
    BY <2>1, <2>3, <1>1 DEF LookupCompressed
  <2>5. nd.child_pointers[i] \in Child  BY CompressedType
  <2> QED  BY <2>1, <2>3, <2>4, <2>5
<1>3. ASSUME NEW b \in Byte, \A i \in Used(nd) : nd.keys[i] # b
      PROVE  KeyIndices(nd, b) = {} /\ LookupChild(nd, b) = None
  BY <1>1, <1>3 DEF KeyIndices, LookupCompressed
<1>4. \A b \in Byte : LookupChild(nd, b) \in Child \cup {None}
  BY <1>2, <1>3
<1>5. \A b \in Byte : LookupChild(nd, b) # None <=> \E i \in Used(nd) : nd.keys[i] = b
  BY <1>2, <1>3, ChildAssumption
<1>6. \A i \in Used(nd) : nd.keys[i] \in Byte  BY CompressedType
<1>7. BytesOf(nd) = {nd.keys[i] : i \in Used(nd)}  BY <1>5, <1>6 DEF BytesOf
<1> QED  BY <1>2, <1>3, <1>4, <1>7

(* The number of children is the number of bytes that have one.            *)
LEMMA CompressedCount ==
  ASSUME NEW nd, SoundCompressed(nd)
  PROVE  IsFiniteSet(BytesOf(nd)) /\ Cardinality(BytesOf(nd)) = nd.num_children
<1> DEFINE n == nd.num_children
           S == 0 .. n - 1
           T == BytesOf(nd)
           f == [i \in S |-> nd.keys[i]]
<1>1. n \in Nat /\ S = Used(nd)  BY CompressedType
<1>2. IsFiniteSet(S) /\ Cardinality(S) = n
  <2>1. n - 1 \in Int /\ 0 \in Int  BY <1>1
  <2> HIDE DEF n
  <2>2. IsFiniteSet(0 .. n - 1) /\ Cardinality(0 .. n - 1) = IF 0 > n - 1 THEN 0 ELSE n - 1 - 0 + 1
    BY ONLY <2>1, FS_Interval
  <2> QED  BY <2>2, <1>1
<1>3. T = {nd.keys[i] : i \in S}  BY <1>1, CompressedLookup
<1>4. f \in [S -> T] /\ \A b \in T : \E i \in S : f[i] = b  BY <1>3
<1>5. \A i, j \in S : f[i] = f[j] => i = j  BY <1>1, CompressedKeys
<1> HIDE DEF n, S, T, f
<1>6. f \in Injection(S, T) /\ f \in Surjection(S, T)
  BY <1>4, <1>5 DEF Injection, Surjection, IsInjective
<1>7. f \in Bijection(S, T)  BY <1>6 DEF Bijection
<1>8. IsFiniteSet(T) /\ Cardinality(T) = Cardinality(S)
  BY <1>7, <1>2, FS_Bijection DEF ExistsBijection
<1> QED  BY <1>8, <1>2 DEF T, n

(* The part of an array from k to n moves up by one, or down by one.       *)
LEMMA ShiftUpType ==
  ASSUME NEW m \in Nat, NEW V, NEW array \in [0 .. m - 1 -> V],
         NEW k \in Nat, NEW n \in Nat, k <= n, n < m
  PROVE  CopyWithin(array, k, n, k + 1) \in [0 .. m - 1 -> V]
<1>1. CopyWithin(array, k, n, k + 1) =
        [i \in 0 .. m - 1 |-> IF i \in k + 1 .. k + 1 + (n - k) - 1
                              THEN array[k + (i - (k + 1))] ELSE array[i]]
  BY DEF CopyWithin
<1>2. \A i \in 0 .. m - 1 : i \in k + 1 .. k + 1 + (n - k) - 1 => k + (i - (k + 1)) \in 0 .. m - 1
  OBVIOUS
<1> QED  BY <1>1, <1>2

LEMMA ShiftUp ==
  ASSUME NEW m \in Nat, NEW array, DOMAIN array = 0 .. m - 1,
         NEW k \in Nat, NEW n \in Nat, k <= n, n < m,
         NEW i \in 0 .. m - 1
  PROVE  CopyWithin(array, k, n, k + 1)[i] =
           IF k < i /\ i <= n THEN array[i - 1] ELSE array[i]
<1>1. CopyWithin(array, k, n, k + 1)[i] =
        IF i \in k + 1 .. k + 1 + (n - k) - 1 THEN array[k + (i - (k + 1))] ELSE array[i]
  BY DEF CopyWithin
<1>2. /\ i \in k + 1 .. k + 1 + (n - k) - 1 <=> (k < i /\ i <= n)
      /\ k + (i - (k + 1)) = i - 1
  OBVIOUS
<1> QED  BY <1>1, <1>2

LEMMA ShiftDownType ==
  ASSUME NEW m \in Nat, NEW V, NEW array \in [0 .. m - 1 -> V],
         NEW k \in Nat, NEW n \in Nat, k < n, n <= m
  PROVE  CopyWithin(array, k + 1, n, k) \in [0 .. m - 1 -> V]
<1>1. CopyWithin(array, k + 1, n, k) =
        [i \in 0 .. m - 1 |-> IF i \in k .. k + (n - (k + 1)) - 1
                              THEN array[k + 1 + (i - k)] ELSE array[i]]
  BY DEF CopyWithin
<1>2. \A i \in 0 .. m - 1 : i \in k .. k + (n - (k + 1)) - 1 => k + 1 + (i - k) \in 0 .. m - 1
  OBVIOUS
<1> QED  BY <1>1, <1>2

LEMMA ShiftDown ==
  ASSUME NEW m \in Nat, NEW array, DOMAIN array = 0 .. m - 1,
         NEW k \in Nat, NEW n \in Nat, k < n, n <= m,
         NEW i \in 0 .. m - 1
  PROVE  CopyWithin(array, k + 1, n, k)[i] =
           IF k <= i /\ i < n - 1 THEN array[i + 1] ELSE array[i]
<1>1. CopyWithin(array, k + 1, n, k)[i] =
        IF i \in k .. k + (n - (k + 1)) - 1 THEN array[k + 1 + (i - k)] ELSE array[i]
  BY DEF CopyWithin
<1>2. /\ i \in k .. k + (n - (k + 1)) - 1 <=> (k <= i /\ i < n - 1)
      /\ k + 1 + (i - k) = i + 1
  OBVIOUS
<1> QED  BY <1>1, <1>2

(* The write point of a byte that has no child.                            *)
LEMMA WritePointNew ==
  ASSUME NEW nd, SoundCompressed(nd), NEW byte \in Byte, LookupChild(nd, byte) = None
  PROVE  LET point == FindWritePoint(nd, byte) IN
           /\ point.at \in 0 .. nd.num_children
           /\ point.kind \in {"Last", "Shift"}
           /\ point.kind = "Last" => point.at = nd.num_children
           /\ \A i \in Used(nd) : i < point.at => nd.keys[i] < byte
           /\ \A i \in Used(nd) : i >= point.at => byte < nd.keys[i]
<1> DEFINE ahead == {i \in Used(nd) : byte <= nd.keys[i]}
<1>1. /\ nd.num_children \in Nat /\ Used(nd) = 0 .. nd.num_children - 1 /\ byte \in Nat
      /\ \A i \in Used(nd) : i \in Nat /\ nd.keys[i] \in Nat
  BY CompressedType, ByteAssumption
<1>2. \A i \in Used(nd) : nd.keys[i] # byte
  BY CompressedLookup, CompressedType, ChildAssumption
<1>3. CASE ahead = {}
  <2>1. FindWritePoint(nd, byte) = [kind |-> "Last", at |-> nd.num_children]
    BY <1>3 DEF FindWritePoint
  <2>2. \A i \in Used(nd) : nd.keys[i] < byte  BY <1>3, <1>1
  <2> QED  BY <2>1, <2>2, <1>1
<1>4. CASE ahead # {}
  <2> DEFINE k == Min(ahead)
  <2>1. ahead \in SUBSET Nat  BY <1>1
  <2>2. k \in ahead /\ \A i \in ahead : k <= i  BY <2>1, <1>4, MinFacts
  <2>3. k \in Used(nd) /\ byte <= nd.keys[k]  BY <2>2
  <2>4. FindWritePoint(nd, byte) = [kind |-> "Shift", at |-> k]
    BY <1>4, <2>3, <1>2 DEF FindWritePoint
  <2>5. \A i \in Used(nd) : i < k => nd.keys[i] < byte
    <3>1. SUFFICES ASSUME NEW i \in Used(nd), i < k, ~(nd.keys[i] < byte) PROVE FALSE
      OBVIOUS
    <3>2. i \in ahead  BY <3>1, <1>1
    <3> HIDE DEF k
    <3> QED  BY <3>1, <3>2, <2>2, <2>3, <1>1
  <2>6. \A i \in Used(nd) : i >= k => byte < nd.keys[i]
    <3>1. SUFFICES ASSUME NEW i \in Used(nd), i >= k PROVE byte < nd.keys[i]
      OBVIOUS
    <3> HIDE DEF k
    <3>2. nd.keys[k] # byte /\ nd.keys[k] \in Nat /\ nd.keys[i] \in Nat /\ k \in Nat /\ i \in Nat
      BY <2>3, <1>2, <1>1
    <3>3. i = k \/ k < i  BY <3>1, <3>2
    <3>4. i = k \/ nd.keys[k] < nd.keys[i]  BY <3>3, <2>3, CompressedType
    <3> QED  BY <3>2, <3>4, <2>3, <1>1
  <2> HIDE DEF k
  <2> QED  BY <2>3, <2>4, <2>5, <2>6, <1>1
<1> QED  BY <1>3, <1>4

(* write_child of a new key byte. *)
LEMMA WriteCompressedNew ==
  ASSUME NEW nd, SoundCompressed(nd), NEW byte \in Byte, NEW child \in Child,
         LookupChild(nd, byte) = None, nd.num_children < UpperCapacity[nd.type]
  PROVE  LET new == WriteCompressed(nd, byte, child) IN
           /\ SoundCompressed(new) /\ new.type = nd.type
           /\ new.num_children = nd.num_children + 1
           /\ Differs(new, nd, byte, child)
           /\ Filled(nd) => Filled(new)
<1> DEFINE n == nd.num_children
           m == UpperCapacity[nd.type]
           point == FindWritePoint(nd, byte)
           k == point.at
           new == WriteCompressed(nd, byte, child)
           keys == IF point.kind = "Shift" THEN CopyWithin(nd.keys, k, n, k + 1) ELSE nd.keys
           pointers == IF point.kind = "Shift" THEN CopyWithin(nd.child_pointers, k, n, k + 1)
                       ELSE nd.child_pointers
<1>1. /\ n \in Nat /\ m \in Nat /\ n < m
      /\ Used(nd) = 0 .. n - 1 /\ Slots(nd.type) = 0 .. m - 1
      /\ nd.keys \in [0 .. m - 1 -> Byte \cup {Uninit}]
      /\ nd.child_pointers \in [0 .. m - 1 -> Child \cup {Uninit}]
      /\ nd = Compressed(nd.type, n, nd.keys, nd.child_pointers)
      /\ nd.type \in {"Node4", "Node16"}
  BY CompressedType
<1>1a. byte \in Nat  BY ByteAssumption
<1>1b. \A i \in 0 .. n - 1 : nd.keys[i] \in Byte /\ nd.keys[i] \in Nat /\ nd.child_pointers[i] \in Child
  BY <1>1, CompressedType
<1>1c. \A i, j \in 0 .. n - 1 : i < j => nd.keys[i] < nd.keys[j]  BY <1>1, CompressedType
<1>2. /\ k \in 0 .. n
      /\ point.kind \in {"Last", "Shift"}
      /\ point.kind = "Last" => k = n
      /\ \A i \in 0 .. n - 1 : i < k => nd.keys[i] < byte
      /\ \A i \in 0 .. n - 1 : i >= k => byte < nd.keys[i]
  BY <1>1, WritePointNew
<1> HIDE DEF n, m, k, point
<1>2a. k \in Nat /\ k <= n  BY <1>1, <1>2
<1>3. /\ keys \in [0 .. m - 1 -> Byte \cup {Uninit}]
      /\ \A i \in 0 .. m - 1 : (i < k => keys[i] = nd.keys[i])
                            /\ (k < i /\ i <= n => keys[i] = nd.keys[i - 1])
                            /\ (n < i => keys[i] = nd.keys[i])
  <2>1. CASE point.kind = "Shift"
    <3>1. PICK V \in {Byte \cup {Uninit}} : nd.keys \in [0 .. m - 1 -> V]  BY <1>1
    <3>2. CopyWithin(nd.keys, k, n, k + 1) \in [0 .. m - 1 -> V]
      BY <3>1, <1>1, <1>2a, ShiftUpType
    <3>3. \A i \in 0 .. m - 1 :
               CopyWithin(nd.keys, k, n, k + 1)[i] =
                 IF k < i /\ i <= n THEN nd.keys[i - 1] ELSE nd.keys[i]
      <4>1. DOMAIN nd.keys = 0 .. m - 1 /\ k \in Nat /\ n \in Nat /\ m \in Nat /\ k <= n /\ n < m
        BY <1>1, <1>2a
      <4> QED  BY ONLY <4>1, ShiftUp
    <3>4. \A i \in 0 .. m - 1 : ~(i < k /\ k < i) /\ (n < i => ~(i <= n))
      BY <1>1, <1>2a
    <3> QED  BY <3>1, <3>2, <3>3, <3>4, <2>1
  <2>2. CASE point.kind = "Last"
    <3>1. keys = nd.keys /\ k = n  BY <2>2, <1>2
    <3> QED  BY <3>1, <1>1
  <2> QED  BY <2>1, <2>2, <1>2
<1>4. /\ pointers \in [0 .. m - 1 -> Child \cup {Uninit}]
      /\ \A i \in 0 .. m - 1 : (i < k => pointers[i] = nd.child_pointers[i])
                            /\ (k < i /\ i <= n => pointers[i] = nd.child_pointers[i - 1])
  <2>1. CASE point.kind = "Shift"
    <3>1. PICK V \in {Child \cup {Uninit}} : nd.child_pointers \in [0 .. m - 1 -> V]  BY <1>1
    <3>2. CopyWithin(nd.child_pointers, k, n, k + 1) \in [0 .. m - 1 -> V]
      BY <3>1, <1>1, <1>2a, ShiftUpType
    <3>3. \A i \in 0 .. m - 1 :
               CopyWithin(nd.child_pointers, k, n, k + 1)[i] =
                 IF k < i /\ i <= n THEN nd.child_pointers[i - 1] ELSE nd.child_pointers[i]
      <4>1. DOMAIN nd.child_pointers = 0 .. m - 1 /\ k \in Nat /\ n \in Nat /\ m \in Nat /\ k <= n /\ n < m
        BY <1>1, <1>2a
      <4> QED  BY ONLY <4>1, ShiftUp
    <3>4. \A i \in 0 .. m - 1 : ~(i < k /\ k < i) /\ (n < i => ~(i <= n))
      BY <1>1, <1>2a
    <3> QED  BY <3>1, <3>2, <3>3, <3>4, <2>1
  <2>2. CASE point.kind = "Last"
    <3>1. pointers = nd.child_pointers /\ k = n  BY <2>2, <1>2
    <3> QED  BY <3>1, <1>1
  <2> QED  BY <2>1, <2>2, <1>2
<1> DEFINE keys2 == [keys EXCEPT ![k] = byte]
           pointers2 == [pointers EXCEPT ![k] = child]
<1>5. new = Compressed(nd.type, n + 1, keys2, pointers2)
  <2>1. point.kind # "Existing"  BY <1>2
  <2> DEFINE shifted == IF point.kind = "Shift"
                        THEN [nd EXCEPT !.keys = CopyWithin(@, k, n, k + 1),
                                        !.child_pointers = CopyWithin(@, k, n, k + 1)]
                        ELSE nd
  <2>2. shifted = Compressed(nd.type, n, keys, pointers)
    <3>1. CASE point.kind = "Shift"
      <4>1. PICK x \in {CopyWithin(nd.keys, k, n, k + 1)},
                 y \in {CopyWithin(nd.child_pointers, k, n, k + 1)} : TRUE
        OBVIOUS
      <4>2. shifted = [nd EXCEPT !.keys = x, !.child_pointers = y]  BY <3>1, <4>1
      <4>3. [nd EXCEPT !.keys = x, !.child_pointers = y] = Compressed(nd.type, n, x, y)
        <5>1. [nd EXCEPT !.keys = x, !.child_pointers = y]
                = [[nd EXCEPT !.keys = x] EXCEPT !.child_pointers = y]
          OBVIOUS
        <5>2. PICK t \in {nd.type}, p \in {nd.child_pointers}, q \in {nd.keys} :
                nd = Compressed(t, n, q, p)
          BY <1>1
        <5>3. [Compressed(t, n, q, p) EXCEPT !.keys = x] = Compressed(t, n, x, p)
          BY DEF Compressed
        <5>4. [Compressed(t, n, x, p) EXCEPT !.child_pointers = y] = Compressed(t, n, x, y)
          BY DEF Compressed
        <5> QED  BY <5>1, <5>2, <5>3, <5>4
      <4>4. keys = x /\ pointers = y  BY <3>1, <4>1
      <4> QED  BY <4>2, <4>3, <4>4
    <3>2. CASE point.kind # "Shift"
      <4>1. shifted = nd /\ keys = nd.keys /\ pointers = nd.child_pointers  BY <3>2
      <4> QED  BY <4>1, <1>1
    <3> QED  BY <3>1, <3>2
  <2>3. new = [shifted EXCEPT !.num_children = IF point.kind = "Existing" THEN @ ELSE @ + 1,
                              !.keys[k] = byte, !.child_pointers[k] = child]
    BY DEF WriteCompressed, n, k, point
  <2> HIDE DEF shifted, keys, pointers, new
  <2>4. new = [shifted EXCEPT !.num_children = @ + 1,
                              !.keys[k] = byte, !.child_pointers[k] = child]
    BY <2>1, <2>3
  <2>5. [Compressed(nd.type, n, keys, pointers) EXCEPT !.num_children = @ + 1,
                              !.keys[k] = byte, !.child_pointers[k] = child]
          = Compressed(nd.type, n + 1, keys2, pointers2)
    <3>1. PICK t \in {nd.type}, l \in {n + 1}, x \in {keys2}, y \in {pointers2} : TRUE
      OBVIOUS
    <3>2. [Compressed(t, n, keys, pointers) EXCEPT !.num_children = @ + 1,
                              !.keys[k] = byte, !.child_pointers[k] = child]
            = [[[Compressed(t, n, keys, pointers) EXCEPT !.num_children = l] EXCEPT !.keys = x]
                  EXCEPT !.child_pointers = y]
      BY <3>1 DEF Compressed
    <3>3. [Compressed(t, n, keys, pointers) EXCEPT !.num_children = l] = Compressed(t, l, keys, pointers)
      BY DEF Compressed
    <3>4. [Compressed(t, l, keys, pointers) EXCEPT !.keys = x] = Compressed(t, l, x, pointers)
      BY DEF Compressed
    <3>5. [Compressed(t, l, x, pointers) EXCEPT !.child_pointers = y] = Compressed(t, l, x, y)
      BY DEF Compressed
    <3> QED  BY <3>1, <3>2, <3>3, <3>4, <3>5
  <2> QED  BY <2>2, <2>4, <2>5
<1> HIDE DEF keys, pointers, new
<1>6. /\ keys2 \in [0 .. m - 1 -> Byte \cup {Uninit}]
      /\ \A i \in 0 .. m - 1 : keys2[i] = IF i = k THEN byte ELSE keys[i]
  BY <1>3
<1>7. /\ pointers2 \in [0 .. m - 1 -> Child \cup {Uninit}]
      /\ \A i \in 0 .. m - 1 : pointers2[i] = IF i = k THEN child ELSE pointers[i]
  BY <1>4
<1> HIDE DEF keys2, pointers2
<1>8. \A i \in 0 .. n : /\ (i < k => i \in 0 .. n - 1 /\ keys2[i] = nd.keys[i] /\ pointers2[i] = nd.child_pointers[i])
                        /\ (i = k => keys2[i] = byte /\ pointers2[i] = child)
                        /\ (i > k => /\ i - 1 \in 0 .. n - 1 /\ i - 1 >= k
                                     /\ keys2[i] = nd.keys[i - 1] /\ pointers2[i] = nd.child_pointers[i - 1])
  <2>1. SUFFICES ASSUME NEW i \in 0 .. n
        PROVE /\ (i < k => i \in 0 .. n - 1 /\ keys2[i] = nd.keys[i] /\ pointers2[i] = nd.child_pointers[i])
              /\ (i = k => keys2[i] = byte /\ pointers2[i] = child)
              /\ (i > k => /\ i - 1 \in 0 .. n - 1 /\ i - 1 >= k
                           /\ keys2[i] = nd.keys[i - 1] /\ pointers2[i] = nd.child_pointers[i - 1])
    OBVIOUS
  <2>2. i \in 0 .. m - 1 /\ i <= n /\ i \in Nat /\ k \in Nat /\ k <= n  BY <1>1, <1>2
  <2> QED  BY <2>2, <1>1, <1>3, <1>4, <1>6, <1>7
<1>9. \A i \in 0 .. n : keys2[i] \in Byte /\ keys2[i] \in Nat /\ pointers2[i] \in Child
  <2>1. TAKE i \in 0 .. n
  <2>2. i < k \/ i = k \/ i > k  BY <1>1, <1>2
  <2> QED  BY <2>2, <1>8, <1>1b, <1>1a
<1>10. \A i, j \in 0 .. n : i < j => keys2[i] < keys2[j]
  <2>1. SUFFICES ASSUME NEW i \in 0 .. n, NEW j \in 0 .. n, i < j PROVE keys2[i] < keys2[j]
    OBVIOUS
  <2>2. k \in Nat /\ n \in Nat  BY <1>1, <1>2
  <2>3. CASE j < k
    <3>1. i < k  BY <2>1, <2>2, <2>3
    <3>2. nd.keys[i] < nd.keys[j]  BY <1>8, <2>3, <3>1, <2>1, <1>1c
    <3> QED  BY <3>1, <3>2, <2>3, <1>8
  <2>4. CASE j = k
    <3>1. i < k  BY <2>1, <2>4
    <3> QED  BY <3>1, <2>4, <1>8, <1>2
  <2>5. CASE j > k /\ i < k
    <3>1. keys2[j] = nd.keys[j - 1] /\ j - 1 \in 0 .. n - 1 /\ i \in 0 .. n - 1 /\ i < j - 1 /\ keys2[i] = nd.keys[i]
      BY <2>5, <1>8, <2>2
    <3>2. nd.keys[i] < nd.keys[j - 1]  BY <3>1, <1>1c
    <3> QED  BY <3>1, <3>2
  <2>6. CASE j > k /\ i = k  BY <2>6, <1>8, <1>2
  <2>7. CASE i > k
    <3>1. j > k  BY <2>1, <2>2, <2>7
    <3>2. /\ keys2[j] = nd.keys[j - 1] /\ j - 1 \in 0 .. n - 1
          /\ keys2[i] = nd.keys[i - 1] /\ i - 1 \in 0 .. n - 1
      BY <3>1, <2>7, <1>8
    <3>3. i - 1 < j - 1  BY <2>1, <2>2
    <3>4. nd.keys[i - 1] < nd.keys[j - 1]  BY <3>2, <3>3, <1>1c
    <3> QED  BY <3>2, <3>4
  <2> QED  BY <2>1, <2>2, <2>3, <2>4, <2>5, <2>6, <2>7
<1>11. SoundCompressed(new)
  <2>1. PICK l \in {n + 1} : l \in Nat /\ l <= m /\ 0 .. l - 1 = 0 .. n  BY <1>1
  <2>2. /\ \A i \in 0 .. l - 1 : keys2[i] \in Byte /\ pointers2[i] \in Child
        /\ \A i, j \in 0 .. l - 1 : i < j => keys2[i] < keys2[j]
    BY <2>1, <1>9, <1>10
  <2>3. /\ keys2 \in [Slots(nd.type) -> Byte \cup {Uninit}]
        /\ pointers2 \in [Slots(nd.type) -> Child \cup {Uninit}]
    BY <1>1, <1>6, <1>7
  <2>4. SoundCompressed(Compressed(nd.type, l, keys2, pointers2))
    BY <2>1, <2>2, <2>3, <1>1, CompressedIsSound DEF m
  <2> QED  BY <2>1, <2>4, <1>5
<1>12. new.type = nd.type /\ new.num_children = n + 1 /\ new.keys = keys2 /\ new.child_pointers = pointers2
  BY <1>5 DEF Compressed
<1>13. Used(new) = 0 .. n  BY <1>12, <1>1 DEF Used
<1>14. Differs(new, nd, byte, child)
  <2>1. SUFFICES ASSUME NEW b \in Byte
                 PROVE  LookupChild(new, b) = IF b = byte THEN child ELSE LookupChild(nd, b)
    BY DEF Differs
  <2>2. \A i \in 0 .. n : LookupChild(new, keys2[i]) = pointers2[i]
    BY <1>11, <1>12, <1>13, CompressedLookup
  <2>3. CASE b = byte
    <3>1. k \in 0 .. n  BY <1>2
    <3> QED  BY <3>1, <2>2, <2>3, <1>8
  <2>4. CASE b # byte /\ \E i \in 0 .. n - 1 : nd.keys[i] = b
    <3>1. PICK i \in 0 .. n - 1 : nd.keys[i] = b  BY <2>4
    <3>2. LookupChild(nd, b) = nd.child_pointers[i]  BY <3>1, <1>1, CompressedLookup
    <3>3. CASE i < k
      <4>1. i \in 0 .. n /\ keys2[i] = b /\ pointers2[i] = nd.child_pointers[i]
        BY <3>1, <3>3, <1>1, <1>8
      <4> QED  BY <4>1, <2>2, <2>4, <3>2
    <3>4. CASE ~(i < k)
      <4>1. i + 1 \in 0 .. n /\ i + 1 > k /\ i + 1 - 1 = i  BY <3>4, <1>1, <1>2
      <4>2. keys2[i + 1] = b /\ pointers2[i + 1] = nd.child_pointers[i]
        BY <3>1, <4>1, <1>8
      <4> QED  BY <4>1, <4>2, <2>2, <2>4, <3>2
    <3> QED  BY <3>3, <3>4
  <2>5. CASE b # byte /\ \A i \in 0 .. n - 1 : nd.keys[i] # b
    <3>1. \A i \in 0 .. n : keys2[i] # b
      <4>1. TAKE i \in 0 .. n
      <4>2. i < k \/ i = k \/ i > k  BY <1>1, <1>2
      <4> QED  BY <4>2, <2>5, <1>8
    <3>2. LookupChild(new, b) = None  BY <3>1, <1>11, <1>12, <1>13, CompressedLookup
    <3>3. LookupChild(nd, b) = None  BY <2>5, <1>1, CompressedLookup
    <3> QED  BY <3>2, <3>3, <2>5
  <2> QED  BY <2>3, <2>4, <2>5
<1>15. Filled(nd) => Filled(new)
  <2>1. SUFFICES ASSUME Filled(nd), nd.type = "Node16", NEW i \in Slots("Node16")
                 PROVE  keys2[i] # Uninit
    BY <1>12 DEF Filled
  <2>2. i \in 0 .. m - 1 /\ \A j \in 0 .. m - 1 : nd.keys[j] # Uninit  BY <2>1, <1>1 DEF Filled
  <2>3. CASE i <= n
    <3>1. i \in 0 .. n  BY <2>2, <2>3
    <3> QED  BY <3>1, <1>9, ChildAssumption
  <2>4. CASE ~(i <= n)
    <3>1. n < i /\ i # k  BY <2>2, <2>4, <1>1, <1>2
    <3> QED  BY <3>1, <2>2, <1>3, <1>6
  <2> QED  BY <2>3, <2>4
<1> QED  BY <1>11, <1>12, <1>14, <1>15 DEF n, new

(* write_child of a key byte that has a child. *)
LEMMA WriteCompressedExisting ==
  ASSUME NEW nd, SoundCompressed(nd), NEW byte \in Byte, NEW child \in Child,
         LookupChild(nd, byte) # None
  PROVE  LET new == WriteCompressed(nd, byte, child) IN
           /\ SoundCompressed(new) /\ new.type = nd.type
           /\ new.num_children = nd.num_children
           /\ Differs(new, nd, byte, child)
           /\ Filled(nd) => Filled(new)
<1> DEFINE n == nd.num_children
           point == FindWritePoint(nd, byte)
           ahead == {i \in Used(nd) : byte <= nd.keys[i]}
           new == WriteCompressed(nd, byte, child)
<1>1. /\ n \in Nat /\ nd.type \in {"Node4", "Node16"} /\ n <= UpperCapacity[nd.type]
      /\ Used(nd) = 0 .. n - 1 /\ Used(nd) \subseteq Slots(nd.type)
      /\ nd.keys \in [Slots(nd.type) -> Byte \cup {Uninit}]
      /\ nd.child_pointers \in [Slots(nd.type) -> Child \cup {Uninit}]
      /\ nd = Compressed(nd.type, n, nd.keys, nd.child_pointers)
      /\ \A i \in Used(nd) : nd.keys[i] \in Byte /\ nd.keys[i] \in Nat /\ nd.child_pointers[i] \in Child
      /\ \A i, j \in Used(nd) : i < j => nd.keys[i] < nd.keys[j]
  BY CompressedType
<1>2. PICK k \in Used(nd) : nd.keys[k] = byte  BY CompressedLookup
<1>3. k \in Nat /\ byte \in Nat /\ \A i \in Used(nd) : i \in Nat  BY <1>1, ByteAssumption
<1>4. Min(ahead) = k /\ ahead # {}
  <2>1. k \in ahead  BY <1>2, <1>3
  <2>2. ASSUME NEW i \in ahead PROVE i \in Nat /\ k <= i
    <3>1. i \in Used(nd) /\ byte <= nd.keys[i] /\ i \in Nat /\ nd.keys[i] \in Nat  BY <1>1, <1>3
    <3>2. CASE i < k
      <4>1. nd.keys[i] < nd.keys[k]  BY <3>1, <3>2, <1>1
      <4> QED  BY <4>1, <3>1, <1>2, <1>3
    <3> QED  BY <3>1, <3>2, <1>3
  <2> HIDE DEF ahead
  <2>3. \A i \in ahead : i \in Nat /\ k <= i  BY <2>2
  <2> QED  BY <2>1, <2>3, <1>3, MinUnique
<1>5. point = [kind |-> "Existing", at |-> k]
  BY <1>2, <1>4 DEF FindWritePoint
<1> DEFINE keys2 == [nd.keys EXCEPT ![k] = byte]
           pointers2 == [nd.child_pointers EXCEPT ![k] = child]
<1>6. new = Compressed(nd.type, n, keys2, pointers2)
  <2>1. new = [nd EXCEPT !.num_children = n, !.keys[k] = byte, !.child_pointers[k] = child]
    BY <1>5 DEF WriteCompressed
  <2> HIDE DEF new, n
  <2>2. PICK t \in {nd.type}, p \in {nd.child_pointers}, q \in {nd.keys} : nd = Compressed(t, n, q, p)
    BY <1>1
  <2>3. PICK x \in {keys2}, y \in {pointers2} :
          x = [q EXCEPT ![k] = byte] /\ y = [p EXCEPT ![k] = child]
    BY <2>2
  <2>4. [Compressed(t, n, q, p) EXCEPT !.num_children = n, !.keys[k] = byte, !.child_pointers[k] = child]
          = [[[Compressed(t, n, q, p) EXCEPT !.num_children = n] EXCEPT !.keys = x]
                EXCEPT !.child_pointers = y]
    BY <2>3 DEF Compressed
  <2>5. [Compressed(t, n, q, p) EXCEPT !.num_children = n] = Compressed(t, n, q, p)
    BY DEF Compressed
  <2>6. [Compressed(t, n, q, p) EXCEPT !.keys = x] = Compressed(t, n, x, p)
    BY DEF Compressed
  <2>7. [Compressed(t, n, x, p) EXCEPT !.child_pointers = y] = Compressed(t, n, x, y)
    BY DEF Compressed
  <2> HIDE DEF keys2, pointers2
  <2>8. new = [Compressed(t, n, q, p) EXCEPT !.num_children = n, !.keys[k] = byte,
                                            !.child_pointers[k] = child]
    BY <2>1, <2>2
  <2>9. new = Compressed(t, n, x, y)  BY <2>4, <2>5, <2>6, <2>7, <2>8
  <2> QED  BY <2>2, <2>3, <2>9
<1> HIDE DEF new
<1>7. keys2 = nd.keys  BY <1>1, <1>2
<1>8. /\ pointers2 \in [Slots(nd.type) -> Child \cup {Uninit}]
      /\ \A i \in Used(nd) : pointers2[i] = IF i = k THEN child ELSE nd.child_pointers[i]
  BY <1>1
<1> HIDE DEF keys2, pointers2
<1>9. SoundCompressed(new)
  <2>1. /\ \A i \in 0 .. n - 1 : nd.keys[i] \in Byte /\ pointers2[i] \in Child
        /\ \A i, j \in 0 .. n - 1 : i < j => nd.keys[i] < nd.keys[j]
    BY <1>1, <1>8
  <2> HIDE DEF n
  <2>2. SoundCompressed(Compressed(nd.type, n, nd.keys, pointers2))
    BY <2>1, <1>1, <1>8, CompressedIsSound
  <2> QED  BY <2>2, <1>6, <1>7
<1>10. /\ new.type = nd.type /\ new.num_children = n /\ new.keys = nd.keys
       /\ new.child_pointers = pointers2
  BY <1>6, <1>7 DEF Compressed
<1>11. Used(new) = Used(nd)  BY <1>10 DEF Used
<1>12. Differs(new, nd, byte, child)
  <2>1. SUFFICES ASSUME NEW b \in Byte
                 PROVE  LookupChild(new, b) = IF b = byte THEN child ELSE LookupChild(nd, b)
    BY DEF Differs
  <2>2. CASE \E i \in Used(nd) : nd.keys[i] = b
    <3>1. PICK i \in Used(nd) : nd.keys[i] = b  BY <2>2
    <3>2. LookupChild(nd, b) = nd.child_pointers[i]  BY <3>1, CompressedLookup
    <3>3. i \in Used(new) /\ new.keys[i] = b  BY <3>1, <1>10, <1>11
    <3>4. LookupChild(new, b) = new.child_pointers[i]  BY <3>3, <1>9, CompressedLookup
    <3>5. i = k <=> b = byte  BY <3>1, <1>2, CompressedKeys
    <3> QED  BY <3>1, <3>2, <3>4, <3>5, <1>8, <1>10
  <2>3. CASE \A i \in Used(nd) : nd.keys[i] # b
    <3>1. LookupChild(nd, b) = None  BY <2>3, CompressedLookup
    <3>2. \A i \in Used(new) : new.keys[i] # b  BY <2>3, <1>10, <1>11
    <3>3. LookupChild(new, b) = None  BY <3>2, <1>9, CompressedLookup
    <3> QED  BY <3>1, <3>3, <2>3, <1>2
  <2> QED  BY <2>2, <2>3
<1>13. Filled(nd) => Filled(new)  BY <1>10 DEF Filled
<1> QED  BY <1>9, <1>10, <1>12, <1>13 DEF new, n

(* remove_child *)
LEMMA RemoveCompressedKeeps ==
  ASSUME NEW nd, SoundCompressed(nd), NEW byte \in Byte, LookupChild(nd, byte) # None
  PROVE  LET new == RemoveCompressed(nd, byte) IN
           /\ SoundCompressed(new) /\ new.type = nd.type
           /\ new.num_children = nd.num_children - 1
           /\ Differs(new, nd, byte, None)
           /\ Filled(nd) => Filled(new)
<1> DEFINE n == nd.num_children
           m == UpperCapacity[nd.type]
           new == RemoveCompressed(nd, byte)
<1>1. /\ n \in Nat /\ m \in Nat /\ n <= m /\ nd.type \in {"Node4", "Node16"}
      /\ Used(nd) = 0 .. n - 1 /\ Slots(nd.type) = 0 .. m - 1
      /\ nd.keys \in [0 .. m - 1 -> Byte \cup {Uninit}]
      /\ nd.child_pointers \in [0 .. m - 1 -> Child \cup {Uninit}]
      /\ nd = Compressed(nd.type, n, nd.keys, nd.child_pointers)
      /\ \A i \in 0 .. n - 1 : nd.keys[i] \in Byte /\ nd.keys[i] \in Nat /\ nd.child_pointers[i] \in Child
      /\ \A i, j \in 0 .. n - 1 : i < j => nd.keys[i] < nd.keys[j]
  BY CompressedType
<1>2. PICK k \in Used(nd) : nd.keys[k] = byte  BY CompressedLookup
<1>3. k = Min(KeyIndices(nd, byte))  BY <1>2, CompressedLookup
<1>4. k \in Nat /\ k < n /\ n <= m /\ n - 1 \in Nat /\ k \in 0 .. n - 1
  BY <1>1, <1>2
<1> HIDE DEF n, m
<1> DEFINE unset == [nd.child_pointers EXCEPT ![k] = Uninit]
           keys2 == CopyWithin(nd.keys, k + 1, n, k)
           pointers2 == CopyWithin(unset, k + 1, n, k)
<1>5. new = Compressed(nd.type, n - 1, keys2, pointers2)
  <2>1. new = [nd EXCEPT !.child_pointers = CopyWithin([@ EXCEPT ![k] = Uninit], k + 1, n, k),
                         !.keys = CopyWithin(@, k + 1, n, k), !.num_children = n - 1]
    BY <1>3 DEF RemoveCompressed, n
  <2> HIDE DEF new
  <2>2. PICK t \in {nd.type}, p \in {nd.child_pointers}, q \in {nd.keys}, l \in {n - 1},
             x \in {keys2}, y \in {pointers2} : nd = Compressed(t, n, q, p)
    BY <1>1
  <2>3. new = [nd EXCEPT !.child_pointers = y, !.keys = x, !.num_children = l]
    BY <2>1, <2>2
  <2>4. [nd EXCEPT !.child_pointers = y, !.keys = x, !.num_children = l]
          = [[[nd EXCEPT !.num_children = l] EXCEPT !.keys = x] EXCEPT !.child_pointers = y]
    OBVIOUS
  <2>5. [Compressed(t, n, q, p) EXCEPT !.num_children = l] = Compressed(t, l, q, p)
    BY DEF Compressed
  <2>6. [Compressed(t, l, q, p) EXCEPT !.keys = x] = Compressed(t, l, x, p)
    BY DEF Compressed
  <2>7. [Compressed(t, l, x, p) EXCEPT !.child_pointers = y] = Compressed(t, l, x, y)
    BY DEF Compressed
  <2> HIDE DEF keys2, pointers2
  <2> QED  BY <2>2, <2>3, <2>4, <2>5, <2>6, <2>7
<1> HIDE DEF new
<1>6. /\ unset \in [0 .. m - 1 -> Child \cup {Uninit}]
      /\ \A i \in 0 .. m - 1 : unset[i] = IF i = k THEN Uninit ELSE nd.child_pointers[i]
  BY <1>1
<1> HIDE DEF unset
<1>7. keys2 \in [0 .. m - 1 -> Byte \cup {Uninit}]
  <2>1. PICK V \in {Byte \cup {Uninit}} : nd.keys \in [0 .. m - 1 -> V]  BY <1>1
  <2> QED  BY <2>1, <1>1, <1>4, ShiftDownType
<1>8. pointers2 \in [0 .. m - 1 -> Child \cup {Uninit}]
  <2>1. PICK V \in {Child \cup {Uninit}} : unset \in [0 .. m - 1 -> V]  BY <1>6
  <2> QED  BY <2>1, <1>1, <1>4, ShiftDownType
<1>9. \A i \in 0 .. m - 1 : keys2[i] = IF k <= i /\ i < n - 1 THEN nd.keys[i + 1] ELSE nd.keys[i]
  <2>1. DOMAIN nd.keys = 0 .. m - 1 /\ m \in Nat /\ k \in Nat /\ n \in Nat /\ k < n /\ n <= m
    BY <1>1, <1>4
  <2>2. PICK q \in {nd.keys} : DOMAIN q = 0 .. m - 1  BY <2>1
  <2>3. \A i \in 0 .. m - 1 :
          CopyWithin(q, k + 1, n, k)[i] = IF k <= i /\ i < n - 1 THEN q[i + 1] ELSE q[i]
    BY ONLY <2>1, <2>2, ShiftDown
  <2> QED  BY <2>2, <2>3
<1>10. \A i \in 0 .. m - 1 : pointers2[i] = IF k <= i /\ i < n - 1 THEN unset[i + 1] ELSE unset[i]
  <2>1. DOMAIN unset = 0 .. m - 1 /\ m \in Nat /\ k \in Nat /\ n \in Nat /\ k < n /\ n <= m
    BY <1>1, <1>4, <1>6
  <2> QED  BY ONLY <2>1, ShiftDown DEF pointers2
<1> HIDE DEF keys2, pointers2
<1>11. \A i \in 0 .. n - 2 :
         /\ i < k => i \in 0 .. n - 1 /\ keys2[i] = nd.keys[i] /\ pointers2[i] = nd.child_pointers[i]
         /\ i >= k => /\ i + 1 \in 0 .. n - 1 /\ keys2[i] = nd.keys[i + 1]
                      /\ pointers2[i] = nd.child_pointers[i + 1]
  <2>1. SUFFICES ASSUME NEW i \in 0 .. n - 2
        PROVE /\ i < k => i \in 0 .. n - 1 /\ keys2[i] = nd.keys[i] /\ pointers2[i] = nd.child_pointers[i]
              /\ i >= k => /\ i + 1 \in 0 .. n - 1 /\ keys2[i] = nd.keys[i + 1]
                           /\ pointers2[i] = nd.child_pointers[i + 1]
    OBVIOUS
  <2>2. i \in 0 .. m - 1 /\ i + 1 \in 0 .. m - 1 /\ i + 1 \in 0 .. n - 1 /\ i \in 0 .. n - 1
        /\ i < n - 1 /\ i \in Nat
    BY <1>1, <1>4
  <2>3. CASE i < k
    <3>1. i # k /\ ~(k <= i)  BY <2>3, <2>2, <1>4
    <3> QED  BY <3>1, <2>2, <2>3, <1>6, <1>9, <1>10, <1>4
  <2>4. CASE i >= k
    <3>1. i + 1 # k /\ k <= i /\ ~(i < k)  BY <2>4, <2>2, <1>4
    <3> QED  BY <3>1, <2>2, <2>4, <1>6, <1>9, <1>10, <1>4
  <2> QED  BY <2>3, <2>4, <2>2, <1>4
<1>12. \A i \in 0 .. n - 2 : keys2[i] \in Byte /\ pointers2[i] \in Child
  <2>1. TAKE i \in 0 .. n - 2
  <2>2. i < k \/ i >= k  BY <1>4
  <2> QED  BY <2>2, <1>11, <1>1
<1>13. \A i, j \in 0 .. n - 2 : i < j => keys2[i] < keys2[j]
  <2>1. SUFFICES ASSUME NEW i \in 0 .. n - 2, NEW j \in 0 .. n - 2, i < j PROVE keys2[i] < keys2[j]
    OBVIOUS
  <2>2. CASE j < k
    <3>1. i < k  BY <2>1, <2>2, <1>4
    <3> QED  BY <3>1, <2>1, <2>2, <1>11, <1>1
  <2>3. CASE i < k /\ j >= k
    <3>1. i < j + 1  BY <2>1
    <3> QED  BY <3>1, <2>3, <1>11, <1>1
  <2>4. CASE i >= k
    <3>1. j >= k /\ i + 1 < j + 1  BY <2>1, <2>4, <1>4
    <3> QED  BY <3>1, <2>4, <1>11, <1>1
  <2> QED  BY <2>1, <2>2, <2>3, <2>4, <1>4
<1>14. SoundCompressed(new)
  <2>1. PICK l \in {n - 1} : l \in Nat /\ l <= m /\ 0 .. l - 1 = 0 .. n - 2  BY <1>1, <1>4
  <2>2. /\ \A i \in 0 .. l - 1 : keys2[i] \in Byte /\ pointers2[i] \in Child
        /\ \A i, j \in 0 .. l - 1 : i < j => keys2[i] < keys2[j]
    BY <2>1, <1>12, <1>13
  <2>3. /\ keys2 \in [Slots(nd.type) -> Byte \cup {Uninit}]
        /\ pointers2 \in [Slots(nd.type) -> Child \cup {Uninit}]
    BY <1>1, <1>7, <1>8
  <2>4. SoundCompressed(Compressed(nd.type, l, keys2, pointers2))
    BY <2>1, <2>2, <2>3, <1>1, CompressedIsSound DEF m
  <2> QED  BY <2>1, <2>4, <1>5
<1>15. new.type = nd.type /\ new.num_children = n - 1 /\ new.keys = keys2 /\ new.child_pointers = pointers2
  BY <1>5 DEF Compressed
<1>16. Used(new) = 0 .. n - 2
  <2>1. n - 1 - 1 = n - 2  BY <1>1
  <2> QED  BY <2>1, <1>15 DEF Used
<1>17. Differs(new, nd, byte, None)
  <2>1. SUFFICES ASSUME NEW b \in Byte
                 PROVE  LookupChild(new, b) = IF b = byte THEN None ELSE LookupChild(nd, b)
    BY DEF Differs
  <2>2. \A i \in 0 .. n - 2 : LookupChild(new, keys2[i]) = pointers2[i]
    BY <1>14, <1>15, <1>16, CompressedLookup
  <2>3. CASE b # byte /\ \E i \in 0 .. n - 1 : nd.keys[i] = b
    <3>1. PICK i \in 0 .. n - 1 : nd.keys[i] = b  BY <2>3
    <3>2. LookupChild(nd, b) = nd.child_pointers[i]  BY <3>1, <1>1, CompressedLookup
    <3>3. i # k  BY <3>1, <2>3, <1>2
    <3>4. CASE i < k
      <4>1. i \in 0 .. n - 2  BY <3>1, <3>4, <1>4, <1>1
      <4> QED  BY <4>1, <3>1, <3>2, <3>4, <2>2, <2>3, <1>11
    <3>5. CASE i > k
      <4>1. i - 1 \in 0 .. n - 2 /\ i - 1 >= k /\ i - 1 + 1 = i  BY <3>1, <3>5, <1>4, <1>1
      <4>2. keys2[i - 1] = b /\ pointers2[i - 1] = nd.child_pointers[i]  BY <4>1, <3>1, <1>11
      <4> QED  BY <4>1, <4>2, <3>2, <2>2, <2>3
    <3> QED  BY <3>3, <3>4, <3>5, <1>4
  <2>4. CASE b = byte
    <3>1. \A i \in 0 .. n - 2 : keys2[i] # b
      <4>1. SUFFICES ASSUME NEW i \in 0 .. n - 2, keys2[i] = b PROVE FALSE
        OBVIOUS
      <4>2. CASE i < k
        <5>1. i \in 0 .. n - 1 /\ nd.keys[i] = nd.keys[k]  BY <4>1, <4>2, <2>4, <1>2, <1>11
        <5>2. i = k  BY <5>1, <1>1, <1>2, CompressedKeys
        <5> QED  BY <5>2, <4>2, <1>4
      <4>3. CASE i >= k
        <5>1. i + 1 \in 0 .. n - 1 /\ nd.keys[i + 1] = nd.keys[k]  BY <4>1, <4>3, <2>4, <1>2, <1>11
        <5>2. i + 1 = k  BY <5>1, <1>1, <1>2, CompressedKeys
        <5> QED  BY <5>2, <4>3, <1>4
      <4> QED  BY <4>2, <4>3, <1>4
    <3>2. \A i \in Used(new) : new.keys[i] # b  BY <3>1, <1>15, <1>16
    <3> QED  BY <3>2, <2>4, <1>14, CompressedLookup
  <2>5. CASE b # byte /\ \A i \in 0 .. n - 1 : nd.keys[i] # b
    <3>1. \A i \in 0 .. n - 2 : keys2[i] # b
      <4>1. TAKE i \in 0 .. n - 2
      <4>2. i < k \/ i >= k  BY <1>4
      <4> QED  BY <4>2, <2>5, <1>11
    <3>2. \A i \in Used(new) : new.keys[i] # b  BY <3>1, <1>15, <1>16
    <3>3. LookupChild(new, b) = None  BY <3>2, <1>14, CompressedLookup
    <3>4. LookupChild(nd, b) = None  BY <2>5, <1>1, CompressedLookup
    <3> QED  BY <3>3, <3>4, <2>5
  <2> QED  BY <2>3, <2>4, <2>5
<1>18. Filled(nd) => Filled(new)
  <2>1. SUFFICES ASSUME Filled(nd), nd.type = "Node16", NEW i \in Slots("Node16")
                 PROVE  keys2[i] # Uninit
    BY <1>15 DEF Filled
  <2>2. i \in 0 .. m - 1 /\ \A j \in 0 .. m - 1 : nd.keys[j] # Uninit  BY <2>1, <1>1 DEF Filled
  <2>3. i \in Nat /\ i <= m - 1 /\ (i < n - 1 => i + 1 \in 0 .. m - 1)
    BY <2>2, <1>4, <1>1
  <2>4. nd.keys[i] # Uninit /\ (i < n - 1 => nd.keys[i + 1] # Uninit)  BY <2>2, <2>3
  <2> QED  BY <2>2, <2>4, <1>9
<1> QED  BY <1>14, <1>15, <1>17, <1>18 DEF n, new

(* The iteration of a compressed node lists it. *)
LEMMA IterCompressedLists ==
  ASSUME NEW nd, SoundCompressed(nd)
  PROVE  Lists(IterCompressed(nd), nd)
<1> DEFINE n == nd.num_children
           pairs == IterCompressed(nd)
<1>1. /\ n \in Nat /\ Used(nd) = 0 .. n - 1
      /\ \A i \in 0 .. n - 1 : nd.keys[i] \in Byte /\ nd.child_pointers[i] \in Child
      /\ \A i, j \in 0 .. n - 1 : i < j => nd.keys[i] < nd.keys[j]
  BY CompressedType
<1>2. /\ \A i \in 0 .. n - 1 : LookupChild(nd, nd.keys[i]) = nd.child_pointers[i]
      /\ BytesOf(nd) = {nd.keys[i] : i \in 0 .. n - 1}
  BY <1>1, CompressedLookup
<1>3. pairs = [i \in 1 .. n |-> <<nd.keys[i - 1], nd.child_pointers[i - 1]>>]
  BY DEF IterCompressed
<1> HIDE DEF n, pairs
<1>4. \A i \in 1 .. n : i - 1 \in 0 .. n - 1 /\ i \in Nat  BY <1>1
<1>5. \A i \in 1 .. n : pairs[i][1] = nd.keys[i - 1] /\ pairs[i][2] = nd.child_pointers[i - 1]
  BY <1>3
<1>6. pairs \in [1 .. n -> Byte \X Child]
  <2>1. \A i \in 1 .. n : <<nd.keys[i - 1], nd.child_pointers[i - 1]>> \in Byte \X Child
    BY <1>1, <1>4
  <2> QED  BY <2>1, <1>3
<1>7. \A i \in 1 .. n : pairs[i][2] = LookupChild(nd, pairs[i][1])
  BY <1>2, <1>4, <1>5
<1>8. \A i, j \in 1 .. n : i < j => pairs[i][1] < pairs[j][1]
  <2>1. SUFFICES ASSUME NEW i \in 1 .. n, NEW j \in 1 .. n, i < j
                 PROVE  pairs[i][1] < pairs[j][1]
    OBVIOUS
  <2>2. i - 1 \in 0 .. n - 1 /\ j - 1 \in 0 .. n - 1 /\ i - 1 < j - 1  BY <2>1, <1>4
  <2>3. nd.keys[i - 1] < nd.keys[j - 1]  BY <2>2, <1>1
  <2> QED  BY <2>3, <1>5
<1>9. \A b \in BytesOf(nd) : \E i \in 1 .. n : pairs[i][1] = b
  <2>1. TAKE b \in BytesOf(nd)
  <2>2. PICK j \in 0 .. n - 1 : b = nd.keys[j]  BY <1>2
  <2>3. j + 1 \in 1 .. n /\ j + 1 - 1 = j  BY <2>2, <1>1
  <2>4. pairs[j + 1][1] = b  BY <2>2, <2>3, <1>5
  <2> QED  BY <2>3, <2>4
<1> QED  BY <1>6, <1>7, <1>8, <1>9 DEF Lists, n, pairs

(* A list gives each byte at one place. *)
LEMMA ListsOnce ==
  ASSUME NEW nd, NEW pairs, Lists(pairs, nd), nd.num_children \in Nat
  PROVE  \A i, j \in 1 .. nd.num_children : pairs[i][1] = pairs[j][1] => i = j
<1>1. SUFFICES ASSUME NEW i \in 1 .. nd.num_children, NEW j \in 1 .. nd.num_children,
                      pairs[i][1] = pairs[j][1], i # j
               PROVE  FALSE
  OBVIOUS
<1>2. i < j \/ j < i  BY <1>1
<1>3. pairs[i][1] < pairs[j][1] \/ pairs[j][1] < pairs[i][1]  BY <1>2 DEF Lists
<1>4. pairs[i] \in Byte \X Child /\ pairs[j] \in Byte \X Child  BY DEF Lists
<1>5. pairs[i][1] \in Nat /\ pairs[j][1] \in Nat  BY <1>4, ByteAssumption
<1> QED  BY <1>1, <1>3, <1>5

(* A compressed node that is filled from the list of a node. *)
LEMMA CompressedFromList ==
  ASSUME NEW nd, NEW pairs, Lists(pairs, nd), nd.num_children \in Nat,
         NEW t \in {"Node4", "Node16"}, nd.num_children <= UpperCapacity[t],
         NEW keys \in [Slots(t) -> Byte \cup {Uninit}],
         NEW pointers \in [Slots(t) -> Child \cup {Uninit}],
         \A i \in 0 .. nd.num_children - 1 :
           keys[i] = pairs[i + 1][1] /\ pointers[i] = pairs[i + 1][2]
  PROVE  LET new == Compressed(t, nd.num_children, keys, pointers)
         IN  SoundCompressed(new) /\ Agrees(new, nd)
<1> DEFINE n == nd.num_children
           new == Compressed(t, n, keys, pointers)
<1>1. /\ pairs \in [1 .. n -> Byte \X Child]
      /\ \A i \in 1 .. n : pairs[i][2] = LookupChild(nd, pairs[i][1])
      /\ \A i, j \in 1 .. n : i < j => pairs[i][1] < pairs[j][1]
      /\ \A b \in BytesOf(nd) : \E i \in 1 .. n : pairs[i][1] = b
      /\ n \in Nat
  BY DEF Lists
<1>2. \A i \in 0 .. n - 1 : keys[i] = pairs[i + 1][1] /\ pointers[i] = pairs[i + 1][2]
  OBVIOUS
<1>3. n <= UpperCapacity[t]  OBVIOUS
<1>4. new = Compressed(t, n, keys, pointers)  OBVIOUS
<1> HIDE DEF n, new
<1>5. \A i \in 0 .. n - 1 : i + 1 \in 1 .. n /\ i \in Nat  BY <1>1
<1>6. \A i \in 1 .. n : pairs[i][1] \in Byte /\ pairs[i][2] \in Child  BY <1>1
<1>7. \A i \in 0 .. n - 1 : keys[i] \in Byte /\ pointers[i] \in Child  BY <1>2, <1>5, <1>6
<1>8. \A i, j \in 0 .. n - 1 : i < j => keys[i] < keys[j]
  <2>1. SUFFICES ASSUME NEW i \in 0 .. n - 1, NEW j \in 0 .. n - 1, i < j PROVE keys[i] < keys[j]
    OBVIOUS
  <2>2. i + 1 \in 1 .. n /\ j + 1 \in 1 .. n /\ i + 1 < j + 1  BY <2>1, <1>5
  <2>3. pairs[i + 1][1] < pairs[j + 1][1]  BY <2>2, <1>1
  <2> QED  BY <2>3, <1>2
<1>9. SoundCompressed(new)  BY <1>1, <1>3, <1>4, <1>7, <1>8, CompressedIsSound
<1>10. new.num_children = n /\ new.keys = keys /\ new.child_pointers = pointers
  BY <1>4 DEF Compressed
<1>11. Used(new) = 0 .. n - 1  BY <1>10 DEF Used
<1>12. Agrees(new, nd)
  <2>1. SUFFICES ASSUME NEW b \in Byte PROVE LookupChild(new, b) = LookupChild(nd, b)
    BY DEF Agrees
  <2>2. CASE b \in BytesOf(nd)
    <3>1. PICK i \in 1 .. n : pairs[i][1] = b  BY <2>2, <1>1
    <3>2. i - 1 \in 0 .. n - 1 /\ i - 1 + 1 = i  BY <3>1, <1>1
    <3>3. keys[i - 1] = b /\ pointers[i - 1] = pairs[i][2]  BY <3>1, <3>2, <1>2
    <3>4. LookupChild(new, b) = pointers[i - 1]  BY <3>2, <3>3, <1>9, <1>10, <1>11, CompressedLookup
    <3> QED  BY <3>1, <3>3, <3>4, <1>1
  <2>3. CASE b \notin BytesOf(nd)
    <3>1. LookupChild(nd, b) = None  BY <2>3 DEF BytesOf
    <3>2. \A i \in Used(new) : new.keys[i] # b
      <4>1. SUFFICES ASSUME NEW i \in 0 .. n - 1, keys[i] = b PROVE FALSE
        BY <1>10, <1>11
      <4>2. i + 1 \in 1 .. n /\ pairs[i + 1][1] = b  BY <4>1, <1>2, <1>5
      <4>3. pairs[i + 1][2] = None  BY <4>2, <3>1, <1>1
      <4> QED  BY <4>2, <4>3, <1>6, ChildAssumption
    <3>3. LookupChild(new, b) = None  BY <3>2, <1>9, CompressedLookup
    <3> QED  BY <3>1, <3>3
  <2> QED  BY <2>2, <2>3
<1> QED  BY <1>9, <1>12 DEF new, n

(* change_block_size *)
LEMMA ChangeBlockSizeKeeps ==
  ASSUME NEW nd, SoundCompressed(nd), NEW t \in {"Node4", "Node16"},
         nd.num_children <= UpperCapacity[t]
  PROVE  LET new == ChangeBlockSize(nd, t) IN
           /\ SoundCompressed(new) /\ new.type = t
           /\ new.num_children = nd.num_children
           /\ Agrees(new, nd) /\ Filled(new)
<1> DEFINE n == nd.num_children
           keys == Resize(t, nd.keys, n, 0)
           pointers == Resize(t, nd.child_pointers, n, Uninit)
           pairs == IterCompressed(nd)
<1>1. /\ n \in Nat /\ Used(nd) = 0 .. n - 1 /\ UpperCapacity[t] \in Nat
      /\ \A i \in 0 .. n - 1 : nd.keys[i] \in Byte /\ nd.child_pointers[i] \in Child
  BY CompressedType, CapacityFacts DEF InnerType
<1>2. \A i \in Slots(t) : i \in Nat /\ (i < n => i \in 0 .. n - 1)  BY <1>1 DEF Slots
<1>3. \A i \in 0 .. n - 1 : i \in Slots(t) /\ i < n  BY <1>1 DEF Slots
<1>4. /\ keys \in [Slots(t) -> Byte]
      /\ pointers \in [Slots(t) -> Child \cup {Uninit}]
      /\ \A i \in 0 .. n - 1 : keys[i] = nd.keys[i] /\ pointers[i] = nd.child_pointers[i]
  <2> HIDE DEF n
  <2>1. keys = [i \in Slots(t) |-> IF i < n THEN nd.keys[i] ELSE 0]  BY DEF Resize
  <2>2. pointers = [i \in Slots(t) |-> IF i < n THEN nd.child_pointers[i] ELSE Uninit]  BY DEF Resize
  <2>3. \A i \in Slots(t) : (IF i < n THEN nd.keys[i] ELSE 0) \in Byte
    BY <1>1, <1>2, ByteAssumption
  <2>4. \A i \in Slots(t) : (IF i < n THEN nd.child_pointers[i] ELSE Uninit) \in Child \cup {Uninit}
    BY <1>1, <1>2
  <2> HIDE DEF keys, pointers
  <2>5. keys \in [Slots(t) -> Byte]  BY <2>1, <2>3
  <2>6. pointers \in [Slots(t) -> Child \cup {Uninit}]  BY <2>2, <2>4
  <2> QED  BY <2>1, <2>2, <2>5, <2>6, <1>3
<1>5. Lists(pairs, nd)  BY IterCompressedLists
<1>6. \A i \in 0 .. n - 1 : pairs[i + 1][1] = nd.keys[i] /\ pairs[i + 1][2] = nd.child_pointers[i]
  <2>1. TAKE i \in 0 .. n - 1
  <2>2. i + 1 \in 1 .. n /\ i + 1 - 1 = i  BY <1>1
  <2> QED  BY <2>2 DEF IterCompressed
<1>7. ChangeBlockSize(nd, t) = Compressed(t, n, keys, pointers)  BY DEF ChangeBlockSize
<1> HIDE DEF n, keys, pointers, pairs
<1>8. \A i \in 0 .. n - 1 : keys[i] = pairs[i + 1][1] /\ pointers[i] = pairs[i + 1][2]
  BY <1>4, <1>6
<1>9. keys \in [Slots(t) -> Byte \cup {Uninit}]  BY <1>4
<1>10. SoundCompressed(Compressed(t, n, keys, pointers)) /\ Agrees(Compressed(t, n, keys, pointers), nd)
  BY <1>1, <1>4, <1>5, <1>8, <1>9, CompressedFromList DEF n
<1>11. \A i \in Slots(t) : keys[i] # Uninit  BY <1>4, ChildAssumption
<1>12. /\ Compressed(t, n, keys, pointers).type = t /\ Compressed(t, n, keys, pointers).num_children = n
       /\ Compressed(t, n, keys, pointers).keys = keys
  BY DEF Compressed
<1> QED  BY <1>7, <1>10, <1>11, <1>12 DEF Filled, n

(* An array whose first elements are replaced by those of a sequence.      *)
LEMMA LengthOfDomain ==
  ASSUME NEW n \in Nat, NEW s, s = [i \in 1 .. n |-> s[i]]
  PROVE  Len(s) = n
<1> DEFINE V == {s[i] : i \in 1 .. n}
<1>1. s \in [1 .. n -> V]  OBVIOUS
<1>2. s \in Seq(V)  BY <1>1
<1>3. DOMAIN s = 1 .. n  BY <1>1
<1> QED  BY <1>2, <1>3

LEMMA OverwriteType ==
  ASSUME NEW D, NEW V, NEW array \in [D -> V], D \subseteq Nat,
         NEW n \in Nat, NEW s \in [1 .. n -> V]
  PROVE  Overwrite(array, s) \in [D -> V]
<1>1. Len(s) = n  BY LengthOfDomain
<1>2. Overwrite(array, s) = [i \in D |-> IF i < n THEN s[i + 1] ELSE array[i]]
  BY <1>1 DEF Overwrite
<1>3. \A i \in D : i < n => i + 1 \in 1 .. n  OBVIOUS
<1>4. \A i \in D : (IF i < n THEN s[i + 1] ELSE array[i]) \in V  BY <1>3
<1> QED  BY <1>2, <1>4

(* What iteration hands out, in sequences of their own. *)
LEMMA ListParts ==
  ASSUME NEW nd, NEW pairs, Lists(pairs, nd)
  PROVE  /\ [i \in DOMAIN pairs |-> pairs[i][1]] \in [1 .. nd.num_children -> Byte]
         /\ Pointees(pairs) \in [1 .. nd.num_children -> Child]
         /\ \A i \in 1 .. nd.num_children : Pointees(pairs)[i] = pairs[i][2]
<1>1. pairs \in [1 .. nd.num_children -> Byte \X Child]  BY DEF Lists
<1>2. \A i \in 1 .. nd.num_children : pairs[i][1] \in Byte /\ pairs[i][2] \in Child  BY <1>1
<1> QED  BY <1>1, <1>2 DEF Pointees

(* deep_clone of a compressed node. *)
LEMMA CloneCompressedKeeps ==
  ASSUME NEW nd, SoundCompressed(nd)
  PROVE  LET new == CloneCompressed(nd) IN
           /\ SoundCompressed(new) /\ new.type = nd.type
           /\ new.num_children = nd.num_children
           /\ Agrees(new, nd) /\ Filled(new)
<1> DEFINE n == nd.num_children
           t == nd.type
           pairs == IterCompressed(nd)
           bytes == [i \in DOMAIN pairs |-> pairs[i][1]]
           blank == [i \in Slots(t) |-> IF t = "Node4" THEN Uninit ELSE 0]
           vacant == [i \in Slots(t) |-> Uninit]
           keys == Overwrite(blank, bytes)
           pointers == Overwrite(vacant, Pointees(pairs))
<1>1. /\ n \in Nat /\ t \in {"Node4", "Node16"} /\ n <= UpperCapacity[t]
      /\ Slots(t) = 0 .. UpperCapacity[t] - 1 /\ UpperCapacity[t] \in Nat
  BY CompressedType
<1>2. Lists(pairs, nd)  BY IterCompressedLists
<1>3. CloneCompressed(nd) = Compressed(t, n, keys, pointers)
  <2>1. (IF nd.type = "Node4" THEN FromHeader4(nd.num_children) ELSE FromHeader16(nd.num_children))
          = Compressed(t, n, blank, vacant)
    BY <1>1 DEF FromHeader4, FromHeader16
  <2>2. CloneCompressed(nd) =
          [Compressed(t, n, blank, vacant) EXCEPT
             !.keys = Overwrite(@, bytes), !.child_pointers = Overwrite(@, Pointees(pairs))]
    BY <2>1 DEF CloneCompressed
  <2>3. PICK b \in {blank}, v \in {vacant}, x \in {keys}, y \in {pointers} :
          x = Overwrite(b, bytes) /\ y = Overwrite(v, Pointees(pairs))
    OBVIOUS
  <2> HIDE DEF blank, vacant, keys, pointers, bytes, pairs, n, t
  <2>4. CloneCompressed(nd) =
          [Compressed(t, n, b, v) EXCEPT
             !.keys = Overwrite(@, bytes), !.child_pointers = Overwrite(@, Pointees(pairs))]
    BY <2>2, <2>3
  <2>5. [Compressed(t, n, b, v) EXCEPT
             !.keys = Overwrite(@, bytes), !.child_pointers = Overwrite(@, Pointees(pairs))]
          = [[Compressed(t, n, b, v) EXCEPT !.keys = x] EXCEPT !.child_pointers = y]
    BY <2>3 DEF Compressed
  <2>6. [Compressed(t, n, b, v) EXCEPT !.keys = x] = Compressed(t, n, x, v)  BY DEF Compressed
  <2>7. [Compressed(t, n, x, v) EXCEPT !.child_pointers = y] = Compressed(t, n, x, y)
    BY DEF Compressed
  <2> QED  BY <2>3, <2>4, <2>5, <2>6, <2>7
<1>4. /\ bytes \in [1 .. n -> Byte] /\ Pointees(pairs) \in [1 .. n -> Child]
      /\ \A i \in 1 .. n : bytes[i] = pairs[i][1] /\ Pointees(pairs)[i] = pairs[i][2]
  <2>1. DOMAIN pairs = 1 .. n  BY <1>2 DEF Lists
  <2> QED  BY <2>1, <1>2, ListParts
<1>5. /\ blank \in [Slots(t) -> Byte \cup {Uninit}] /\ vacant \in [Slots(t) -> Child \cup {Uninit}]
      /\ t = "Node16" => blank \in [Slots(t) -> Byte]
  BY ByteAssumption
<1>6. Slots(t) \subseteq Nat  BY <1>1
<1> HIDE DEF n, t, pairs, bytes, blank, vacant
<1>7. /\ keys \in [Slots(t) -> Byte \cup {Uninit}]
      /\ pointers \in [Slots(t) -> Child \cup {Uninit}]
      /\ t = "Node16" => keys \in [Slots(t) -> Byte]
  <2>1. PICK V \in {Byte \cup {Uninit}}, W \in {Child \cup {Uninit}}, P \in {Pointees(pairs)} :
          /\ blank \in [Slots(t) -> V] /\ vacant \in [Slots(t) -> W]
          /\ bytes \in [1 .. n -> V] /\ P \in [1 .. n -> W]
    BY <1>4, <1>5
  <2>2. keys \in [Slots(t) -> V]  BY <2>1, <1>1, <1>6, OverwriteType
  <2>3. Overwrite(vacant, P) \in [Slots(t) -> W]  BY <2>1, <1>1, <1>6, OverwriteType
  <2>4. t = "Node16" => keys \in [Slots(t) -> Byte]  BY <1>1, <1>4, <1>5, <1>6, OverwriteType
  <2> QED  BY <2>1, <2>2, <2>3, <2>4
<1>8. \A i \in 0 .. n - 1 : keys[i] = pairs[i + 1][1] /\ pointers[i] = pairs[i + 1][2]
  <2>1. TAKE i \in 0 .. n - 1
  <2>2. i \in Slots(t) /\ i < n /\ i + 1 \in 1 .. n  BY <1>1
  <2>3. DOMAIN blank = Slots(t) /\ DOMAIN vacant = Slots(t)  BY <1>5
  <2>4. PICK P \in {Pointees(pairs)} : P \in [1 .. n -> Child]  BY <1>4
  <2>5. Len(bytes) = n /\ Len(P) = n  BY <2>4, <1>1, <1>4, LengthOfDomain
  <2>6. keys[i] = bytes[i + 1]  BY <2>2, <2>3, <2>5 DEF Overwrite
  <2>7. pointers[i] = P[i + 1]  BY <2>2, <2>3, <2>4, <2>5 DEF Overwrite
  <2> QED  BY <2>2, <2>4, <2>6, <2>7, <1>4
<1> HIDE DEF keys, pointers
<1>9. SoundCompressed(Compressed(t, n, keys, pointers)) /\ Agrees(Compressed(t, n, keys, pointers), nd)
  BY <1>1, <1>2, <1>7, <1>8, CompressedFromList DEF n
<1>10. /\ Compressed(t, n, keys, pointers).type = t /\ Compressed(t, n, keys, pointers).num_children = n
       /\ Compressed(t, n, keys, pointers).keys = keys
  BY DEF Compressed
<1>11. Filled(Compressed(t, n, keys, pointers))
  <2>1. t = "Node16" => \A i \in Slots(t) : keys[i] # Uninit  BY <1>7, ChildAssumption
  <2> QED  BY <2>1, <1>10 DEF Filled
<1> QED  BY <1>3, <1>9, <1>10, <1>11 DEF n, t

(* Two calls of write_child_unchecked on an empty Node4. *)
Updated(f, i, v) == [f EXCEPT ![i] = v]

LEMMA WriteUncheckedIs ==
  ASSUME NEW t, NEW n, NEW ks, NEW ps, NEW byte, NEW child
  PROVE  WriteUnchecked(Compressed(t, n, ks, ps), byte, child) =
           Compressed(t, n + 1, Updated(ks, n, byte), Updated(ps, n, child))
<1> DEFINE C == Compressed(t, n, ks, ps)
<1>1. PICK x \in {Updated(ks, n, byte)}, y \in {Updated(ps, n, child)}, l \in {n + 1} :
        x = [ks EXCEPT ![n] = byte] /\ y = [ps EXCEPT ![n] = child]
  BY DEF Updated
<1>2. C.num_children = n  BY DEF Compressed
<1>3. WriteUnchecked(C, byte, child) = [C EXCEPT !.keys[n] = byte, !.child_pointers[n] = child, !.num_children = l]
  BY <1>1, <1>2 DEF WriteUnchecked
<1>4. [C EXCEPT !.keys[n] = byte, !.child_pointers[n] = child, !.num_children = l]
        = [[[C EXCEPT !.num_children = l] EXCEPT !.keys = x] EXCEPT !.child_pointers = y]
  BY <1>1 DEF Compressed
<1>5. [C EXCEPT !.num_children = l] = Compressed(t, l, ks, ps)  BY DEF Compressed
<1>6. [Compressed(t, l, ks, ps) EXCEPT !.keys = x] = Compressed(t, l, x, ps)  BY DEF Compressed
<1>7. [Compressed(t, l, x, ps) EXCEPT !.child_pointers = y] = Compressed(t, l, x, y)  BY DEF Compressed
<1> HIDE DEF C
<1> QED  BY <1>1, <1>3, <1>4, <1>5, <1>6, <1>7 DEF C

LEMMA TwoWrites ==
  ASSUME NEW b \in Byte, NEW c \in Byte, b < c, NEW x \in Child, NEW y \in Child
  PROVE  LET new == WriteUnchecked(WriteUnchecked(FromHeader4(0), b, x), c, y) IN
           /\ SoundCompressed(new) /\ new.type = "Node4" /\ new.num_children = 2
           /\ \A e \in Byte : LookupChild(new, e) = IF e = b THEN x ELSE IF e = c THEN y ELSE None
<1> DEFINE u == [i \in Slots("Node4") |-> Uninit]
           keys == [[u EXCEPT ![0] = b] EXCEPT ![1] = c]
           pointers == [[u EXCEPT ![0] = x] EXCEPT ![1] = y]
           new == WriteUnchecked(WriteUnchecked(FromHeader4(0), b, x), c, y)
<1>1. new = Compressed("Node4", 2, keys, pointers)
  <2>1. FromHeader4(0) = Compressed("Node4", 0, u, u)  BY DEF FromHeader4
  <2> HIDE DEF u
  <2>2. WriteUnchecked(Compressed("Node4", 0, u, u), b, x) =
          Compressed("Node4", 0 + 1, Updated(u, 0, b), Updated(u, 0, x))
    BY WriteUncheckedIs
  <2>3. WriteUnchecked(Compressed("Node4", 1, Updated(u, 0, b), Updated(u, 0, x)), c, y) =
          Compressed("Node4", 1 + 1, Updated(Updated(u, 0, b), 1, c), Updated(Updated(u, 0, x), 1, y))
    BY WriteUncheckedIs
  <2>4. 0 + 1 = 1 /\ 1 + 1 = 2  OBVIOUS
  <2>5. new = Compressed("Node4", 2, Updated(Updated(u, 0, b), 1, c), Updated(Updated(u, 0, x), 1, y))
    BY <2>1, <2>2, <2>3, <2>4
  <2>6. keys = Updated(Updated(u, 0, b), 1, c) /\ pointers = Updated(Updated(u, 0, x), 1, y)
    BY DEF Updated
  <2> QED  BY <2>5, <2>6
<1>2. UpperCapacity["Node4"] \in Nat /\ 2 <= UpperCapacity["Node4"]
  BY CapacityFacts DEF InnerType
<1>3. 0 \in Slots("Node4") /\ 1 \in Slots("Node4")  BY <1>2 DEF Slots
<1>4. /\ keys \in [Slots("Node4") -> Byte \cup {Uninit}] /\ keys[0] = b /\ keys[1] = c
      /\ pointers \in [Slots("Node4") -> Child \cup {Uninit}] /\ pointers[0] = x /\ pointers[1] = y
  BY <1>3
<1> HIDE DEF keys, pointers, new
<1>5. \A i \in 0 .. 2 - 1 : i = 0 \/ i = 1  OBVIOUS
<1>6. /\ \A i \in 0 .. 2 - 1 : keys[i] \in Byte /\ pointers[i] \in Child
      /\ \A i, j \in 0 .. 2 - 1 : i < j => keys[i] < keys[j]
  BY <1>4, <1>5
<1>7. SoundCompressed(new)
  BY <1>1, <1>2, <1>4, <1>6, CompressedIsSound
<1>8. new.type = "Node4" /\ new.num_children = 2 /\ new.keys = keys /\ new.child_pointers = pointers
  BY <1>1 DEF Compressed
<1>9. Used(new) = 0 .. 2 - 1  BY <1>8 DEF Used
<1>10. b # c
  <2>1. b \in Nat /\ c \in Nat  BY ByteAssumption
  <2> QED  BY <2>1
<1>11. ASSUME NEW e \in Byte
       PROVE  LookupChild(new, e) = IF e = b THEN x ELSE IF e = c THEN y ELSE None
  <2>1. CASE e = b \/ e = c
    <3>1. 0 \in Used(new) /\ 1 \in Used(new)  BY <1>9
    <3>2. LookupChild(new, new.keys[0]) = new.child_pointers[0] /\ LookupChild(new, new.keys[1]) = new.child_pointers[1]
      BY <3>1, <1>7, CompressedLookup
    <3> QED  BY <2>1, <3>2, <1>4, <1>8, <1>10
  <2>2. CASE e # b /\ e # c
    <3>1. \A i \in Used(new) : new.keys[i] # e  BY <2>2, <1>4, <1>5, <1>8, <1>9
    <3> QED  BY <2>2, <3>1, <1>7, CompressedLookup
  <2> QED  BY <2>1, <2>2
<1> QED  BY <1>7, <1>8, <1>11 DEF new

LEMMA NewNode4Facts ==
  ASSUME NEW b \in Byte, NEW c \in Byte, b # c, NEW x \in Child, NEW y \in Child
  PROVE  LET new == NewNode4(b, c, x, y) IN
           /\ SoundCompressed(new) /\ new.type = "Node4" /\ new.num_children = 2
           /\ \A e \in Byte : LookupChild(new, e) = IF e = b THEN x ELSE IF e = c THEN y ELSE None
<1>1. b < c \/ c < b  BY ByteAssumption
<1>2. CASE b < c  BY <1>2, TwoWrites DEF NewNode4
<1>3. CASE c < b
  <2>1. ~(b < c)  BY <1>3, ByteAssumption
  <2> DEFINE new == WriteUnchecked(WriteUnchecked(FromHeader4(0), c, y), b, x)
  <2>2. NewNode4(b, c, x, y) = new  BY <2>1 DEF NewNode4
  <2>3. /\ SoundCompressed(new) /\ new.type = "Node4" /\ new.num_children = 2
        /\ \A e \in Byte : LookupChild(new, e) = IF e = c THEN y ELSE IF e = b THEN x ELSE None
    BY <1>3, TwoWrites
  <2> HIDE DEF new
  <2> QED  BY <2>2, <2>3
<1> QED  BY <1>1, <1>2, <1>3
-----------------------------------------------------------------------------
(* Indexed nodes.                                                          *)

LEMMA IndexedType ==
  ASSUME NEW nd, SoundIndexed(nd)
  PROVE  /\ nd.type = "Node48"
         /\ nd = Indexed(nd.num_children, nd.child_indices, nd.child_pointers)
         /\ nd.num_children \in Nat /\ EMPTY \in Nat /\ nd.num_children <= EMPTY
         /\ nd.child_indices \in [Byte -> 0 .. EMPTY]
         /\ nd.child_pointers \in [0 .. EMPTY - 1 -> Child \cup {Uninit}]
         /\ Used(nd) = 0 .. nd.num_children - 1
         /\ \A i \in 0 .. nd.num_children - 1 : nd.child_pointers[i] \in Child
         /\ \A b \in Byte : nd.child_indices[b] # EMPTY =>
                              nd.child_indices[b] \in 0 .. nd.num_children - 1
         /\ \A b, c \in Byte : (nd.child_indices[b] # EMPTY /\ nd.child_indices[b] = nd.child_indices[c])
                                 => b = c
         /\ \A i \in 0 .. nd.num_children - 1 : \E b \in Byte : nd.child_indices[b] = i
         /\ ~IsCompressed(nd) /\ IsIndexed(nd) /\ ~IsDirect(nd)
<1>1. /\ nd \in IndexedNode
      /\ nd.num_children <= EMPTY
      /\ \A b, c \in OccupiedIndices(nd) : nd.child_indices[b] = nd.child_indices[c] => b = c
      /\ {nd.child_indices[b] : b \in OccupiedIndices(nd)} = 0 .. nd.num_children - 1
      /\ \A i \in 0 .. nd.num_children - 1 : nd.child_pointers[i] \in Child
  BY DEF SoundIndexed, Used
<1>2. Slots("Node48") = 0 .. EMPTY - 1  BY DEF Slots, EMPTY
<1>3. /\ nd.type = "Node48"
      /\ nd = Indexed(nd.num_children, nd.child_indices, nd.child_pointers)
      /\ nd.num_children \in Nat
      /\ nd.child_indices \in [Byte -> 0 .. EMPTY]
      /\ nd.child_pointers \in [0 .. EMPTY - 1 -> Child \cup {Uninit}]
  BY <1>1, <1>2 DEF IndexedNode, Indexed
<1>4. \A b \in Byte : nd.child_indices[b] # EMPTY => nd.child_indices[b] \in 0 .. nd.num_children - 1
  BY <1>1 DEF OccupiedIndices
<1>5. \A b, c \in Byte : (nd.child_indices[b] # EMPTY /\ nd.child_indices[b] = nd.child_indices[c]) => b = c
  BY <1>1 DEF OccupiedIndices
<1>6. \A i \in 0 .. nd.num_children - 1 : \E b \in Byte : nd.child_indices[b] = i
  BY <1>1 DEF OccupiedIndices
<1>7. ~IsCompressed(nd) /\ IsIndexed(nd) /\ ~IsDirect(nd)
  BY <1>3 DEF IsCompressed, IsIndexed, IsDirect
<1> QED  BY <1>1, <1>3, <1>4, <1>5, <1>6, <1>7, CapacityFacts DEF Used

LEMMA IndexedIsSound ==
  ASSUME NEW n \in Nat, n <= EMPTY,
         NEW indices \in [Byte -> 0 .. EMPTY],
         NEW pointers \in [0 .. EMPTY - 1 -> Child \cup {Uninit}],
         \A i \in 0 .. n - 1 : pointers[i] \in Child,
         \A b \in Byte : indices[b] # EMPTY => indices[b] \in 0 .. n - 1,
         \A b, c \in Byte : (indices[b] # EMPTY /\ indices[b] = indices[c]) => b = c,
         \A i \in 0 .. n - 1 : \E b \in Byte : indices[b] = i
  PROVE  SoundIndexed(Indexed(n, indices, pointers))
<1> DEFINE nd == Indexed(n, indices, pointers)
<1>1. /\ nd.num_children = n /\ nd.child_indices = indices /\ nd.child_pointers = pointers
      /\ nd.type = "Node48"
  BY DEF Indexed
<1>2. nd \in IndexedNode
  BY DEF Indexed, IndexedNode, Slots, EMPTY
<1> HIDE DEF nd
<1>3. OccupiedIndices(nd) = {b \in Byte : indices[b] # EMPTY}  BY <1>1 DEF OccupiedIndices
<1>4. EMPTY \in Nat  BY CapacityFacts
<1>5. \A i \in 0 .. n - 1 : i # EMPTY  BY <1>4
<1>6. {indices[b] : b \in OccupiedIndices(nd)} = 0 .. n - 1  BY <1>3, <1>5
<1>7. \A b, c \in OccupiedIndices(nd) : indices[b] = indices[c] => b = c  BY <1>3
<1>8. Used(nd) = 0 .. n - 1  BY <1>1 DEF Used
<1> QED  BY <1>1, <1>2, <1>6, <1>7, <1>8 DEF SoundIndexed, nd

LEMMA IndexedLookup ==
  ASSUME NEW nd, SoundIndexed(nd)
  PROVE  /\ \A b \in Byte : nd.child_indices[b] = EMPTY => LookupChild(nd, b) = None
         /\ \A b \in Byte : nd.child_indices[b] # EMPTY =>
              /\ LookupChild(nd, b) = nd.child_pointers[nd.child_indices[b]]
              /\ LookupChild(nd, b) \in Child
         /\ \A b \in Byte : LookupChild(nd, b) \in Child \cup {None}
         /\ \A b \in Byte : nd.child_indices[b] # EMPTY <=> LookupChild(nd, b) # None
         /\ BytesOf(nd) = OccupiedIndices(nd)
<1>1. \A b : LookupChild(nd, b) = LookupIndexed(nd, b)  BY IndexedType DEF LookupChild
<1>2. \A b \in Byte : nd.child_indices[b] = EMPTY => LookupChild(nd, b) = None
  BY <1>1 DEF LookupIndexed
<1>3. \A b \in Byte : nd.child_indices[b] # EMPTY =>
        /\ LookupChild(nd, b) = nd.child_pointers[nd.child_indices[b]]
        /\ LookupChild(nd, b) \in Child
  BY <1>1, IndexedType DEF LookupIndexed
<1>4. \A b \in Byte : nd.child_indices[b] # EMPTY <=> LookupChild(nd, b) # None
  BY <1>2, <1>3, ChildAssumption
<1>5. BytesOf(nd) = OccupiedIndices(nd)  BY <1>4 DEF BytesOf, OccupiedIndices
<1> QED  BY <1>2, <1>3, <1>4, <1>5

LEMMA BytesOfIsFinite ==
  ASSUME NEW nd
  PROVE  IsFiniteSet(BytesOf(nd)) /\ BytesOf(nd) \in SUBSET Nat
<1>1. BytesOf(nd) \in SUBSET Byte  BY DEF BytesOf
<1> QED  BY <1>1, CapacityAssumption, ByteAssumption, FS_Subset

LEMMA IntervalSize ==
  ASSUME NEW n \in Nat
  PROVE  IsFiniteSet(0 .. n - 1) /\ Cardinality(0 .. n - 1) = n
<1>1. n - 1 \in Int /\ 0 \in Int  OBVIOUS
<1>2. IsFiniteSet(0 .. n - 1) /\ Cardinality(0 .. n - 1) = IF 0 > n - 1 THEN 0 ELSE n - 1 - 0 + 1
  BY ONLY <1>1, FS_Interval
<1> QED  BY <1>2

LEMMA IndexedCount ==
  ASSUME NEW nd, SoundIndexed(nd)
  PROVE  Cardinality(BytesOf(nd)) = nd.num_children
<1> DEFINE n == nd.num_children
           S == BytesOf(nd)
           T == 0 .. n - 1
           f == [b \in S |-> nd.child_indices[b]]
<1>1. n \in Nat  BY IndexedType
<1>2. IsFiniteSet(S)  BY BytesOfIsFinite
<1>3. \A b : b \in S <=> b \in Byte /\ nd.child_indices[b] # EMPTY
  BY IndexedLookup DEF OccupiedIndices
<1>4. f \in [S -> T]  BY <1>3, IndexedType
<1>5. \A i \in T : \E b \in S : f[b] = i
  <2>1. SUFFICES ASSUME NEW i \in T PROVE \E b \in S : f[b] = i  OBVIOUS
  <2>2. PICK b \in Byte : nd.child_indices[b] = i  BY IndexedType
  <2>3. i # EMPTY  BY <2>1, IndexedType
  <2> QED  BY <2>2, <2>3, <1>3
<1>6. \A b, c \in S : f[b] = f[c] => b = c  BY <1>3, IndexedType
<1> HIDE DEF n, S, T, f
<1>7. f \in Injection(S, T) /\ f \in Surjection(S, T)
  BY <1>4, <1>5, <1>6 DEF Injection, Surjection, IsInjective
<1>8. f \in Bijection(S, T)  BY <1>7 DEF Bijection
<1>9. Cardinality(T) = Cardinality(S)
  BY <1>8, <1>2, FS_Bijection DEF ExistsBijection
<1> QED  BY <1>1, <1>9, IntervalSize DEF S, T, n

(* An indexed node that is filled from the list of a node. *)
LEMMA IndexedFromList ==
  ASSUME NEW nd, NEW pairs, Lists(pairs, nd), nd.num_children \in Nat, nd.num_children <= EMPTY,
         NEW indices \in [Byte -> 0 .. EMPTY],
         NEW pointers \in [0 .. EMPTY - 1 -> Child \cup {Uninit}],
         \A i \in 1 .. nd.num_children :
           indices[pairs[i][1]] = i - 1 /\ pointers[i - 1] = pairs[i][2],
         \A b \in Byte : b \notin BytesOf(nd) => indices[b] = EMPTY
  PROVE  LET new == Indexed(nd.num_children, indices, pointers)
         IN  SoundIndexed(new) /\ Agrees(new, nd)
<1> DEFINE n == nd.num_children
           new == Indexed(n, indices, pointers)
<1>1. /\ \A i \in 1 .. n : pairs[i][1] \in Byte /\ pairs[i][2] \in Child
      /\ \A i \in 1 .. n : pairs[i][2] = LookupChild(nd, pairs[i][1])
      /\ \A b \in BytesOf(nd) : \E i \in 1 .. n : pairs[i][1] = b
      /\ n \in Nat /\ n <= EMPTY /\ EMPTY \in Nat
  BY CapacityFacts DEF Lists
<1>2. /\ \A i \in 1 .. n : indices[pairs[i][1]] = i - 1 /\ pointers[i - 1] = pairs[i][2]
      /\ \A b \in Byte : b \notin BytesOf(nd) => indices[b] = EMPTY
  OBVIOUS
<1>3. new = Indexed(n, indices, pointers)  OBVIOUS
<1> HIDE DEF n, new
<1>4. \A i \in 0 .. n - 1 : i + 1 \in 1 .. n /\ i + 1 - 1 = i /\ i # EMPTY  BY <1>1
<1>5. \A i \in 1 .. n : i - 1 \in 0 .. n - 1 /\ i - 1 + 1 = i  BY <1>1
<1>6. \A b \in Byte : indices[b] # EMPTY =>
        \E i \in 1 .. n : pairs[i][1] = b /\ indices[b] = i - 1 /\ pointers[i - 1] = LookupChild(nd, b)
  BY <1>1, <1>2
<1>7. \A i \in 0 .. n - 1 : pointers[i] \in Child
  <2>1. TAKE i \in 0 .. n - 1
  <2>2. pointers[i] = pairs[i + 1][2]  BY <1>2, <1>4
  <2> QED  BY <2>2, <1>1, <1>4
<1>8. \A b \in Byte : indices[b] # EMPTY => indices[b] \in 0 .. n - 1  BY <1>5, <1>6
<1>9. \A b, c \in Byte : (indices[b] # EMPTY /\ indices[b] = indices[c]) => b = c
  <2>1. SUFFICES ASSUME NEW b \in Byte, NEW c \in Byte, indices[b] # EMPTY, indices[b] = indices[c]
                 PROVE  b = c
    OBVIOUS
  <2>2. PICK i \in 1 .. n : pairs[i][1] = b /\ indices[b] = i - 1  BY <2>1, <1>6
  <2>3. PICK j \in 1 .. n : pairs[j][1] = c /\ indices[c] = j - 1  BY <2>1, <1>6
  <2>4. i - 1 = j - 1  BY <2>1, <2>2, <2>3
  <2>5. i = j  BY <2>4
  <2> QED  BY <2>2, <2>3, <2>5
<1>10. \A i \in 0 .. n - 1 : \E b \in Byte : indices[b] = i
  <2>1. TAKE i \in 0 .. n - 1
  <2>2. pairs[i + 1][1] \in Byte /\ indices[pairs[i + 1][1]] = i  BY <1>1, <1>2, <1>4
  <2> QED  BY <2>2
<1>11. SoundIndexed(new)
  BY <1>1, <1>3, <1>7, <1>8, <1>9, <1>10, IndexedIsSound
<1>12. new.child_indices = indices /\ new.child_pointers = pointers
  BY <1>3 DEF Indexed
<1>13. Agrees(new, nd)
  <2>1. SUFFICES ASSUME NEW b \in Byte PROVE LookupChild(new, b) = LookupChild(nd, b)
    BY DEF Agrees
  <2>2. CASE indices[b] # EMPTY
    <3>1. LookupChild(new, b) = pointers[indices[b]]  BY <2>2, <1>11, <1>12, IndexedLookup
    <3> QED  BY <3>1, <2>2, <1>6
  <2>3. CASE indices[b] = EMPTY
    <3>1. LookupChild(new, b) = None  BY <2>3, <1>11, <1>12, IndexedLookup
    <3>2. b \notin BytesOf(nd)
      <4>1. SUFFICES ASSUME b \in BytesOf(nd) PROVE FALSE  OBVIOUS
      <4>2. PICK i \in 1 .. n : pairs[i][1] = b  BY <4>1, <1>1
      <4>3. indices[b] = i - 1 /\ i - 1 \in 0 .. n - 1  BY <4>2, <1>2, <1>5
      <4>4. i - 1 # EMPTY  BY <4>3, <1>4
      <4> QED  BY <4>3, <4>4, <2>3
    <3>3. LookupChild(nd, b) = None  BY <3>2 DEF BytesOf
    <3> QED  BY <3>1, <3>3
  <2> QED  BY <2>2, <2>3
<1> QED  BY <1>11, <1>13 DEF new, n

(* write_child of a new key byte: behind the other children. *)
LEMMA WriteIndexedNew ==
  ASSUME NEW nd, SoundIndexed(nd), NEW byte \in Byte, NEW child \in Child,
         LookupChild(nd, byte) = None, nd.num_children < EMPTY
  PROVE  LET new == WriteIndexed(nd, byte, child) IN
           /\ SoundIndexed(new)
           /\ new.num_children = nd.num_children + 1
           /\ Differs(new, nd, byte, child)
<1> DEFINE n == nd.num_children
           new == WriteIndexed(nd, byte, child)
           indices == [nd.child_indices EXCEPT ![byte] = n]
           pointers == [nd.child_pointers EXCEPT ![n] = child]
<1>1. /\ n \in Nat /\ EMPTY \in Nat /\ n < EMPTY
      /\ nd = Indexed(n, nd.child_indices, nd.child_pointers)
      /\ nd.child_indices \in [Byte -> 0 .. EMPTY]
      /\ nd.child_pointers \in [0 .. EMPTY - 1 -> Child \cup {Uninit}]
      /\ \A i \in 0 .. n - 1 : nd.child_pointers[i] \in Child
      /\ \A b \in Byte : nd.child_indices[b] # EMPTY => nd.child_indices[b] \in 0 .. n - 1
      /\ \A b, c \in Byte : (nd.child_indices[b] # EMPTY /\ nd.child_indices[b] = nd.child_indices[c])
                              => b = c
      /\ \A i \in 0 .. n - 1 : \E b \in Byte : nd.child_indices[b] = i
  BY IndexedType
<1>2. nd.child_indices[byte] = EMPTY  BY IndexedLookup
<1>3. new = Indexed(n + 1, indices, pointers)
  <2>1. PICK t \in {n}, p \in {nd.child_pointers}, q \in {nd.child_indices}, l \in {n + 1},
             x \in {indices}, y \in {pointers} :
          /\ nd = Indexed(t, q, p)
          /\ x = [q EXCEPT ![byte] = n] /\ y = [p EXCEPT ![n] = child]
    BY <1>1
  <2>2. new = [nd EXCEPT !.child_indices[byte] = n, !.num_children = l, !.child_pointers[n] = child]
    BY <1>2, <2>1 DEF WriteIndexed
  <2> HIDE DEF new, indices, pointers, n
  <2>3. [Indexed(t, q, p) EXCEPT !.child_indices[byte] = n, !.num_children = l,
                                 !.child_pointers[n] = child]
          = [[[Indexed(t, q, p) EXCEPT !.num_children = l] EXCEPT !.child_indices = x]
                EXCEPT !.child_pointers = y]
    BY <2>1 DEF Indexed
  <2>4. [Indexed(t, q, p) EXCEPT !.num_children = l] = Indexed(l, q, p)  BY DEF Indexed
  <2>5. [Indexed(l, q, p) EXCEPT !.child_indices = x] = Indexed(l, x, p)  BY DEF Indexed
  <2>6. [Indexed(l, x, p) EXCEPT !.child_pointers = y] = Indexed(l, x, y)  BY DEF Indexed
  <2>7. new = [Indexed(t, q, p) EXCEPT !.child_indices[byte] = n, !.num_children = l,
                                       !.child_pointers[n] = child]
    BY <2>1, <2>2
  <2>8. new = Indexed(l, x, y)  BY <2>3, <2>4, <2>5, <2>6, <2>7
  <2> QED  BY <2>1, <2>8
<1> HIDE DEF n, new
<1>4. n \in 0 .. EMPTY /\ n \in 0 .. EMPTY - 1 /\ n # EMPTY /\ n \notin 0 .. n - 1  BY <1>1
<1>5. /\ indices \in [Byte -> 0 .. EMPTY]
      /\ \A b \in Byte : indices[b] = IF b = byte THEN n ELSE nd.child_indices[b]
  BY <1>1, <1>4
<1>6. /\ pointers \in [0 .. EMPTY - 1 -> Child \cup {Uninit}]
      /\ \A i \in 0 .. EMPTY - 1 : pointers[i] = IF i = n THEN child ELSE nd.child_pointers[i]
  BY <1>1, <1>4
<1> HIDE DEF indices, pointers
<1>7. \A i \in 0 .. n : i \in 0 .. EMPTY - 1 /\ (i = n \/ i \in 0 .. n - 1)  BY <1>1
<1>8. \A i \in 0 .. n - 1 : i \in 0 .. n /\ i \in 0 .. EMPTY - 1 /\ i # n /\ i # EMPTY  BY <1>1
<1>9. SoundIndexed(new)
  <2>1. PICK l \in {n + 1} : l \in Nat /\ l <= EMPTY /\ 0 .. l - 1 = 0 .. n  BY <1>1
  <2>2. \A i \in 0 .. l - 1 : pointers[i] \in Child  BY <2>1, <1>1, <1>6, <1>7
  <2>3. n \in 0 .. n  BY <1>1
  <2>4. \A b \in Byte : indices[b] # EMPTY => indices[b] \in 0 .. l - 1
    BY <2>1, <2>3, <1>1, <1>5, <1>8
  <2>5. \A b, c \in Byte : (indices[b] # EMPTY /\ indices[b] = indices[c]) => b = c
    <3>1. SUFFICES ASSUME NEW b \in Byte, NEW c \in Byte, indices[b] # EMPTY, indices[b] = indices[c]
                   PROVE  b = c
      OBVIOUS
    <3>2. CASE b = byte
      <4>1. CASE c # byte
        <5>1. nd.child_indices[c] = n  BY <3>1, <3>2, <4>1, <1>5
        <5> QED  BY <5>1, <1>1, <1>4
      <4> QED  BY <3>2, <4>1
    <3>3. CASE c = byte
      <4>1. CASE b # byte
        <5>1. nd.child_indices[b] = n  BY <3>1, <3>3, <4>1, <1>5
        <5> QED  BY <5>1, <1>1, <1>4
      <4> QED  BY <3>3, <4>1
    <3>4. CASE b # byte /\ c # byte  BY <3>1, <3>4, <1>1, <1>5
    <3> QED  BY <3>2, <3>3, <3>4
  <2>6. \A i \in 0 .. l - 1 : \E b \in Byte : indices[b] = i
    <3>1. SUFFICES ASSUME NEW i \in 0 .. n PROVE \E b \in Byte : indices[b] = i  BY <2>1
    <3>2. CASE i = n  BY <3>2, <1>5
    <3>3. CASE i \in 0 .. n - 1
      <4>1. PICK b \in Byte : nd.child_indices[b] = i  BY <3>3, <1>1
      <4>2. b # byte  BY <4>1, <3>3, <1>2, <1>8
      <4> QED  BY <4>1, <4>2, <1>5
    <3> QED  BY <3>2, <3>3, <1>7
  <2>7. SoundIndexed(Indexed(l, indices, pointers))
    BY <2>1, <2>2, <2>4, <2>5, <2>6, <1>5, <1>6, IndexedIsSound
  <2> QED  BY <2>1, <2>7, <1>3
<1>10. new.num_children = n + 1 /\ new.child_indices = indices /\ new.child_pointers = pointers
  BY <1>3 DEF Indexed
<1>11. Differs(new, nd, byte, child)
  <2>1. SUFFICES ASSUME NEW b \in Byte
                 PROVE  LookupChild(new, b) = IF b = byte THEN child ELSE LookupChild(nd, b)
    BY DEF Differs
  <2>2. CASE b = byte
    <3>1. indices[b] = n /\ pointers[n] = child  BY <2>2, <1>4, <1>5, <1>6
    <3>2. LookupChild(new, b) = pointers[n]  BY <3>1, <1>4, <1>9, <1>10, IndexedLookup
    <3> QED  BY <3>1, <3>2, <2>2
  <2>3. CASE b # byte /\ nd.child_indices[b] = EMPTY
    <3>1. indices[b] = EMPTY  BY <2>3, <1>5
    <3>2. LookupChild(new, b) = None  BY <3>1, <1>9, <1>10, IndexedLookup
    <3>3. LookupChild(nd, b) = None  BY <2>3, IndexedLookup
    <3> QED  BY <3>2, <3>3, <2>3
  <2>4. CASE b # byte /\ nd.child_indices[b] # EMPTY
    <3>1. PICK i \in 0 .. n - 1 : nd.child_indices[b] = i  BY <2>4, <1>1
    <3>2. indices[b] = i /\ pointers[i] = nd.child_pointers[i] /\ i # EMPTY
      BY <3>1, <2>4, <1>5, <1>6, <1>8
    <3>3. LookupChild(new, b) = pointers[i]  BY <3>2, <1>9, <1>10, IndexedLookup
    <3>4. LookupChild(nd, b) = nd.child_pointers[i]  BY <3>1, <2>4, IndexedLookup
    <3> QED  BY <3>2, <3>3, <3>4, <2>4
  <2> QED  BY <2>2, <2>3, <2>4
<1> QED  BY <1>9, <1>10, <1>11 DEF n, new

(* write_child of a key byte that has a child. *)
LEMMA WriteIndexedExisting ==
  ASSUME NEW nd, SoundIndexed(nd), NEW byte \in Byte, NEW child \in Child,
         LookupChild(nd, byte) # None
  PROVE  LET new == WriteIndexed(nd, byte, child) IN
           /\ SoundIndexed(new)
           /\ new.num_children = nd.num_children
           /\ Differs(new, nd, byte, child)
<1> DEFINE n == nd.num_children
           new == WriteIndexed(nd, byte, child)
<1>1. /\ n \in Nat /\ EMPTY \in Nat /\ n <= EMPTY
      /\ nd = Indexed(n, nd.child_indices, nd.child_pointers)
      /\ nd.child_indices \in [Byte -> 0 .. EMPTY]
      /\ nd.child_pointers \in [0 .. EMPTY - 1 -> Child \cup {Uninit}]
      /\ \A i \in 0 .. n - 1 : nd.child_pointers[i] \in Child
      /\ \A b \in Byte : nd.child_indices[b] # EMPTY => nd.child_indices[b] \in 0 .. n - 1
      /\ \A b, c \in Byte : (nd.child_indices[b] # EMPTY /\ nd.child_indices[b] = nd.child_indices[c])
                              => b = c
      /\ \A i \in 0 .. n - 1 : \E b \in Byte : nd.child_indices[b] = i
  BY IndexedType
<1>2. nd.child_indices[byte] # EMPTY  BY IndexedLookup
<1>3. PICK k \in 0 .. n - 1 : nd.child_indices[byte] = k  BY <1>1, <1>2
<1> DEFINE pointers == [nd.child_pointers EXCEPT ![k] = child]
<1>4. new = Indexed(n, nd.child_indices, pointers)
  <2>1. PICK t \in {n}, p \in {nd.child_pointers}, q \in {nd.child_indices}, y \in {pointers} :
          nd = Indexed(t, q, p) /\ y = [p EXCEPT ![k] = child]
    BY <1>1
  <2>2. new = [nd EXCEPT !.child_pointers[k] = child]
    BY <1>2, <1>3 DEF WriteIndexed
  <2> HIDE DEF new, pointers, n
  <2>3. [Indexed(t, q, p) EXCEPT !.child_pointers[k] = child]
          = [Indexed(t, q, p) EXCEPT !.child_pointers = y]
    BY <2>1 DEF Indexed
  <2>4. [Indexed(t, q, p) EXCEPT !.child_pointers = y] = Indexed(t, q, y)  BY DEF Indexed
  <2> QED  BY <2>1, <2>2, <2>3, <2>4
<1> HIDE DEF n, new
<1>5. \A i \in 0 .. n - 1 : i \in 0 .. EMPTY - 1  BY <1>1
<1>6. /\ pointers \in [0 .. EMPTY - 1 -> Child \cup {Uninit}]
      /\ \A i \in 0 .. EMPTY - 1 : pointers[i] = IF i = k THEN child ELSE nd.child_pointers[i]
  BY <1>1
<1> HIDE DEF pointers
<1>7. \A i \in 0 .. n - 1 : pointers[i] \in Child  BY <1>1, <1>5, <1>6
<1>8. SoundIndexed(new)
  BY <1>1, <1>4, <1>6, <1>7, IndexedIsSound
<1>9. new.num_children = n /\ new.child_indices = nd.child_indices /\ new.child_pointers = pointers
  BY <1>4 DEF Indexed
<1>10. Differs(new, nd, byte, child)
  <2>1. SUFFICES ASSUME NEW b \in Byte
                 PROVE  LookupChild(new, b) = IF b = byte THEN child ELSE LookupChild(nd, b)
    BY DEF Differs
  <2>2. CASE nd.child_indices[b] = EMPTY
    <3>1. LookupChild(new, b) = None  BY <2>2, <1>8, <1>9, IndexedLookup
    <3>2. LookupChild(nd, b) = None  BY <2>2, IndexedLookup
    <3> QED  BY <3>1, <3>2, <2>2, <1>2
  <2>3. CASE nd.child_indices[b] # EMPTY
    <3>1. PICK i \in 0 .. n - 1 : nd.child_indices[b] = i  BY <2>3, <1>1
    <3>2. LookupChild(new, b) = pointers[i]  BY <3>1, <2>3, <1>8, <1>9, IndexedLookup
    <3>3. LookupChild(nd, b) = nd.child_pointers[i]  BY <3>1, <2>3, IndexedLookup
    <3>4. i = k <=> b = byte  BY <3>1, <2>3, <1>1, <1>3
    <3> QED  BY <3>2, <3>3, <3>4, <1>5, <1>6
  <2> QED  BY <2>2, <2>3
<1> QED  BY <1>8, <1>9, <1>10 DEF n, new

(* remove_child: the children behind the removed one move down, and the    *)
(* indices that lead to them follow.                                       *)
LEMMA RemoveIndexedKeeps ==
  ASSUME NEW nd, SoundIndexed(nd), NEW byte \in Byte, LookupChild(nd, byte) # None
  PROVE  LET new == RemoveIndexed(nd, byte) IN
           /\ SoundIndexed(new)
           /\ new.num_children = nd.num_children - 1
           /\ Differs(new, nd, byte, None)
<1> DEFINE n == nd.num_children
           new == RemoveIndexed(nd, byte)
<1>1. /\ n \in Nat /\ EMPTY \in Nat /\ n <= EMPTY
      /\ nd = Indexed(n, nd.child_indices, nd.child_pointers)
      /\ nd.child_indices \in [Byte -> 0 .. EMPTY]
      /\ nd.child_pointers \in [0 .. EMPTY - 1 -> Child \cup {Uninit}]
      /\ \A i \in 0 .. n - 1 : nd.child_pointers[i] \in Child
      /\ \A b \in Byte : nd.child_indices[b] # EMPTY => nd.child_indices[b] \in 0 .. n - 1
      /\ \A b, c \in Byte : (nd.child_indices[b] # EMPTY /\ nd.child_indices[b] = nd.child_indices[c])
                              => b = c
      /\ \A i \in 0 .. n - 1 : \E b \in Byte : nd.child_indices[b] = i
  BY IndexedType
<1>2. nd.child_indices[byte] # EMPTY  BY IndexedLookup
<1>3. PICK k \in 0 .. n - 1 : nd.child_indices[byte] = k  BY <1>1, <1>2
<1> DEFINE unset == [nd.child_pointers EXCEPT ![k] = Uninit]
           pointers == CopyWithin(unset, k + 1, n, k)
           indices == [b \in Byte |-> IF b = byte THEN EMPTY
                                      ELSE MovedIndex(nd.child_indices[b], k)]
<1>4. new = Indexed(n - 1, indices, pointers)
  <2>1. PICK t \in {n}, p \in {nd.child_pointers}, q \in {nd.child_indices}, l \in {n - 1},
             x \in {indices}, y \in {pointers} : nd = Indexed(t, q, p)
    BY <1>1
  <2>2. new = [nd EXCEPT !.child_pointers = y, !.child_indices = x, !.num_children = l]
    BY <1>3, <2>1 DEF RemoveIndexed
  <2> HIDE DEF new, pointers, indices, unset, n
  <2>3. [Indexed(t, q, p) EXCEPT !.child_pointers = y, !.child_indices = x, !.num_children = l]
          = [[[Indexed(t, q, p) EXCEPT !.num_children = l] EXCEPT !.child_indices = x]
                EXCEPT !.child_pointers = y]
    BY DEF Indexed
  <2>4. [Indexed(t, q, p) EXCEPT !.num_children = l] = Indexed(l, q, p)  BY DEF Indexed
  <2>5. [Indexed(l, q, p) EXCEPT !.child_indices = x] = Indexed(l, x, p)  BY DEF Indexed
  <2>6. [Indexed(l, x, p) EXCEPT !.child_pointers = y] = Indexed(l, x, y)  BY DEF Indexed
  <2> QED  BY <2>1, <2>2, <2>3, <2>4, <2>5, <2>6
<1> HIDE DEF n, new
<1>5. /\ unset \in [0 .. EMPTY - 1 -> Child \cup {Uninit}]
      /\ \A i \in 0 .. EMPTY - 1 : unset[i] = IF i = k THEN Uninit ELSE nd.child_pointers[i]
  BY <1>1
<1> HIDE DEF unset
<1>6. k \in Nat /\ k < n /\ n <= EMPTY /\ n - 1 \in Nat /\ k # EMPTY  BY <1>1, <1>3
<1>7. pointers \in [0 .. EMPTY - 1 -> Child \cup {Uninit}]
  <2>1. PICK V \in {Child \cup {Uninit}} : unset \in [0 .. EMPTY - 1 -> V]  BY <1>5
  <2> QED  BY <2>1, <1>1, <1>6, ShiftDownType
<1>8. \A i \in 0 .. EMPTY - 1 : pointers[i] = IF k <= i /\ i < n - 1 THEN unset[i + 1] ELSE unset[i]
  <2>1. DOMAIN unset = 0 .. EMPTY - 1 /\ EMPTY \in Nat /\ k \in Nat /\ n \in Nat /\ k < n /\ n <= EMPTY
    BY <1>1, <1>5, <1>6
  <2> QED  BY ONLY <2>1, ShiftDown DEF pointers
<1> HIDE DEF pointers
<1> DEFINE Moved(i) == IF k < i THEN i - 1 ELSE i
<1>9. \A i \in 0 .. n - 1 : i # k => Moved(i) \in 0 .. n - 2 /\ Moved(i) # EMPTY
  BY <1>1, <1>6
<1>10. \A i, j \in 0 .. n - 1 : i # k /\ j # k /\ Moved(i) = Moved(j) => i = j
  BY <1>1, <1>6
<1>11. \A i \in 0 .. n - 2 : \E j \in 0 .. n - 1 : j # k /\ Moved(j) = i
  <2>1. TAKE i \in 0 .. n - 2
  <2>2. CASE i < k
    <3>1. i \in 0 .. n - 1 /\ i # k /\ Moved(i) = i  BY <2>2, <1>1, <1>6
    <3> QED  BY <3>1
  <2>3. CASE ~(i < k)
    <3>1. i + 1 \in 0 .. n - 1 /\ i + 1 # k /\ Moved(i + 1) = i  BY <2>3, <1>1, <1>6
    <3> QED  BY <3>1
  <2> QED  BY <2>2, <2>3
<1>12. \A j \in 0 .. n - 1 : j # k => pointers[Moved(j)] = nd.child_pointers[j]
  <2>1. SUFFICES ASSUME NEW j \in 0 .. n - 1, j # k PROVE pointers[Moved(j)] = nd.child_pointers[j]
    OBVIOUS
  <2>2. j \in 0 .. EMPTY - 1 /\ unset[j] = nd.child_pointers[j]  BY <2>1, <1>1, <1>5
  <2>3. CASE k < j
    <3>1. Moved(j) = j - 1 /\ j - 1 \in 0 .. EMPTY - 1 /\ k <= j - 1 /\ j - 1 < n - 1 /\ j - 1 + 1 = j
      BY <2>3, <1>1, <1>6
    <3> QED  BY <3>1, <2>2, <1>8
  <2>4. CASE ~(k < j)
    <3>1. Moved(j) = j /\ ~(k <= j)  BY <2>1, <2>4, <1>6
    <3> QED  BY <3>1, <2>2, <1>8
  <2> QED  BY <2>3, <2>4
<1>13. \A b \in Byte :
         /\ b = byte \/ nd.child_indices[b] = EMPTY => indices[b] = EMPTY
         /\ b # byte /\ nd.child_indices[b] # EMPTY =>
              /\ nd.child_indices[b] \in 0 .. n - 1 /\ nd.child_indices[b] # k
              /\ indices[b] = Moved(nd.child_indices[b])
  <2>1. TAKE b \in Byte
  <2>2. CASE b = byte  BY <2>2
  <2>3. CASE b # byte /\ nd.child_indices[b] = EMPTY  BY <2>3 DEF MovedIndex
  <2>4. CASE b # byte /\ nd.child_indices[b] # EMPTY
    <3>1. nd.child_indices[b] \in 0 .. n - 1 /\ nd.child_indices[b] # k
      BY <2>4, <1>1, <1>3
    <3>2. indices[b] = MovedIndex(nd.child_indices[b], k)  BY <2>4
    <3>3. MovedIndex(nd.child_indices[b], k) = Moved(nd.child_indices[b])  BY <2>4 DEF MovedIndex
    <3> QED  BY <2>4, <3>1, <3>2, <3>3
  <2> QED  BY <2>2, <2>3, <2>4
<1>14. \A b \in Byte : indices[b] # EMPTY =>
         /\ b # byte /\ nd.child_indices[b] # EMPTY
         /\ nd.child_indices[b] \in 0 .. n - 1 /\ nd.child_indices[b] # k
         /\ indices[b] = Moved(nd.child_indices[b]) /\ indices[b] \in 0 .. n - 2
  BY <1>9, <1>13
<1>15. indices \in [Byte -> 0 .. EMPTY]
  <2>1. EMPTY \in 0 .. EMPTY /\ \A i \in 0 .. n - 2 : i \in 0 .. EMPTY  BY <1>1
  <2>2. \A b \in Byte : indices[b] \in 0 .. EMPTY  BY <2>1, <1>14
  <2>3. indices = [b \in Byte |-> indices[b]]  OBVIOUS
  <2> HIDE DEF indices
  <2> QED  BY <2>2, <2>3
<1> HIDE DEF indices, Moved
<1>16. SoundIndexed(new)
  <2>1. PICK l \in {n - 1} : l \in Nat /\ l <= EMPTY /\ 0 .. l - 1 = 0 .. n - 2  BY <1>1, <1>6
  <2>2. \A i \in 0 .. l - 1 : pointers[i] \in Child
    <3>1. SUFFICES ASSUME NEW i \in 0 .. n - 2 PROVE pointers[i] \in Child  BY <2>1
    <3>2. PICK j \in 0 .. n - 1 : j # k /\ Moved(j) = i  BY <1>11
    <3> QED  BY <3>2, <1>12, <1>1
  <2>3. \A b \in Byte : indices[b] # EMPTY => indices[b] \in 0 .. l - 1  BY <2>1, <1>14
  <2>4. \A b, c \in Byte : (indices[b] # EMPTY /\ indices[b] = indices[c]) => b = c
    <3>1. SUFFICES ASSUME NEW b \in Byte, NEW c \in Byte, indices[b] # EMPTY, indices[b] = indices[c]
                   PROVE  b = c
      OBVIOUS
    <3>2. Moved(nd.child_indices[b]) = Moved(nd.child_indices[c])  BY <3>1, <1>14
    <3>3. /\ nd.child_indices[b] \in 0 .. n - 1 /\ nd.child_indices[b] # k
          /\ nd.child_indices[c] \in 0 .. n - 1 /\ nd.child_indices[c] # k
          /\ nd.child_indices[b] # EMPTY
      BY <3>1, <1>14
    <3>4. nd.child_indices[b] = nd.child_indices[c]  BY <3>2, <3>3, <1>10
    <3> QED  BY <3>3, <3>4, <1>1
  <2>5. \A i \in 0 .. l - 1 : \E b \in Byte : indices[b] = i
    <3>1. SUFFICES ASSUME NEW i \in 0 .. n - 2 PROVE \E b \in Byte : indices[b] = i  BY <2>1
    <3>2. PICK j \in 0 .. n - 1 : j # k /\ Moved(j) = i  BY <1>11
    <3>3. PICK b \in Byte : nd.child_indices[b] = j  BY <1>1
    <3>4. b # byte /\ j # EMPTY  BY <3>2, <3>3, <1>1, <1>3
    <3> QED  BY <3>2, <3>3, <3>4, <1>13
  <2>6. SoundIndexed(Indexed(l, indices, pointers))
    BY <2>1, <2>2, <2>3, <2>4, <2>5, <1>7, <1>15, IndexedIsSound
  <2> QED  BY <2>1, <2>6, <1>4
<1>17. new.num_children = n - 1 /\ new.child_indices = indices /\ new.child_pointers = pointers
  BY <1>4 DEF Indexed
<1>18. Differs(new, nd, byte, None)
  <2>1. SUFFICES ASSUME NEW b \in Byte
                 PROVE  LookupChild(new, b) = IF b = byte THEN None ELSE LookupChild(nd, b)
    BY DEF Differs
  <2>2. CASE b = byte \/ nd.child_indices[b] = EMPTY
    <3>1. indices[b] = EMPTY  BY <2>2, <1>13
    <3>2. LookupChild(new, b) = None  BY <3>1, <1>16, <1>17, IndexedLookup
    <3>3. nd.child_indices[b] = EMPTY => LookupChild(nd, b) = None  BY IndexedLookup
    <3> QED  BY <3>2, <3>3, <2>2
  <2>3. CASE b # byte /\ nd.child_indices[b] # EMPTY
    <3>1. PICK j \in 0 .. n - 1 : nd.child_indices[b] = j /\ j # k /\ indices[b] = Moved(j)
      BY <2>3, <1>13
    <3>2. Moved(j) # EMPTY  BY <3>1, <1>9 DEF Moved
    <3>3. LookupChild(new, b) = pointers[Moved(j)]
      BY <3>1, <3>2, <1>16, <1>17, IndexedLookup
    <3>4. LookupChild(nd, b) = nd.child_pointers[j]  BY <3>1, <2>3, IndexedLookup
    <3> QED  BY <3>1, <3>3, <3>4, <2>3, <1>12
  <2> QED  BY <2>2, <2>3
<1> QED  BY <1>16, <1>17, <1>18 DEF n, new

(* grow of a Node16: the keys become indices. *)
LEMMA GrowNode48Keeps ==
  ASSUME NEW nd, SoundCompressed(nd)
  PROVE  LET new == GrowNode48(nd) IN
           SoundIndexed(new) /\ new.num_children = nd.num_children /\ Agrees(new, nd)
<1> DEFINE n == nd.num_children
           indices == [b \in Byte |-> IF KeyIndices(nd, b) = {} THEN EMPTY ELSE Min(KeyIndices(nd, b))]
           pointers == Resize("Node48", nd.child_pointers, n, Uninit)
           pairs == IterCompressed(nd)
<1>1. /\ n \in Nat /\ EMPTY \in Nat /\ n <= EMPTY /\ Used(nd) = 0 .. n - 1
      /\ \A i \in 0 .. n - 1 : nd.keys[i] \in Byte /\ nd.child_pointers[i] \in Child
  <2>1. n \in Nat /\ nd.type \in {"Node4", "Node16"} /\ n <= UpperCapacity[nd.type] /\ Used(nd) = 0 .. n - 1
    BY CompressedType
  <2>2. /\ UpperCapacity["Node4"] \in Nat /\ UpperCapacity["Node16"] \in Nat /\ EMPTY \in Nat
        /\ UpperCapacity["Node4"] < UpperCapacity["Node16"] /\ UpperCapacity["Node16"] < EMPTY
    BY CapacityFacts DEF InnerType
  <2>3. \A i \in Used(nd) : nd.keys[i] \in Byte /\ nd.child_pointers[i] \in Child  BY CompressedType
  <2> HIDE DEF n
  <2> QED  BY <2>1, <2>2, <2>3
<1>2. Lists(pairs, nd)  BY IterCompressedLists
<1>3. /\ \A i \in 0 .. n - 1 : KeyIndices(nd, nd.keys[i]) = {i} /\ Min(KeyIndices(nd, nd.keys[i])) = i
      /\ BytesOf(nd) = {nd.keys[i] : i \in 0 .. n - 1}
  <2>1. \A i \in Used(nd) : KeyIndices(nd, nd.keys[i]) = {i} /\ Min(KeyIndices(nd, nd.keys[i])) = i
    BY CompressedLookup
  <2>2. BytesOf(nd) = {nd.keys[i] : i \in Used(nd)}  BY CompressedLookup
  <2>3. \A b : b \in BytesOf(nd) <=> \E i \in 0 .. n - 1 : b = nd.keys[i]  BY <2>2, <1>1
  <2>4. BytesOf(nd) = {nd.keys[i] : i \in 0 .. n - 1}  BY <2>3
  <2>5. \A i \in 0 .. n - 1 : KeyIndices(nd, nd.keys[i]) = {i} /\ Min(KeyIndices(nd, nd.keys[i])) = i
    BY <2>1, <1>1
  <2> QED  BY <2>4, <2>5
<1>4. \A b \in Byte : b \notin BytesOf(nd) => KeyIndices(nd, b) = {}
  <2>1. SUFFICES ASSUME NEW b \in Byte, b \notin BytesOf(nd) PROVE KeyIndices(nd, b) = {}
    OBVIOUS
  <2>2. \A i \in Used(nd) : nd.keys[i] # b  BY <2>1, <1>1, <1>3
  <2> QED  BY <2>2 DEF KeyIndices
<1>5. \A i \in 0 .. n - 1 : indices[nd.keys[i]] = i
  BY <1>1, <1>3
<1>6. \A b \in Byte : b \notin BytesOf(nd) => indices[b] = EMPTY  BY <1>4
<1>7. indices = [b \in Byte |-> indices[b]]  OBVIOUS
<1>8. pointers = [i \in 0 .. EMPTY - 1 |-> IF i < n THEN nd.child_pointers[i] ELSE Uninit]
  BY DEF Resize, Slots, EMPTY
<1>9. \A i \in 1 .. n : pairs[i][1] = nd.keys[i - 1] /\ pairs[i][2] = nd.child_pointers[i - 1]
  BY DEF IterCompressed
<1>10. GrowNode48(nd) = Indexed(n, indices, pointers)  BY DEF GrowNode48
<1> HIDE DEF n, indices, pointers, pairs
<1>11. indices \in [Byte -> 0 .. EMPTY]
  <2>1. \A i \in 0 .. n - 1 : i \in 0 .. EMPTY  BY <1>1
  <2>2. EMPTY \in 0 .. EMPTY  BY <1>1
  <2>3. \A b \in Byte : indices[b] \in 0 .. EMPTY  BY <2>1, <2>2, <1>3, <1>5, <1>6
  <2> QED  BY <2>3, <1>7
<1>12. pointers \in [0 .. EMPTY - 1 -> Child \cup {Uninit}]
  <2>1. \A i \in 0 .. EMPTY - 1 : i < n => i \in 0 .. n - 1  BY <1>1
  <2> QED  BY <2>1, <1>1, <1>8
<1>13. \A i \in 1 .. n : indices[pairs[i][1]] = i - 1 /\ pointers[i - 1] = pairs[i][2]
  <2>1. TAKE i \in 1 .. n
  <2>2. i - 1 \in 0 .. n - 1 /\ i - 1 \in 0 .. EMPTY - 1 /\ i - 1 < n  BY <1>1
  <2> QED  BY <2>2, <1>5, <1>8, <1>9
<1>14. SoundIndexed(Indexed(n, indices, pointers)) /\ Agrees(Indexed(n, indices, pointers), nd)
  BY <1>1, <1>2, <1>6, <1>11, <1>12, <1>13, IndexedFromList DEF n
<1>15. Indexed(n, indices, pointers).num_children = n  BY DEF Indexed
<1> QED  BY <1>10, <1>14, <1>15 DEF n
-----------------------------------------------------------------------------
(* Direct nodes.                                                           *)

LEMMA DirectType ==
  ASSUME NEW nd, SoundDirect(nd)
  PROVE  /\ nd.type = "Node256"
         /\ nd = Direct(nd.num_children, nd.child_pointers)
         /\ nd.num_children \in Nat
         /\ nd.num_children = Cardinality(OccupiedPointers(nd))
         /\ nd.child_pointers \in [Byte -> Child \cup {None}]
         /\ ~IsCompressed(nd) /\ ~IsIndexed(nd) /\ IsDirect(nd)
<1>1. nd \in DirectNode /\ nd.num_children = Cardinality(OccupiedPointers(nd))
  BY DEF SoundDirect
<1> QED  BY <1>1 DEF DirectNode, Direct, IsCompressed, IsIndexed, IsDirect

LEMMA DirectLookup ==
  ASSUME NEW nd, SoundDirect(nd)
  PROVE  /\ \A b \in Byte : LookupChild(nd, b) = nd.child_pointers[b]
         /\ \A b \in Byte : LookupChild(nd, b) \in Child \cup {None}
         /\ BytesOf(nd) = OccupiedPointers(nd)
         /\ Cardinality(BytesOf(nd)) = nd.num_children
<1>1. \A b : LookupChild(nd, b) = nd.child_pointers[b]
  BY DirectType DEF LookupChild, LookupDirect
<1>2. \A b \in Byte : nd.child_pointers[b] \in Child \cup {None}  BY DirectType
<1>3. BytesOf(nd) = OccupiedPointers(nd)  BY <1>1 DEF BytesOf, OccupiedPointers
<1> QED  BY <1>1, <1>2, <1>3, DirectType

LEMMA DirectIsSound ==
  ASSUME NEW pointers \in [Byte -> Child \cup {None}],
         NEW n, n = Cardinality({b \in Byte : pointers[b] # None})
  PROVE  /\ SoundDirect(Direct(n, pointers))
         /\ Direct(n, pointers).num_children = n
         /\ \A b \in Byte : LookupChild(Direct(n, pointers), b) = pointers[b]
<1> DEFINE nd == Direct(n, pointers)
           S == {b \in Byte : pointers[b] # None}
<1>1. n \in Nat
  <2>1. S \in SUBSET Byte  OBVIOUS
  <2> HIDE DEF S
  <2>2. IsFiniteSet(S)  BY <2>1, CapacityAssumption, FS_Subset
  <2> QED  BY <2>2, FS_CardinalityType DEF S
<1>2. nd \in DirectNode  BY <1>1 DEF Direct, DirectNode
<1>3. nd.num_children = n /\ nd.child_pointers = pointers  BY DEF Direct
<1> HIDE DEF nd
<1>4. SoundDirect(nd)  BY <1>2, <1>3 DEF SoundDirect, OccupiedPointers
<1> QED  BY <1>3, <1>4, DirectLookup DEF nd

(* A direct node that is filled with the children of a node. *)
LEMMA DirectFrom ==
  ASSUME NEW nd, nd.num_children = Cardinality(BytesOf(nd)),
         \A b \in Byte : LookupChild(nd, b) \in Child \cup {None},
         NEW pointers, pointers = [b \in Byte |-> LookupChild(nd, b)]
  PROVE  LET new == Direct(nd.num_children, pointers) IN
           SoundDirect(new) /\ new.num_children = nd.num_children /\ Agrees(new, nd)
<1>1. pointers \in [Byte -> Child \cup {None}] /\ \A b \in Byte : pointers[b] = LookupChild(nd, b)
  OBVIOUS
<1>2. BytesOf(nd) = {b \in Byte : pointers[b] # None}  BY <1>1 DEF BytesOf
<1>3. nd.num_children = Cardinality({b \in Byte : pointers[b] # None})  BY <1>2
<1> QED  BY <1>1, <1>3, DirectIsSound DEF Agrees

(* grow of a Node48 *)
LEMMA Grow48Keeps ==
  ASSUME NEW nd, SoundIndexed(nd)
  PROVE  LET new == Grow48(nd) IN
           SoundDirect(new) /\ new.num_children = nd.num_children /\ Agrees(new, nd)
<1>1. Grow48(nd) = Direct(nd.num_children, [b \in Byte |-> LookupChild(nd, b)])  BY DEF Grow48
<1> QED  BY <1>1, DirectFrom, IndexedLookup, IndexedCount

(* deep_clone of a direct node. *)
LEMMA CloneDirectKeeps ==
  ASSUME NEW nd, SoundDirect(nd)
  PROVE  LET new == CloneDirect(nd) IN
           SoundDirect(new) /\ new.num_children = nd.num_children /\ Agrees(new, nd)
<1> DEFINE n == nd.num_children
           blank == [b \in Byte |-> None]
           pointers == [b \in Byte |-> IF b \in OccupiedPointers(nd) THEN nd.child_pointers[b]
                                       ELSE blank[b]]
<1>1. CloneDirect(nd) = Direct(n, pointers)
  <2>1. FromHeader256(n) = Direct(n, blank)  BY DEF FromHeader256
  <2>2. CloneDirect(nd) = [Direct(n, blank) EXCEPT
                             !.child_pointers = [b \in Byte |-> IF b \in OccupiedPointers(nd)
                                                                THEN nd.child_pointers[b] ELSE @[b]]]
    BY <2>1 DEF CloneDirect
  <2>3. Direct(n, blank).child_pointers = blank  BY DEF Direct
  <2>4. PICK y \in {pointers} : TRUE  OBVIOUS
  <2> HIDE DEF n, blank
  <2>5. CloneDirect(nd) = [Direct(n, blank) EXCEPT !.child_pointers = y]
    BY <2>2, <2>3, <2>4
  <2>6. [Direct(n, blank) EXCEPT !.child_pointers = y] = Direct(n, y)  BY DEF Direct
  <2> QED  BY <2>4, <2>5, <2>6
<1>2. pointers = [b \in Byte |-> LookupChild(nd, b)]
  <2>1. \A b \in Byte : pointers[b] = LookupChild(nd, b)
    BY DirectLookup DEF OccupiedPointers
  <2> QED  BY <2>1
<1> HIDE DEF pointers
<1> QED  BY <1>1, <1>2, DirectFrom, DirectLookup

(* write_child, for a new key byte and for one that has a child. *)
LEMMA WriteDirectKeeps ==
  ASSUME NEW nd, SoundDirect(nd), NEW byte \in Byte, NEW child \in Child
  PROVE  LET new == WriteDirect(nd, byte, child) IN
           /\ SoundDirect(new)
           /\ new.num_children = IF LookupChild(nd, byte) = None THEN nd.num_children + 1
                                 ELSE nd.num_children
           /\ Differs(new, nd, byte, child)
<1> DEFINE l == IF nd.child_pointers[byte] = None THEN nd.num_children + 1 ELSE nd.num_children
           pointers == [nd.child_pointers EXCEPT ![byte] = child]
           S == OccupiedPointers(nd)
<1>1. /\ nd = Direct(nd.num_children, nd.child_pointers)
      /\ nd.child_pointers \in [Byte -> Child \cup {None}]
      /\ nd.num_children = Cardinality(S)
      /\ \A b \in Byte : LookupChild(nd, b) = nd.child_pointers[b]
  BY DirectType, DirectLookup
<1>2. WriteDirect(nd, byte, child) = Direct(l, pointers)
  <2>1. PICK n \in {nd.num_children}, p \in {nd.child_pointers}, k \in {l}, y \in {pointers} :
          nd = Direct(n, p) /\ y = [p EXCEPT ![byte] = child]
    BY <1>1
  <2>2. WriteDirect(nd, byte, child) = [nd EXCEPT !.child_pointers[byte] = child, !.num_children = k]
    BY <2>1 DEF WriteDirect
  <2> HIDE DEF l, pointers
  <2>3. [Direct(n, p) EXCEPT !.child_pointers[byte] = child, !.num_children = k]
          = [[Direct(n, p) EXCEPT !.num_children = k] EXCEPT !.child_pointers = y]
    BY <2>1 DEF Direct
  <2>4. [Direct(n, p) EXCEPT !.num_children = k] = Direct(k, p)  BY DEF Direct
  <2>5. [Direct(k, p) EXCEPT !.child_pointers = y] = Direct(k, y)  BY DEF Direct
  <2> QED  BY <2>1, <2>2, <2>3, <2>4, <2>5
<1>3. /\ pointers \in [Byte -> Child \cup {None}]
      /\ \A b \in Byte : pointers[b] = IF b = byte THEN child ELSE nd.child_pointers[b]
  BY <1>1
<1> HIDE DEF pointers
<1>4. {b \in Byte : pointers[b] # None} = S \cup {byte}
  BY <1>3, ChildAssumption DEF OccupiedPointers
<1>5. byte \in S <=> nd.child_pointers[byte] # None  BY DEF OccupiedPointers
<1>6. IsFiniteSet(S)
  <2>1. S = BytesOf(nd)  BY DirectLookup
  <2> QED  BY <2>1, BytesOfIsFinite
<1> HIDE DEF S
<1>7. Cardinality(S \cup {byte}) = l  BY <1>1, <1>5, <1>6, FS_AddElement
<1>8. /\ SoundDirect(Direct(l, pointers)) /\ Direct(l, pointers).num_children = l
      /\ \A b \in Byte : LookupChild(Direct(l, pointers), b) = pointers[b]
  BY <1>3, <1>4, <1>7, DirectIsSound
<1> QED  BY <1>1, <1>2, <1>3, <1>8 DEF Differs

(* remove_child *)
LEMMA RemoveDirectKeeps ==
  ASSUME NEW nd, SoundDirect(nd), NEW byte \in Byte, LookupChild(nd, byte) # None
  PROVE  LET new == RemoveDirect(nd, byte) IN
           /\ SoundDirect(new)
           /\ new.num_children = nd.num_children - 1
           /\ Differs(new, nd, byte, None)
<1> DEFINE l == nd.num_children - 1
           pointers == [nd.child_pointers EXCEPT ![byte] = None]
           S == OccupiedPointers(nd)
<1>1. /\ nd = Direct(nd.num_children, nd.child_pointers)
      /\ nd.child_pointers \in [Byte -> Child \cup {None}]
      /\ nd.num_children = Cardinality(S)
      /\ \A b \in Byte : LookupChild(nd, b) = nd.child_pointers[b]
  BY DirectType, DirectLookup
<1>2. RemoveDirect(nd, byte) = Direct(l, pointers)
  <2>1. PICK n \in {nd.num_children}, p \in {nd.child_pointers}, k \in {l}, y \in {pointers} :
          nd = Direct(n, p) /\ y = [p EXCEPT ![byte] = None]
    BY <1>1
  <2>2. RemoveDirect(nd, byte) = [nd EXCEPT !.child_pointers[byte] = None, !.num_children = k]
    BY <2>1 DEF RemoveDirect
  <2> HIDE DEF l, pointers
  <2>3. [Direct(n, p) EXCEPT !.child_pointers[byte] = None, !.num_children = k]
          = [[Direct(n, p) EXCEPT !.num_children = k] EXCEPT !.child_pointers = y]
    BY <2>1 DEF Direct
  <2>4. [Direct(n, p) EXCEPT !.num_children = k] = Direct(k, p)  BY DEF Direct
  <2>5. [Direct(k, p) EXCEPT !.child_pointers = y] = Direct(k, y)  BY DEF Direct
  <2> QED  BY <2>1, <2>2, <2>3, <2>4, <2>5
<1>3. /\ pointers \in [Byte -> Child \cup {None}]
      /\ \A b \in Byte : pointers[b] = IF b = byte THEN None ELSE nd.child_pointers[b]
  BY <1>1
<1> HIDE DEF pointers
<1>4. {b \in Byte : pointers[b] # None} = S \ {byte}  BY <1>3 DEF OccupiedPointers
<1>5. byte \in S  BY <1>1 DEF OccupiedPointers
<1>6. IsFiniteSet(S)
  <2>1. S = BytesOf(nd)  BY DirectLookup
  <2> QED  BY <2>1, BytesOfIsFinite
<1> HIDE DEF S
<1>7. Cardinality(S \ {byte}) = l  BY <1>1, <1>5, <1>6, FS_RemoveElement
<1>8. /\ SoundDirect(Direct(l, pointers)) /\ Direct(l, pointers).num_children = l
      /\ \A b \in Byte : LookupChild(Direct(l, pointers), b) = pointers[b]
  BY <1>3, <1>4, <1>7, DirectIsSound
<1> QED  BY <1>1, <1>2, <1>3, <1>8 DEF Differs
-----------------------------------------------------------------------------
(* The iterations over the 256 bytes list the children too.                *)
LEMMA PairsAtLists ==
  ASSUME NEW nd, nd.num_children = Cardinality(BytesOf(nd)),
         \A b \in Byte : LookupChild(nd, b) \in Child \cup {None}
  PROVE  Lists(PairsAt(BytesOf(nd), nd), nd)
<1> DEFINE S == BytesOf(nd)
           n == Cardinality(S)
           A == Ascending(S)
           pairs == PairsAt(S, nd)
<1>1. /\ n \in Nat /\ A \in [1 .. n -> S]
      /\ \A i, j \in 1 .. n : i < j => A[i] < A[j]
      /\ \A b \in S : \E i \in 1 .. n : A[i] = b
  BY BytesOfIsFinite, AscendingFacts
<1>2. pairs = [i \in 1 .. n |-> <<A[i], LookupChild(nd, A[i])>>]  BY DEF PairsAt
<1>3. \A b \in S : b \in Byte /\ LookupChild(nd, b) \in Child  BY DEF BytesOf
<1>4. n = nd.num_children  OBVIOUS
<1> HIDE DEF n, A, S, pairs
<1>5. \A i \in 1 .. n : /\ pairs[i] = <<A[i], LookupChild(nd, A[i])>> /\ A[i] \in S
                        /\ pairs[i] \in Byte \X Child /\ pairs[i][1] = A[i]
                        /\ pairs[i][2] = LookupChild(nd, pairs[i][1])
  BY <1>1, <1>2, <1>3
<1>6. pairs \in [1 .. n -> Byte \X Child]  BY <1>2, <1>5
<1>7. \A i, j \in 1 .. n : i < j => pairs[i][1] < pairs[j][1]  BY <1>1, <1>5
<1>8. \A b \in S : \E i \in 1 .. n : pairs[i][1] = b  BY <1>1, <1>5
<1> QED  BY <1>4, <1>5, <1>6, <1>7, <1>8 DEF Lists, S, pairs

LEMMA IterIndexedLists ==
  ASSUME NEW nd, SoundIndexed(nd)
  PROVE  Lists(IterIndexed(nd), nd)
BY PairsAtLists, IndexedLookup, IndexedCount DEF IterIndexed

LEMMA IterDirectLists ==
  ASSUME NEW nd, SoundDirect(nd)
  PROVE  Lists(IterDirect(nd), nd)
BY PairsAtLists, DirectLookup DEF IterDirect

(* The bytes and the length of a list. *)
LEMMA ListFacts ==
  ASSUME NEW nd, NEW pairs, Lists(pairs, nd), nd.num_children \in Nat
  PROVE  /\ Len(pairs) = nd.num_children /\ DOMAIN pairs = 1 .. nd.num_children
         /\ {pairs[i][1] : i \in DOMAIN pairs} = BytesOf(nd)
         /\ \A i \in 1 .. nd.num_children : pairs[i][1] \in Byte /\ pairs[i][2] \in Child
<1>1. /\ pairs \in [1 .. nd.num_children -> Byte \X Child]
      /\ \A i \in 1 .. nd.num_children : pairs[i][2] = LookupChild(nd, pairs[i][1])
      /\ \A b \in BytesOf(nd) : \E i \in 1 .. nd.num_children : pairs[i][1] = b
  BY DEF Lists
<1>2. Len(pairs) = nd.num_children  BY <1>1, LengthOfDomain
<1>3. \A i \in 1 .. nd.num_children : pairs[i][1] \in Byte /\ pairs[i][2] \in Child  BY <1>1
<1>4. \A i \in 1 .. nd.num_children : pairs[i][1] \in BytesOf(nd)
  BY <1>1, <1>3, ChildAssumption DEF BytesOf
<1>5. DOMAIN pairs = 1 .. nd.num_children  BY <1>1
<1>6. {pairs[i][1] : i \in DOMAIN pairs} = BytesOf(nd)  BY <1>1, <1>4, <1>5
<1> QED  BY <1>2, <1>3, <1>5, <1>6

(* The pairs in the order of their bytes: a list again. *)
LEMMA SortedLists ==
  ASSUME NEW nd, NEW pairs, Lists(pairs, nd),
         nd.num_children \in Nat, nd.num_children = Cardinality(BytesOf(nd))
  PROVE  Lists(SortedByByte(pairs), nd)
<1> DEFINE n == nd.num_children
           S == BytesOf(nd)
           A == Ascending(S)
           sorted == SortedByByte(pairs)
           At(i) == CHOOSE j \in 1 .. n : pairs[j][1] = A[i]
<1>1. /\ A \in [1 .. n -> S]
      /\ \A i, j \in 1 .. n : i < j => A[i] < A[j]
      /\ \A b \in S : \E i \in 1 .. n : A[i] = b
  BY BytesOfIsFinite, AscendingFacts
<1>2. /\ pairs \in [1 .. n -> Byte \X Child]
      /\ \A i \in 1 .. n : pairs[i][2] = LookupChild(nd, pairs[i][1])
      /\ \A b \in S : \E i \in 1 .. n : pairs[i][1] = b
  BY DEF Lists
<1>3. sorted = [i \in 1 .. n |-> pairs[At(i)]]
  <2>1. Len(pairs) = n /\ DOMAIN pairs = 1 .. n /\ {pairs[i][1] : i \in DOMAIN pairs} = S
    BY ListFacts
  <2>2. PICK B \in {{pairs[i][1] : i \in DOMAIN pairs}} :
          sorted = [i \in 1 .. Len(pairs) |->
                      pairs[CHOOSE j \in DOMAIN pairs : pairs[j][1] = Ascending(B)[i]]]
    BY DEF SortedByByte
  <2>3. B = S  BY <2>1, <2>2
  <2> HIDE DEF sorted, n, S
  <2> QED  BY <2>1, <2>2, <2>3
<1> HIDE DEF n, S, A, sorted
<1>4. \A i \in 1 .. n : At(i) \in 1 .. n /\ pairs[At(i)][1] = A[i]
  <2>1. TAKE i \in 1 .. n
  <2>2. \E j \in 1 .. n : pairs[j][1] = A[i]  BY <1>1, <1>2
  <2> QED  BY <2>2
<1> HIDE DEF At
<1>5. \A i \in 1 .. n : /\ sorted[i] = pairs[At(i)] /\ sorted[i] \in Byte \X Child
                        /\ sorted[i][1] = A[i]
                        /\ sorted[i][2] = LookupChild(nd, sorted[i][1])
  BY <1>2, <1>3, <1>4
<1>6. sorted \in [1 .. n -> Byte \X Child]  BY <1>3, <1>5
<1>7. \A i, j \in 1 .. n : i < j => sorted[i][1] < sorted[j][1]  BY <1>1, <1>5
<1>8. \A b \in S : \E i \in 1 .. n : sorted[i][1] = b  BY <1>1, <1>5
<1> QED  BY <1>5, <1>6, <1>7, <1>8 DEF Lists, n, S, sorted

(* shrink of a Node48: exactly the children of a Node16 fill its keys.     *)
LEMMA Shrink48Keeps ==
  ASSUME NEW nd, SoundIndexed(nd), nd.num_children <= UpperCapacity["Node16"]
  PROVE  LET new == Shrink48(nd) IN
           /\ SoundCompressed(new) /\ new.type = "Node16"
           /\ new.num_children = nd.num_children /\ Agrees(new, nd)
           /\ nd.num_children = UpperCapacity["Node16"] => Filled(new)
<1> DEFINE n == nd.num_children
           m == UpperCapacity["Node16"]
           pairs == SortedByByte(Iter(nd))
           slots(k) == [i \in Slots("Node16") |-> IF i < Len(pairs) THEN pairs[i + 1][k] ELSE Uninit]
           keys == slots(1)
           pointers == slots(2)
<1>1. n \in Nat /\ n = Cardinality(BytesOf(nd)) /\ n <= m /\ m \in Nat /\ Slots("Node16") = 0 .. m - 1
  BY IndexedType, IndexedCount, CapacityFacts DEF InnerType, Slots
<1>2. Lists(pairs, nd)
  <2>1. Iter(nd) = IterIndexed(nd)  BY IndexedType DEF Iter
  <2>2. Lists(Iter(nd), nd)  BY <2>1, IterIndexedLists
  <2> QED  BY <1>1, <2>2, SortedLists
<1>3. Shrink48(nd) = Compressed("Node16", n, keys, pointers)  BY DEF Shrink48
<1>4. /\ Len(pairs) = n
      /\ \A i \in 1 .. n : pairs[i][1] \in Byte /\ pairs[i][2] \in Child
  BY <1>1, <1>2, ListFacts
<1> HIDE DEF n, m, pairs
<1>5. /\ keys = [i \in 0 .. m - 1 |-> IF i < n THEN pairs[i + 1][1] ELSE Uninit]
      /\ pointers = [i \in 0 .. m - 1 |-> IF i < n THEN pairs[i + 1][2] ELSE Uninit]
  BY <1>1, <1>4
<1> HIDE DEF keys, pointers
<1>6. \A i \in 0 .. m - 1 : i < n => i + 1 \in 1 .. n  BY <1>1
<1>7. \A i \in 0 .. n - 1 : i \in 0 .. m - 1 /\ i < n  BY <1>1
<1>8. keys \in [Slots("Node16") -> Byte \cup {Uninit}]
  <2>1. \A i \in 0 .. m - 1 : (IF i < n THEN pairs[i + 1][1] ELSE Uninit) \in Byte \cup {Uninit}
    BY <1>4, <1>6
  <2> QED  BY <2>1, <1>1, <1>5
<1>9. pointers \in [Slots("Node16") -> Child \cup {Uninit}]
  <2>1. \A i \in 0 .. m - 1 : (IF i < n THEN pairs[i + 1][2] ELSE Uninit) \in Child \cup {Uninit}
    BY <1>4, <1>6
  <2> QED  BY <2>1, <1>1, <1>5
<1>10. \A i \in 0 .. n - 1 : keys[i] = pairs[i + 1][1] /\ pointers[i] = pairs[i + 1][2]
  BY <1>5, <1>7
<1> DEFINE new == Compressed("Node16", n, keys, pointers)
<1>11. SoundCompressed(new) /\ Agrees(new, nd)
  BY <1>1, <1>2, <1>8, <1>9, <1>10, CompressedFromList DEF n, m
<1>12. new.type = "Node16" /\ new.num_children = n /\ new.keys = keys
  BY DEF Compressed
<1> HIDE DEF new
<1>13. n = m => Filled(new)
  <2>1. SUFFICES ASSUME n = m, NEW i \in 0 .. m - 1 PROVE keys[i] # Uninit
    BY <1>1, <1>12 DEF Filled
  <2>2. i < n /\ i + 1 \in 1 .. n  BY <2>1, <1>1
  <2>3. keys[i] \in Byte  BY <2>2, <1>4, <1>5
  <2> QED  BY <2>3, ChildAssumption
<1> QED  BY <1>3, <1>11, <1>12, <1>13 DEF n, m, new

(* A Node48 numbered in the order of a list. *)
LEMMA NumberedKeeps ==
  ASSUME NEW nd, NEW pairs, Lists(pairs, nd), nd.num_children \in Nat, nd.num_children <= EMPTY
  PROVE  LET new == [FromHeader48(nd.num_children) EXCEPT
                       !.child_indices = Positions(pairs),
                       !.child_pointers = Overwrite(@, Pointees(pairs))]
         IN  SoundIndexed(new) /\ new.num_children = nd.num_children /\ Agrees(new, nd)
<1> DEFINE n == nd.num_children
           vacant == [i \in Slots("Node48") |-> Uninit]
           indices == Positions(pairs)
           pointers == Overwrite(vacant, Pointees(pairs))
           At(b) == {i \in 1 .. n : pairs[i][1] = b}
           new == [FromHeader48(n) EXCEPT !.child_indices = Positions(pairs),
                                          !.child_pointers = Overwrite(@, Pointees(pairs))]
<1>1. /\ n \in Nat /\ EMPTY \in Nat /\ n <= EMPTY
      /\ Slots("Node48") = 0 .. EMPTY - 1
  BY CapacityFacts DEF Slots, EMPTY
<1>2. new = Indexed(n, indices, pointers)
  <2>1. PICK b \in {[c \in Byte |-> EMPTY]}, v \in {vacant}, x \in {indices}, y \in {pointers} :
          FromHeader48(n) = Indexed(n, b, v) /\ y = Overwrite(v, Pointees(pairs))
    BY DEF FromHeader48
  <2>2. new = [Indexed(n, b, v) EXCEPT !.child_indices = x,
                                       !.child_pointers = Overwrite(@, Pointees(pairs))]
    BY <2>1
  <2> HIDE DEF new, n, vacant, indices, pointers
  <2>3. [Indexed(n, b, v) EXCEPT !.child_indices = x, !.child_pointers = Overwrite(@, Pointees(pairs))]
          = [[Indexed(n, b, v) EXCEPT !.child_indices = x] EXCEPT !.child_pointers = y]
    BY <2>1 DEF Indexed
  <2>4. [Indexed(n, b, v) EXCEPT !.child_indices = x] = Indexed(n, x, v)  BY DEF Indexed
  <2>5. [Indexed(n, x, v) EXCEPT !.child_pointers = y] = Indexed(n, x, y)  BY DEF Indexed
  <2> QED  BY <2>1, <2>2, <2>3, <2>4, <2>5
<1>3. /\ DOMAIN pairs = 1 .. n
      /\ {pairs[i][1] : i \in 1 .. n} = BytesOf(nd)
      /\ Pointees(pairs) \in [1 .. n -> Child]
      /\ \A i \in 1 .. n : Pointees(pairs)[i] = pairs[i][2] /\ pairs[i][1] \in Byte
  BY ListFacts, ListParts
<1>4. indices = [b \in Byte |-> IF At(b) = {} THEN EMPTY ELSE Min(At(b)) - 1]
  BY <1>3 DEF Positions
<1>5. \A i, j \in 1 .. n : pairs[i][1] = pairs[j][1] => i = j  BY ListsOnce
<1>6. vacant \in [0 .. EMPTY - 1 -> Child \cup {Uninit}]  BY <1>1
<1> HIDE DEF n, vacant, indices, pointers, At, new
<1>7. \A i \in 1 .. n : At(pairs[i][1]) = {i}  BY <1>5 DEF At
<1>8. \A i \in 1 .. n : i \in Nat /\ Min({i}) = i
  <2>1. TAKE i \in 1 .. n
  <2>2. i \in Nat  BY <1>1
  <2> QED  BY <2>2, MinUnique
<1>9. \A i \in 1 .. n : indices[pairs[i][1]] = i - 1
  BY <1>3, <1>4, <1>7, <1>8
<1>10. \A b \in Byte : b \notin BytesOf(nd) => indices[b] = EMPTY
  <2>1. \A b : b \notin BytesOf(nd) => At(b) = {}  BY <1>3 DEF At
  <2> QED  BY <2>1, <1>4
<1>11. indices \in [Byte -> 0 .. EMPTY]
  <2>1. \A i \in 1 .. n : i - 1 \in 0 .. EMPTY  BY <1>1
  <2>2. EMPTY \in 0 .. EMPTY  BY <1>1
  <2>3. \A b \in Byte : indices[b] \in 0 .. EMPTY  BY <2>1, <2>2, <1>3, <1>9, <1>10
  <2> QED  BY <2>3, <1>4
<1>12. PICK P \in {Pointees(pairs)} : P \in [1 .. n -> Child]  BY <1>3
<1>13. pointers \in [0 .. EMPTY - 1 -> Child \cup {Uninit}]
  <2>1. PICK D \in {0 .. EMPTY - 1}, V \in {Child \cup {Uninit}} :
          D \subseteq Nat /\ vacant \in [D -> V] /\ P \in [1 .. n -> V]
    BY <1>1, <1>6, <1>12
  <2>2. Overwrite(vacant, P) \in [D -> V]  BY <2>1, <1>1, OverwriteType
  <2> QED  BY <2>1, <2>2, <1>12 DEF pointers
<1>14. \A i \in 1 .. n : pointers[i - 1] = pairs[i][2]
  <2>1. TAKE i \in 1 .. n
  <2>2. i - 1 \in 0 .. EMPTY - 1 /\ i - 1 < n /\ i - 1 + 1 = i  BY <1>1
  <2>3. Len(P) = n  BY <1>1, <1>12, LengthOfDomain
  <2>4. DOMAIN vacant = 0 .. EMPTY - 1  BY <1>6
  <2>5. Overwrite(vacant, P)[i - 1] = P[i]  BY <2>2, <2>3, <2>4 DEF Overwrite
  <2> QED  BY <2>5, <1>3, <1>12 DEF pointers
<1>15. SoundIndexed(Indexed(n, indices, pointers)) /\ Agrees(Indexed(n, indices, pointers), nd)
  <2>1. \A i \in 1 .. n : indices[pairs[i][1]] = i - 1 /\ pointers[i - 1] = pairs[i][2]
    BY <1>9, <1>14
  <2> QED  BY <2>1, <1>1, <1>10, <1>11, <1>13, IndexedFromList DEF n
<1>16. new.num_children = n  BY <1>2 DEF Indexed
<1> QED  BY <1>2, <1>15, <1>16 DEF n, new

(* deep_clone of a Node48, and shrink of a Node256. *)
LEMMA CloneIndexedKeeps ==
  ASSUME NEW nd, SoundIndexed(nd)
  PROVE  LET new == CloneIndexed(nd) IN
           SoundIndexed(new) /\ new.num_children = nd.num_children /\ Agrees(new, nd)
BY IterIndexedLists, IndexedType, NumberedKeeps DEF CloneIndexed

LEMMA Shrink256Keeps ==
  ASSUME NEW nd, SoundDirect(nd), nd.num_children <= EMPTY
  PROVE  LET new == Shrink256(nd) IN
           SoundIndexed(new) /\ new.num_children = nd.num_children /\ Agrees(new, nd)
BY IterDirectLists, DirectType, NumberedKeeps DEF Shrink256
-----------------------------------------------------------------------------
(* Inner nodes of any layout.                                              *)

LEMMA TypeOrder ==
  ASSUME NEW t \in InnerType
  PROVE  /\ UpperCapacity[t] \in Nat
         /\ t # "Node256" => /\ NextLarger[t] \in InnerType /\ NextLarger[t] # "Node4"
                             /\ NextSmaller[NextLarger[t]] = t
                             /\ UpperCapacity[t] < UpperCapacity[NextLarger[t]]
         /\ t # "Node4" => /\ NextSmaller[t] \in InnerType
                           /\ UpperCapacity[NextSmaller[t]] < UpperCapacity[t]
<1>1. UpperCapacity[t] \in Nat  BY CapacityFacts
<1>2. CASE t = "Node4"  BY <1>1, <1>2, CapacityFacts DEF InnerType, NextLarger, NextSmaller
<1>3. CASE t = "Node16"  BY <1>1, <1>3, CapacityFacts DEF InnerType, NextLarger, NextSmaller
<1>4. CASE t = "Node48"  BY <1>1, <1>4, CapacityFacts DEF InnerType, NextLarger, NextSmaller
<1>5. CASE t = "Node256"  BY <1>1, <1>5, CapacityFacts DEF InnerType, NextLarger, NextSmaller
<1> QED  BY <1>2, <1>3, <1>4, <1>5 DEF InnerType

LEMMA SoundFacts ==
  ASSUME NEW nd, SoundNode(nd)
  PROVE  /\ nd.type \in InnerType
         /\ nd.num_children \in Nat /\ nd.num_children <= UpperCapacity[nd.type]
         /\ nd.num_children = Cardinality(BytesOf(nd))
         /\ \A b \in Byte : LookupChild(nd, b) \in Child \cup {None}
         /\ Lists(Iter(nd), nd)
         /\ nd # None
<1>1. CASE SoundCompressed(nd)
  <2>1. nd.type \in {"Node4", "Node16"} /\ IsCompressed(nd) /\ ~IsIndexed(nd) /\ ~IsDirect(nd)
    BY <1>1, CompressedType
  <2>2. nd \in CompressedNode(nd.type)  BY <1>1 DEF SoundCompressed
  <2>3. nd # None  BY <2>1, <2>2, NoneAssumption
  <2>4. Iter(nd) = IterCompressed(nd)  BY <2>1 DEF Iter
  <2>5. Lists(Iter(nd), nd)  BY <2>4, <1>1, IterCompressedLists
  <2>6. nd.type \in InnerType  BY <2>1 DEF InnerType
  <2>7. nd.num_children \in Nat /\ nd.num_children <= UpperCapacity[nd.type]  BY <1>1, CompressedType
  <2>8. nd.num_children = Cardinality(BytesOf(nd))  BY <1>1, CompressedCount
  <2>9. \A b \in Byte : LookupChild(nd, b) \in Child \cup {None}  BY <1>1, CompressedLookup
  <2> QED  BY <2>3, <2>5, <2>6, <2>7, <2>8, <2>9
<1>2. CASE SoundIndexed(nd)
  <2>1. nd.type = "Node48" /\ ~IsCompressed(nd) /\ IsIndexed(nd) /\ ~IsDirect(nd)  BY <1>2, IndexedType
  <2>2. nd \in IndexedNode  BY <1>2 DEF SoundIndexed
  <2>3. nd # None  BY <2>2, NoneAssumption
  <2>4. Iter(nd) = IterIndexed(nd)  BY <2>1 DEF Iter
  <2>5. Lists(Iter(nd), nd)  BY <2>4, <1>2, IterIndexedLists
  <2>6. nd.type \in InnerType  BY <2>1 DEF InnerType
  <2>7. nd.num_children \in Nat /\ nd.num_children <= UpperCapacity[nd.type]
    BY <1>2, <2>1, IndexedType DEF EMPTY
  <2>8. nd.num_children = Cardinality(BytesOf(nd))  BY <1>2, IndexedCount
  <2>9. \A b \in Byte : LookupChild(nd, b) \in Child \cup {None}  BY <1>2, IndexedLookup
  <2> QED  BY <2>3, <2>5, <2>6, <2>7, <2>8, <2>9
<1>3. CASE SoundDirect(nd)
  <2>1. nd.type = "Node256" /\ ~IsCompressed(nd) /\ ~IsIndexed(nd) /\ IsDirect(nd)  BY <1>3, DirectType
  <2>2. nd \in DirectNode  BY <1>3 DEF SoundDirect
  <2>3. nd # None  BY <2>2, NoneAssumption
  <2>4. Iter(nd) = IterDirect(nd)  BY <2>1 DEF Iter
  <2>5. Lists(Iter(nd), nd)  BY <2>4, <1>3, IterDirectLists
  <2>6. nd.type \in InnerType  BY <2>1 DEF InnerType
  <2>7. nd.num_children \in Nat  BY <1>3, DirectType
  <2>8. nd.num_children = Cardinality(BytesOf(nd))  BY <1>3, DirectLookup
  <2>9. \A b \in Byte : LookupChild(nd, b) \in Child \cup {None}  BY <1>3, DirectLookup
  <2>10. nd.num_children <= UpperCapacity[nd.type]
    <3>1. BytesOf(nd) \in SUBSET Byte  BY DEF BytesOf
    <3>2. Cardinality(BytesOf(nd)) <= Cardinality(Byte) /\ Cardinality(Byte) \in Nat
      BY <3>1, CapacityAssumption, FS_Subset, FS_CardinalityType
    <3>3. UpperCapacity["Node256"] \in Nat /\ Cardinality(Byte) <= UpperCapacity["Node256"]
      BY CapacityFacts DEF InnerType
    <3> QED  BY <3>2, <3>3, <2>1, <2>7, <2>8
  <2> QED  BY <2>3, <2>5, <2>6, <2>7, <2>8, <2>9, <2>10
<1> QED  BY <1>1, <1>2, <1>3 DEF SoundNode

(* The node types tell the layouts apart. *)
LEMMA SoundCases ==
  ASSUME NEW nd, SoundNode(nd)
  PROVE  \/ /\ SoundCompressed(nd) /\ nd.type \in {"Node4", "Node16"}
            /\ IsCompressed(nd) /\ ~IsIndexed(nd) /\ ~IsDirect(nd)
         \/ /\ SoundIndexed(nd) /\ nd.type = "Node48"
            /\ ~IsCompressed(nd) /\ IsIndexed(nd) /\ ~IsDirect(nd)
         \/ /\ SoundDirect(nd) /\ nd.type = "Node256"
            /\ ~IsCompressed(nd) /\ ~IsIndexed(nd) /\ IsDirect(nd)
BY CompressedType, IndexedType, DirectType DEF SoundNode

(* write_child of a new key byte, where there is room for it. *)
LEMMA WriteNew ==
  ASSUME NEW nd, SoundNode(nd), NEW byte \in Byte, NEW child \in Child,
         LookupChild(nd, byte) = None, nd.num_children < UpperCapacity[nd.type]
  PROVE  LET new == Write(nd, byte, child) IN
           /\ SoundNode(new) /\ new.type = nd.type
           /\ new.num_children = nd.num_children + 1
           /\ Differs(new, nd, byte, child)
           /\ Filled(nd) => Filled(new)
<1>1. CASE SoundCompressed(nd) /\ IsCompressed(nd) /\ ~IsIndexed(nd) /\ ~IsDirect(nd)
  <2>1. Write(nd, byte, child) = WriteCompressed(nd, byte, child)  BY <1>1 DEF Write
  <2> QED  BY <1>1, <2>1, WriteCompressedNew DEF SoundNode
<1>2. CASE SoundIndexed(nd) /\ ~IsCompressed(nd) /\ IsIndexed(nd) /\ ~IsDirect(nd) /\ nd.type = "Node48"
  <2>1. PICK new \in {WriteIndexed(nd, byte, child)} : new = Write(nd, byte, child)
    BY <1>2 DEF Write
  <2>2. nd.num_children < EMPTY  BY <1>2 DEF EMPTY
  <2>3. /\ SoundIndexed(new) /\ new.num_children = nd.num_children + 1
        /\ Differs(new, nd, byte, child)
    BY <1>2, <2>1, <2>2, WriteIndexedNew
  <2>4. new.type = "Node48"  BY <2>3, IndexedType
  <2> QED  BY <1>2, <2>1, <2>3, <2>4 DEF SoundNode, Filled
<1>3. CASE SoundDirect(nd) /\ ~IsCompressed(nd) /\ ~IsIndexed(nd) /\ IsDirect(nd) /\ nd.type = "Node256"
  <2>1. PICK new \in {WriteDirect(nd, byte, child)} : new = Write(nd, byte, child)
    BY <1>3 DEF Write
  <2>2. /\ SoundDirect(new) /\ new.num_children = nd.num_children + 1
        /\ Differs(new, nd, byte, child)
    BY <1>3, <2>1, WriteDirectKeeps
  <2>3. new.type = "Node256"  BY <2>2, DirectType
  <2> QED  BY <1>3, <2>1, <2>2, <2>3 DEF SoundNode, Filled
<1> QED  BY <1>1, <1>2, <1>3, SoundCases

(* write_child of a key byte that has a child. *)
LEMMA WriteExisting ==
  ASSUME NEW nd, SoundNode(nd), NEW byte \in Byte, NEW child \in Child,
         LookupChild(nd, byte) # None
  PROVE  LET new == Write(nd, byte, child) IN
           /\ SoundNode(new) /\ new.type = nd.type
           /\ new.num_children = nd.num_children
           /\ Differs(new, nd, byte, child)
           /\ Filled(nd) => Filled(new)
<1>1. CASE SoundCompressed(nd) /\ IsCompressed(nd) /\ ~IsIndexed(nd) /\ ~IsDirect(nd)
  <2>1. Write(nd, byte, child) = WriteCompressed(nd, byte, child)  BY <1>1 DEF Write
  <2> QED  BY <1>1, <2>1, WriteCompressedExisting DEF SoundNode
<1>2. CASE SoundIndexed(nd) /\ ~IsCompressed(nd) /\ IsIndexed(nd) /\ ~IsDirect(nd) /\ nd.type = "Node48"
  <2>1. PICK new \in {WriteIndexed(nd, byte, child)} : new = Write(nd, byte, child)
    BY <1>2 DEF Write
  <2>2. /\ SoundIndexed(new) /\ new.num_children = nd.num_children
        /\ Differs(new, nd, byte, child)
    BY <1>2, <2>1, WriteIndexedExisting
  <2>3. new.type = "Node48"  BY <2>2, IndexedType
  <2> QED  BY <1>2, <2>1, <2>2, <2>3 DEF SoundNode, Filled
<1>3. CASE SoundDirect(nd) /\ ~IsCompressed(nd) /\ ~IsIndexed(nd) /\ IsDirect(nd) /\ nd.type = "Node256"
  <2>1. PICK new \in {WriteDirect(nd, byte, child)} : new = Write(nd, byte, child)
    BY <1>3 DEF Write
  <2>2. /\ SoundDirect(new) /\ new.num_children = nd.num_children
        /\ Differs(new, nd, byte, child)
    BY <1>3, <2>1, WriteDirectKeeps
  <2>3. new.type = "Node256"  BY <2>2, DirectType
  <2> QED  BY <1>3, <2>1, <2>2, <2>3 DEF SoundNode, Filled
<1> QED  BY <1>1, <1>2, <1>3, SoundCases

(* remove_child *)
LEMMA RemovedKeeps ==
  ASSUME NEW nd, SoundNode(nd), NEW byte \in Byte, LookupChild(nd, byte) # None
  PROVE  LET new == Removed(nd, byte) IN
           /\ SoundNode(new) /\ new.type = nd.type
           /\ new.num_children = nd.num_children - 1
           /\ Differs(new, nd, byte, None)
           /\ Filled(nd) => Filled(new)
<1>1. CASE SoundCompressed(nd) /\ IsCompressed(nd) /\ ~IsIndexed(nd) /\ ~IsDirect(nd)
  <2>1. Removed(nd, byte) = RemoveCompressed(nd, byte)  BY <1>1 DEF Removed
  <2> QED  BY <1>1, <2>1, RemoveCompressedKeeps DEF SoundNode
<1>2. CASE SoundIndexed(nd) /\ ~IsCompressed(nd) /\ IsIndexed(nd) /\ ~IsDirect(nd) /\ nd.type = "Node48"
  <2>1. PICK new \in {RemoveIndexed(nd, byte)} : new = Removed(nd, byte)
    BY <1>2 DEF Removed
  <2>2. /\ SoundIndexed(new) /\ new.num_children = nd.num_children - 1
        /\ Differs(new, nd, byte, None)
    BY <1>2, <2>1, RemoveIndexedKeeps
  <2>3. new.type = "Node48"  BY <2>2, IndexedType
  <2> QED  BY <1>2, <2>1, <2>2, <2>3 DEF SoundNode, Filled
<1>3. CASE SoundDirect(nd) /\ ~IsCompressed(nd) /\ ~IsIndexed(nd) /\ IsDirect(nd) /\ nd.type = "Node256"
  <2>1. PICK new \in {RemoveDirect(nd, byte)} : new = Removed(nd, byte)
    BY <1>3 DEF Removed
  <2>2. /\ SoundDirect(new) /\ new.num_children = nd.num_children - 1
        /\ Differs(new, nd, byte, None)
    BY <1>3, <2>1, RemoveDirectKeeps
  <2>3. new.type = "Node256"  BY <2>2, DirectType
  <2> QED  BY <1>3, <2>1, <2>2, <2>3 DEF SoundNode, Filled
<1> QED  BY <1>1, <1>2, <1>3, SoundCases

(* grow *)
LEMMA GrowKeeps ==
  ASSUME NEW nd, SoundNode(nd), nd.type # "Node256"
  PROVE  LET new == Grow(nd) IN
           /\ SoundNode(new) /\ new.type = NextLarger[nd.type]
           /\ new.num_children = nd.num_children
           /\ Agrees(new, nd) /\ Filled(new)
<1>1. CASE SoundCompressed(nd) /\ nd.type = "Node4"
  <2>1. Grow(nd) = ChangeBlockSize(nd, "Node16")  BY <1>1 DEF Grow
  <2>2. nd.num_children <= UpperCapacity["Node16"]
    <3>1. nd.num_children \in Nat /\ nd.num_children <= UpperCapacity["Node4"]  BY <1>1, CompressedType
    <3>2. /\ UpperCapacity["Node4"] \in Nat /\ UpperCapacity["Node16"] \in Nat
          /\ UpperCapacity["Node4"] < UpperCapacity["Node16"]
      BY CapacityFacts DEF InnerType
    <3> QED  BY <3>1, <3>2
  <2>3. NextLarger["Node4"] = "Node16"  BY DEF NextLarger
  <2> QED  BY <1>1, <2>1, <2>2, <2>3, ChangeBlockSizeKeeps DEF SoundNode
<1>2. CASE SoundCompressed(nd) /\ nd.type = "Node16"
  <2>1. PICK new \in {GrowNode48(nd)} : new = Grow(nd)  BY <1>2 DEF Grow
  <2>2. SoundIndexed(new) /\ new.num_children = nd.num_children /\ Agrees(new, nd)
    BY <1>2, <2>1, GrowNode48Keeps
  <2>3. new.type = "Node48"  BY <2>2, IndexedType
  <2>4. NextLarger["Node16"] = "Node48"  BY DEF NextLarger
  <2> QED  BY <1>2, <2>1, <2>2, <2>3, <2>4 DEF SoundNode, Filled
<1>3. CASE SoundIndexed(nd) /\ nd.type = "Node48"
  <2>1. PICK new \in {Grow48(nd)} : new = Grow(nd)  BY <1>3 DEF Grow
  <2>2. SoundDirect(new) /\ new.num_children = nd.num_children /\ Agrees(new, nd)
    BY <1>3, <2>1, Grow48Keeps
  <2>3. new.type = "Node256"  BY <2>2, DirectType
  <2>4. NextLarger["Node48"] = "Node256"  BY DEF NextLarger
  <2> QED  BY <1>3, <2>1, <2>2, <2>3, <2>4 DEF SoundNode, Filled
<1> QED  BY <1>1, <1>2, <1>3, SoundCases

(* shrink *)
LEMMA ShrinkKeeps ==
  ASSUME NEW nd, SoundNode(nd), nd.type # "Node4",
         nd.num_children = UpperCapacity[NextSmaller[nd.type]]
  PROVE  LET new == Shrink(nd) IN
           /\ SoundNode(new) /\ new.type = NextSmaller[nd.type]
           /\ new.num_children = nd.num_children
           /\ Agrees(new, nd) /\ Filled(new)
<1>1. CASE SoundCompressed(nd) /\ nd.type = "Node16"
  <2>1. Shrink(nd) = ChangeBlockSize(nd, "Node4")  BY <1>1 DEF Shrink
  <2>2. NextSmaller["Node16"] = "Node4"  BY DEF NextSmaller
  <2>3. nd.num_children <= UpperCapacity["Node4"]  BY <1>1, <2>2, CompressedType
  <2> QED  BY <1>1, <2>1, <2>2, <2>3, ChangeBlockSizeKeeps DEF SoundNode
<1>2. CASE SoundIndexed(nd) /\ nd.type = "Node48"
  <2>1. Shrink(nd) = Shrink48(nd)  BY <1>2 DEF Shrink
  <2>2. NextSmaller["Node48"] = "Node16"  BY DEF NextSmaller
  <2>3. nd.num_children = UpperCapacity["Node16"] /\ nd.num_children <= UpperCapacity["Node16"]
    BY <1>2, <2>2, IndexedType
  <2> QED  BY <1>2, <2>1, <2>2, <2>3, Shrink48Keeps DEF SoundNode
<1>3. CASE SoundDirect(nd) /\ nd.type = "Node256"
  <2>1. PICK new \in {Shrink256(nd)} : new = Shrink(nd)  BY <1>3 DEF Shrink
  <2>2. NextSmaller["Node256"] = "Node48"  BY DEF NextSmaller
  <2>3. nd.num_children <= EMPTY  BY <1>3, <2>2, DirectType DEF EMPTY
  <2>4. SoundIndexed(new) /\ new.num_children = nd.num_children /\ Agrees(new, nd)
    BY <1>3, <2>1, <2>3, Shrink256Keeps
  <2>5. new.type = "Node48"  BY <2>4, IndexedType
  <2> QED  BY <1>3, <2>1, <2>2, <2>4, <2>5 DEF SoundNode, Filled
<1> QED  BY <1>1, <1>2, <1>3, SoundCases

(* deep_clone *)
LEMMA DeepCloneKeeps ==
  ASSUME NEW nd, SoundNode(nd)
  PROVE  LET new == DeepClone(nd) IN
           /\ SoundNode(new) /\ new.type = nd.type
           /\ new.num_children = nd.num_children
           /\ Agrees(new, nd) /\ Filled(new)
<1>1. CASE SoundCompressed(nd) /\ IsCompressed(nd) /\ ~IsIndexed(nd) /\ ~IsDirect(nd)
  <2>1. DeepClone(nd) = CloneCompressed(nd)  BY <1>1 DEF DeepClone
  <2> QED  BY <1>1, <2>1, CloneCompressedKeeps DEF SoundNode
<1>2. CASE SoundIndexed(nd) /\ ~IsCompressed(nd) /\ IsIndexed(nd) /\ ~IsDirect(nd) /\ nd.type = "Node48"
  <2>1. PICK new \in {CloneIndexed(nd)} : new = DeepClone(nd)  BY <1>2 DEF DeepClone
  <2>2. SoundIndexed(new) /\ new.num_children = nd.num_children /\ Agrees(new, nd)
    BY <1>2, <2>1, CloneIndexedKeeps
  <2>3. new.type = "Node48"  BY <2>2, IndexedType
  <2> QED  BY <1>2, <2>1, <2>2, <2>3 DEF SoundNode, Filled
<1>3. CASE SoundDirect(nd) /\ ~IsCompressed(nd) /\ ~IsIndexed(nd) /\ IsDirect(nd) /\ nd.type = "Node256"
  <2>1. PICK new \in {CloneDirect(nd)} : new = DeepClone(nd)  BY <1>3 DEF DeepClone
  <2>2. SoundDirect(new) /\ new.num_children = nd.num_children /\ Agrees(new, nd)
    BY <1>3, <2>1, CloneDirectKeeps
  <2>3. new.type = "Node256"  BY <2>2, DirectType
  <2> QED  BY <1>3, <2>1, <2>2, <2>3 DEF SoundNode, Filled
<1> QED  BY <1>1, <1>2, <1>3, SoundCases
-----------------------------------------------------------------------------
(* The inductive invariant, as a predicate of a node, and what the         *)
(* operations of the tree make of a node that satisfies it.                *)
Fitting(nd) ==
  /\ SoundNode(nd)
  /\ nd.num_children >= 2
  /\ ~ShouldShrink(nd.type, nd.num_children)
  /\ Filled(nd)

LayoutInvariant == node # None => Fitting(node)

LEMMA InsertFits ==
  ASSUME NEW nd, Fitting(nd), NEW b \in Byte, NEW x \in Child, LookupChild(nd, b) = None
  PROVE  LET full == nd.num_children >= UpperCapacity[nd.type]
             new  == IF full THEN Write(Grow(nd), b, x) ELSE Write(nd, b, x)
         IN  /\ Fitting(new)
             /\ new.type = IF full THEN NextLarger[nd.type] ELSE nd.type
             /\ Differs(new, nd, b, x)
<1> DEFINE n == nd.num_children
           t == nd.type
<1>1. /\ SoundNode(nd) /\ Filled(nd) /\ t \in InnerType /\ n \in Nat /\ n <= UpperCapacity[t]
      /\ n >= 2 /\ ~ShouldShrink(t, n) /\ UpperCapacity[t] \in Nat
  BY SoundFacts, TypeOrder DEF Fitting
<1>2. CASE ~(n >= UpperCapacity[t])
  <2>1. PICK new \in {Write(nd, b, x)} : TRUE  OBVIOUS
  <2>2. /\ SoundNode(new) /\ new.type = t /\ new.num_children = n + 1
        /\ Differs(new, nd, b, x) /\ Filled(new)
    BY <1>1, <1>2, <2>1, WriteNew
  <2>3. ~ShouldShrink(t, n + 1)
    <3>1. t # "Node4" => UpperCapacity[NextSmaller[t]] \in Nat  BY <1>1, TypeOrder
    <3> QED  BY <3>1, <1>1 DEF ShouldShrink
  <2>4. n + 1 >= 2  BY <1>1
  <2> QED  BY <1>2, <2>1, <2>2, <2>3, <2>4 DEF Fitting
<1>3. CASE n >= UpperCapacity[t]
  <2>1. t # "Node256"
    <3>1. SUFFICES ASSUME t = "Node256" PROVE FALSE  OBVIOUS
    <3>2. BytesOf(nd) \in SUBSET Byte /\ b \notin BytesOf(nd)  BY DEF BytesOf
    <3>3. Cardinality(BytesOf(nd)) <= Cardinality(Byte) /\ Cardinality(BytesOf(nd)) # Cardinality(Byte)
      BY <3>2, CapacityAssumption, FS_Subset
    <3>4. Cardinality(Byte) \in Nat  BY CapacityAssumption, FS_CardinalityType
    <3>5. Cardinality(Byte) <= UpperCapacity[t]  BY <3>1, CapacityFacts
    <3>6. Cardinality(BytesOf(nd)) = n  BY <1>1, SoundFacts
    <3> QED  BY <3>3, <3>4, <3>5, <3>6, <1>1, <1>3
  <2>2. PICK g \in {Grow(nd)} : TRUE  OBVIOUS
  <2>3. SoundNode(g) /\ g.type = NextLarger[t] /\ g.num_children = n /\ Agrees(g, nd) /\ Filled(g)
    BY <1>1, <2>1, <2>2, GrowKeeps
  <2>4. /\ NextLarger[t] \in InnerType /\ NextLarger[t] # "Node4" /\ NextSmaller[NextLarger[t]] = t
        /\ UpperCapacity[t] < UpperCapacity[NextLarger[t]] /\ UpperCapacity[NextLarger[t]] \in Nat
    BY <1>1, <2>1, TypeOrder
  <2>5. LookupChild(g, b) = None  BY <2>3 DEF Agrees
  <2>6. g.num_children < UpperCapacity[g.type]  BY <1>1, <2>3, <2>4
  <2>7. PICK new \in {Write(g, b, x)} : TRUE  OBVIOUS
  <2>8. /\ SoundNode(new) /\ new.type = g.type /\ new.num_children = g.num_children + 1
        /\ Differs(new, g, b, x) /\ Filled(new)
    BY <2>3, <2>5, <2>6, <2>7, WriteNew
  <2>9. ~ShouldShrink(new.type, new.num_children)
    BY <1>1, <1>3, <2>3, <2>4, <2>8 DEF ShouldShrink
  <2>10. new.num_children >= 2  BY <1>1, <2>3, <2>8
  <2>11. Differs(new, nd, b, x)  BY <2>3, <2>8 DEF Differs, Agrees
  <2> QED  BY <1>3, <2>2, <2>3, <2>7, <2>8, <2>9, <2>10, <2>11 DEF Fitting
<1> QED  BY <1>2, <1>3

LEMMA ReplaceFits ==
  ASSUME NEW nd, Fitting(nd), NEW b \in Byte, NEW x \in Child, LookupChild(nd, b) # None
  PROVE  LET new == Write(nd, b, x) IN
           Fitting(new) /\ new.type = nd.type /\ Differs(new, nd, b, x)
BY WriteExisting DEF Fitting

LEMMA CloneFits ==
  ASSUME NEW nd, Fitting(nd)
  PROVE  LET new == DeepClone(nd) IN
           Fitting(new) /\ new.type = nd.type /\ Agrees(new, nd)
BY DeepCloneKeeps DEF Fitting

(* A node shrinks with the removal that leaves it exactly what the smaller *)
(* type holds, never with fewer.                                           *)
LEMMA DeleteFits ==
  ASSUME NEW nd, Fitting(nd), NEW b \in Byte, LookupChild(nd, b) # None
  PROVE  LET left   == Removed(nd, b)
             shrink == ShouldShrink(nd.type, left.num_children)
             new    == IF shrink THEN Shrink(left) ELSE left
         IN  /\ SoundNode(left) /\ Differs(left, nd, b, None)
             /\ left.num_children = nd.num_children - 1
             /\ left.num_children # 1 =>
                  /\ Fitting(new)
                  /\ new.type = IF shrink THEN NextSmaller[nd.type] ELSE nd.type
                  /\ Agrees(new, left)
<1> DEFINE n == nd.num_children
           t == nd.type
<1>1. /\ SoundNode(nd) /\ Filled(nd) /\ t \in InnerType /\ n \in Nat /\ n <= UpperCapacity[t]
      /\ n >= 2 /\ ~ShouldShrink(t, n)
  BY SoundFacts DEF Fitting
<1>2. PICK left \in {Removed(nd, b)} : TRUE  OBVIOUS
<1>3. /\ SoundNode(left) /\ left.type = t /\ left.num_children = n - 1
      /\ Differs(left, nd, b, None) /\ Filled(left)
  BY <1>1, <1>2, RemovedKeeps
<1> HIDE DEF n, t
<1>4. CASE left.num_children # 1 /\ ~ShouldShrink(t, n - 1)
  <2>1. n - 1 >= 2  BY <1>1, <1>3, <1>4
  <2>2. Fitting(left)  BY <2>1, <1>3, <1>4 DEF Fitting
  <2>3. Agrees(left, left)  BY DEF Agrees
  <2> QED  BY <2>2, <2>3, <1>2, <1>3, <1>4 DEF n, t
<1>5. CASE left.num_children # 1 /\ ShouldShrink(t, n - 1)
  <2>1. t # "Node4" /\ n - 1 <= UpperCapacity[NextSmaller[t]] /\ ~(n <= UpperCapacity[NextSmaller[t]])
    BY <1>1, <1>5 DEF ShouldShrink
  <2>2. NextSmaller[t] \in InnerType /\ UpperCapacity[NextSmaller[t]] \in Nat
    BY <2>1, <1>1, TypeOrder
  <2>3. n - 1 = UpperCapacity[NextSmaller[t]]  BY <1>1, <2>1, <2>2
  <2>4. PICK new \in {Shrink(left)} : TRUE  OBVIOUS
  <2>5. /\ SoundNode(new) /\ new.type = NextSmaller[t] /\ new.num_children = left.num_children
        /\ Agrees(new, left) /\ Filled(new)
    BY <1>3, <2>1, <2>3, <2>4, ShrinkKeeps
  <2>6. new.num_children >= 2  BY <1>1, <1>3, <1>5, <2>5
  <2>7. ~ShouldShrink(new.type, new.num_children)
    <3>1. CASE new.type = "Node4"  BY <3>1 DEF ShouldShrink
    <3>2. CASE new.type # "Node4"
      <4>1. /\ NextSmaller[new.type] \in InnerType
            /\ UpperCapacity[NextSmaller[new.type]] < UpperCapacity[new.type]
        BY <3>2, <2>2, <2>5, TypeOrder
      <4>2. UpperCapacity[NextSmaller[new.type]] \in Nat  BY <4>1, TypeOrder
      <4>3. new.num_children = UpperCapacity[new.type]  BY <1>3, <2>3, <2>5
      <4> QED  BY <4>1, <4>2, <4>3, <2>2, <2>5 DEF ShouldShrink
    <3> QED  BY <3>1, <3>2
  <2>8. Fitting(new)  BY <2>5, <2>6, <2>7 DEF Fitting
  <2> QED  BY <2>4, <2>5, <2>8, <1>2, <1>3, <1>5 DEF n, t
<1>6. CASE left.num_children = 1  BY <1>2, <1>3, <1>6 DEF n
<1> QED  BY <1>4, <1>5, <1>6

LEMMA CreateFits ==
  ASSUME NEW b \in Byte, NEW c \in Byte, b # c, NEW x \in Child, NEW y \in Child
  PROVE  LET new == NewNode4(b, c, x, y) IN
           /\ Fitting(new) /\ new.type = "Node4"
           /\ \A e \in Byte : LookupChild(new, e) = IF e = b THEN x ELSE IF e = c THEN y ELSE None
<1>1. PICK new \in {NewNode4(b, c, x, y)} : TRUE  OBVIOUS
<1>2. /\ SoundCompressed(new) /\ new.type = "Node4" /\ new.num_children = 2
      /\ \A e \in Byte : LookupChild(new, e) = IF e = b THEN x ELSE IF e = c THEN y ELSE None
  BY <1>1, NewNode4Facts
<1>3. ~ShouldShrink("Node4", 2)  BY DEF ShouldShrink
<1>4. Fitting(new)  BY <1>2, <1>3 DEF Fitting, SoundNode, Filled
<1> QED  BY <1>1, <1>2, <1>4
-----------------------------------------------------------------------------
(* The ends of a list. *)
LEMMA ListEnds ==
  ASSUME NEW nd, NEW pairs, Lists(pairs, nd), nd.num_children \in Nat, nd.num_children >= 1
  PROVE  LET n == nd.num_children IN
           /\ Min(BytesOf(nd)) = pairs[1][1] /\ Max(BytesOf(nd)) = pairs[n][1]
           /\ pairs[1] = <<pairs[1][1], LookupChild(nd, pairs[1][1])>>
           /\ pairs[n] = <<pairs[n][1], LookupChild(nd, pairs[n][1])>>
           /\ pairs[1][1] \in BytesOf(nd)
           /\ \A b \in BytesOf(nd) : pairs[1][1] <= b
<1> DEFINE n == nd.num_children
           S == BytesOf(nd)
<1>1. /\ pairs \in [1 .. n -> Byte \X Child]
      /\ \A i \in 1 .. n : pairs[i][2] = LookupChild(nd, pairs[i][1])
      /\ \A i, j \in 1 .. n : i < j => pairs[i][1] < pairs[j][1]
      /\ \A b \in S : \E i \in 1 .. n : pairs[i][1] = b
  BY DEF Lists
<1>2. /\ {pairs[i][1] : i \in DOMAIN pairs} = S
      /\ DOMAIN pairs = 1 .. n
      /\ \A i \in 1 .. n : pairs[i][1] \in Byte
  BY ListFacts
<1>3. n \in Nat /\ 1 \in 1 .. n /\ n \in 1 .. n  OBVIOUS
<1> HIDE DEF n, S
<1>4. \A i \in 1 .. n : /\ pairs[i] = <<pairs[i][1], LookupChild(nd, pairs[i][1])>>
                        /\ pairs[i][1] \in Nat /\ pairs[i][1] \in S
  BY <1>1, <1>2, ByteAssumption
<1>5. \A i \in 1 .. n : pairs[1][1] <= pairs[i][1] /\ pairs[i][1] <= pairs[n][1]
  <2>1. TAKE i \in 1 .. n
  <2>2. (i = 1 \/ 1 < i) /\ (i = n \/ i < n)  BY <1>3
  <2>3. (i = 1 \/ pairs[1][1] < pairs[i][1]) /\ (i = n \/ pairs[i][1] < pairs[n][1])
    BY <2>2, <1>1, <1>3
  <2>4. pairs[1][1] \in Nat /\ pairs[i][1] \in Nat /\ pairs[n][1] \in Nat  BY <1>3, <1>4
  <2> QED  BY <2>3, <2>4
<1>6. \A b \in S : b \in Nat /\ pairs[1][1] <= b /\ b <= pairs[n][1]  BY <1>1, <1>4, <1>5
<1>7. Min(S) = pairs[1][1]
  <2>1. PICK l \in {pairs[1][1]} : l \in Nat /\ l \in S /\ \A b \in S : b \in Nat /\ l <= b
    BY <1>3, <1>4, <1>6
  <2> QED  BY <2>1, MinUnique
<1>8. Max(S) = pairs[n][1]
  <2>1. PICK l \in {pairs[n][1]} : l \in Nat /\ l \in S /\ \A b \in S : b \in Nat /\ b <= l
    BY <1>3, <1>4, <1>6
  <2> QED  BY <2>1, MaxUnique
<1> QED  BY <1>3, <1>4, <1>6, <1>7, <1>8 DEF n, S

LEMMA IterationEnds ==
  ASSUME NEW nd, SoundNode(nd), nd.num_children >= 1
  PROVE  MinChild(nd) = Iter(nd)[1] /\ MaxChild(nd) = Iter(nd)[nd.num_children]
<1> DEFINE n == nd.num_children
           pairs == Iter(nd)
<1>1. n \in Nat /\ Lists(pairs, nd) /\ 1 \in 1 .. n /\ n \in 1 .. n  BY SoundFacts
<1>2. /\ Min(BytesOf(nd)) = pairs[1][1] /\ Max(BytesOf(nd)) = pairs[n][1]
      /\ pairs[1] = <<pairs[1][1], LookupChild(nd, pairs[1][1])>>
      /\ pairs[n] = <<pairs[n][1], LookupChild(nd, pairs[n][1])>>
  BY <1>1, ListEnds
<1>3. CASE SoundCompressed(nd) /\ IsCompressed(nd) /\ ~IsIndexed(nd) /\ ~IsDirect(nd)
  <2>1. /\ MinChild(nd) = MinCompressed(nd) /\ MaxChild(nd) = MaxCompressed(nd)
        /\ pairs = IterCompressed(nd)
    BY <1>3 DEF MinChild, MaxChild, Iter
  <2>2. pairs[1] = <<nd.keys[1 - 1], nd.child_pointers[1 - 1]>>
        /\ pairs[n] = <<nd.keys[n - 1], nd.child_pointers[n - 1]>>
    BY <2>1, <1>1 DEF IterCompressed
  <2>3. 1 - 1 = 0  OBVIOUS
  <2> QED  BY <2>1, <2>2, <2>3 DEF MinCompressed, MaxCompressed
<1>4. CASE SoundIndexed(nd) /\ ~IsCompressed(nd) /\ IsIndexed(nd) /\ ~IsDirect(nd)
  <2>1. MinChild(nd) = MinIndexed(nd) /\ MaxChild(nd) = MaxIndexed(nd)
    BY <1>4 DEF MinChild, MaxChild
  <2>2. OccupiedIndices(nd) = BytesOf(nd)  BY <1>4, IndexedLookup
  <2>3. \A b : LookupIndexed(nd, b) = LookupChild(nd, b)  BY <1>4 DEF LookupChild
  <2> HIDE DEF n, pairs
  <2> QED  BY <2>1, <2>2, <2>3, <1>2 DEF MinIndexed, MaxIndexed, n, pairs
<1>5. CASE SoundDirect(nd) /\ ~IsCompressed(nd) /\ ~IsIndexed(nd) /\ IsDirect(nd)
  <2>1. MinChild(nd) = MinDirect(nd) /\ MaxChild(nd) = MaxDirect(nd)
    BY <1>5 DEF MinChild, MaxChild
  <2>2. OccupiedPointers(nd) = BytesOf(nd)  BY <1>5, DirectLookup
  <2>3. \A b : LookupDirect(nd, b) = LookupChild(nd, b)  BY <1>5 DEF LookupChild
  <2> HIDE DEF n, pairs
  <2> QED  BY <2>1, <2>2, <2>3, <1>2 DEF MinDirect, MaxDirect, n, pairs
<1> QED  BY <1>3, <1>4, <1>5, SoundCases
-----------------------------------------------------------------------------
(* The invariant is inductive. *)

LEMMA LayoutInit == Init => LayoutInvariant
<1>1. SUFFICES ASSUME Init PROVE Fitting(node)  BY DEF LayoutInvariant
<1>2. PICK b \in Byte, c \in Byte, x \in Child, y \in Child : b < c /\ node = NewNode4(b, c, x, y)
  BY <1>1 DEF Init
<1>3. b # c
  <2>1. b \in Nat /\ c \in Nat  BY ByteAssumption
  <2> QED  BY <2>1, <1>2
<1> QED  BY <1>2, <1>3, CreateFits

LEMMA LayoutStep == LayoutInvariant /\ [Next]_layoutVars => LayoutInvariant'
<1>1. SUFFICES ASSUME LayoutInvariant, [Next]_layoutVars, node' # None PROVE Fitting(node)'
  BY DEF LayoutInvariant
<1>2. ASSUME NEW b \in Byte, NEW x \in Child, InsertChild(b, x) PROVE Fitting(node)'
  <2>1. Fitting(node) /\ LookupChild(node, b) = None  BY <1>1, <1>2 DEF InsertChild, Absent, LayoutInvariant
  <2>2. node' = IF node.num_children >= UpperCapacity[node.type]
                THEN Write(Grow(node), b, x) ELSE Write(node, b, x)
    BY <1>2 DEF InsertChild
  <2>3. Fitting(node')  BY <2>1, <2>2, InsertFits
  <2> QED  BY <2>3
<1>3. ASSUME NEW b \in Byte, NEW x \in Child, ReplaceChild(b, x) PROVE Fitting(node)'
  <2>1. Fitting(node) /\ LookupChild(node, b) # None  BY <1>1, <1>3 DEF ReplaceChild, Present, LayoutInvariant
  <2> QED  BY <2>1, <1>3, ReplaceFits DEF ReplaceChild
<1>4. ASSUME NEW b \in Byte, NEW c \in Byte, NEW x \in Child, NEW y \in Child, Create(b, c, x, y)
      PROVE  Fitting(node)'
  BY <1>4, CreateFits DEF Create
<1>5. ASSUME NEW b \in Byte, DeleteChild(b) PROVE Fitting(node)'
  <2>1. Fitting(node) /\ LookupChild(node, b) # None  BY <1>1, <1>5 DEF DeleteChild, Present, LayoutInvariant
  <2>2. PICK left \in {Removed(node, b)} : TRUE  OBVIOUS
  <2>3. node' = IF left.num_children = 1 THEN None
                ELSE IF ShouldShrink(node.type, left.num_children) THEN Shrink(left) ELSE left
    BY <1>5, <2>2 DEF DeleteChild
  <2>4. left.num_children # 1  BY <1>1, <2>3
  <2> QED  BY <2>1, <2>2, <2>3, <2>4, DeleteFits
<1>6. CASE Clone
  <2>1. Fitting(node)  BY <1>1, <1>6 DEF Clone, LayoutInvariant
  <2> QED  BY <2>1, <1>6, CloneFits DEF Clone
<1>7. CASE UNCHANGED layoutVars
  <2>1. node' = node /\ Fitting(node)  BY <1>1, <1>7 DEF layoutVars, LayoutInvariant
  <2> QED  BY <2>1
<1> QED  BY <1>1, <1>2, <1>3, <1>4, <1>5, <1>6, <1>7 DEF Next

LEMMA LayoutHolds == Spec => []LayoutInvariant
BY LayoutInit, LayoutStep, PTL DEF Spec

(* Whatever was written, removed, grown, shrunk or cloned, the unchecked   *)
(* accesses of the four layouts are sound: the key bytes of a compressed   *)
(* node are sorted, the indices of a Node48 lead one to one to initialized *)
(* children, and the node has the layout that fits its children.           *)
THEOREM LayoutSound == Spec => []LayoutIsSound
<1>1. LayoutInvariant => LayoutIsSound  BY DEF LayoutInvariant, LayoutIsSound, Fitting
<1> QED  BY <1>1, LayoutHolds, PTL

(* The vector search of a Node16 never reads a key byte that was never     *)
(* written.                                                                *)
THEOREM Node16Filled == Spec => []Node16KeysAreFilled
<1>1. LayoutInvariant => Node16KeysAreFilled
  BY DEF LayoutInvariant, Node16KeysAreFilled, Fitting, Filled
<1> QED  BY <1>1, LayoutHolds, PTL
-----------------------------------------------------------------------------
(* The partial function of a node, and what the operations make of it.     *)
ChildrenOf(nd) == [b \in BytesOf(nd) |-> LookupChild(nd, b)]

LEMMA ChildrenSame ==
  ASSUME NEW new, NEW nd, Agrees(new, nd)
  PROVE  ChildrenOf(new) = ChildrenOf(nd)
<1>1. \A b \in Byte : LookupChild(new, b) = LookupChild(nd, b)  BY DEF Agrees
<1>2. BytesOf(new) = BytesOf(nd)  BY <1>1 DEF BytesOf
<1>3. \A b \in BytesOf(nd) : LookupChild(new, b) = LookupChild(nd, b)  BY <1>1 DEF BytesOf
<1> QED  BY <1>2, <1>3 DEF ChildrenOf

LEMMA ChildrenWith ==
  ASSUME NEW new, NEW nd, NEW b \in Byte, NEW x \in Child, Differs(new, nd, b, x)
  PROVE  ChildrenOf(new) = With(ChildrenOf(nd), b, x)
<1>1. \A c \in Byte : LookupChild(new, c) = IF c = b THEN x ELSE LookupChild(nd, c)  BY DEF Differs
<1>2. BytesOf(new) = BytesOf(nd) \cup {b}  BY <1>1, ChildAssumption DEF BytesOf
<1>3. \A c \in BytesOf(nd) \cup {b} :
        LookupChild(new, c) = IF c = b THEN x ELSE ChildrenOf(nd)[c]
  BY <1>1 DEF BytesOf, ChildrenOf
<1>4. DOMAIN ChildrenOf(nd) = BytesOf(nd)  BY DEF ChildrenOf
<1>5. With(ChildrenOf(nd), b, x) =
        [c \in BytesOf(nd) \cup {b} |-> IF c = b THEN x ELSE ChildrenOf(nd)[c]]
  BY <1>4 DEF With
<1>6. ChildrenOf(new) = [c \in BytesOf(nd) \cup {b} |-> LookupChild(new, c)]
  BY <1>2 DEF ChildrenOf
<1> QED  BY <1>3, <1>5, <1>6

LEMMA ChildrenWithout ==
  ASSUME NEW new, NEW nd, NEW b \in Byte, Differs(new, nd, b, None)
  PROVE  ChildrenOf(new) = Without(ChildrenOf(nd), b)
<1>1. \A c \in Byte : LookupChild(new, c) = IF c = b THEN None ELSE LookupChild(nd, c)  BY DEF Differs
<1>2. BytesOf(new) = BytesOf(nd) \ {b}  BY <1>1 DEF BytesOf
<1>3. \A c \in BytesOf(nd) \ {b} : LookupChild(new, c) = ChildrenOf(nd)[c]
  BY <1>1 DEF BytesOf, ChildrenOf
<1>4. DOMAIN ChildrenOf(nd) = BytesOf(nd)  BY DEF ChildrenOf
<1>5. Without(ChildrenOf(nd), b) = [c \in BytesOf(nd) \ {b} |-> ChildrenOf(nd)[c]]
  BY <1>4 DEF Without
<1>6. ChildrenOf(new) = [c \in BytesOf(nd) \ {b} |-> LookupChild(new, c)]
  BY <1>2 DEF ChildrenOf
<1> QED  BY <1>3, <1>5, <1>6

LEMMA ChildrenOfNode == node # None => Children = ChildrenOf(node)
BY DEF Children, ChildrenOf, BytesOf

(* Iteration visits every child once, in the order of the key bytes, and   *)
(* min and max are its ends.                                               *)
THEOREM IterationOrdered == Spec => []IterationIsOrdered
<1>1. LayoutInvariant => IterationIsOrdered
  <2>1. SUFFICES ASSUME Fitting(node), node # None
        PROVE /\ Len(Iter(node)) = Cardinality(DOMAIN Children)
              /\ \A i \in 1 .. Len(Iter(node)) : Iter(node)[i][2] = Children[Iter(node)[i][1]]
              /\ \A i, j \in 1 .. Len(Iter(node)) : i < j => Iter(node)[i][1] < Iter(node)[j][1]
              /\ MinChild(node) = Iter(node)[1]
              /\ MaxChild(node) = Last(Iter(node))
    BY DEF LayoutInvariant, IterationIsOrdered
  <2> DEFINE n == node.num_children
             pairs == Iter(node)
  <2>2. /\ SoundNode(node) /\ n \in Nat /\ n >= 2 /\ n >= 1 /\ Lists(pairs, node)
        /\ n = Cardinality(BytesOf(node))
    BY <2>1, SoundFacts DEF Fitting
  <2>3. Children = ChildrenOf(node) /\ DOMAIN Children = BytesOf(node)
    BY <2>1, ChildrenOfNode DEF ChildrenOf
  <2>4. Len(pairs) = n /\ {pairs[i][1] : i \in DOMAIN pairs} = BytesOf(node) /\ DOMAIN pairs = 1 .. n
    BY <2>2, ListFacts
  <2>5. /\ \A i \in 1 .. n : pairs[i][2] = LookupChild(node, pairs[i][1])
        /\ \A i, j \in 1 .. n : i < j => pairs[i][1] < pairs[j][1]
    BY <2>2 DEF Lists
  <2>6. \A i \in 1 .. n : pairs[i][2] = Children[pairs[i][1]]
    BY <2>3, <2>4, <2>5 DEF ChildrenOf
  <2>7. MinChild(node) = pairs[1] /\ MaxChild(node) = pairs[n]  BY <2>2, IterationEnds
  <2>8. Last(pairs) = pairs[n]  BY <2>4 DEF Last
  <2> HIDE DEF n, pairs
  <2> QED  BY <2>2, <2>3, <2>4, <2>5, <2>6, <2>7, <2>8 DEF n, pairs
<1> QED  BY <1>1, LayoutHolds, PTL
-----------------------------------------------------------------------------
(* The layouts implement NodeSpec.                                         *)

LEMMA CreateChildren ==
  ASSUME NEW b \in Byte, NEW c \in Byte, b # c, NEW x \in Child, NEW y \in Child
  PROVE  ChildrenOf(NewNode4(b, c, x, y)) = [e \in {b, c} |-> IF e = b THEN x ELSE y]
<1>1. PICK new \in {NewNode4(b, c, x, y)} : TRUE  OBVIOUS
<1>2. \A e \in Byte : LookupChild(new, e) = IF e = b THEN x ELSE IF e = c THEN y ELSE None
  BY <1>1, CreateFits
<1>3. BytesOf(new) = {b, c}  BY <1>2, ChildAssumption DEF BytesOf
<1>4. \A e \in {b, c} : LookupChild(new, e) = IF e = b THEN x ELSE y  BY <1>2
<1> QED  BY <1>1, <1>3, <1>4 DEF ChildrenOf

LEMMA AbstractInit == Init => Abstract!Init
<1>1. SUFFICES ASSUME Init PROVE Abstract!Init  OBVIOUS
<1>2. PICK b \in Byte, c \in Byte, x \in Child, y \in Child : b < c /\ node = NewNode4(b, c, x, y)
  BY <1>1 DEF Init
<1>3. b # c
  <2>1. b \in Nat /\ c \in Nat  BY ByteAssumption
  <2> QED  BY <2>1, <1>2
<1>4. Fitting(node) /\ node.type = "Node4"  BY <1>2, <1>3, CreateFits
<1>5. node # None  BY <1>4, SoundFacts DEF Fitting
<1>6. Children = [e \in {b, c} |-> IF e = b THEN x ELSE y]
  <2>1. ChildrenOf(NewNode4(b, c, x, y)) = [e \in {b, c} |-> IF e = b THEN x ELSE y]
    BY <1>3, CreateChildren
  <2>2. Children = ChildrenOf(NewNode4(b, c, x, y))  BY <1>2, <1>5, ChildrenOfNode
  <2> QED  BY <2>1, <2>2
<1>7. out = None  BY <1>1 DEF Init
<1> QED  BY <1>2, <1>4, <1>5, <1>6, <1>7 DEF Abstract!Init

(* What the abstract specification sees of a node. *)
LEMMA ViewFacts ==
  ASSUME NEW nd, SoundNode(nd)
  PROVE  /\ DOMAIN ChildrenOf(nd) = BytesOf(nd)
         /\ Cardinality(DOMAIN ChildrenOf(nd)) = nd.num_children
         /\ \A b \in BytesOf(nd) : ChildrenOf(nd)[b] = LookupChild(nd, b)
BY SoundFacts DEF ChildrenOf

LEMMA SameCount == Abstract!NumChildren(Abstract!View) = Cardinality(DOMAIN Children)
<1>1. \A S : Abstract!Cardinality(S) = Cardinality(S)
  BY DEF Abstract!Cardinality, Cardinality
<1>2. Abstract!View.children = Children  BY DEF Abstract!View, Abstract!Inner
<1> QED  BY <1>1, <1>2 DEF Abstract!NumChildren

LEMMA AbstractInsert ==
  ASSUME LayoutInvariant, NEW b \in Byte, NEW x \in Child, InsertChild(b, x)
  PROVE  Abstract!InsertChild(b, x)
<1>1. /\ node # None /\ Fitting(node) /\ LookupChild(node, b) = None /\ UNCHANGED out
      /\ node' = IF node.num_children >= UpperCapacity[node.type]
                 THEN Write(Grow(node), b, x) ELSE Write(node, b, x)
  BY DEF InsertChild, Absent, LayoutInvariant
<1>2. PICK new \in {node'} : TRUE  OBVIOUS
<1>3. /\ Fitting(new) /\ Differs(new, node, b, x)
      /\ new.type = IF node.num_children >= UpperCapacity[node.type] THEN NextLarger[node.type]
                    ELSE node.type
  BY <1>1, <1>2, InsertFits
<1>4. new # None  BY <1>3, SoundFacts DEF Fitting
<1>5. Children = ChildrenOf(node) /\ Children' = ChildrenOf(new)
  <2>1. (node # None => Children = ChildrenOf(node))'  BY ChildrenOfNode, PTL
  <2> QED  BY <1>1, <1>2, <1>4, <2>1, ChildrenOfNode DEF ChildrenOf, BytesOf
<1>6. Children' = With(Children, b, x)  BY <1>3, <1>5, ChildrenWith
<1>7. Cardinality(DOMAIN Children) = node.num_children /\ b \notin DOMAIN Children
  BY <1>1, <1>5, ViewFacts DEF Fitting, BytesOf
<1>8. Abstract!IsFull(node.type, Abstract!View) <=> node.num_children >= UpperCapacity[node.type]
  <2>1. Abstract!NumChildren(Abstract!View) = Cardinality(DOMAIN Children)  BY SameCount
  <2> QED  BY <2>1, <1>7 DEF Abstract!IsFull
<1>9. Abstract!WriteChild(Abstract!View, b, x).children = With(Children, b, x)
  BY DEF Abstract!WriteChild, WriteChild, Abstract!View, Abstract!Inner, Inner, Abstract!With, With
<1>10. node.type # None
  <2>1. node.type \in InnerType  BY <1>1, SoundFacts DEF Fitting
  <2> QED  BY <2>1, NoneAssumption
<1>11. (IF node = None THEN None ELSE node.type) = node.type
       /\ (IF node' = None THEN None ELSE node'.type) = new.type
  BY <1>1, <1>2, <1>4
<1>12. Abstract!NextLarger = NextLarger  BY DEF Abstract!NextLarger, NextLarger
<1> QED
  BY <1>1, <1>3, <1>6, <1>7, <1>8, <1>9, <1>10, <1>11, <1>12 DEF Abstract!InsertChild

LEMMA AbstractReplace ==
  ASSUME LayoutInvariant, NEW b \in Byte, NEW x \in Child, ReplaceChild(b, x)
  PROVE  Abstract!ReplaceChild(b, x)
<1>1. /\ node # None /\ Fitting(node) /\ LookupChild(node, b) # None /\ UNCHANGED out
      /\ node' = Write(node, b, x)
  BY DEF ReplaceChild, Present, LayoutInvariant
<1>2. PICK new \in {node'} : TRUE  OBVIOUS
<1>3. Fitting(new) /\ Differs(new, node, b, x) /\ new.type = node.type
  BY <1>1, <1>2, ReplaceFits
<1>4. new # None  BY <1>3, SoundFacts DEF Fitting
<1>5. Children = ChildrenOf(node) /\ Children' = ChildrenOf(new)
  <2>1. (node # None => Children = ChildrenOf(node))'  BY ChildrenOfNode, PTL
  <2> QED  BY <1>1, <1>2, <1>4, <2>1, ChildrenOfNode DEF ChildrenOf, BytesOf
<1>6. Children' = With(Children, b, x)  BY <1>3, <1>5, ChildrenWith
<1>7. b \in DOMAIN Children  BY <1>1, <1>5, ViewFacts DEF Fitting, BytesOf
<1>9. Abstract!WriteChild(Abstract!View, b, x).children = With(Children, b, x)
  BY DEF Abstract!WriteChild, WriteChild, Abstract!View, Abstract!Inner, Inner, Abstract!With, With
<1>10. node.type # None
  <2>1. node.type \in InnerType  BY <1>1, SoundFacts DEF Fitting
  <2> QED  BY <2>1, NoneAssumption
<1>11. (IF node = None THEN None ELSE node.type) = node.type
       /\ (IF node' = None THEN None ELSE node'.type) = node.type
  BY <1>1, <1>2, <1>3, <1>4
<1> QED
  BY <1>1, <1>6, <1>7, <1>9, <1>10, <1>11 DEF Abstract!ReplaceChild

LEMMA AbstractCreate ==
  ASSUME NEW b \in Byte, NEW c \in Byte, NEW x \in Child, NEW y \in Child, Create(b, c, x, y)
  PROVE  Abstract!Create(b, c, x, y)
<1>1. node = None /\ b # c /\ node' = NewNode4(b, c, x, y) /\ UNCHANGED out  BY DEF Create
<1>2. PICK new \in {node'} : TRUE  OBVIOUS
<1>3. Fitting(new) /\ new.type = "Node4"  BY <1>1, <1>2, CreateFits
<1>4. new # None  BY <1>3, SoundFacts DEF Fitting
<1>5. Children' = ChildrenOf(new)
  <2>1. (node # None => Children = ChildrenOf(node))'  BY ChildrenOfNode, PTL
  <2> QED  BY <1>2, <1>4, <2>1 DEF ChildrenOf, BytesOf
<1>6. Children' = [e \in {b, c} |-> IF e = b THEN x ELSE y]  BY <1>1, <1>2, <1>5, CreateChildren
<1> QED  BY <1>1, <1>2, <1>3, <1>4, <1>6 DEF Abstract!Create

LEMMA AbstractClone ==
  ASSUME LayoutInvariant, Clone
  PROVE  UNCHANGED Abstract!specVars
<1>1. node # None /\ Fitting(node) /\ node' = DeepClone(node) /\ UNCHANGED out
  BY DEF Clone, LayoutInvariant
<1>2. PICK new \in {node'} : TRUE  OBVIOUS
<1>3. Fitting(new) /\ Agrees(new, node) /\ new.type = node.type  BY <1>1, <1>2, CloneFits
<1>4. new # None  BY <1>3, SoundFacts DEF Fitting
<1>5. Children = ChildrenOf(node) /\ Children' = ChildrenOf(new)
  <2>1. (node # None => Children = ChildrenOf(node))'  BY ChildrenOfNode, PTL
  <2> QED  BY <1>1, <1>2, <1>4, <2>1, ChildrenOfNode DEF ChildrenOf, BytesOf
<1>6. Children' = Children  BY <1>3, <1>5, ChildrenSame
<1> QED  BY <1>1, <1>2, <1>3, <1>4, <1>6 DEF Abstract!specVars

(* The only child left, as the two specifications name it.                 *)
LEMMA OnlyChild ==
  ASSUME NEW left, SoundNode(left), left.num_children = 1, NEW view, view.children = ChildrenOf(left)
  PROVE  Iter(left)[1] = <<Abstract!MinByte(view), view.children[Abstract!MinByte(view)]>>
<1> DEFINE pairs == Iter(left)
           f == pairs[1][1]
<1>1. Lists(pairs, left) /\ left.num_children \in Nat /\ left.num_children >= 1
  BY SoundFacts
<1>2. /\ pairs[1] = <<f, LookupChild(left, f)>> /\ f \in BytesOf(left)
      /\ \A b \in BytesOf(left) : f <= b
  BY <1>1, ListEnds
<1>3. DOMAIN view.children = BytesOf(left)  BY ViewFacts
<1>4. \A b \in BytesOf(left) : b \in Nat  BY BytesOfIsFinite
<1> HIDE DEF f
<1>5. \A b \in BytesOf(left) : (\A c \in BytesOf(left) : b <= c) => b = f
  BY <1>2, <1>4
<1>6. Abstract!MinByte(view) = f
  <2>1. \E b \in BytesOf(left) : \A c \in BytesOf(left) : b <= c  BY <1>2
  <2>2. PICK B \in {BytesOf(left)} : DOMAIN view.children = B  BY <1>3
  <2>3. Abstract!MinByte(view) = CHOOSE b \in B : \A c \in B : b <= c
    BY <2>2 DEF Abstract!MinByte
  <2> QED  BY <1>5, <2>1, <2>2, <2>3
<1>7. view.children[f] = LookupChild(left, f)  BY <1>2, ViewFacts
<1> QED  BY <1>2, <1>6, <1>7

LEMMA AbstractDelete ==
  ASSUME LayoutInvariant, NEW b \in Byte, DeleteChild(b)
  PROVE  Abstract!DeleteChild(b)
<1>1. node # None /\ Fitting(node) /\ LookupChild(node, b) # None
  BY DEF DeleteChild, Present, LayoutInvariant
<1>2. PICK left \in {Removed(node, b)} : TRUE  OBVIOUS
<1>3. /\ out' = <<LookupChild(node, b), IF left.num_children = 1 THEN Iter(left)[1] ELSE None>>
      /\ node' = IF left.num_children = 1 THEN None
                 ELSE IF ShouldShrink(node.type, left.num_children) THEN Shrink(left)
                 ELSE left
  BY <1>2 DEF DeleteChild
<1>4. SoundNode(left) /\ Differs(left, node, b, None)  BY <1>1, <1>2, DeleteFits
<1>5. Children = ChildrenOf(node)  BY <1>1, ChildrenOfNode
<1>6. ChildrenOf(left) = Without(Children, b)  BY <1>4, <1>5, ChildrenWithout
<1>7. PICK view \in {Abstract!RemoveChild(Abstract!View, b)} : view.children = ChildrenOf(left)
  <2>1. Abstract!RemoveChild(Abstract!View, b).children = Without(Children, b)
    BY DEF Abstract!RemoveChild, Abstract!View, Abstract!Inner, Abstract!Without, Without
  <2> QED  BY <2>1, <1>6
<1>8. Abstract!NumChildren(view) = left.num_children
  <2>1. \A S : Abstract!Cardinality(S) = Cardinality(S)
    BY DEF Abstract!Cardinality, Cardinality
  <2>2. Cardinality(DOMAIN view.children) = left.num_children  BY <1>4, <1>7, ViewFacts
  <2> QED  BY <2>1, <2>2 DEF Abstract!NumChildren
<1>9. node.type # None
  <2>1. node.type \in InnerType  BY <1>1, SoundFacts DEF Fitting
  <2> QED  BY <2>1, NoneAssumption
<1>10. b \in DOMAIN Children /\ Children[b] = LookupChild(node, b)
  BY <1>1, <1>5, ViewFacts DEF Fitting, BytesOf
<1>11. (IF node = None THEN None ELSE node.type) = node.type  BY <1>1
<1>12. CASE left.num_children = 1
  <2>1. node' = None /\ out' = <<LookupChild(node, b), Iter(left)[1]>>  BY <1>3, <1>12
  <2>2. (IF node' = None THEN None ELSE node'.type) = None  BY <2>1
  <2>3. Children' = [c \in {} |-> None]  BY <2>1 DEF Children
  <2>4. Iter(left)[1] = <<Abstract!MinByte(view), view.children[Abstract!MinByte(view)]>>
    BY <1>4, <1>7, <1>12, OnlyChild
  <2>5. Abstract!Free  BY <2>2, <2>3 DEF Abstract!Free
  <2> QED  BY <1>7, <1>8, <1>9, <1>10, <1>11, <1>12, <2>1, <2>4, <2>5 DEF Abstract!DeleteChild
<1>13. CASE left.num_children # 1
  <2>1. PICK new \in {node'} :
          new = IF ShouldShrink(node.type, left.num_children) THEN Shrink(left) ELSE left
    BY <1>3, <1>13
  <2>2. /\ Fitting(new) /\ Agrees(new, left)
        /\ new.type = IF ShouldShrink(node.type, left.num_children) THEN NextSmaller[node.type]
                      ELSE node.type
    BY <1>1, <1>2, <1>13, <2>1, DeleteFits
  <2>3. new # None  BY <2>2, SoundFacts DEF Fitting
  <2>4. Children' = ChildrenOf(new)
    <3>1. (node # None => Children = ChildrenOf(node))'  BY ChildrenOfNode, PTL
    <3> QED  BY <2>1, <2>3, <3>1 DEF ChildrenOf, BytesOf
  <2>5. Children' = view.children  BY <1>7, <2>2, <2>4, ChildrenSame
  <2>6. (IF node' = None THEN None ELSE node'.type) = new.type  BY <2>1, <2>3
  <2>7. /\ \A t, n : Abstract!ShouldShrink(t, n) <=> ShouldShrink(t, n)
        /\ Abstract!NextSmaller = NextSmaller
    BY DEF Abstract!ShouldShrink, ShouldShrink, Abstract!NextSmaller, NextSmaller
  <2>8. out' = <<LookupChild(node, b), None>>  BY <1>3, <1>13
  <2> QED
    BY <1>7, <1>8, <1>9, <1>10, <1>11, <1>13, <2>2, <2>5, <2>6, <2>7, <2>8
       DEF Abstract!DeleteChild
<1> QED  BY <1>12, <1>13

LEMMA AbstractStep == LayoutInvariant /\ [Next]_layoutVars => [Abstract!Next]_(Abstract!specVars)
<1>1. SUFFICES ASSUME LayoutInvariant, [Next]_layoutVars
               PROVE  Abstract!Next \/ UNCHANGED Abstract!specVars
  OBVIOUS
<1>2. ASSUME NEW b \in Byte, NEW x \in Child, InsertChild(b, x) PROVE Abstract!Next
  BY <1>1, <1>2, AbstractInsert DEF Abstract!Next
<1>3. ASSUME NEW b \in Byte, NEW x \in Child, ReplaceChild(b, x) PROVE Abstract!Next
  BY <1>1, <1>3, AbstractReplace DEF Abstract!Next
<1>4. ASSUME NEW b \in Byte, NEW c \in Byte, NEW x \in Child, NEW y \in Child, Create(b, c, x, y)
      PROVE  Abstract!Next
  BY <1>4, AbstractCreate DEF Abstract!Next
<1>5. ASSUME NEW b \in Byte, DeleteChild(b) PROVE Abstract!Next
  <2>1. Abstract!DeleteChild(b)  BY <1>1, <1>5, AbstractDelete
  <2>2. PICK x \in Child : TRUE
    <3>1. LookupChild(node, b) \in Child
      BY <1>1, <1>5, SoundFacts DEF DeleteChild, Present, LayoutInvariant, Fitting
    <3> QED  BY <3>1
  <2> QED  BY <2>1, <2>2 DEF Abstract!Next
<1>6. CASE Clone  BY <1>1, <1>6, AbstractClone
<1>7. CASE UNCHANGED layoutVars
  BY <1>7 DEF layoutVars, Abstract!specVars, Children
<1> QED  BY <1>1, <1>2, <1>3, <1>4, <1>5, <1>6, <1>7 DEF Next

(* Every layout behaves as a partial function from bytes to children, of   *)
(* the type the tree expects: this is what lets the tree be proved over    *)
(* partial functions.                                                      *)
THEOREM ChildrenImplemented == Spec => ImplementsChildren
BY LayoutHolds, AbstractInit, AbstractStep, PTL DEF Spec, ImplementsChildren, Abstract!Spec
-----------------------------------------------------------------------------
(* The vector search of the keys: the mask leaves the keys in use.         *)
LEMMA VectorLookupIs ==
  ASSUME NEW nd, SoundNode(nd), Filled(nd), nd.type = "Node16", NEW b \in Byte
  PROVE  VectorLookup(nd, b) = IF KeyIndices(nd, b) = {} THEN None ELSE Min(KeyIndices(nd, b))
<1>1. SoundCompressed(nd)  BY DirectType, IndexedType DEF SoundNode
<1>2. Used(nd) \subseteq Slots("Node16") /\ \A i \in Slots("Node16") : i < nd.num_children <=> i \in Used(nd)
  BY <1>1, CompressedType
<1>3. Masked(nd, {i \in Slots("Node16") : nd.keys[i] = b}) = KeyIndices(nd, b)
  BY <1>2 DEF Masked, KeyIndices
<1> QED  BY <1>3 DEF VectorLookup

LEMMA VectorWritePointIs ==
  ASSUME NEW nd, SoundNode(nd), Filled(nd), nd.type = "Node16", NEW b \in Byte
  PROVE  VectorWritePoint(nd, b) = FindWritePoint(nd, b)
<1>1. SoundCompressed(nd)  BY DirectType, IndexedType DEF SoundNode
<1>2. /\ Used(nd) \subseteq Slots("Node16") /\ Slots("Node16") \subseteq Nat
      /\ \A i \in Slots("Node16") : i < nd.num_children <=> i \in Used(nd)
  BY <1>1, CompressedType
<1>3. /\ \A i \in Used(nd) : nd.keys[i] \in Nat
      /\ \A i, j \in Used(nd) : i < j => nd.keys[i] < nd.keys[j]
      /\ b \in Nat
  BY <1>1, ByteAssumption DEF SoundCompressed
<1> DEFINE above == {i \in Used(nd) : b < nd.keys[i]}
           ahead == {i \in Used(nd) : b <= nd.keys[i]}
           found == KeyIndices(nd, b)
<1>4. /\ above \in SUBSET Nat /\ ahead \in SUBSET Nat /\ found \in SUBSET Nat
      /\ found \subseteq ahead /\ above \subseteq ahead /\ ahead = above \cup found
  BY <1>2, <1>3 DEF KeyIndices
<1>5. Masked(nd, {i \in Slots("Node16") : b < nd.keys[i]}) = above  BY <1>2 DEF Masked
<1>6. CASE found # {}
  <2>1. PICK i \in {Min(found)} : TRUE  OBVIOUS
  <2>2. i \in found  BY <1>4, <1>6, <2>1, MinFacts
  <2>3. i \in Used(nd) /\ nd.keys[i] = b /\ i \in Slots("Node16")  BY <1>2, <2>2 DEF KeyIndices
  <2>4. \A j \in ahead : j \in Nat /\ i <= j  BY <1>2, <1>3, <2>3
  <2>5. Min(ahead) = i  BY <1>4, <2>2, <2>4, MinUnique
  <2>6. VectorLookup(nd, b) = i /\ i # None  BY <1>6, <2>1, <2>3, VectorLookupIs, LaneAssumption
  <2> QED  BY <1>4, <1>6, <2>3, <2>5, <2>6 DEF VectorWritePoint, FindWritePoint
<1>7. CASE found = {}
  <2>1. VectorLookup(nd, b) = None  BY <1>7, VectorLookupIs
  <2>2. above = ahead  BY <1>4, <1>7
  <2>3. ahead # {} => nd.keys[Min(ahead)] # b
    <3>1. ahead # {} => Min(ahead) \in ahead  BY <1>4, MinFacts
    <3> QED  BY <1>7, <3>1 DEF KeyIndices
  <2> QED  BY <1>5, <2>1, <2>2, <2>3 DEF VectorWritePoint, FindWritePoint
<1> QED  BY <1>6, <1>7
-----------------------------------------------------------------------------
(* A byte by its lane and its place in the lane.                           *)
LEMMA LaneOf ==
  ASSUME NEW m \in Byte
  PROVE  \E lane \in Lanes, r \in 0 .. LaneWidth - 1 : m = lane * LaneWidth + r
<1> DEFINE w == LaneWidth  c == Cardinality(Byte)
<1>1. w \in Nat /\ w > 0 /\ c % w = 0 /\ m \in 0 .. c - 1 /\ c \in Nat
  BY LaneAssumption, CapacityAssumption, FS_CardinalityType
<1> HIDE DEF w, c
<1>2. m = w * (m \div w) + (m % w) /\ m \div w \in Nat /\ m % w \in 0 .. w - 1  BY <1>1
<1>3. c = w * (c \div w) /\ c \div w \in Nat  BY <1>1
<1>4. m \div w < c \div w
  <2>1. PICK l \in Nat : l = m \div w  BY <1>2
  <2>2. PICK k \in Nat : k = c \div w  BY <1>3
  <2>3. w * l < w * k  BY <1>1, <1>2, <1>3, <2>1, <2>2
  <2>4. ~(k <= l)
    <3>1. k <= l => w * k <= w * l  BY <1>1
    <3> QED  BY <2>3, <3>1, <1>1
  <2> QED  BY <2>1, <2>2, <2>4
<1>5. m \div w \in Lanes  BY <1>2, <1>3, <1>4 DEF Lanes, w, c
<1>6. m = (m \div w) * w + (m % w)  BY <1>1, <1>2
<1> QED  BY <1>2, <1>5, <1>6 DEF w

LEMMA LaneFacts ==
  ASSUME NEW lane \in Lanes, NEW r \in 0 .. LaneWidth - 1
  PROVE  lane \in Nat /\ LaneWidth \in Nat \ {0} /\ lane * LaneWidth \in Nat
         /\ lane * LaneWidth + r \in Byte
         /\ (lane + 1) * LaneWidth = lane * LaneWidth + LaneWidth
<1> DEFINE w == LaneWidth  c == Cardinality(Byte)
<1>1. w \in Nat /\ w > 0 /\ c % w = 0 /\ c \in Nat /\ r \in 0 .. w - 1
  BY LaneAssumption, CapacityAssumption, FS_CardinalityType
<1>2. lane \in 0 .. c \div w - 1  BY DEF Lanes
<1>3. Byte = 0 .. c - 1  BY LaneAssumption
<1> HIDE DEF w, c
<1>4. c = w * (c \div w) /\ c \div w \in Nat  BY <1>1
<1>5. PICK k \in Nat : k = c \div w  BY <1>4
<1>6. lane \in Nat /\ lane + 1 <= k /\ c = w * k  BY <1>2, <1>4, <1>5
<1>7. w * (lane + 1) <= w * k  BY <1>1, <1>6
<1>8. w * (lane + 1) = lane * w + w /\ (lane + 1) * w = lane * w + w /\ lane * w \in Nat
  BY <1>1, <1>6
<1>9. lane * w + r \in 0 .. c - 1  BY <1>1, <1>6, <1>7, <1>8
<1> QED  BY <1>1, <1>3, <1>6, <1>8, <1>9 DEF w

(* The bytes of an earlier lane are smaller. *)
LEMMA LanesAreOrdered ==
  ASSUME NEW l \in Lanes, NEW m \in Lanes, l < m,
         NEW r \in 0 .. LaneWidth - 1, NEW s \in 0 .. LaneWidth - 1
  PROVE  l * LaneWidth + r < m * LaneWidth + s
<1> DEFINE w == LaneWidth
<1>1. w \in Nat /\ l \in Nat /\ m \in Nat /\ l * w \in Nat /\ m * w \in Nat /\ (l + 1) * w = l * w + w
  BY LaneFacts
<1>2. r \in 0 .. w - 1 /\ s \in 0 .. w - 1  OBVIOUS
<1> HIDE DEF w
<1>3. l + 1 <= m  BY <1>1
<1>4. (l + 1) * w <= m * w  BY <1>1, <1>3
<1>5. l * w + r < m * w + s  BY <1>1, <1>2, <1>4
<1> QED  BY <1>5 DEF w

(* The runs of ones, by what ends them. *)
LEMMA OnesAre ==
  ASSUME NEW vacant, NEW lane \in Lanes
  PROVE  /\ \A r \in 0 .. LaneWidth - 1 :
              (/\ lane * LaneWidth + r \notin vacant
               /\ \A i \in 0 .. r - 1 : lane * LaneWidth + i \in vacant)
                 => TrailingOnes(vacant, lane) = r
         /\ \A r \in 0 .. LaneWidth - 1 :
              (/\ (lane + 1) * LaneWidth - 1 - r \notin vacant
               /\ \A i \in 0 .. r - 1 : (lane + 1) * LaneWidth - 1 - i \in vacant)
                 => LeadingOnes(vacant, lane) = r
         /\ (\A i \in 0 .. LaneWidth - 1 : lane * LaneWidth + i \in vacant)
              => TrailingOnes(vacant, lane) = LaneWidth
<1> DEFINE w == LaneWidth
           T == {i \in 0 .. w : i < w => lane * w + i \notin vacant}
           L == {i \in 0 .. w : i < w => (lane + 1) * w - 1 - i \notin vacant}
<1>1. w \in Nat  BY LaneAssumption
<1>2. \A r \in 0 .. w - 1 :
        (lane * w + r \notin vacant /\ \A i \in 0 .. r - 1 : lane * w + i \in vacant) => Min(T) = r
  <2> SUFFICES ASSUME NEW r \in 0 .. w - 1, lane * w + r \notin vacant,
                      \A i \in 0 .. r - 1 : lane * w + i \in vacant
               PROVE  Min(T) = r
    OBVIOUS
  <2>1. r \in T /\ r \in Nat  BY <1>1
  <2>2. \A y \in T : y \in Nat /\ r <= y
    <3> SUFFICES ASSUME NEW y \in T, ~(r <= y) PROVE FALSE  BY <1>1
    <3>1. y \in 0 .. r - 1 /\ y < w  BY <1>1
    <3> QED  BY <3>1
  <2> QED  BY <2>1, <2>2, MinUnique
<1>3. \A r \in 0 .. w - 1 :
        ((lane + 1) * w - 1 - r \notin vacant /\ \A i \in 0 .. r - 1 : (lane + 1) * w - 1 - i \in vacant)
          => Min(L) = r
  <2> SUFFICES ASSUME NEW r \in 0 .. w - 1, (lane + 1) * w - 1 - r \notin vacant,
                      \A i \in 0 .. r - 1 : (lane + 1) * w - 1 - i \in vacant
               PROVE  Min(L) = r
    OBVIOUS
  <2>1. r \in L /\ r \in Nat  BY <1>1
  <2>2. \A y \in L : y \in Nat /\ r <= y
    <3> SUFFICES ASSUME NEW y \in L, ~(r <= y) PROVE FALSE  BY <1>1
    <3>1. y \in 0 .. r - 1 /\ y < w  BY <1>1
    <3> QED  BY <3>1
  <2> QED  BY <2>1, <2>2, MinUnique
<1>4. (\A i \in 0 .. w - 1 : lane * w + i \in vacant) => Min(T) = w
  <2> SUFFICES ASSUME \A i \in 0 .. w - 1 : lane * w + i \in vacant PROVE Min(T) = w  OBVIOUS
  <2>1. w \in T  BY <1>1
  <2>2. \A y \in T : y \in Nat /\ w <= y
    <3> SUFFICES ASSUME NEW y \in T, ~(w <= y) PROVE FALSE  BY <1>1
    <3>1. y \in 0 .. w - 1 /\ y < w  BY <1>1
    <3> QED  BY <3>1
  <2> QED  BY <1>1, <2>1, <2>2, MinUnique
<1>5. TrailingOnes(vacant, lane) = Min(T) /\ LeadingOnes(vacant, lane) = Min(L)
  BY DEF TrailingOnes, LeadingOnes
<1> QED  BY <1>2, <1>3, <1>4, <1>5

LEMMA FirstByteIs ==
  ASSUME NEW S, NEW vacant, S \subseteq Byte, vacant = Byte \ S, S # {}
  PROVE  FirstByte(vacant) = Min(S)
<1>0. Byte \subseteq Nat /\ LaneWidth \in Nat \ {0}  BY ByteAssumption, LaneAssumption
<1>1. PICK b \in Nat : b = Min(S) /\ b \in S /\ \A m \in S : b <= m  BY <1>0, MinFacts
<1>2. PICK lane \in Lanes, r \in 0 .. LaneWidth - 1 : b = lane * LaneWidth + r  BY <1>1, LaneOf
<1>3. lane \in Nat /\ lane * LaneWidth \in Nat  BY <1>2, LaneFacts
<1>4. \A c \in Byte : c < b => c \in vacant  BY <1>0, <1>1
<1>5. TrailingOnes(vacant, lane) = r
  <2>1. lane * LaneWidth + r \notin vacant  BY <1>1, <1>2
  <2>2. \A i \in 0 .. r - 1 : lane * LaneWidth + i \in vacant
    <3> SUFFICES ASSUME NEW i \in 0 .. r - 1 PROVE lane * LaneWidth + i \in vacant  OBVIOUS
    <3>1. i \in 0 .. LaneWidth - 1 /\ i < r  BY <1>0, <1>2
    <3>2. lane * LaneWidth + i \in Byte  BY <3>1, LaneFacts
    <3>3. lane * LaneWidth + i < b  BY <1>0, <1>2, <1>3, <3>1
    <3> QED  BY <1>4, <3>2, <3>3
  <2> QED  BY <2>1, <2>2, OnesAre
<1>6. lane \in Broken(vacant)  BY <1>0, <1>2, <1>5 DEF Broken
<1>7. \A l \in Broken(vacant) : l \in Nat /\ lane <= l
  <2> SUFFICES ASSUME NEW l \in Broken(vacant), ~(lane <= l) PROVE FALSE
    BY LaneFacts, <1>2 DEF Broken
  <2>1. l \in Lanes /\ TrailingOnes(vacant, l) < LaneWidth  BY DEF Broken
  <2>2. l \in Nat /\ l < lane  BY <1>2, <1>3, <2>1, LaneFacts
  <2>3. \A i \in 0 .. LaneWidth - 1 : l * LaneWidth + i \in vacant
    BY <1>2, <1>4, <2>1, <2>2, LaneFacts, LanesAreOrdered
  <2>4. TrailingOnes(vacant, l) = LaneWidth  BY <2>1, <2>3, OnesAre
  <2> QED  BY <1>0, <2>1, <2>4
<1>8. Min(Broken(vacant)) = lane /\ Broken(vacant) # {}  BY <1>3, <1>6, <1>7, MinUnique
<1> QED  BY <1>1, <1>2, <1>5, <1>8 DEF FirstByte

LEMMA LastByteIs ==
  ASSUME NEW S, NEW vacant, S \subseteq Byte, vacant = Byte \ S, S # {}
  PROVE  LastByte(vacant) = Max(S)
<1>0. Byte \subseteq Nat /\ LaneWidth \in Nat \ {0} /\ IsFiniteSet(S)
  BY ByteAssumption, LaneAssumption, CapacityAssumption, FS_Subset
<1>1. PICK b \in Nat : b = Max(S) /\ b \in S /\ \A m \in S : m <= b  BY <1>0, MaxFacts
<1>2. PICK lane \in Lanes, s \in 0 .. LaneWidth - 1 : b = lane * LaneWidth + s  BY <1>1, LaneOf
<1> DEFINE r == LaneWidth - 1 - s
<1>3. /\ lane \in Nat /\ lane * LaneWidth \in Nat
      /\ (lane + 1) * LaneWidth = lane * LaneWidth + LaneWidth
  BY <1>2, LaneFacts
<1>4. \A c \in Byte : b < c => c \in vacant  BY <1>0, <1>1
<1>5. LeadingOnes(vacant, lane) = r
  <2>1. r \in 0 .. LaneWidth - 1 /\ (lane + 1) * LaneWidth - 1 - r = b  BY <1>0, <1>2, <1>3
  <2>2. (lane + 1) * LaneWidth - 1 - r \notin vacant  BY <1>1, <2>1
  <2>3. \A i \in 0 .. r - 1 : (lane + 1) * LaneWidth - 1 - i \in vacant
    <3> SUFFICES ASSUME NEW i \in 0 .. r - 1 PROVE (lane + 1) * LaneWidth - 1 - i \in vacant  OBVIOUS
    <3>1. LaneWidth - 1 - i \in 0 .. LaneWidth - 1 /\ LaneWidth - 1 - i > s  BY <1>0, <1>2
    <3>2. lane * LaneWidth + (LaneWidth - 1 - i) \in Byte  BY <3>1, LaneFacts
    <3>3. b < lane * LaneWidth + (LaneWidth - 1 - i)  BY <1>0, <1>2, <1>3, <3>1
    <3>4. (lane + 1) * LaneWidth - 1 - i = lane * LaneWidth + (LaneWidth - 1 - i)
      BY <1>0, <1>3
    <3> QED  BY <1>4, <3>2, <3>3, <3>4
  <2> HIDE DEF r
  <2> QED  BY <2>1, <2>2, <2>3, OnesAre
<1>6. lane \in Broken(vacant)
  <2>1. \E i \in 0 .. LaneWidth - 1 : lane * LaneWidth + i \notin vacant  BY <1>1, <1>2
  <2>2. TrailingOnes(vacant, lane) < LaneWidth
    <3> DEFINE T == {i \in 0 .. LaneWidth : i < LaneWidth => lane * LaneWidth + i \notin vacant}
    <3>1. PICK i \in 0 .. LaneWidth - 1 : lane * LaneWidth + i \notin vacant  BY <2>1
    <3>2. i \in T /\ T \in SUBSET Nat  BY <1>0, <3>1
    <3>3. Min(T) \in T /\ Min(T) <= i  BY <3>2, MinFacts
    <3>4. TrailingOnes(vacant, lane) = Min(T)  BY DEF TrailingOnes
    <3>5. Min(T) \in Nat  BY <3>2, <3>3
    <3>6. PICK t \in Nat : t = Min(T)  BY <3>5
    <3>7. t <= i /\ TrailingOnes(vacant, lane) = t  BY <3>3, <3>4, <3>6
    <3>8. t < LaneWidth  BY <1>0, <3>1, <3>7
    <3> QED  BY <3>7, <3>8
  <2> QED  BY <1>2, <2>2 DEF Broken
<1>7. \A l \in Broken(vacant) : l \in Nat /\ l <= lane
  <2> SUFFICES ASSUME NEW l \in Broken(vacant), ~(l <= lane) PROVE FALSE
    BY LaneFacts, <1>2 DEF Broken
  <2>1. l \in Lanes /\ TrailingOnes(vacant, l) < LaneWidth  BY DEF Broken
  <2>2. l \in Nat /\ lane < l  BY <1>2, <1>3, <2>1, LaneFacts
  <2>3. \A i \in 0 .. LaneWidth - 1 : l * LaneWidth + i \in vacant
    BY <1>2, <1>4, <2>1, <2>2, LaneFacts, LanesAreOrdered
  <2>4. TrailingOnes(vacant, l) = LaneWidth  BY <2>1, <2>3, OnesAre
  <2> QED  BY <1>0, <2>1, <2>4
<1>8. Max(Broken(vacant)) = lane /\ Broken(vacant) # {}  BY <1>3, <1>6, <1>7, MaxUnique
<1>9. (lane + 1) * LaneWidth - 1 - r = b  BY <1>0, <1>2, <1>3
<1> HIDE DEF r
<1>10. PICK last \in {Max(Broken(vacant))} : TRUE  OBVIOUS
<1>11. last = lane  BY <1>8, <1>10
<1>12. LastByte(vacant) = (last + 1) * LaneWidth - 1 - LeadingOnes(vacant, last)
  BY <1>8, <1>10 DEF LastByte
<1> QED  BY <1>1, <1>5, <1>9, <1>11, <1>12

(* The searches with vector instructions find what the plain ones find: no *)
(* unused slot is taken for a key, and the ends are found in whatever lane *)
(* they lie.                                                               *)
THEOREM VectorSearchesAgree == Spec => []VectorSearchAgrees
<1>1. LayoutInvariant => VectorSearchAgrees
  <2> SUFFICES ASSUME LayoutInvariant, node # None PROVE VectorSearchAgrees
    BY DEF VectorSearchAgrees
  <2>1. SoundNode(node) /\ Filled(node) /\ node.num_children >= 2
    BY DEF LayoutInvariant, Fitting
  <2>2. node.type = "Node16" =>
          \A b \in Byte :
            /\ VectorLookup(node, b) =
                 IF KeyIndices(node, b) = {} THEN None ELSE Min(KeyIndices(node, b))
            /\ VectorWritePoint(node, b) = FindWritePoint(node, b)
    BY <2>1, VectorLookupIs, VectorWritePointIs
  <2>3. BytesOf(node) # {}
    BY <2>1, SoundFacts, FS_EmptySet
  <2>4. ASSUME IsIndexed(node)
        PROVE  VectorMinIndexed(node) = MinIndexed(node) /\ VectorMaxIndexed(node) = MaxIndexed(node)
    <3>1. SoundIndexed(node)  BY <2>1, <2>4, CompressedType, DirectType DEF SoundNode, IsIndexed
    <3>2. OccupiedIndices(node) = BytesOf(node)  BY <3>1, IndexedLookup DEF BytesOf
    <3>3. {c \in Byte : node.child_indices[c] = EMPTY} = Byte \ OccupiedIndices(node)
      BY DEF OccupiedIndices
    <3>4. OccupiedIndices(node) \subseteq Byte  BY DEF OccupiedIndices
    <3> QED  BY <2>3, <3>2, <3>3, <3>4, FirstByteIs, LastByteIs
        DEF VectorMinIndexed, VectorMaxIndexed, MinIndexed, MaxIndexed
  <2>5. ASSUME IsDirect(node)
        PROVE  VectorMinDirect(node) = MinDirect(node) /\ VectorMaxDirect(node) = MaxDirect(node)
    <3>1. SoundDirect(node)  BY <2>1, <2>5, CompressedType, IndexedType DEF SoundNode, IsDirect
    <3>2. OccupiedPointers(node) = BytesOf(node)  BY <3>1, DirectLookup DEF BytesOf
    <3>3. {c \in Byte : node.child_pointers[c] = None} = Byte \ OccupiedPointers(node)
      BY DEF OccupiedPointers
    <3>4. OccupiedPointers(node) \subseteq Byte  BY DEF OccupiedPointers
    <3> QED  BY <2>3, <3>2, <3>3, <3>4, FirstByteIs, LastByteIs
        DEF VectorMinDirect, VectorMaxDirect, MinDirect, MaxDirect
  <2> QED  BY <2>2, <2>4, <2>5 DEF VectorSearchAgrees
<1> QED  BY <1>1, LayoutHolds, PTL
-----------------------------------------------------------------------------
(* Numbers that increase are the members of their set in order.            *)
LEMMA IncreasingCount ==
  ASSUME NEW m \in Nat, NEW f \in [1 .. m -> Nat],
         \A i, j \in 1 .. m : i < j => f[i] < f[j],
         NEW k \in 0 .. m
  PROVE  Cardinality({f[i] : i \in 1 .. k}) = k
<1> DEFINE S == 0 .. k - 1
           T == {f[i] : i \in 1 .. k}
           g == [i \in S |-> f[i + 1]]
<1>1. k \in Nat /\ \A i \in S : i \in Nat /\ i + 1 \in 1 .. k /\ i + 1 \in 1 .. m  OBVIOUS
<1>2. g \in [S -> T]  BY <1>1
<1>3. \A i, j \in S : g[i] = g[j] => i = j
  <2>1. SUFFICES ASSUME NEW i \in S, NEW j \in S, g[i] = g[j], i # j PROVE FALSE  OBVIOUS
  <2>2. f[i + 1] = f[j + 1]  BY <2>1
  <2>3. i + 1 < j + 1 \/ j + 1 < i + 1  BY <2>1, <1>1
  <2>4. f[i + 1] \in Nat /\ f[j + 1] \in Nat  BY <1>1
  <2>5. f[i + 1] < f[j + 1] \/ f[j + 1] < f[i + 1]  BY <2>3, <1>1
  <2> QED  BY <2>2, <2>4, <2>5
<1>4. \A b \in T : \E i \in S : g[i] = b
  <2>1. TAKE b \in T
  <2>2. PICK i \in 1 .. k : b = f[i]  OBVIOUS
  <2>3. i - 1 \in S /\ (i - 1) + 1 = i  OBVIOUS
  <2>4. g[i - 1] = b  BY <2>2, <2>3
  <2> QED  BY <2>3, <2>4
<1>5. IsFiniteSet(S) /\ Cardinality(S) = k  BY <1>1, IntervalSize
<1> HIDE DEF S, T, g
<1>6. g \in Injection(S, T) /\ g \in Surjection(S, T)
  BY <1>2, <1>3, <1>4 DEF Injection, Surjection, IsInjective
<1>7. g \in Bijection(S, T)  BY <1>6 DEF Bijection
<1>8. Cardinality(T) = Cardinality(S)  BY <1>5, <1>7, FS_Bijection DEF ExistsBijection
<1> QED  BY <1>5, <1>8 DEF T

LEMMA IncreasingIsAscending ==
  ASSUME NEW m \in Nat, NEW f \in [1 .. m -> Nat],
         \A i, j \in 1 .. m : i < j => f[i] < f[j],
         NEW S, S = {f[i] : i \in 1 .. m}
  PROVE  Cardinality(S) = m /\ \A i \in 1 .. m : Ascending(S)[i] = f[i]
<1>1. Cardinality(S) = m
  <2>1. m \in 0 .. m  OBVIOUS
  <2> QED  BY <2>1, IncreasingCount
<1>2. ASSUME NEW i \in 1 .. m PROVE Cardinality({c \in S : c < f[i]}) = i - 1
  <2>1. PICK k : k = i - 1 /\ k \in 0 .. m  OBVIOUS
  <2>2. \A j \in 1 .. m : f[j] < f[i] <=> j \in 1 .. k
    <3>1. TAKE j \in 1 .. m
    <3>2. f[i] \in Nat /\ f[j] \in Nat  OBVIOUS
    <3>3. j < i => f[j] < f[i]  OBVIOUS
    <3>4. i < j => f[i] < f[j]  OBVIOUS
    <3> QED  BY <2>1, <3>2, <3>3, <3>4
  <2>3. 1 .. k \subseteq 1 .. m  BY <2>1
  <2>4. {c \in S : c < f[i]} = {f[j] : j \in 1 .. k}  BY <2>2, <2>3
  <2>5. Cardinality({f[j] : j \in 1 .. k}) = k  BY <2>1, IncreasingCount
  <2> QED  BY <2>1, <2>4, <2>5
<1>3. ASSUME NEW i \in 1 .. m PROVE Ascending(S)[i] = f[i]
  <2>1. Ascending(S)[i] = CHOOSE b \in S : Cardinality({c \in S : c < b}) = i - 1
    BY <1>1 DEF Ascending
  <2>2. f[i] \in S /\ Cardinality({c \in S : c < f[i]}) = i - 1  BY <1>2
  <2>3. ASSUME NEW b \in S, Cardinality({c \in S : c < b}) = i - 1 PROVE b = f[i]
    <3>1. PICK j \in 1 .. m : b = f[j]  OBVIOUS
    <3>2. j - 1 = i - 1  BY <3>1, <2>3, <1>2
    <3> QED  BY <3>1, <3>2
  <2>4. \E b \in S : Cardinality({c \in S : c < b}) = i - 1  BY <2>2
  <2>5. PICK b : b = CHOOSE c \in S : Cardinality({d \in S : d < c}) = i - 1  OBVIOUS
  <2>6. b \in S /\ Cardinality({c \in S : c < b}) = i - 1  BY <2>4, <2>5
  <2>7. b = f[i]  BY <2>3, <2>6
  <2> QED  BY <2>1, <2>5, <2>7
<1> QED  BY <1>1, <1>3

(* A slice of a list is the part of the node with the bytes in it.         *)
LEMMA SliceOfList ==
  ASSUME NEW nd, NEW pairs, Lists(pairs, nd), nd.num_children \in Nat,
         NEW from \in 0 .. nd.num_children, NEW to \in 0 .. nd.num_children, from <= to,
         NEW S, S = {pairs[i][1] : i \in from + 1 .. to}
  PROVE  SubSeq(pairs, from + 1, to) = PairsAt(S, nd)
<1> DEFINE n == nd.num_children
           m == to - from
           f == [i \in 1 .. m |-> pairs[from + i][1]]
           A == Ascending(S)
<1>1. n \in Nat /\ m \in Nat /\ \A i \in 1 .. m : from + i \in 1 .. n /\ from + i \in from + 1 .. to
  OBVIOUS
<1>2. /\ pairs \in [1 .. n -> Byte \X Child]
      /\ \A i \in 1 .. n : pairs[i][2] = LookupChild(nd, pairs[i][1])
      /\ \A i, j \in 1 .. n : i < j => pairs[i][1] < pairs[j][1]
  BY DEF Lists
<1>3. \A i \in 1 .. n : pairs[i] = <<pairs[i][1], pairs[i][2]>> /\ pairs[i][1] \in Nat
  <2>1. \A i \in 1 .. n : pairs[i] \in Byte \X Child  BY <1>2
  <2>2. \A p \in Byte \X Child : p = <<p[1], p[2]>> /\ p[1] \in Byte  OBVIOUS
  <2>3. \A b \in Byte : b \in Nat  BY ByteAssumption
  <2> QED  BY <2>1, <2>2, <2>3
<1>4. f \in [1 .. m -> Nat]  BY <1>1, <1>3
<1>5. \A i, j \in 1 .. m : i < j => f[i] < f[j]
  <2>1. TAKE i \in 1 .. m, j \in 1 .. m
  <2>2. i < j => from + i < from + j  BY <1>1
  <2> QED  BY <2>2, <1>1, <1>2
<1>6. S = {f[i] : i \in 1 .. m}
  <2>1. \A j \in from + 1 .. to : j - from \in 1 .. m /\ from + (j - from) = j  OBVIOUS
  <2>2. \A j \in from + 1 .. to : f[j - from] = pairs[j][1]  BY <2>1
  <2>3. \A i \in 1 .. m : f[i] = pairs[from + i][1]  OBVIOUS
  <2> HIDE DEF f, m
  <2>4. S \subseteq {f[i] : i \in 1 .. m}  BY <2>1, <2>2
  <2>5. {f[i] : i \in 1 .. m} \subseteq S  BY <2>3, <1>1
  <2> QED  BY <2>4, <2>5
<1>7. \A i \in 1 .. m : f[i] = pairs[from + i][1]  OBVIOUS
<1>8. SubSeq(pairs, from + 1, to) = [i \in 1 .. m |-> pairs[from + i]]
  <2>1. pairs \in Seq(Byte \X Child)  BY <1>1, <1>2
  <2>2. SubSeq(pairs, from + 1, to) = [i \in 1 .. (to - (from + 1) + 1) |-> pairs[from + 1 + i - 1]]
    BY <2>1
  <2>3. to - (from + 1) + 1 = m  OBVIOUS
  <2>4. \A i \in 1 .. m : from + 1 + i - 1 = from + i  OBVIOUS
  <2> HIDE DEF m
  <2> QED  BY <2>2, <2>3, <2>4
<1> HIDE DEF n, m, f
<1>9. Cardinality(S) = m /\ \A i \in 1 .. m : A[i] = f[i]
  BY <1>1, <1>4, <1>5, <1>6, IncreasingIsAscending
<1> HIDE DEF A
<1>10. PairsAt(S, nd) = [i \in 1 .. m |-> <<A[i], LookupChild(nd, A[i])>>]
  BY <1>9 DEF PairsAt, A
<1>11. \A i \in 1 .. m : pairs[from + i] = <<A[i], LookupChild(nd, A[i])>>
  BY <1>1, <1>2, <1>3, <1>7, <1>9
<1> QED  BY <1>8, <1>10, <1>11

(* The two halves of Within. *)
After(byte, start) ==
  /\ start.kind = "Included" => start.byte <= byte
  /\ start.kind = "Excluded" => start.byte < byte
Before(byte, end) ==
  /\ end.kind = "Included" => byte <= end.byte
  /\ end.kind = "Excluded" => byte < end.byte

(* A bound is of one of three kinds. *)
LEMMA BoundCases ==
  ASSUME NEW bound \in Bounds
  PROVE  \/ bound.kind = "Included" /\ bound.byte \in Byte /\ bound.byte \in Nat /\ bound # Unbounded
         \/ bound.kind = "Excluded" /\ bound.byte \in Byte /\ bound.byte \in Nat /\ bound # Unbounded
         \/ bound.kind = "Unbounded" /\ bound = Unbounded
<1>1. Unbounded.kind = "Unbounded"  BY DEF Unbounded
<1>2. CASE bound = Unbounded  BY <1>1, <1>2
<1>3. CASE bound \in [kind : {"Included", "Excluded"}, byte : Byte]
  <2>1. bound.kind \in {"Included", "Excluded"} /\ bound.byte \in Byte  BY <1>3
  <2>2. bound # Unbounded  BY <2>1, <1>1
  <2> QED  BY <2>1, <2>2, ByteAssumption
<1> QED  BY <1>2, <1>3 DEF Bounds

(* Where a compressed node would write a byte, it parts the smaller keys   *)
(* from the others.                                                        *)
LEMMA WritePointParts ==
  ASSUME NEW nd, SoundCompressed(nd), NEW byte \in Byte, NEW p, p = FindWritePoint(nd, byte).at
  PROVE  /\ p \in 0 .. nd.num_children
         /\ \A i \in Used(nd) : nd.keys[i] < byte <=> i < p
         /\ LookupChild(nd, byte) # None => p \in Used(nd) /\ nd.keys[p] = byte
<1> DEFINE ahead == {i \in Used(nd) : byte <= nd.keys[i]}
<1>1. /\ nd.num_children \in Nat /\ Used(nd) = 0 .. nd.num_children - 1 /\ byte \in Nat
      /\ \A i \in Used(nd) : i \in Nat /\ nd.keys[i] \in Nat
      /\ \A i, j \in Used(nd) : i < j => nd.keys[i] < nd.keys[j]
  BY CompressedType, ByteAssumption
<1>2. LookupChild(nd, byte) # None => \E i \in Used(nd) : nd.keys[i] = byte
  BY CompressedLookup
<1>3. CASE ahead = {}
  <2>1. p = nd.num_children  BY <1>3 DEF FindWritePoint
  <2>2. \A i \in Used(nd) : nd.keys[i] < byte  BY <1>3, <1>1
  <2>3. LookupChild(nd, byte) = None
    <3>1. SUFFICES ASSUME NEW i \in Used(nd), nd.keys[i] = byte PROVE FALSE  BY <1>2
    <3> QED  BY <3>1, <2>2, <1>1
  <2> QED  BY <2>1, <2>2, <2>3, <1>1
<1>4. CASE ahead # {}
  <2>1. ahead \in SUBSET Nat  BY <1>1
  <2>2. Min(ahead) \in ahead /\ \A i \in ahead : Min(ahead) <= i  BY <2>1, <1>4, MinFacts
  <2>3. p = Min(ahead)  BY <1>4 DEF FindWritePoint
  <2>4. p \in Used(nd) /\ byte <= nd.keys[p]  BY <2>2, <2>3
  <2>5. \A i \in Used(nd) : byte <= nd.keys[i] => p <= i  BY <2>2, <2>3
  <2> HIDE DEF ahead
  <2>6. \A i \in Used(nd) : nd.keys[i] < byte <=> i < p
    <3>1. TAKE i \in Used(nd)
    <3>2. p < i => nd.keys[p] < nd.keys[i]  BY <2>4, <1>1
    <3> QED  BY <3>2, <2>4, <2>5, <1>1
  <2>7. ASSUME NEW i \in Used(nd), nd.keys[i] = byte PROVE nd.keys[p] = byte
    <3>1. p <= i  BY <2>5, <2>7, <1>1
    <3>2. p < i => nd.keys[p] < nd.keys[i]  BY <2>4, <1>1
    <3> QED  BY <3>1, <3>2, <2>4, <2>7, <1>1
  <2> QED  BY <2>4, <2>6, <2>7, <1>1, <1>2
<1> QED  BY <1>3, <1>4

(* The positions the bounds of a range are taken for.                      *)
LEMMA CompressedStart ==
  ASSUME NEW nd, SoundCompressed(nd), NEW start \in Bounds,
         start.kind = "Excluded" => LookupChild(nd, start.byte) # None
  PROVE  /\ SliceStart(nd, start) \in 0 .. nd.num_children
         /\ \A i \in Used(nd) : SliceStart(nd, start) <= i <=> After(nd.keys[i], start)
<1>1. /\ nd.num_children \in Nat /\ Used(nd) = 0 .. nd.num_children - 1 /\ IsCompressed(nd)
      /\ \A i \in Used(nd) : i \in Nat /\ nd.keys[i] \in Nat
      /\ \A i, j \in Used(nd) : i < j => nd.keys[i] < nd.keys[j]
  BY CompressedType
<1>2. CASE start.kind = "Included" /\ start.byte \in Byte /\ start.byte \in Nat
  <2>1. PICK p : p = FindWritePoint(nd, start.byte).at  OBVIOUS
  <2>2. SliceStart(nd, start) = p  BY <1>1, <1>2, <2>1 DEF SliceStart, Position
  <2>3. p \in 0 .. nd.num_children /\ \A i \in Used(nd) : nd.keys[i] < start.byte <=> i < p
    BY <1>2, <2>1, WritePointParts
  <2>4. \A i \in Used(nd) : p <= i <=> start.byte <= nd.keys[i]  BY <1>1, <1>2, <2>3
  <2> QED  BY <1>2, <2>2, <2>3, <2>4 DEF After
<1>3. CASE start.kind = "Excluded" /\ start.byte \in Byte /\ start.byte \in Nat
  <2>1. PICK p : p = FindWritePoint(nd, start.byte).at  OBVIOUS
  <2>2. SliceStart(nd, start) = p + 1  BY <1>1, <1>3, <2>1 DEF SliceStart, Position
  <2>3. p \in Used(nd) /\ nd.keys[p] = start.byte  BY <1>3, <2>1, WritePointParts
  <2>4. \A i \in Used(nd) : p + 1 <= i <=> start.byte < nd.keys[i]
    <3>1. TAKE i \in Used(nd)
    <3>2. p < i => nd.keys[p] < nd.keys[i]  BY <1>1, <2>3
    <3>3. i < p => nd.keys[i] < nd.keys[p]  BY <1>1, <2>3
    <3> QED  BY <1>1, <1>3, <2>3, <3>2, <3>3
  <2> QED  BY <1>1, <1>3, <2>2, <2>3, <2>4 DEF After
<1>4. CASE start.kind = "Unbounded"
  BY <1>1, <1>4 DEF SliceStart, After
<1> QED  BY <1>2, <1>3, <1>4, BoundCases

LEMMA CompressedEnd ==
  ASSUME NEW nd, SoundCompressed(nd), NEW end \in Bounds,
         end.kind = "Included" => LookupChild(nd, end.byte) # None
  PROVE  /\ SliceEnd(nd, end) \in 0 .. nd.num_children
         /\ \A i \in Used(nd) : i < SliceEnd(nd, end) <=> Before(nd.keys[i], end)
<1>1. /\ nd.num_children \in Nat /\ Used(nd) = 0 .. nd.num_children - 1 /\ IsCompressed(nd)
      /\ \A i \in Used(nd) : i \in Nat /\ nd.keys[i] \in Nat
      /\ \A i, j \in Used(nd) : i < j => nd.keys[i] < nd.keys[j]
  BY CompressedType
<1>2. CASE end.kind = "Excluded" /\ end.byte \in Byte /\ end.byte \in Nat
  <2>1. PICK p : p = FindWritePoint(nd, end.byte).at  OBVIOUS
  <2>2. SliceEnd(nd, end) = p  BY <1>1, <1>2, <2>1 DEF SliceEnd, Position
  <2>3. p \in 0 .. nd.num_children /\ \A i \in Used(nd) : nd.keys[i] < end.byte <=> i < p
    BY <1>2, <2>1, WritePointParts
  <2> QED  BY <1>2, <2>2, <2>3 DEF Before
<1>3. CASE end.kind = "Included" /\ end.byte \in Byte /\ end.byte \in Nat
  <2>1. PICK p : p = FindWritePoint(nd, end.byte).at  OBVIOUS
  <2>2. SliceEnd(nd, end) = p + 1  BY <1>1, <1>3, <2>1 DEF SliceEnd, Position
  <2>3. p \in Used(nd) /\ nd.keys[p] = end.byte  BY <1>3, <2>1, WritePointParts
  <2>4. \A i \in Used(nd) : i < p + 1 <=> nd.keys[i] <= end.byte
    <3>1. TAKE i \in Used(nd)
    <3>2. p < i => nd.keys[p] < nd.keys[i]  BY <1>1, <2>3
    <3>3. i < p => nd.keys[i] < nd.keys[p]  BY <1>1, <2>3
    <3> QED  BY <1>1, <1>3, <2>3, <3>2, <3>3
  <2> QED  BY <1>1, <1>3, <2>2, <2>3, <2>4 DEF Before
<1>4. CASE end.kind = "Unbounded"
  BY <1>1, <1>4 DEF SliceEnd, Before, Length
<1> QED  BY <1>2, <1>3, <1>4, BoundCases

(* The bounds leave no gap that is a step back.                            *)
LEMMA NoGap ==
  ASSUME NEW start \in Bounds, NEW end \in Bounds, Ordered(start, end), NEW byte \in Nat
  PROVE  After(byte, start) \/ Before(byte, end)
<1>1. SUFFICES ASSUME ~After(byte, start), ~Before(byte, end) PROVE FALSE  OBVIOUS
<1>2. start # Unbounded /\ start.byte \in Nat /\ start.kind \in {"Included", "Excluded"}
  BY <1>1, BoundCases DEF After
<1>3. end # Unbounded /\ end.byte \in Nat /\ end.kind \in {"Included", "Excluded"}
  BY <1>1, BoundCases DEF Before
<1>4. /\ start.byte <= end.byte
      /\ (start.kind = "Excluded" /\ end.kind = "Excluded") => start.byte < end.byte
  BY <1>2, <1>3 DEF Ordered
<1>5. /\ start.kind = "Included" => byte < start.byte
      /\ start.kind = "Excluded" => byte <= start.byte
  BY <1>1, <1>2 DEF After
<1>6. /\ end.kind = "Included" => end.byte < byte
      /\ end.kind = "Excluded" => end.byte <= byte
  BY <1>1, <1>3 DEF Before
<1> QED  BY <1>2, <1>3, <1>4, <1>5, <1>6

(* A slice of the arrays of a compressed node.                             *)
LEMMA CompressedRange ==
  ASSUME NEW nd, SoundCompressed(nd), NEW start \in Bounds, NEW end \in Bounds,
         Ordered(start, end), MeetsChildren(nd, start, end)
  PROVE  RangeIter(nd, start, end) = Restriction(nd, start, end)
<1> DEFINE n == nd.num_children
<1>1. /\ n \in Nat /\ Used(nd) = 0 .. n - 1 /\ IsCompressed(nd) /\ ~IsIndexed(nd) /\ ~IsDirect(nd)
      /\ \A i \in Used(nd) : i \in Nat /\ nd.keys[i] \in Nat /\ nd.keys[i] \in Byte
  BY CompressedType
<1>2. PICK from : from = SliceStart(nd, start)  OBVIOUS
<1>3. PICK to : to = SliceEnd(nd, end)  OBVIOUS
<1>4. from \in 0 .. n /\ \A i \in Used(nd) : from <= i <=> After(nd.keys[i], start)
  BY <1>2, CompressedStart DEF MeetsChildren
<1>5. to \in 0 .. n /\ \A i \in Used(nd) : i < to <=> Before(nd.keys[i], end)
  BY <1>3, CompressedEnd DEF MeetsChildren
<1>6. from <= to
  <2>1. SUFFICES ASSUME to < from PROVE FALSE  BY <1>4, <1>5
  <2>2. to \in Used(nd)  BY <2>1, <1>1, <1>4, <1>5
  <2>3. ~After(nd.keys[to], start) /\ ~Before(nd.keys[to], end)  BY <2>1, <2>2, <1>4, <1>5
  <2> QED  BY <2>2, <2>3, <1>1, NoGap
<1>7. Length(nd) = n  BY <1>1 DEF Length
<1>8. Iter(nd) = IterCompressed(nd)  BY <1>1 DEF Iter
<1>9. PICK pairs : pairs = IterCompressed(nd)  OBVIOUS
<1>10. RangeIter(nd, start, end) = SubSeq(pairs, from + 1, to)
  <2>1. ~(from > to \/ to > n)  BY <1>1, <1>4, <1>5, <1>6
  <2> QED  BY <2>1, <1>1, <1>2, <1>3, <1>7, <1>8, <1>9 DEF RangeIter
<1>11. Lists(pairs, nd) /\ \A i \in 1 .. n : pairs[i][1] = nd.keys[i - 1]
  <2>1. Lists(pairs, nd)  BY <1>9, IterCompressedLists
  <2>2. \A i \in 1 .. n : pairs[i] = <<nd.keys[i - 1], nd.child_pointers[i - 1]>>
    BY <1>9 DEF IterCompressed
  <2> QED  BY <2>1, <2>2
<1>12. \A byte : Within(byte, start, end) <=> After(byte, start) /\ Before(byte, end)
  BY DEF Within, After, Before
<1>13. BytesOf(nd) = {nd.keys[i] : i \in Used(nd)}  BY CompressedLookup
<1>14. PICK S : S = {b \in Byte : LookupChild(nd, b) # None /\ Within(b, start, end)}  OBVIOUS
<1>15. \A b : b \in S <=> b \in BytesOf(nd) /\ After(b, start) /\ Before(b, end)
  BY <1>12, <1>14 DEF BytesOf
<1> HIDE DEF n
<1>16. S = {pairs[i][1] : i \in from + 1 .. to}
  <2>1. ASSUME NEW b \in S PROVE \E i \in from + 1 .. to : b = pairs[i][1]
    <3>1. PICK j \in Used(nd) : b = nd.keys[j]  BY <1>13, <1>15
    <3>2. from <= j /\ j < to  BY <3>1, <1>4, <1>5, <1>15
    <3>3. j + 1 \in 1 .. n /\ j + 1 \in from + 1 .. to /\ (j + 1) - 1 = j
      BY <3>2, <1>1, <1>4, <1>5
    <3> QED  BY <3>1, <3>3, <1>11
  <2>2. ASSUME NEW i \in from + 1 .. to PROVE pairs[i][1] \in S
    <3>1. i \in 1 .. n /\ i - 1 \in Used(nd) /\ from <= i - 1 /\ i - 1 < to
      BY <1>1, <1>4, <1>5
    <3>2. pairs[i][1] = nd.keys[i - 1]  BY <3>1, <1>11
    <3>3. After(nd.keys[i - 1], start) /\ Before(nd.keys[i - 1], end)  BY <3>1, <1>4, <1>5
    <3> QED  BY <3>1, <3>2, <3>3, <1>13, <1>15
  <2> QED  BY <2>1, <2>2
<1>17. SubSeq(pairs, from + 1, to) = PairsAt(S, nd)
  <2>1. /\ nd.num_children \in Nat /\ from \in 0 .. nd.num_children /\ to \in 0 .. nd.num_children
        /\ from <= to /\ Lists(pairs, nd) /\ S = {pairs[i][1] : i \in from + 1 .. to}
    BY <1>1, <1>4, <1>5, <1>6, <1>11, <1>16 DEF n
  <2> QED  BY <2>1, SliceOfList
<1> QED  BY <1>10, <1>14, <1>17 DEF Restriction

(* A slice of an array that is indexed by bytes: the byte of a slot is its *)
(* place in the slice and the offset together.                             *)
LEMMA IndexedRange ==
  ASSUME NEW nd, ~IsCompressed(nd), Occupied(nd) = BytesOf(nd),
         NEW start \in Bounds, NEW end \in Bounds, Ordered(start, end)
  PROVE  RangeIter(nd, start, end) = Restriction(nd, start, end)
<1>1. PICK size : size = Cardinality(Byte)  OBVIOUS
<1>2. size \in Nat /\ size # 0 /\ Byte = 0 .. size - 1
  <2>1. size \in Nat  BY <1>1, CapacityAssumption, FS_CardinalityType
  <2>2. Byte = 0 .. size - 1  BY <1>1, RangeAssumption
  <2> QED  BY <2>1, <2>2, ByteAssumption
<1>3. PICK from : from = SliceStart(nd, start)  OBVIOUS
<1>4. PICK to : to = SliceEnd(nd, end)  OBVIOUS
<1>5. \A bound : Position(nd, bound) = bound.byte  BY DEF Position
<1>6. /\ from \in 0 .. size
      /\ \A b \in Byte : from <= b <=> After(b, start)
      /\ from < size => KeyOffset(start) = from
  <2>1. CASE start.kind = "Included" /\ start.byte \in Byte
    <3>1. from = start.byte /\ KeyOffset(start) = start.byte  BY <2>1, <1>3, <1>5 DEF SliceStart, KeyOffset
    <3> QED  BY <2>1, <3>1, <1>2 DEF After
  <2>2. CASE start.kind = "Excluded" /\ start.byte \in Byte
    <3>1. from = start.byte + 1 /\ KeyOffset(start) = Lesser(start.byte + 1, size - 1)
      BY <2>2, <1>1, <1>3, <1>5 DEF SliceStart, KeyOffset
    <3> QED  BY <2>2, <3>1, <1>2 DEF After, Lesser
  <2>3. CASE start.kind = "Unbounded"
    <3>1. from = 0 /\ KeyOffset(start) = 0  BY <2>3, <1>3 DEF SliceStart, KeyOffset
    <3> QED  BY <2>3, <3>1, <1>2 DEF After
  <2> QED  BY <2>1, <2>2, <2>3, BoundCases
<1>7. to \in 0 .. size /\ \A b \in Byte : b < to <=> Before(b, end)
  <2>1. CASE end.kind = "Included" /\ end.byte \in Byte
    <3>1. to = end.byte + 1  BY <2>1, <1>4, <1>5 DEF SliceEnd
    <3> QED  BY <2>1, <3>1, <1>2 DEF Before
  <2>2. CASE end.kind = "Excluded" /\ end.byte \in Byte
    <3>1. to = end.byte  BY <2>2, <1>4, <1>5 DEF SliceEnd
    <3> QED  BY <2>2, <3>1, <1>2 DEF Before
  <2>3. CASE end.kind = "Unbounded"
    <3>1. to = size  BY <2>3, <1>1, <1>4 DEF SliceEnd, Length
    <3> QED  BY <2>3, <3>1, <1>2 DEF Before
  <2> QED  BY <2>1, <2>2, <2>3, BoundCases
<1>8. from <= to
  <2>1. SUFFICES ASSUME to < from PROVE FALSE  BY <1>6, <1>7
  <2>2. to \in Byte /\ to \in Nat  BY <2>1, <1>2, <1>6, <1>7
  <2>3. ~After(to, start) /\ ~Before(to, end)  BY <2>1, <2>2, <1>6, <1>7
  <2> QED  BY <2>2, <2>3, NoGap
<1>9. PICK S : S = {b \in Byte : LookupChild(nd, b) # None /\ Within(b, start, end)}  OBVIOUS
<1>10. Occupied(nd) \cap (from .. to - 1) = S
  <2>1. \A byte : Within(byte, start, end) <=> After(byte, start) /\ Before(byte, end)
    BY DEF Within, After, Before
  <2>2. \A b \in Byte : b \in from .. to - 1 <=> After(b, start) /\ Before(b, end)
    BY <1>2, <1>6, <1>7
  <2> QED  BY <2>1, <2>2, <1>9 DEF BytesOf
<1>11. PICK A : A = Ascending(S)  OBVIOUS
<1>12. /\ Cardinality(S) \in Nat /\ A \in [1 .. Cardinality(S) -> S]
  <2>1. S \in SUBSET BytesOf(nd)  BY <1>9 DEF BytesOf
  <2>2. S \in SUBSET Nat /\ IsFiniteSet(S)  BY <2>1, BytesOfIsFinite, FS_Subset
  <2> QED  BY <2>2, <1>11, AscendingFacts
<1>13. RangeIter(nd, start, end) =
         [i \in DOMAIN A |-> <<Lesser(KeyOffset(start) + (A[i] - from), size - 1),
                               LookupChild(nd, A[i])>>]
  <2>1. ~(from > to \/ to > Length(nd))
    <3>1. Length(nd) = size  BY <1>1 DEF Length
    <3> QED  BY <3>1, <1>2, <1>6, <1>7, <1>8
  <2> QED  BY <2>1, <1>1, <1>3, <1>4, <1>10, <1>11 DEF RangeIter
<1>14. \A i \in 1 .. Cardinality(S) : Lesser(KeyOffset(start) + (A[i] - from), size - 1) = A[i]
  <2>1. TAKE i \in 1 .. Cardinality(S)
  <2>2. A[i] \in S  BY <1>12
  <2>3. A[i] \in Byte /\ from <= A[i]  BY <2>2, <1>6, <1>9 DEF Within, After
  <2>4. A[i] \in Nat /\ A[i] <= size - 1 /\ KeyOffset(start) = from  BY <2>3, <1>2, <1>6
  <2> QED  BY <2>3, <2>4, <1>2, <1>6 DEF Lesser
<1>15. Restriction(nd, start, end) =
         [i \in 1 .. Cardinality(S) |-> <<A[i], LookupChild(nd, A[i])>>]
  BY <1>9, <1>11 DEF Restriction, PairsAt
<1> QED  BY <1>12, <1>13, <1>14, <1>15

(* range is right for every pair of bounds in the layouts that are indexed *)
(* by bytes; in a compressed node for those that find the bytes they need: *)
(* an excluded start and an included end (inner_range_iter).  No slice of  *)
(* theirs panics.                                                          *)
THEOREM RangesExact == Spec => []RangesAreExact
<1>1. LayoutInvariant => RangesAreExact
  <2> SUFFICES ASSUME LayoutInvariant, node # None, NEW start \in Bounds, NEW end \in Bounds,
                      Ordered(start, end),
                      IsCompressed(node) => MeetsChildren(node, start, end)
               PROVE  RangeIter(node, start, end) = Restriction(node, start, end)
    BY DEF RangesAreExact, RangeIsRestriction
  <2>1. SoundNode(node)  BY DEF LayoutInvariant, Fitting
  <2>2. CASE SoundCompressed(node) /\ IsCompressed(node)  BY <2>2, CompressedRange
  <2>3. CASE SoundIndexed(node) /\ ~IsCompressed(node) /\ IsIndexed(node)
    <3>1. Occupied(node) = BytesOf(node)  BY <2>3, IndexedLookup DEF Occupied
    <3> QED  BY <2>3, <3>1, IndexedRange
  <2>4. CASE SoundDirect(node) /\ ~IsCompressed(node) /\ ~IsIndexed(node)
    <3>1. Occupied(node) = BytesOf(node)  BY <2>4, DirectLookup DEF Occupied
    <3> QED  BY <2>4, <3>1, IndexedRange
  <2> QED  BY <2>1, <2>2, <2>3, <2>4, SoundCases
<1> QED  BY <1>1, LayoutHolds, PTL
=============================================================================
