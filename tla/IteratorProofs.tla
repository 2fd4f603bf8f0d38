--------------------------- MODULE IteratorProofs ---------------------------
(***************************************************************************)
(* The iterators over a map keep their queue in order, count right, read   *)
(* keys and paths where they should, and, fuzzy ones apart, implement      *)
(* IterSpec, whatever the map, the prefixes and the mixture of next and    *)
(* next_back.                                                              *)
(*                                                                         *)
(* A queue stands for the sequence of the paths to its subtrees.  A turn   *)
(* of the loop takes one path off an end and puts some of its extensions   *)
(* in its place, so the sequence stays descending and no key comes twice.  *)
(***************************************************************************)
EXTENDS IteratorInvariant, TreeMapProofs

(***************************************************************************)
(* The queue, as a descending sequence of paths: what it means to put      *)
(* subtrees of a subtree in its place.                                     *)
(***************************************************************************)

LEMMA PrecedesApart ==
  ASSUME NEW s \in ByteString, NEW t \in ByteString, Precedes(s, t)
  PROVE  ~IsPrefix(s, t) /\ ~IsPrefix(t, s)
<1>1. Len(s) \in Nat /\ Len(t) \in Nat  BY DEF ByteString
<1>2. PICK i \in 1 .. Lesser(Len(s), Len(t)) : s[i] < t[i]  BY DEF Precedes
<1>3. i \in 1 .. Len(s) /\ i \in 1 .. Len(t)  BY <1>1, <1>2, LesserFacts
<1>4. s[i] \in Byte /\ t[i] \in Byte  BY <1>3 DEF ByteString
<1>5. s[i] # t[i]
  <2>1. s[i] \in Nat /\ t[i] \in Nat  BY <1>4, ByteAssumption
  <2> QED  BY <2>1, <1>2
<1> QED  BY <1>3, <1>5, PrefixPointwise

LEMMA JoinFacts ==
  ASSUME NEW T, NEW A \in Seq(T), NEW B \in Seq(T)
  PROVE  /\ A \o B \in Seq(T) /\ Len(A) \in Nat /\ Len(B) \in Nat
         /\ Len(A \o B) = Len(A) + Len(B) /\ DOMAIN (A \o B) = 1 .. Len(A) + Len(B)
         /\ DOMAIN A = 1 .. Len(A) /\ DOMAIN B = 1 .. Len(B)
         /\ \A i \in DOMAIN A : A[i] \in T
         /\ \A i \in DOMAIN B : B[i] \in T
         /\ \A i \in 1 .. Len(A) : (A \o B)[i] = A[i]
         /\ \A i \in 1 .. Len(B) : (A \o B)[Len(A) + i] = B[i]
         /\ \A i \in DOMAIN (A \o B) :
              \/ i \in DOMAIN A /\ (A \o B)[i] = A[i]
              \/ i - Len(A) \in DOMAIN B /\ (A \o B)[i] = B[i - Len(A)] /\ i > Len(A)
OBVIOUS

LEMMA DescendingConcat ==
  ASSUME NEW A \in Seq(ByteString), NEW B \in Seq(ByteString)
  PROVE  Descending(A \o B) <=>
           /\ Descending(A) /\ Descending(B)
           /\ \A i \in DOMAIN A, j \in DOMAIN B : Precedes(B[j], A[i])
<1> DEFINE s == A \o B
<1>1. /\ DOMAIN A = 1 .. Len(A) /\ DOMAIN B = 1 .. Len(B) /\ DOMAIN s = 1 .. Len(A) + Len(B)
      /\ Len(A) \in Nat /\ Len(B) \in Nat
      /\ \A i \in 1 .. Len(A) : s[i] = A[i]
      /\ \A i \in 1 .. Len(B) : s[Len(A) + i] = B[i]
      /\ \A i \in DOMAIN s :
           \/ i \in DOMAIN A /\ s[i] = A[i]
           \/ i - Len(A) \in DOMAIN B /\ s[i] = B[i - Len(A)] /\ i > Len(A)
  BY JoinFacts
<1> HIDE DEF s
<1>2. ASSUME Descending(s)
      PROVE  /\ Descending(A) /\ Descending(B)
             /\ \A i \in DOMAIN A, j \in DOMAIN B : Precedes(B[j], A[i])
  <2>1. ASSUME NEW i \in DOMAIN A, NEW j \in DOMAIN A, i < j PROVE Precedes(A[j], A[i])
    <3>1. i \in DOMAIN s /\ j \in DOMAIN s /\ s[i] = A[i] /\ s[j] = A[j]  BY <1>1, <2>1
    <3> QED  BY <3>1, <2>1, <1>2 DEF Descending
  <2>2. ASSUME NEW i \in DOMAIN B, NEW j \in DOMAIN B, i < j PROVE Precedes(B[j], B[i])
    <3>1. Len(A) + i \in DOMAIN s /\ Len(A) + j \in DOMAIN s /\ Len(A) + i < Len(A) + j
      BY <1>1, <2>2
    <3>2. s[Len(A) + i] = B[i] /\ s[Len(A) + j] = B[j]  BY <1>1, <2>2
    <3> QED  BY <3>1, <3>2, <1>2 DEF Descending
  <2>3. ASSUME NEW i \in DOMAIN A, NEW j \in DOMAIN B PROVE Precedes(B[j], A[i])
    <3>1. i \in DOMAIN s /\ Len(A) + j \in DOMAIN s /\ i < Len(A) + j  BY <1>1, <2>3
    <3>2. s[i] = A[i] /\ s[Len(A) + j] = B[j]  BY <1>1, <2>3
    <3> QED  BY <3>1, <3>2, <1>2 DEF Descending
  <2> QED  BY <2>1, <2>2, <2>3 DEF Descending
<1>3. ASSUME Descending(A), Descending(B),
             \A i \in DOMAIN A, j \in DOMAIN B : Precedes(B[j], A[i])
      PROVE  Descending(s)
  <2>1. SUFFICES ASSUME NEW i \in DOMAIN s, NEW j \in DOMAIN s, i < j PROVE Precedes(s[j], s[i])
    BY DEF Descending
  <2>2. i \in Nat /\ j \in Nat  BY <1>1
  <2>3. CASE j \in DOMAIN A /\ s[j] = A[j]
    <3>1. i \in DOMAIN A  BY <2>1, <2>2, <2>3, <1>1
    <3>2. s[i] = A[i]  BY <3>1, <1>1
    <3> QED  BY <3>1, <3>2, <2>1, <2>3, <1>3 DEF Descending
  <2>4. CASE j - Len(A) \in DOMAIN B /\ s[j] = B[j - Len(A)]
    <3>1. CASE i \in DOMAIN A /\ s[i] = A[i]  BY <3>1, <2>4, <1>3
    <3>2. CASE i - Len(A) \in DOMAIN B /\ s[i] = B[i - Len(A)]
      <4>1. i - Len(A) < j - Len(A)  BY <2>1, <2>2, <1>1
      <4> QED  BY <4>1, <3>2, <2>4, <1>3 DEF Descending
    <3> QED  BY <3>1, <3>2, <1>1
  <2> QED  BY <2>3, <2>4, <1>1
<1> QED  BY <1>2, <1>3 DEF s

LEMMA KeysUnderConcat ==
  ASSUME NEW A \in Seq(ByteString), NEW B \in Seq(ByteString), NEW K
  PROVE  KeysUnder(K, A \o B) = KeysUnder(K, A) \cup KeysUnder(K, B)
<1> DEFINE s == A \o B
<1>1. /\ DOMAIN A = 1 .. Len(A) /\ DOMAIN B = 1 .. Len(B) /\ DOMAIN s = 1 .. Len(A) + Len(B)
      /\ Len(A) \in Nat /\ Len(B) \in Nat
      /\ \A i \in 1 .. Len(A) : s[i] = A[i]
      /\ \A i \in 1 .. Len(B) : s[Len(A) + i] = B[i]
      /\ \A i \in DOMAIN s :
           \/ i \in DOMAIN A /\ s[i] = A[i]
           \/ i - Len(A) \in DOMAIN B /\ s[i] = B[i - Len(A)] /\ i > Len(A)
  BY JoinFacts
<1> HIDE DEF s
<1>2. ASSUME NEW k, NEW i \in DOMAIN A, IsPrefix(A[i], k) PROVE \E j \in DOMAIN s : IsPrefix(s[j], k)
  <2>1. i \in DOMAIN s /\ s[i] = A[i]  BY <1>1
  <2> QED  BY <2>1, <1>2
<1>3. ASSUME NEW k, NEW i \in DOMAIN B, IsPrefix(B[i], k) PROVE \E j \in DOMAIN s : IsPrefix(s[j], k)
  <2>1. Len(A) + i \in DOMAIN s /\ s[Len(A) + i] = B[i]  BY <1>1
  <2> QED  BY <2>1, <1>3
<1>4. ASSUME NEW k, NEW i \in DOMAIN s, IsPrefix(s[i], k)
      PROVE  (\E j \in DOMAIN A : IsPrefix(A[j], k)) \/ (\E j \in DOMAIN B : IsPrefix(B[j], k))
  <2>1. CASE i \in DOMAIN A /\ s[i] = A[i]  BY <2>1, <1>4
  <2>2. CASE i - Len(A) \in DOMAIN B /\ s[i] = B[i - Len(A)]  BY <2>2, <1>4
  <2> QED  BY <2>1, <2>2, <1>1
<1> QED  BY <1>2, <1>3, <1>4 DEF KeysUnder, s

LEMMA OneQueued ==
  ASSUME NEW p \in ByteString
  PROVE  /\ <<p>> \in Seq(ByteString) /\ DOMAIN <<p>> = {1} /\ <<p>>[1] = p
         /\ Descending(<<p>>)
         /\ \A K : KeysUnder(K, <<p>>) = {k \in K : IsPrefix(p, k)}
<1>1. <<p>> \in Seq(ByteString) /\ DOMAIN <<p>> = {1} /\ <<p>>[1] = p  OBVIOUS
<1> QED  BY <1>1 DEF Descending, KeysUnder

(* One subtree, at either end, is replaced by subtrees of it.              *)
LEMMA Replaced ==
  ASSUME NEW R \in Seq(ByteString), NEW p \in ByteString, NEW B \in Seq(ByteString),
         Descending(B), \A j \in DOMAIN B : IsPrefix(p, B[j])
  PROVE  /\ Descending(R \o <<p>>) => Descending(R \o B)
         /\ Descending(<<p>> \o R) => Descending(B \o R)
<1>1. <<p>> \in Seq(ByteString) /\ DOMAIN <<p>> = {1} /\ <<p>>[1] = p  BY OneQueued
<1>2. \A i \in DOMAIN R : R[i] \in ByteString  BY JoinFacts
<1>3. \A j \in DOMAIN B : B[j] \in ByteString  BY JoinFacts
<1>4. ASSUME Descending(R \o <<p>>) PROVE Descending(R \o B)
  <2>1. Descending(R) /\ \A i \in DOMAIN R : Precedes(p, R[i])
    BY <1>4, <1>1, DescendingConcat
  <2>2. ASSUME NEW i \in DOMAIN R, NEW j \in DOMAIN B PROVE Precedes(B[j], R[i])
    BY <1>2, <1>3, <2>1, PrecedenceExtends
  <2> QED  BY <2>1, <2>2, DescendingConcat
<1>5. ASSUME Descending(<<p>> \o R) PROVE Descending(B \o R)
  <2>1. Descending(R) /\ \A i \in DOMAIN R : Precedes(R[i], p)
    BY <1>5, <1>1, DescendingConcat
  <2>2. ASSUME NEW i \in DOMAIN R, NEW j \in DOMAIN B PROVE Precedes(R[i], B[j])
    BY <1>2, <1>3, <2>1, PrecedenceExtends
  <2> QED  BY <2>1, <2>2, DescendingConcat
<1> QED  BY <1>4, <1>5

(* The keys below a subtree at the back come before all others, the keys   *)
(* below one at the front after them.                                      *)
LEMMA EndsOfQueue ==
  ASSUME NEW R \in Seq(ByteString), NEW p \in ByteString, NEW K \in SUBSET ByteString,
         NEW l \in ByteString, IsPrefix(p, l), NEW k \in KeysUnder(K, R)
  PROVE  /\ Descending(R \o <<p>>) => Precedes(l, k)
         /\ Descending(<<p>> \o R) => Precedes(k, l)
<1>1. <<p>> \in Seq(ByteString) /\ DOMAIN <<p>> = {1} /\ <<p>>[1] = p  BY OneQueued
<1>2. k \in ByteString /\ \E i \in DOMAIN R : IsPrefix(R[i], k)  BY DEF KeysUnder
<1>3. PICK i \in DOMAIN R : IsPrefix(R[i], k)  BY <1>2
<1>4. R[i] \in ByteString  BY <1>3, JoinFacts
<1>5. Descending(R \o <<p>>) => Precedes(p, R[i])  BY <1>1, <1>3, DescendingConcat
<1>6. Descending(<<p>> \o R) => Precedes(R[i], p)  BY <1>1, <1>3, DescendingConcat
<1>7. Precedes(p, R[i]) => Precedes(l, k)
  <2>1. SUFFICES ASSUME Precedes(p, R[i]) PROVE Precedes(l, k)  OBVIOUS
  <2>2. Precedes(l, R[i])  BY <2>1, <1>4, PrecedenceExtends
  <2> QED  BY <2>2, <1>2, <1>3, <1>4, PrecedenceExtends
<1>8. Precedes(R[i], p) => Precedes(k, l)
  <2>1. SUFFICES ASSUME Precedes(R[i], p) PROVE Precedes(k, l)  OBVIOUS
  <2>2. Precedes(R[i], l)  BY <2>1, <1>4, PrecedenceExtends
  <2> QED  BY <2>2, <1>2, <1>3, <1>4, PrecedenceExtends
<1> QED  BY <1>5, <1>6, <1>7, <1>8

(* Of two children of a node, the one under the smaller byte precedes.     *)
LEMMA SiblingsPrecede ==
  ASSUME TreeInvariant, NEW n \in Inners(heap), NEW b \in ChildBytes(n), NEW c \in ChildBytes(n), b < c
  PROVE  Precedes(Child(n, b).at, Child(n, c).at)
<1>1. /\ n \in DOMAIN heap /\ n \in PointerType /\ n.at \in ByteString /\ Len(n.at) \in Nat
  BY InnerFacts, NodeFacts
<1>2. Shape  BY InvariantShape
<1>3. PICK x \in DOMAIN heap : x = Child(n, b) /\ Below(x, n) /\ ByteTowards(x, n) = b
  BY <1>2, ChildFacts
<1>4. PICK y \in DOMAIN heap : y = Child(n, c) /\ Below(y, n) /\ ByteTowards(y, n) = c
  BY <1>2, ChildFacts
<1>5. PICK s \in ByteString : s = x.at  BY NodeFacts
<1>6. PICK t \in ByteString : t = y.at  BY NodeFacts
<1>7. PICK k \in Nat : k = Len(n.at)  BY <1>1
<1>8. k < Len(s) /\ k < Len(t) /\ Len(s) \in Nat /\ Len(t) \in Nat
  BY <1>3, <1>4, <1>5, <1>6, <1>7 DEF Below, ByteString
<1>9. s[k + 1] = b /\ t[k + 1] = c  BY <1>3, <1>4, <1>5, <1>6, <1>7 DEF ByteTowards
<1>10. \A j \in 1 .. k : s[j] = t[j]
  <2>1. IsPrefix(n.at, s) /\ IsPrefix(n.at, t)  BY <1>3, <1>4, <1>5, <1>6 DEF Below
  <2>2. \A j \in 1 .. k : n.at[j] = s[j]  BY <2>1, <1>1, <1>7, PrefixPointwise
  <2>3. \A j \in 1 .. k : n.at[j] = t[j]  BY <2>1, <1>1, <1>7, PrefixPointwise
  <2> QED  BY <2>2, <2>3
<1>11. k + 1 \in 1 .. Lesser(Len(s), Len(t)) /\ (k + 1) - 1 = k
  BY <1>8, <1>7 DEF Lesser
<1>12. Precedes(s, t)  BY <1>9, <1>10, <1>11 DEF Precedes
<1> QED  BY <1>12, <1>3, <1>4, <1>5, <1>6

(* The paths to the children of n under the given bytes, from the last to  *)
(* the first.                                                              *)
PathsUnder(n, bytes, m) == [i \in 1 .. m |-> Child(n, bytes[m - i + 1]).at]

LEMMA ChildrenDescend ==
  ASSUME TreeInvariant, NEW n \in Inners(heap), NEW m \in Nat,
         NEW bytes \in [1 .. m -> ChildBytes(n)],
         \A i, j \in 1 .. m : i < j => bytes[i] < bytes[j]
  PROVE  /\ PathsUnder(n, bytes, m) \in Seq(ByteString)
         /\ DOMAIN PathsUnder(n, bytes, m) = 1 .. m
         /\ Descending(PathsUnder(n, bytes, m))
         /\ \A j \in 1 .. m : IsPrefix(n.at, PathsUnder(n, bytes, m)[j])
<1> DEFINE C == PathsUnder(n, bytes, m)
<1>1. \A i \in 1 .. m : m - i + 1 \in 1 .. m  OBVIOUS
<1>2. \A i \in 1 .. m : bytes[m - i + 1] \in ChildBytes(n)  BY <1>1
<1>3. Shape  BY InvariantShape
<1>4. \A b \in ChildBytes(n) : Child(n, b).at \in ByteString /\ IsPrefix(n.at, Child(n, b).at)
  BY <1>3, ChildFacts, NodeFacts DEF Below
<1>5. \A i \in 1 .. m : C[i] = Child(n, bytes[m - i + 1]).at  BY DEF PathsUnder
<1>6. C \in [1 .. m -> ByteString]  BY <1>2, <1>4 DEF PathsUnder
<1> HIDE DEF C
<1>7. C \in Seq(ByteString) /\ DOMAIN C = 1 .. m  BY <1>6
<1>8. \A j \in 1 .. m : IsPrefix(n.at, C[j])  BY <1>2, <1>4, <1>5
<1>9. Descending(C)
  <2>1. SUFFICES ASSUME NEW i \in 1 .. m, NEW j \in 1 .. m, i < j PROVE Precedes(C[j], C[i])
    BY <1>7 DEF Descending
  <2>2. m - j + 1 < m - i + 1 /\ m - j + 1 \in 1 .. m /\ m - i + 1 \in 1 .. m
    BY <2>1
  <2>3. bytes[m - j + 1] < bytes[m - i + 1]  BY <2>2
  <2> QED  BY <2>3, <1>2, <1>5, SiblingsPrecede
<1> QED  BY <1>7, <1>8, <1>9 DEF C

(* The keys below an inner node are those below its children.              *)
LEMMA KeysBelowChildren ==
  ASSUME TreeInvariant, NEW n \in Inners(heap), NEW k \in StoredKeys, IsPrefix(n.at, k)
  PROVE  \E b \in ChildBytes(n) : /\ IsPrefix(Child(n, b).at, k)
                                  /\ Len(n.at) < Len(k) /\ k[Len(n.at) + 1] = b
<1>1. PICK l \in Leaves(heap) : k = heap[l].key  BY DEF StoredKeys
<1>2. k = l.at /\ l \in DOMAIN heap /\ IsLeaf(l)  BY <1>1, LeafFacts
<1>3. n \in DOMAIN heap /\ IsInner(n) /\ n.at \in ByteString /\ l.at \in ByteString
  BY <1>2, InnerFacts, NodeFacts
<1>4. n # l  BY <1>2, <1>3, NodeFacts
<1>5. ~(Len(l.at) <= Len(n.at))
  BY <1>2, <1>3, <1>4, PrefixSameLength DEF TreeInvariant, AddressesAreFresh
<1>6. Below(l, n)  BY <1>2, <1>3, <1>5, NodeFacts DEF Below
<1>7. ByteTowards(l, n) \in ChildBytes(n) /\ IsPrefix(Child(n, ByteTowards(l, n)).at, l.at)
  BY <1>2, <1>3, <1>6 DEF TreeInvariant, RoutesToEveryNode
<1> QED  BY <1>2, <1>6, <1>7 DEF Below, ByteTowards

LEMMA KeysUnderChildren ==
  ASSUME TreeInvariant, NEW n \in Inners(heap), NEW m \in Nat,
         NEW bytes \in [1 .. m -> ChildBytes(n)]
  PROVE  /\ KeysUnder(StoredKeys, PathsUnder(n, bytes, m)) =
              {k \in StoredKeys : /\ IsPrefix(n.at, k) /\ Len(n.at) < Len(k)
                                  /\ \E i \in 1 .. m : k[Len(n.at) + 1] = bytes[i]}
         /\ (\A b \in ChildBytes(n) : \E i \in 1 .. m : bytes[i] = b) =>
              KeysUnder(StoredKeys, PathsUnder(n, bytes, m)) = {k \in StoredKeys : IsPrefix(n.at, k)}
<1> DEFINE C == PathsUnder(n, bytes, m)
           Here == {k \in StoredKeys : /\ IsPrefix(n.at, k) /\ Len(n.at) < Len(k)
                                  /\ \E i \in 1 .. m : k[Len(n.at) + 1] = bytes[i]}
<1>1. \A i \in 1 .. m : m - i + 1 \in 1 .. m /\ m - (m - i + 1) + 1 = i  OBVIOUS
<1>2. DOMAIN C = 1 .. m /\ \A i \in 1 .. m : C[i] = Child(n, bytes[m - i + 1]).at  BY DEF PathsUnder
<1>3. Shape  BY InvariantShape
<1>4. n \in PointerType /\ n.at \in ByteString /\ Len(n.at) \in Nat  BY InnerFacts, NodeFacts
<1>5. \A b \in ChildBytes(n) :
        LET c == Child(n, b)
        IN  /\ c.at \in ByteString /\ IsPrefix(n.at, c.at) /\ Len(n.at) < Len(c.at)
            /\ c.at[Len(n.at) + 1] = b
  BY <1>3, ChildFacts, NodeFacts DEF Below, ByteTowards
<1>6. \A k \in StoredKeys : k \in ByteString  BY LeafFacts, NodeFacts DEF StoredKeys
<1>7. ASSUME NEW k \in StoredKeys, NEW b \in ChildBytes(n), IsPrefix(Child(n, b).at, k)
      PROVE  IsPrefix(n.at, k) /\ Len(n.at) < Len(k) /\ k[Len(n.at) + 1] = b
  <2>1. PICK s \in ByteString : s = Child(n, b).at  BY <1>5
  <2>2. k \in ByteString /\ Len(k) \in Nat /\ Len(s) \in Nat  BY <1>6 DEF ByteString
  <2>3. IsPrefix(n.at, s) /\ Len(n.at) < Len(s) /\ s[Len(n.at) + 1] = b  BY <2>1, <1>5
  <2>4. IsPrefix(s, k)  BY <2>1, <1>7
  <2>5. Len(s) <= Len(k) /\ \A i \in 1 .. Len(s) : s[i] = k[i]  BY <2>2, <2>4, PrefixPointwise
  <2>6. Len(n.at) + 1 \in 1 .. Len(s)  BY <2>2, <2>3, <1>4
  <2> QED  BY <2>2, <2>3, <2>4, <2>5, <2>6, <1>4, PrefixTransitive
<1> HIDE DEF C
<1>8. ASSUME NEW k \in KeysUnder(StoredKeys, C) PROVE k \in Here
  <2>1. k \in StoredKeys /\ \E i \in DOMAIN C : IsPrefix(C[i], k)  BY <1>8 DEF KeysUnder
  <2>2. PICK i \in 1 .. m : IsPrefix(C[i], k)  BY <2>1, <1>2
  <2>3. m - i + 1 \in 1 .. m  BY <1>1
  <2>4. bytes[m - i + 1] \in ChildBytes(n)  BY <2>3
  <2>5. IsPrefix(Child(n, bytes[m - i + 1]).at, k)  BY <2>2, <1>2
  <2> QED  BY <2>1, <2>3, <2>4, <2>5, <1>7
<1>9. ASSUME NEW k \in Here PROVE k \in KeysUnder(StoredKeys, C)
  <2>1. k \in StoredKeys /\ IsPrefix(n.at, k)  OBVIOUS
  <2>2. PICK i \in 1 .. m : k[Len(n.at) + 1] = bytes[i]  OBVIOUS
  <2>3. IsPrefix(Child(n, bytes[i]).at, k)  BY <2>1, <2>2, KeysBelowChildren
  <2>4. m - i + 1 \in DOMAIN C /\ C[m - i + 1] = Child(n, bytes[i]).at  BY <1>1, <1>2
  <2> QED  BY <2>1, <2>3, <2>4 DEF KeysUnder
<1>10. ASSUME \A b \in ChildBytes(n) : \E i \in 1 .. m : bytes[i] = b
       PROVE  Here = {k \in StoredKeys : IsPrefix(n.at, k)}
  BY <1>10, KeysBelowChildren
<1> QED  BY <1>8, <1>9, <1>10 DEF C

LEMMA SeqFacts ==
  ASSUME NEW T, NEW s \in Seq(T)
  PROVE  /\ Len(s) \in Nat /\ DOMAIN s = 1 .. Len(s)
         /\ \A i \in 1 .. Len(s) : s[i] \in T
OBVIOUS

LEMMA EndsOfSequence ==
  ASSUME NEW T, NEW s \in Seq(T), s # << >>
  PROVE  /\ Front(s) \in Seq(T) /\ Last(s) \in T /\ s = Front(s) \o <<Last(s)>>
         /\ Tail(s) \in Seq(T) /\ Head(s) \in T /\ s = <<Head(s)>> \o Tail(s)
<1>1. Len(s) \in Nat /\ Len(s) > 0 /\ Len(s) \in DOMAIN s /\ 1 \in DOMAIN s  OBVIOUS
<1>2. Front(s) \in Seq(T) /\ Len(Front(s)) = Len(s) - 1
      /\ \A i \in 1 .. Len(s) - 1 : Front(s)[i] = s[i]
  <2>1. Front(s) = SubSeq(s, 1, Len(s) - 1)  BY DEF Front
  <2>0. Len(s) - 1 \in Nat /\ Len(s) - 1 <= Len(s)  BY <1>1
  <2>2. PICK n \in Nat : n = Len(s) - 1 /\ n <= Len(s)  BY <2>0
  <2>3. SubSeq(s, 1, n) \in Seq(T) /\ Len(SubSeq(s, 1, n)) = n
        /\ \A i \in 1 .. n : SubSeq(s, 1, n)[i] = s[i]
    BY <2>2
  <2> QED  BY <2>1, <2>2, <2>3
<1>3. Last(s) = s[Len(s)]  BY DEF Last
<1>4. s = Front(s) \o <<Last(s)>>
  <2> DEFINE t == Front(s) \o <<Last(s)>>
  <2>0. Last(s) \in T  BY <1>1, <1>3
  <2>1. t \in Seq(T) /\ Len(t) = Len(s)  BY <1>1, <1>2, <2>0
  <2>2. \A i \in 1 .. Len(s) : t[i] = s[i]
    <3>1. TAKE i \in 1 .. Len(s)
    <3>2. CASE i = Len(s)  BY <3>2, <1>1, <1>2, <1>3, <2>0
    <3>3. CASE i # Len(s)
      <4>1. i \in 1 .. Len(s) - 1  BY <3>3, <1>1
      <4> QED  BY <4>1, <1>1, <1>2, <2>0
    <3> QED  BY <3>2, <3>3
  <2> HIDE DEF t
  <2>3. s = t  BY <2>1, <2>2
  <2> QED  BY <2>3 DEF t
<1>5. Tail(s) \in Seq(T) /\ Head(s) \in T /\ s = <<Head(s)>> \o Tail(s)  BY <1>1
<1> QED  BY <1>1, <1>2, <1>3, <1>4, <1>5

LEMMA ReverseFacts ==
  ASSUME NEW T, NEW s \in Seq(T)
  PROVE  /\ Reverse(s) \in Seq(T) /\ Len(Reverse(s)) = Len(s) /\ DOMAIN Reverse(s) = 1 .. Len(s)
         /\ Len(s) \in Nat
         /\ \A i \in 1 .. Len(s) : Reverse(s)[i] = s[Len(s) - i + 1] /\ Len(s) - i + 1 \in 1 .. Len(s)
<1>1. Len(s) \in Nat  OBVIOUS
<1>2. \A i \in 1 .. Len(s) : Len(s) - i + 1 \in 1 .. Len(s)  BY <1>1
<1>3. Reverse(s) = [i \in 1 .. Len(s) |-> s[Len(s) - i + 1]]
  <2>1. \A i \in 1 .. Len(s) : (Len(s) - i) + 1 = Len(s) - i + 1  OBVIOUS
  <2> QED  BY <2>1 DEF Reverse
<1>4. Reverse(s) \in [1 .. Len(s) -> T]  BY <1>2, <1>3
<1> QED  BY <1>1, <1>2, <1>3, <1>4

(* D is a set of nodes with paths; a walk queues them with depths.         *)
LEMMA WalkPathsConcat ==
  ASSUME NEW D, \A x \in D : x.at \in ByteString,
         NEW A \in Seq([node : D, depth : Nat]), NEW B \in Seq([node : D, depth : Nat])
  PROVE  /\ WalkPaths(A) \in Seq(ByteString) /\ Len(WalkPaths(A)) = Len(A)
         /\ WalkPaths(A \o B) = WalkPaths(A) \o WalkPaths(B)
<1> DEFINE T == [node : D, depth : Nat]
<1>1. \A e \in T : e.node.at \in ByteString  OBVIOUS
<1>2. \A s \in Seq(T) : /\ WalkPaths(s) \in Seq(ByteString) /\ Len(WalkPaths(s)) = Len(s)
                        /\ DOMAIN WalkPaths(s) = 1 .. Len(s)
                        /\ \A i \in 1 .. Len(s) : WalkPaths(s)[i] = s[i].node.at
  <2>1. TAKE s \in Seq(T)
  <2> HIDE DEF T
  <2>2. Len(s) \in Nat /\ \A i \in 1 .. Len(s) : s[i] \in T  BY SeqFacts
  <2>3. \A i \in 1 .. Len(s) : s[i].node.at \in ByteString  BY <1>1, <2>2
  <2>4. WalkPaths(s) \in [1 .. Len(s) -> ByteString]  BY <2>3 DEF WalkPaths
  <2> QED  BY <2>2, <2>4 DEF WalkPaths
<1>3. /\ A \o B \in Seq(T) /\ Len(A) \in Nat /\ Len(B) \in Nat
      /\ Len(A \o B) = Len(A) + Len(B)
      /\ \A i \in 1 .. Len(A) : (A \o B)[i] = A[i]
      /\ \A i \in 1 .. Len(B) : (A \o B)[Len(A) + i] = B[i]
  BY JoinFacts
<1> DEFINE l == WalkPaths(A \o B)
           r == WalkPaths(A) \o WalkPaths(B)
<1>4. /\ r \in Seq(ByteString) /\ Len(r) = Len(A) + Len(B)
      /\ \A i \in 1 .. Len(A) : r[i] = WalkPaths(A)[i]
      /\ \A i \in 1 .. Len(B) : r[Len(A) + i] = WalkPaths(B)[i]
  <2>1. PICK a \in Seq(ByteString) : a = WalkPaths(A) /\ Len(a) = Len(A)  BY <1>2
  <2>2. PICK b \in Seq(ByteString) : b = WalkPaths(B) /\ Len(b) = Len(B)  BY <1>2
  <2>3. /\ a \o b \in Seq(ByteString) /\ Len(a \o b) = Len(a) + Len(b)
        /\ \A i \in 1 .. Len(a) : (a \o b)[i] = a[i]
        /\ \A i \in 1 .. Len(b) : (a \o b)[Len(a) + i] = b[i]
    BY JoinFacts
  <2> QED  BY <2>1, <2>2, <2>3
<1>5. l \in Seq(ByteString) /\ Len(l) = Len(A) + Len(B)  BY <1>2, <1>3
<1>6. \A i \in 1 .. Len(A) + Len(B) : l[i] = r[i]
  <2>1. TAKE i \in 1 .. Len(A) + Len(B)
  <2>2. l[i] = (A \o B)[i].node.at  BY <1>2, <1>3
  <2> HIDE DEF l, r
  <2>3. CASE i <= Len(A)
    <3>1. i \in 1 .. Len(A)  BY <2>3
    <3> QED  BY <3>1, <2>2, <1>2, <1>3, <1>4
  <2>4. CASE i > Len(A)
    <3>1. PICK j \in 1 .. Len(B) : i = Len(A) + j
      <4>1. i - Len(A) \in 1 .. Len(B) /\ i = Len(A) + (i - Len(A))  BY <2>4, <1>3
      <4> QED  BY <4>1
    <3> QED  BY <3>1, <2>2, <1>2, <1>3, <1>4
  <2> QED  BY <2>3, <2>4, <1>3
<1> HIDE DEF l, r
<1>7. l = r  BY <1>4, <1>5, <1>6
<1> QED  BY <1>2, <1>7 DEF l, r

LEMMA StackPathsConcat ==
  ASSUME NEW D, \A x \in D : x.at \in ByteString, NEW A \in Seq(D), NEW B \in Seq(D)
  PROVE  /\ StackPaths(A) \in Seq(ByteString) /\ Len(StackPaths(A)) = Len(A)
         /\ StackPaths(A \o B) = StackPaths(B) \o StackPaths(A)
<1>2. \A s \in Seq(D) : /\ StackPaths(s) \in Seq(ByteString) /\ Len(StackPaths(s)) = Len(s)
                        /\ \A i \in 1 .. Len(s) : StackPaths(s)[i] = s[Len(s) - i + 1].at
  <2>1. TAKE s \in Seq(D)
  <2>2. Len(s) \in Nat /\ \A i \in 1 .. Len(s) : s[i] \in D  BY SeqFacts
  <2>3. \A i \in 1 .. Len(s) : Len(s) - i + 1 \in 1 .. Len(s)  BY <2>2
  <2>4. \A i \in 1 .. Len(s) : s[Len(s) - i + 1].at \in ByteString  BY <2>2, <2>3
  <2>5. StackPaths(s) \in [1 .. Len(s) -> ByteString]  BY <2>4 DEF StackPaths
  <2> QED  BY <2>2, <2>5 DEF StackPaths
<1>3. /\ A \o B \in Seq(D) /\ Len(A) \in Nat /\ Len(B) \in Nat
      /\ Len(A \o B) = Len(A) + Len(B)
      /\ \A i \in 1 .. Len(A) : (A \o B)[i] = A[i]
      /\ \A i \in 1 .. Len(B) : (A \o B)[Len(A) + i] = B[i]
  BY JoinFacts
<1> DEFINE l == StackPaths(A \o B)
           r == StackPaths(B) \o StackPaths(A)
<1>4. /\ r \in Seq(ByteString) /\ Len(r) = Len(A) + Len(B)
      /\ \A i \in 1 .. Len(B) : r[i] = StackPaths(B)[i]
      /\ \A i \in 1 .. Len(A) : r[Len(B) + i] = StackPaths(A)[i]
  <2>1. PICK a \in Seq(ByteString) : a = StackPaths(A) /\ Len(a) = Len(A)  BY <1>2
  <2>2. PICK b \in Seq(ByteString) : b = StackPaths(B) /\ Len(b) = Len(B)  BY <1>2
  <2>3. /\ b \o a \in Seq(ByteString) /\ Len(b \o a) = Len(b) + Len(a)
        /\ \A i \in 1 .. Len(b) : (b \o a)[i] = b[i]
        /\ \A i \in 1 .. Len(a) : (b \o a)[Len(b) + i] = a[i]
    BY JoinFacts
  <2>4. Len(b) + Len(a) = Len(A) + Len(B)  BY <2>1, <2>2, <1>3
  <2> QED  BY <2>1, <2>2, <2>3, <2>4
<1>5. l \in Seq(ByteString) /\ Len(l) = Len(A) + Len(B)  BY <1>2, <1>3
<1>6. \A i \in 1 .. Len(A) + Len(B) : l[i] = r[i]
  <2>1. TAKE i \in 1 .. Len(A) + Len(B)
  <2>2. l[i] = (A \o B)[Len(A) + Len(B) - i + 1].at
    <3>1. PICK s \in Seq(D) : s = A \o B /\ Len(s) = Len(A) + Len(B)  BY <1>3
    <3>2. StackPaths(s)[i] = s[Len(s) - i + 1].at  BY <3>1, <1>2
    <3> QED  BY <3>1, <3>2
  <2> HIDE DEF l, r
  <2>3. CASE i <= Len(B)
    <3>1. i \in 1 .. Len(B) /\ Len(B) - i + 1 \in 1 .. Len(B)  BY <2>3, <1>3
    <3>2. Len(A) + Len(B) - i + 1 = Len(A) + (Len(B) - i + 1)  BY <1>3
    <3>3. (A \o B)[Len(A) + (Len(B) - i + 1)] = B[Len(B) - i + 1]  BY <3>1, <1>3
    <3>5. l[i] = B[Len(B) - i + 1].at  BY <3>2, <3>3, <2>2
    <3>4. r[i] = B[Len(B) - i + 1].at
      <4>1. r[i] = StackPaths(B)[i]  BY <3>1, <1>4
      <4> QED  BY <4>1, <3>1, <1>2
    <3> QED  BY <3>5, <3>4
  <2>4. CASE i > Len(B)
    <3>1. PICK j \in 1 .. Len(A) : i = Len(B) + j
      <4>1. i - Len(B) \in 1 .. Len(A) /\ i = Len(B) + (i - Len(B))  BY <2>4, <1>3
      <4> QED  BY <4>1
    <3>2. Len(A) + Len(B) - i + 1 = Len(A) - j + 1 /\ Len(A) - j + 1 \in 1 .. Len(A)
      BY <3>1, <1>3
    <3>3. l[i] = A[Len(A) - j + 1].at  BY <3>2, <2>2, <1>3
    <3>4. r[i] = A[Len(A) - j + 1].at  BY <3>1, <1>2, <1>4
    <3> QED  BY <3>3, <3>4
  <2> QED  BY <2>3, <2>4, <1>3
<1> HIDE DEF l, r
<1>7. l = r  BY <1>4, <1>5, <1>6
<1> QED  BY <1>2, <1>7 DEF l, r

LEMMA WalkPathsFacts ==
  ASSUME NEW D, \A x \in D : x.at \in ByteString, NEW s \in Seq([node : D, depth : Nat])
  PROVE  /\ WalkPaths(s) \in Seq(ByteString) /\ DOMAIN WalkPaths(s) = 1 .. Len(s)
         /\ \A i \in 1 .. Len(s) : WalkPaths(s)[i] = s[i].node.at /\ s[i].node \in D /\ s[i].depth \in Nat
<1> DEFINE T == [node : D, depth : Nat]
<1>1. \A e \in T : e.node \in D /\ e.depth \in Nat /\ e.node.at \in ByteString  OBVIOUS
<1> HIDE DEF T
<1>2. Len(s) \in Nat /\ \A i \in 1 .. Len(s) : s[i] \in T
  <2>1. s \in Seq(T)  BY DEF T
  <2> QED  BY <2>1, SeqFacts
<1>3. \A i \in 1 .. Len(s) : s[i].node.at \in ByteString  BY <1>1, <1>2
<1>4. WalkPaths(s) \in [1 .. Len(s) -> ByteString]  BY <1>3 DEF WalkPaths
<1> QED  BY <1>1, <1>2, <1>4 DEF WalkPaths

(* A sequence whose elements are all taken from A or B.                    *)
IsConcat(s, A, B) == s = A \o B
Among(s, A) == \A i \in DOMAIN s : \E j \in DOMAIN A : s[i] = A[j]
MadeOf(s, A, B) ==
  \A i \in DOMAIN s : (\E j \in DOMAIN A : s[i] = A[j]) \/ (\E j \in DOMAIN B : s[i] = B[j])

LEMMA ElementsOfConcat ==
  ASSUME NEW T, NEW A \in Seq(T), NEW B \in Seq(T), NEW s, IsConcat(s, A, B)
  PROVE  s \in Seq(T) /\ MadeOf(s, A, B) /\ MadeOf(s, B, A) /\ Among(A, s) /\ Among(B, s)
<1>0. s = A \o B  BY DEF IsConcat
<1>1. s \in Seq(T)  BY <1>0
<1>2. /\ Len(A) \in Nat /\ Len(B) \in Nat
      /\ DOMAIN s = 1 .. Len(A) + Len(B) /\ DOMAIN A = 1 .. Len(A) /\ DOMAIN B = 1 .. Len(B)
  BY <1>0
<1>3. /\ \A i \in 1 .. Len(A) : s[i] = A[i]
      /\ \A i \in 1 .. Len(B) : s[Len(A) + i] = B[i]
  BY <1>0
<1>4. \A i \in DOMAIN s : i \in DOMAIN A \/ (i - Len(A) \in DOMAIN B /\ i = Len(A) + (i - Len(A)))
  BY <1>2
<1>5. \A i \in DOMAIN A : i \in DOMAIN s /\ A[i] = s[i]  BY ONLY <1>2, <1>3
<1>6. \A i \in DOMAIN B : Len(A) + i \in DOMAIN s /\ B[i] = s[Len(A) + i]  BY ONLY <1>2, <1>3
<1> QED  BY ONLY <1>1, <1>2, <1>3, <1>4, <1>5, <1>6 DEF MadeOf, Among

-----------------------------------------------------------------------------
(***************************************************************************)
(* The subtrees that a turn queues.                                        *)
(***************************************************************************)

(* The keys of the map are counted by its leaves.                          *)
LEMMA StoredKeysFacts ==
  ASSUME TreeInvariant
  PROVE  /\ StoredKeys \in SUBSET ByteString /\ StoredKeys \subseteq Keys
         /\ StoredKeys = {l.at : l \in Leaves(heap)}
         /\ IsFiniteSet(StoredKeys) /\ Cardinality(StoredKeys) = Cardinality(Leaves(heap))
         /\ \A l \in Leaves(heap) : KeysBelow(l) = {l.at}
<1>1. \A l \in Leaves(heap) : heap[l].key = l.at /\ l.at \in Keys /\ l.at \in ByteString
  BY LeafFacts, KeysAssumption
<1>2. StoredKeys = {l.at : l \in Leaves(heap)}  BY <1>1 DEF StoredKeys
<1>3. \A l, m \in Leaves(heap) : l.at = m.at => l = m
  BY DEF TreeInvariant, AddressesAreFresh, Leaves
<1>4. IsFiniteSet(Leaves(heap))
  <2>1. Leaves(heap) \subseteq DOMAIN heap  BY DEF Leaves
  <2> QED  BY <2>1, FS_Subset DEF TreeInvariant, HeapIsFinite
<1> DEFINE f == [l \in Leaves(heap) |-> l.at]
<1>5. f \in Bijection(Leaves(heap), StoredKeys)
  <2>1. f \in [Leaves(heap) -> StoredKeys]  BY <1>2
  <2>2. \A k \in StoredKeys : \E l \in Leaves(heap) : f[l] = k  BY <1>2
  <2>3. \A l, m \in Leaves(heap) : f[l] = f[m] => l = m  BY <1>3
  <2> HIDE DEF f
  <2> QED  BY <2>1, <2>2, <2>3 DEF Bijection, Injection, Surjection, IsInjective
<1>6. IsFiniteSet(StoredKeys) /\ Cardinality(StoredKeys) = Cardinality(Leaves(heap))
  BY <1>4, <1>5, FS_Bijection DEF ExistsBijection
<1>7. ASSUME NEW l \in Leaves(heap) PROVE KeysBelow(l) = {l.at}
  <2>1. \A m \in Leaves(heap) : IsPrefix(l.at, m.at) => m = l
    BY DEF TreeInvariant, LeavesAreLowest, Leaves
  <2>2. IsPrefix(l.at, l.at)  BY <1>1, PrefixReflexive
  <2>3. \A k \in StoredKeys : IsPrefix(l.at, k) => k = l.at  BY <1>2, <2>1
  <2>4. l.at \in StoredKeys  BY <1>2
  <2> QED  BY <2>2, <2>3, <2>4 DEF KeysBelow
<1> QED  BY <1>1, <1>2, <1>6, <1>7

LEMMA ChildrenInOrderFacts ==
  ASSUME TreeInvariant, NEW n \in Inners(heap), NEW d \in Nat
  PROVE  /\ ChildrenInOrder(n, d) \in Seq(QueueEntry)
         /\ \A i \in DOMAIN ChildrenInOrder(n, d) :
              \E b \in ChildBytes(n) : ChildrenInOrder(n, d)[i] = Pending(Child(n, b), d)
         /\ WalkPaths(Reverse(ChildrenInOrder(n, d))) =
              PathsUnder(n, BytesInOrder(n), Cardinality(ChildBytes(n)))
<1> DEFINE C == ChildrenInOrder(n, d)
           m == Cardinality(ChildBytes(n))
           bytes == BytesInOrder(n)
<1>1. m \in Nat /\ bytes \in [1 .. m -> ChildBytes(n)] /\ DOMAIN bytes = 1 .. m
  BY BytesInOrderFacts
<1>2. C = [i \in 1 .. m |-> Pending(Child(n, bytes[i]), d)]  BY <1>1 DEF ChildrenInOrder
<1> HIDE DEF m, bytes, C
<1>3. Shape  BY InvariantShape
<1>4. \A b \in ChildBytes(n) : Pending(Child(n, b), d) \in QueueEntry
  BY <1>3, ChildFacts DEF Pending, QueueEntry
<1>5. C \in [1 .. m -> QueueEntry]  BY <1>1, <1>2, <1>4
<1>6. C \in Seq(QueueEntry) /\ Len(C) = m /\ DOMAIN C = 1 .. m  BY <1>1, <1>5
<1>7. \A i \in 1 .. m : C[i] = Pending(Child(n, bytes[i]), d) /\ bytes[i] \in ChildBytes(n)
  BY <1>1, <1>2
<1>8. Len(Reverse(C)) = m /\ \A i \in 1 .. m : Reverse(C)[i] = C[m - i + 1] /\ m - i + 1 \in 1 .. m
  BY <1>6, ReverseFacts
<1>9. \A i \in 1 .. m : Reverse(C)[i].node.at = Child(n, bytes[m - i + 1]).at
  <2>1. TAKE i \in 1 .. m
  <2>2. PICK j \in 1 .. m : j = m - i + 1 /\ Reverse(C)[i] = C[j]  BY <1>8
  <2>3. PICK c : c = Child(n, bytes[j])  OBVIOUS
  <2>4. C[j] = [node |-> c, depth |-> d]  BY <1>7, <2>3 DEF Pending
  <2>5. Reverse(C)[i].node = c  BY <2>2, <2>4
  <2> QED  BY <2>2, <2>3, <2>5
<1>10. WalkPaths(Reverse(C)) = PathsUnder(n, bytes, m)
  BY <1>8, <1>9 DEF WalkPaths, PathsUnder
<1> QED  BY <1>6, <1>7, <1>10 DEF C, m, bytes

(* Every subtree is queued for the right reasons: below the node it        *)
(* replaces, in descending order from the front to the back.               *)
QueuesBelow(B, n) ==
  /\ B \in Seq(QueueEntry)
  /\ Reverse(B) \in Seq(QueueEntry)
  /\ Descending(WalkPaths(Reverse(B)))
  /\ \A j \in DOMAIN Reverse(B) : IsPrefix(n.at, Reverse(B)[j].node.at)

LEMMA AllChildrenQueued ==
  ASSUME TreeInvariant, NEW n \in Inners(heap), NEW d \in Nat
  PROVE  /\ QueuesBelow(ChildrenInOrder(n, d), n)
         /\ KeysUnder(StoredKeys, WalkPaths(Reverse(ChildrenInOrder(n, d)))) = KeysBelow(n)
<1> DEFINE C == ChildrenInOrder(n, d)
           m == Cardinality(ChildBytes(n))
           bytes == BytesInOrder(n)
           P == PathsUnder(n, bytes, m)
<1>1. m \in Nat /\ bytes \in [1 .. m -> ChildBytes(n)]
      /\ (\A i, j \in 1 .. m : i < j => bytes[i] < bytes[j])
      /\ \A b \in ChildBytes(n) : \E i \in 1 .. m : bytes[i] = b
  BY BytesInOrderFacts
<1>2. /\ C \in Seq(QueueEntry) /\ WalkPaths(Reverse(C)) = P
      /\ \A i \in DOMAIN C : \E b \in ChildBytes(n) : C[i] = Pending(Child(n, b), d)
  BY ChildrenInOrderFacts
<1> HIDE DEF C, m, bytes
<1>3. Descending(P)  BY <1>1, ChildrenDescend
<1>4. KeysUnder(StoredKeys, P) = {k \in StoredKeys : IsPrefix(n.at, k)}
  BY <1>1, KeysUnderChildren
<1> HIDE DEF P
<1>5. Shape  BY InvariantShape
<1>6. \A b \in ChildBytes(n) : IsPrefix(n.at, Child(n, b).at)  BY <1>5, ChildFacts DEF Below
<1>7. \A i \in DOMAIN C : IsPrefix(n.at, C[i].node.at)  BY <1>2, <1>6 DEF Pending
<1>8. /\ Reverse(C) \in Seq(QueueEntry) /\ DOMAIN Reverse(C) = 1 .. Len(C) /\ DOMAIN C = 1 .. Len(C)
      /\ \A i \in 1 .. Len(C) : Reverse(C)[i] = C[Len(C) - i + 1] /\ Len(C) - i + 1 \in 1 .. Len(C)
  BY <1>2, ReverseFacts
<1>9. \A j \in DOMAIN Reverse(C) : IsPrefix(n.at, Reverse(C)[j].node.at)  BY <1>7, <1>8
<1> QED  BY <1>2, <1>3, <1>4, <1>8, <1>9 DEF QueuesBelow, KeysBelow, C

LEMMA OneChildQueued ==
  ASSUME TreeInvariant, NEW n \in Inners(heap), NEW b \in ChildBytes(n), NEW d \in Nat
  PROVE  /\ QueuesBelow(<<Pending(Child(n, b), d)>>, n)
         /\ KeysUnder(StoredKeys, WalkPaths(Reverse(<<Pending(Child(n, b), d)>>))) =
              KeysBelow(Child(n, b))
         /\ KeysBelow(Child(n, b)) =
              {k \in KeysBelow(n) : Len(n.at) < Len(k) /\ k[Len(n.at) + 1] = b}
<1>1. Shape  BY InvariantShape
<1>2. PICK c \in DOMAIN heap : c = Child(n, b) /\ IsPrefix(n.at, c.at)  BY <1>1, ChildFacts DEF Below
<1>3. PICK p \in QueueEntry : p = Pending(Child(n, b), d) /\ p.node = c
  <2>1. Pending(c, d) \in QueueEntry /\ Pending(c, d).node = c  BY DEF QueueEntry, Pending
  <2> QED  BY <2>1, <1>2
<1>4. <<p>> \in Seq(QueueEntry) /\ Len(<<p>>) = 1 /\ <<p>>[1] = p  OBVIOUS
<1>5. /\ Reverse(<<p>>) \in Seq(QueueEntry) /\ Len(Reverse(<<p>>)) = 1
      /\ DOMAIN Reverse(<<p>>) = 1 .. 1 /\ Reverse(<<p>>)[1] = p
  <2>1. PICK s \in Seq(QueueEntry) : s = <<p>> /\ Len(s) = 1 /\ s[1] = p  BY <1>4
  <2>2. /\ Reverse(s) \in Seq(QueueEntry) /\ Len(Reverse(s)) = Len(s) /\ DOMAIN Reverse(s) = 1 .. Len(s)
        /\ \A i \in 1 .. Len(s) : Reverse(s)[i] = s[Len(s) - i + 1]
    BY ReverseFacts
  <2>3. Reverse(s)[1] = p  BY <2>1, <2>2
  <2>4. Reverse(s) \in Seq(QueueEntry) /\ Len(Reverse(s)) = 1 /\ DOMAIN Reverse(s) = 1 .. 1
    BY <2>1, <2>2
  <2> QED  BY <2>1, <2>3, <2>4
<1>6. PICK at \in ByteString : at = c.at  BY NodeFacts
<1>7. WalkPaths(Reverse(<<p>>)) = <<at>>
  <2>1. WalkPaths(Reverse(<<p>>)) = [i \in 1 .. 1 |-> Reverse(<<p>>)[i].node.at]
    BY <1>5 DEF WalkPaths
  <2>2. \A i \in 1 .. 1 : Reverse(<<p>>)[i].node.at = at  BY <1>3, <1>5, <1>6
  <2> QED  BY <2>1, <2>2
<1>8. Descending(<<at>>) /\ KeysUnder(StoredKeys, <<at>>) = {k \in StoredKeys : IsPrefix(at, k)}
  BY OneQueued
<1>9. \A j \in DOMAIN Reverse(<<p>>) : IsPrefix(n.at, Reverse(<<p>>)[j].node.at)
  BY <1>2, <1>3, <1>5
<1>10. QueuesBelow(<<p>>, n)  BY <1>4, <1>5, <1>7, <1>8, <1>9 DEF QueuesBelow
<1>11. KeysBelow(c) = {k \in KeysBelow(n) : Len(n.at) < Len(k) /\ k[Len(n.at) + 1] = b}
  <2> DEFINE bytes == [i \in 1 .. 1 |-> b]
  <2>1. bytes \in [1 .. 1 -> ChildBytes(n)] /\ \A i \in 1 .. 1 : bytes[i] = b  OBVIOUS
  <2>2. PathsUnder(n, bytes, 1) = <<at>>
    <3>1. \A i \in 1 .. 1 : Child(n, bytes[1 - i + 1]).at = at  BY <1>2, <1>6
    <3>2. PathsUnder(n, bytes, 1) = [i \in 1 .. 1 |-> Child(n, bytes[1 - i + 1]).at]  BY DEF PathsUnder
    <3> HIDE DEF bytes
    <3> QED  BY <3>1, <3>2
  <2> HIDE DEF bytes
  <2>3. PICK one \in Nat : one = 1  OBVIOUS
  <2>4. bytes \in [1 .. one -> ChildBytes(n)]  BY <2>1, <2>3
  <2>5. KeysUnder(StoredKeys, PathsUnder(n, bytes, one)) =
          {k \in StoredKeys : /\ IsPrefix(n.at, k) /\ Len(n.at) < Len(k)
                              /\ \E i \in 1 .. one : k[Len(n.at) + 1] = bytes[i]}
    BY <2>4, KeysUnderChildren
  <2>6. \A k : (\E i \in 1 .. one : k[Len(n.at) + 1] = bytes[i]) <=> k[Len(n.at) + 1] = b
    BY <2>1, <2>3
  <2> QED  BY <2>2, <2>3, <2>5, <2>6, <1>8, <1>6 DEF KeysBelow
<1> QED  BY <1>2, <1>3, <1>6, <1>7, <1>8, <1>10, <1>11 DEF KeysBelow

LEMMA NothingQueued ==
  ASSUME NEW n
  PROVE  QueuesBelow(<< >>, n) /\ \A K : KeysUnder(K, WalkPaths(Reverse(<< >>))) = {}
<1>1. << >> \in Seq(QueueEntry) /\ Len(<< >>) = 0  OBVIOUS
<1>2. Reverse(<< >>) \in Seq(QueueEntry) /\ Len(Reverse(<< >>)) = 0 /\ DOMAIN Reverse(<< >>) = {}
  <2>1. PICK s \in Seq(QueueEntry) : s = << >> /\ Len(s) = 0  BY <1>1
  <2>2. Reverse(s) \in Seq(QueueEntry) /\ Len(Reverse(s)) = Len(s) /\ DOMAIN Reverse(s) = 1 .. Len(s)
    BY ReverseFacts
  <2> QED  BY <2>1, <2>2
<1>3. DOMAIN WalkPaths(Reverse(<< >>)) = {}  BY <1>2 DEF WalkPaths
<1> QED  BY <1>1, <1>2, <1>3 DEF QueuesBelow, Descending, KeysUnder

Matches(q, k) == q.kind = "all" \/ IsPrefix(q.prefix, k)

(* Two slices from the same place agree to the end of the shorter one if   *)
(* the strings do.                                                         *)
LEMMA IsPrefixOfSlices ==
  ASSUME NEW s \in ByteString, NEW t \in ByteString, NEW d \in Nat, d <= Len(s), d <= Len(t),
         \A i \in 1 .. d : s[i] = t[i]
  PROVE  IsPrefixOf(DropFirst(s, d), DropFirst(t, d)) <=>
           \A i \in 1 .. Lesser(Len(s), Len(t)) : s[i] = t[i]
<1>1. PICK a \in ByteString : /\ a = DropFirst(s, d) /\ Len(a) = Len(s) - d
                              /\ \A i \in 1 .. Len(s) - d : a[i] = s[d + i]
  BY DropFirstFacts
<1>2. PICK b \in ByteString : /\ b = DropFirst(t, d) /\ Len(b) = Len(t) - d
                              /\ \A i \in 1 .. Len(t) - d : b[i] = t[d + i]
  BY DropFirstFacts
<1>3. Len(s) \in Nat /\ Len(t) \in Nat  BY DEF ByteString
<1>4. PICK m \in Nat : m = Lesser(Len(s), Len(t)) /\ m <= Len(s) /\ m <= Len(t) /\ d <= m
  BY <1>3 DEF Lesser
<1>5. Lesser(Len(a), Len(b)) = m - d  BY <1>1, <1>2, <1>3, <1>4 DEF Lesser
<1>6. IsMatchedBytes(MatchedBytes(a, b), a, b)  BY MatchedBytesFacts
<1>7. PICK n \in 0 .. m - d : /\ n = MatchedBytes(a, b) /\ \A i \in 1 .. n : a[i] = b[i]
                              /\ n < m - d => a[n + 1] # b[n + 1]
  <2>1. PICK n : n = MatchedBytes(a, b)  OBVIOUS
  <2>2. IsMatchedBytes(n, a, b)  BY <1>6, <2>1
  <2>3. n \in 0 .. m - d /\ (\A i \in 1 .. n : a[i] = b[i]) /\ (n < m - d => a[n + 1] # b[n + 1])
    BY <2>2, <1>5 DEF IsMatchedBytes
  <2> QED  BY <2>1, <2>3
<1>8. \A i \in 1 .. m - d : a[i] = s[d + i] /\ b[i] = t[d + i]
  <2>1. TAKE i \in 1 .. m - d
  <2>2. i \in 1 .. Len(s) - d /\ i \in 1 .. Len(t) - d  BY <1>3, <1>4
  <2> QED  BY <2>2, <1>1, <1>2
<1>9. ASSUME n = m - d, NEW i \in 1 .. m PROVE s[i] = t[i]
  <2>1. CASE i <= d  BY <2>1
  <2>2. CASE i > d
    <3>1. PICK j \in 1 .. m - d : i = d + j
      <4>1. i - d \in 1 .. m - d  BY <2>2, <1>4
      <4> QED  BY <4>1
    <3> QED  BY <3>1, <1>7, <1>8, <1>9
  <2> QED  BY <2>1, <2>2, <1>4
<1>10. ASSUME n # m - d PROVE \E i \in 1 .. m : s[i] # t[i]
  <2>1. n + 1 \in 1 .. m - d /\ n < m - d /\ d + (n + 1) \in 1 .. m  BY <1>10, <1>7, <1>4
  <2> QED  BY <2>1, <1>7, <1>8
<1>11. IsPrefixOf(a, b) <=> n = m - d  BY <1>5, <1>7 DEF IsPrefixOf
<1> QED  BY <1>1, <1>2, <1>4, <1>9, <1>10, <1>11

(* A subtree that is queued with fewer bytes than the prefix has: its path *)
(* from there on is what read_full_prefix reads.                           *)
LEMMA QueuedPath ==
  ASSUME TreeInvariant, ~TearingDown, NEW prefix \in ByteString, NEW p \in QueueEntry,
         LeadsToNode(prefix, p), p.depth < Len(prefix)
  PROVE  /\ p.depth <= Len(p.node.at)
         /\ \A i \in 1 .. p.depth : prefix[i] = p.node.at[i]
         /\ IsInner(p.node) => ReadFullPrefix(p.node, p.depth) = DropFirst(p.node.at, p.depth)
<1>1. PICK x \in DOMAIN heap, d \in Nat : p.node = x /\ p.depth = d /\ d < Len(prefix)
  BY DEF QueueEntry
<1>2. /\ IsPrefix(TakeFirst(prefix, d), x.at)
      /\ IF x = root THEN d = 0
         ELSE \E n \in Inners(heap) : d = Len(n.at) + 1 /\ x \in ChildrenOf(n)
  BY <1>1 DEF LeadsToNode
<1>3. x.at \in ByteString /\ Len(x.at) \in Nat /\ (IsInner(x) => x \in Inners(heap))  BY NodeFacts
<1>4. Len(prefix) \in Nat /\ d <= Len(prefix)  BY <1>1 DEF ByteString
<1>5. PICK t \in ByteString : /\ t = TakeFirst(prefix, d) /\ Len(t) = d
                              /\ \A i \in 1 .. d : t[i] = prefix[i]
  BY <1>4, TakeFirstFacts
<1>6. d <= Len(x.at) /\ \A i \in 1 .. d : prefix[i] = x.at[i]
  BY <1>2, <1>3, <1>5, PrefixPointwise
<1>7. ASSUME IsInner(x) PROVE Represents(heap[x].header, DropFirst(x.at, d))
  <2>1. CASE x = root
    <3>1. d = 0 /\ x # None  BY <1>2, <2>1, NodeFacts
    <3>2. Represents(heap[x].header, x.at)
      BY <1>7, <2>1, <3>1 DEF TreeInvariant, PrefixesAreFaithful
    <3>3. DropFirst(x.at, 0) = x.at
      <4>1. PICK at \in ByteString : at = x.at  BY <1>3
      <4>2. DropFirst(at, 0) = at
        <5>1. SubSeq(at, 1, Len(at)) = at  BY DEF ByteString
        <5>2. 0 + 1 = 1  OBVIOUS
        <5> QED  BY <5>1, <5>2 DEF DropFirst
      <4> QED  BY <4>1, <4>2
    <3> QED  BY <3>1, <3>2, <3>3
  <2>2. CASE x # root
    <3>1. PICK n \in Inners(heap) : d = Len(n.at) + 1 /\ x \in ChildrenOf(n)  BY <1>2, <2>2
    <3>2. IsInner(n) /\ ~IsLeaf(n)  BY <3>1, InnerFacts, NodeFacts
    <3>3. PICK b \in ChildBytes(n) : x = Child(n, b)  BY <3>1, <3>2 DEF ChildrenOf, Child, ChildBytes
    <3> QED  BY <3>1, <3>3, <1>7 DEF TreeInvariant, PrefixesAreFaithful
  <2> QED  BY <2>1, <2>2
<1>8. ASSUME IsInner(x) PROVE ReadFullPrefix(x, d) = DropFirst(x.at, d)
  BY <1>3, <1>6, <1>7, <1>8, ReadFullPrefixIsPath
<1> QED  BY <1>1, <1>6, <1>8

(* What a turn of the walk puts in the place of the inner node it popped:  *)
(* subtrees of it, in order, none of the matching keys below it left out.  *)
QueuedWell(B, n, q) ==
  /\ QueuesBelow(B, n)
  /\ q.kind = "prefix" => \A j \in DOMAIN Reverse(B) : LeadsToNode(q.prefix, Reverse(B)[j])
  /\ KeysUnder(StoredKeys, WalkPaths(Reverse(B))) \subseteq KeysBelow(n)
  /\ q.kind = "all" => KeysUnder(StoredKeys, WalkPaths(Reverse(B))) = KeysBelow(n)
  /\ \A k \in KeysBelow(n) : Matches(q, k) => k \in KeysUnder(StoredKeys, WalkPaths(Reverse(B)))

(* A matching node has matching keys only, and so have its children.       *)
LEMMA AllLeadToNodes ==
  ASSUME TreeInvariant, NEW n \in Inners(heap), NEW d \in Nat, NEW prefix \in ByteString,
         IsPrefix(prefix, n.at), Len(prefix) <= d
  PROVE  \A j \in DOMAIN Reverse(ChildrenInOrder(n, d)) :
           LeadsToNode(prefix, Reverse(ChildrenInOrder(n, d))[j])
<1> DEFINE C == ChildrenInOrder(n, d)
<1>1. /\ C \in Seq(QueueEntry)
      /\ \A i \in DOMAIN C : \E b \in ChildBytes(n) : C[i] = Pending(Child(n, b), d)
  BY ChildrenInOrderFacts
<1> HIDE DEF C
<1>2. Shape  BY InvariantShape
<1>3. \A b \in ChildBytes(n) : IsPrefix(prefix, Child(n, b).at)
  <2>1. TAKE b \in ChildBytes(n)
  <2>2. Child(n, b) \in DOMAIN heap /\ IsPrefix(n.at, Child(n, b).at)  BY <1>2, ChildFacts DEF Below
  <2>3. Child(n, b).at \in ByteString /\ n.at \in ByteString  BY <2>2, NodeFacts, InnerFacts
  <2> QED  BY <2>2, <2>3, PrefixTransitive
<1>4. \A b \in ChildBytes(n) : LeadsToNode(prefix, Pending(Child(n, b), d))
  <2>1. TAKE b \in ChildBytes(n)
  <2>2. PICK c : c = Child(n, b)  OBVIOUS
  <2>3. Pending(c, d).depth = d /\ Pending(c, d).node = c  BY DEF Pending
  <2>4. ~(d < Len(prefix))  BY DEF ByteString
  <2>5. LeadsToNode(prefix, Pending(c, d))  BY <2>2, <2>3, <2>4, <1>3 DEF LeadsToNode
  <2> QED  BY <2>2, <2>5
<1>5. \A i \in DOMAIN C : LeadsToNode(prefix, C[i])  BY <1>1, <1>4
<1>6. /\ DOMAIN Reverse(C) = 1 .. Len(C) /\ DOMAIN C = 1 .. Len(C)
      /\ \A i \in 1 .. Len(C) : Reverse(C)[i] = C[Len(C) - i + 1] /\ Len(C) - i + 1 \in 1 .. Len(C)
  BY <1>1, ReverseFacts
<1> QED  BY <1>5, <1>6 DEF C

LEMMA AllQueuedWell ==
  ASSUME TreeInvariant, NEW n \in Inners(heap), NEW d \in Nat, NEW q,
         q.kind = "prefix" => /\ q.prefix \in ByteString /\ IsPrefix(q.prefix, n.at)
                              /\ Len(q.prefix) <= d
  PROVE  QueuedWell(ChildrenInOrder(n, d), n, q)
<1>1. /\ QueuesBelow(ChildrenInOrder(n, d), n)
      /\ KeysUnder(StoredKeys, WalkPaths(Reverse(ChildrenInOrder(n, d)))) = KeysBelow(n)
  BY AllChildrenQueued
<1>2. q.kind = "prefix" => \A j \in DOMAIN Reverse(ChildrenInOrder(n, d)) :
                             LeadsToNode(q.prefix, Reverse(ChildrenInOrder(n, d))[j])
  BY AllLeadToNodes
<1> QED  BY <1>1, <1>2 DEF QueuedWell

LEMMA NothingQueuedWell ==
  ASSUME NEW n, NEW q, q.kind = "prefix", \A k \in KeysBelow(n) : ~IsPrefix(q.prefix, k)
  PROVE  QueuedWell(<< >>, n, q)
<1>1. QueuesBelow(<< >>, n) /\ KeysUnder(StoredKeys, WalkPaths(Reverse(<< >>))) = {}
  BY NothingQueued
<1>2. DOMAIN Reverse(<< >>) = {}
  <2>0. << >> \in Seq(QueueEntry) /\ Len(<< >>) = 0  OBVIOUS
  <2>1. PICK s \in Seq(QueueEntry) : s = << >> /\ Len(s) = 0  BY <2>0
  <2>2. DOMAIN Reverse(s) = 1 .. Len(s)  BY ReverseFacts
  <2> QED  BY <2>1, <2>2
<1>3. q.kind # "all"  OBVIOUS
<1>4. \A k \in KeysBelow(n) : ~Matches(q, k)  BY <1>3 DEF Matches
<1> QED  BY <1>1, <1>2, <1>3, <1>4 DEF QueuedWell

LEMMA OneQueuedWell ==
  ASSUME TreeInvariant, ~TearingDown, NEW n \in Inners(heap), NEW q, q.kind = "prefix",
         q.prefix \in ByteString, Len(n.at) < Len(q.prefix), IsPrefix(n.at, q.prefix),
         q.prefix[Len(n.at) + 1] \in ChildBytes(n)
  PROVE  QueuedWell(<< Pending(Child(n, q.prefix[Len(n.at) + 1]), Len(n.at) + 1) >>, n, q)
<1>1. PICK prefix \in ByteString : prefix = q.prefix  OBVIOUS
<1>2. PICK at \in ByteString : at = n.at /\ Len(at) \in Nat
  <2>1. n.at \in ByteString /\ Len(n.at) \in Nat  BY InnerFacts, NodeFacts
  <2> QED  BY <2>1
<1>3. PICK b \in ChildBytes(n) : b = prefix[Len(at) + 1]  BY <1>1, <1>2
<1>4. PICK d \in Nat : d = Len(at) + 1  BY <1>2
<1>5. /\ QueuesBelow(<<Pending(Child(n, b), d)>>, n)
      /\ KeysUnder(StoredKeys, WalkPaths(Reverse(<<Pending(Child(n, b), d)>>))) = KeysBelow(Child(n, b))
      /\ KeysBelow(Child(n, b)) =
           {k \in KeysBelow(n) : Len(n.at) < Len(k) /\ k[Len(n.at) + 1] = b}
  BY OneChildQueued
<1>6. Shape  BY InvariantShape
<1>7. PICK c \in DOMAIN heap : /\ c = Child(n, b) /\ Below(c, n) /\ ByteTowards(c, n) = b
  BY <1>6, ChildFacts
<1>8. PICK cat \in ByteString : cat = c.at /\ Len(cat) \in Nat /\ IsPrefix(at, cat)
                               /\ Len(at) < Len(cat) /\ cat[Len(at) + 1] = b
  <2>1. c.at \in ByteString /\ Len(c.at) \in Nat  BY NodeFacts
  <2> QED  BY <2>1, <1>2, <1>7 DEF Below, ByteTowards
<1>9. Len(prefix) \in Nat /\ d <= Len(prefix) /\ \A i \in 1 .. d : prefix[i] = cat[i]
  <2>1. Len(prefix) \in Nat /\ d <= Len(prefix)  BY <1>1, <1>2, <1>4 DEF ByteString
  <2>2. \A i \in 1 .. Len(at) : at[i] = prefix[i] /\ at[i] = cat[i]
    BY <1>1, <1>2, <1>8, PrefixPointwise
  <2>3. \A i \in 1 .. d : i \in 1 .. Len(at) \/ i = Len(at) + 1  BY <1>2, <1>4
  <2> QED  BY <2>1, <2>2, <2>3, <1>3, <1>8
<1>10. PICK p : p = Pending(c, d)  OBVIOUS
<1>11. p.node = c /\ p.depth = d  BY <1>10 DEF Pending
<1>12. c # root
  <2>1. SUFFICES ASSUME c = root PROVE FALSE  OBVIOUS
  <2>2. n \in DOMAIN heap  BY InnerFacts
  <2>3. IsPrefix(cat, at)
    BY <2>1, <2>2, <1>2, <1>8 DEF TreeInvariant, RootIsAboveAll
  <2>4. Len(cat) <= Len(at)  BY <2>3, PrefixPointwise
  <2> QED  BY <2>4, <1>2, <1>8
<1>13. c \in ChildrenOf(n)
  <2>1. ~IsLeaf(n)  BY InnerFacts, NodeFacts
  <2> QED  BY <2>1, <1>7 DEF ChildrenOf, Child, ChildBytes
<1>14. LeadsToNode(prefix, p)
  <2>1. CASE d < Len(prefix)
    <3>1. PICK t \in ByteString : /\ t = TakeFirst(prefix, d) /\ Len(t) = d
                                  /\ \A i \in 1 .. d : t[i] = prefix[i]
      BY <1>9, TakeFirstFacts
    <3>2. IsPrefix(t, cat)
      <4>1. d <= Len(cat)  BY <1>2, <1>4, <1>8
      <4> QED  BY <4>1, <3>1, <1>9, PrefixPointwise
    <3>3. IsPrefix(TakeFirst(prefix, p.depth), p.node.at)  BY <3>1, <3>2, <1>8, <1>11
    <3>4. \E m \in Inners(heap) : p.depth = Len(m.at) + 1 /\ p.node \in ChildrenOf(m)
      BY <1>2, <1>4, <1>11, <1>13
    <3> QED  BY <2>1, <3>3, <3>4, <1>11, <1>12 DEF LeadsToNode
  <2>2. CASE ~(d < Len(prefix))
    <3>1. Len(prefix) = d  BY <2>2, <1>9
    <3>2. IsPrefix(prefix, cat)
      <4>1. Len(prefix) <= Len(cat)  BY <1>2, <1>4, <1>8, <3>1
      <4> QED  BY <4>1, <3>1, <1>9, PrefixPointwise
    <3> QED  BY <2>2, <3>2, <1>8, <1>11 DEF LeadsToNode
  <2> QED  BY <2>1, <2>2
<1>15. PICK one \in Seq(QueueEntry) : /\ one = <<p>> /\ Len(one) = 1 /\ one[1] = p
                                      /\ Reverse(one) \in Seq(QueueEntry)
  <2>1. <<p>> \in Seq(QueueEntry) /\ Reverse(<<p>>) \in Seq(QueueEntry)
    BY <1>5, <1>7, <1>10 DEF QueuesBelow
  <2> QED  BY <2>1
<1>16. \A j \in DOMAIN Reverse(one) : LeadsToNode(prefix, Reverse(one)[j])
  <2>1. DOMAIN Reverse(one) = 1 .. Len(one) /\ \A i \in 1 .. Len(one) : Reverse(one)[i] = one[Len(one) - i + 1]
    BY <1>15, ReverseFacts
  <2>2. \A j \in 1 .. 1 : Reverse(one)[j] = p  BY <2>1, <1>15
  <2> QED  BY <2>1, <2>2, <1>15, <1>14
<1>17. \A k \in KeysBelow(n) : IsPrefix(prefix, k) => k \in KeysBelow(c)
  <2>1. SUFFICES ASSUME NEW k \in KeysBelow(n), IsPrefix(prefix, k) PROVE k \in KeysBelow(c)
    OBVIOUS
  <2>2. k \in ByteString /\ Len(k) \in Nat
    <3>1. k \in ByteString  BY StoredKeysFacts DEF KeysBelow
    <3> QED  BY <3>1 DEF ByteString
  <2>3. Len(prefix) <= Len(k) /\ \A i \in 1 .. Len(prefix) : prefix[i] = k[i]
    BY <2>1, <2>2, PrefixPointwise
  <2>4. Len(at) < Len(k) /\ k[Len(at) + 1] = b
    <3>1. Len(at) + 1 \in 1 .. Len(prefix)  BY <1>2, <1>4, <1>9
    <3> QED  BY <3>1, <2>2, <2>3, <1>2, <1>3, <1>9
  <2> QED  BY <2>4, <1>2, <1>5, <1>7
<1>18. KeysUnder(StoredKeys, WalkPaths(Reverse(one))) = KeysBelow(c) /\ KeysBelow(c) \subseteq KeysBelow(n)
  <2>1. KeysUnder(StoredKeys, WalkPaths(Reverse(one))) = KeysBelow(c)  BY <1>5, <1>7, <1>10, <1>15
  <2>2. KeysBelow(c) \subseteq KeysBelow(n)  BY <1>5, <1>7
  <2> QED  BY <2>1, <2>2
<1>19. q.kind # "all"  OBVIOUS
<1>20. QueuesBelow(one, n)  BY <1>5, <1>7, <1>10, <1>15
<1>21. QueuedWell(one, n, q)  BY <1>1, <1>16, <1>17, <1>18, <1>19, <1>20 DEF QueuedWell, Matches
<1> QED  BY <1>1, <1>2, <1>3, <1>4, <1>7, <1>10, <1>15, <1>21

(* MatchingChildren queues what may still match.                           *)
LEMMA MatchingQueuedWell ==
  ASSUME TreeInvariant, ~TearingDown, iter.query.kind = "prefix", iter.query.prefix \in ByteString,
         NEW p \in QueueEntry, IsInner(p.node), p.depth < Len(iter.query.prefix),
         LeadsToNode(iter.query.prefix, p)
  PROVE  QueuedWell(MatchingChildren(p.node, p.depth), p.node, iter.query)
<1>1. PICK n \in Inners(heap), depth \in Nat : n = p.node /\ depth = p.depth
  <2>1. p.node \in DOMAIN heap /\ p.depth \in Nat  BY DEF QueueEntry
  <2>2. p.node \in Inners(heap)  BY <2>1, NodeFacts
  <2> QED  BY <2>1, <2>2
<1>2. PICK prefix \in ByteString : prefix = iter.query.prefix  OBVIOUS
<1>3. PICK at \in ByteString : at = n.at
  <2>1. n.at \in ByteString  BY InnerFacts, NodeFacts
  <2> QED  BY <2>1
<1>4. Len(at) \in Nat /\ Len(prefix) \in Nat  BY DEF ByteString
<1>5. /\ depth <= Len(at) /\ depth < Len(prefix) /\ \A i \in 1 .. depth : at[i] = prefix[i]
      /\ ReadFullPrefix(n, depth) = DropFirst(at, depth)
  BY <1>1, <1>2, <1>3, QueuedPath
<1> DEFINE path == DropFirst(at, depth)
           Fits == IsPrefixOf(path, DropFirst(prefix, depth))
           new_depth == depth + Lesser(Len(path), Len(prefix) - depth)
           B == MatchingChildren(n, depth)
<1>6. B = IF ~Fits THEN << >>
          ELSE IF new_depth >= Len(prefix) THEN ChildrenInOrder(n, new_depth + 1)
          ELSE IF prefix[new_depth + 1] \in ChildBytes(n)
               THEN << Pending(Child(n, prefix[new_depth + 1]), new_depth + 1) >>
          ELSE << >>
  BY <1>2, <1>5 DEF MatchingChildren
<1>7. Len(path) = Len(at) - depth  BY <1>5, <1>4, DropFirstFacts
<1>8. new_depth = Lesser(Len(at), Len(prefix)) /\ new_depth \in Nat
  BY <1>4, <1>5, <1>7 DEF Lesser
<1>9. Fits <=> \A i \in 1 .. Lesser(Len(at), Len(prefix)) : at[i] = prefix[i]
  BY <1>4, <1>5, IsPrefixOfSlices
<1> HIDE DEF path, Fits, new_depth, B
<1>10. \A k \in KeysBelow(n) : k \in StoredKeys /\ k \in ByteString /\ IsPrefix(at, k)
  BY <1>3, StoredKeysFacts DEF KeysBelow
<1>11. ASSUME ~Fits PROVE QueuedWell(B, n, iter.query)
  <2>1. B = << >>  BY <1>6, <1>11
  <2>2. ASSUME NEW k \in KeysBelow(n), IsPrefix(prefix, k) PROVE FALSE
    <3>1. Len(at) <= Len(k) /\ \A i \in 1 .. Len(at) : at[i] = k[i]
      BY <1>10, <2>2, PrefixPointwise
    <3>2. Len(prefix) <= Len(k) /\ \A i \in 1 .. Len(prefix) : prefix[i] = k[i]
      BY <1>10, <2>2, PrefixPointwise
    <3>3. \A i \in 1 .. Lesser(Len(at), Len(prefix)) : i \in 1 .. Len(at) /\ i \in 1 .. Len(prefix)
      BY <1>4 DEF Lesser
    <3> QED  BY <3>1, <3>2, <3>3, <1>9, <1>11
  <2> QED  BY <2>1, <2>2, <1>2, NothingQueuedWell
<1>12. ASSUME Fits, Len(prefix) <= Len(at) PROVE QueuedWell(B, n, iter.query)
  <2>1. Lesser(Len(at), Len(prefix)) = Len(prefix)  BY <1>4, <1>12 DEF Lesser
  <2>2. new_depth = Len(prefix)  BY <2>1, <1>8
  <2>3. B = ChildrenInOrder(n, new_depth + 1)  BY <1>4, <1>6, <1>12, <2>2
  <2>4. IsPrefix(prefix, at)  BY <2>1, <1>9, <1>12, PrefixPointwise
  <2>5. PICK d \in Nat : d = new_depth + 1 /\ Len(prefix) <= d  BY <1>4, <2>2
  <2> QED  BY <1>2, <1>3, <2>3, <2>4, <2>5, AllQueuedWell
<1>13. ASSUME Fits, Len(at) < Len(prefix) PROVE QueuedWell(B, n, iter.query)
  <2>1. Lesser(Len(at), Len(prefix)) = Len(at)  BY <1>4, <1>13 DEF Lesser
  <2>2. new_depth = Len(at) /\ ~(new_depth >= Len(prefix))  BY <2>1, <1>4, <1>8, <1>13
  <2>3. IsPrefix(at, prefix)  BY <2>1, <1>4, <1>9, <1>13, PrefixPointwise
  <2>4. CASE prefix[Len(at) + 1] \in ChildBytes(n)
    <3>1. B = << Pending(Child(n, prefix[Len(at) + 1]), Len(at) + 1) >>  BY <1>6, <1>13, <2>2, <2>4
    <3> QED  BY <1>2, <1>3, <1>13, <2>3, <2>4, <3>1, OneQueuedWell
  <2>5. CASE prefix[Len(at) + 1] \notin ChildBytes(n)
    <3>1. B = << >>  BY <1>6, <1>13, <2>2, <2>5
    <3>2. ASSUME NEW k \in KeysBelow(n), IsPrefix(prefix, k) PROVE FALSE
      <4>1. PICK b \in ChildBytes(n) : k[Len(at) + 1] = b
        BY <1>3, <1>10, <3>2, KeysBelowChildren
      <4>2. prefix[Len(at) + 1] = k[Len(at) + 1]
        <5>1. Len(at) + 1 \in 1 .. Len(prefix)  BY <1>4, <1>13
        <5> QED  BY <5>1, <1>10, <3>2, PrefixPointwise
      <4> QED  BY <4>1, <4>2, <2>5
    <3> QED  BY <3>1, <3>2, <1>2, NothingQueuedWell
  <2> QED  BY <2>4, <2>5
<1>14. Len(prefix) <= Len(at) \/ Len(at) < Len(prefix)  BY <1>4
<1> QED  BY <1>1, <1>11, <1>12, <1>13, <1>14 DEF B

LEMMA QueuedIsWell ==
  ASSUME TreeInvariant, ~TearingDown, iter.query \in WalkQueries,
         NEW p \in QueueEntry, IsInner(p.node),
         iter.query.kind = "prefix" => LeadsToNode(iter.query.prefix, p)
  PROVE  QueuedWell(Queued(p.node, p.depth), p.node, iter.query)
<1>1. PICK n \in Inners(heap), depth \in Nat : n = p.node /\ depth = p.depth
  <2>1. p.node \in DOMAIN heap /\ p.depth \in Nat  BY DEF QueueEntry
  <2>2. p.node \in Inners(heap)  BY <2>1, NodeFacts
  <2> QED  BY <2>1, <2>2
<1>2. iter.query.kind = "all" \/ (iter.query.kind = "prefix" /\ iter.query.prefix \in ByteString)
  BY SearchPrefixesAssumption DEF WalkQueries, AllKeys, StartingWith
<1>3. CASE iter.query.kind = "all"
  <2>1. Queued(n, depth) = ChildrenInOrder(n, 0)  BY <1>3 DEF Queued
  <2>2. PICK z \in Nat : z = 0  OBVIOUS
  <2>3. iter.query.kind # "prefix"  BY <1>3
  <2>4. QueuedWell(ChildrenInOrder(n, z), n, iter.query)  BY <2>3, AllQueuedWell
  <2> QED  BY <1>1, <2>1, <2>2, <2>4
<1>4. CASE iter.query.kind = "prefix" /\ depth >= Len(iter.query.prefix)
  <2>1. Queued(n, depth) = ChildrenInOrder(n, depth + heap[n].header.prefix_len + 1)
    BY <1>4 DEF Queued
  <2>2. heap[n].header.prefix_len \in Nat  BY InnerFacts DEF HeaderType
  <2>3. PICK d \in Nat : d = depth + heap[n].header.prefix_len + 1 /\ depth <= d  BY <2>2
  <2>4. PICK prefix \in ByteString : prefix = iter.query.prefix /\ Len(prefix) \in Nat
    BY <1>2, <1>4 DEF ByteString
  <2>5. ~(depth < Len(prefix)) /\ Len(prefix) <= d  BY <1>4, <2>3, <2>4
  <2>6. IsPrefix(prefix, n.at)  BY <1>1, <1>4, <2>4, <2>5 DEF LeadsToNode
  <2>7. QueuedWell(ChildrenInOrder(n, d), n, iter.query)
    BY <1>4, <2>4, <2>5, <2>6, AllQueuedWell
  <2> QED  BY <1>1, <2>1, <2>3, <2>7
<1>5. CASE iter.query.kind = "prefix" /\ ~(depth >= Len(iter.query.prefix))
  <2>1. Queued(n, depth) = MatchingChildren(n, depth)  BY <1>5 DEF Queued
  <2>2. depth < Len(iter.query.prefix)  BY <1>2, <1>5 DEF ByteString
  <2> QED  BY <1>1, <1>2, <1>5, <2>1, <2>2, MatchingQueuedWell
<1> QED  BY <1>2, <1>3, <1>4, <1>5

-----------------------------------------------------------------------------
(***************************************************************************)
(* The turns of the walks and of the fuzzy search.                         *)
(***************************************************************************)

(* The subtree a turn takes off the queue, and the rest.                   *)
LEMMA PoppedFacts ==
  ASSUME NEW T, iter.nodes \in Seq(T), iter.nodes # << >>
  PROVE  /\ Rest \in Seq(T) /\ Popped \in T
         /\ Back => iter.nodes = Rest \o <<Popped>>
         /\ ~Back => iter.nodes = <<Popped>> \o Rest
         /\ \E i \in DOMAIN iter.nodes : Popped = iter.nodes[i]
         /\ Among(Rest, iter.nodes)
<1>1. PICK s \in Seq(T) : s = iter.nodes /\ s # << >>  OBVIOUS
<1>2. /\ Front(s) \in Seq(T) /\ Last(s) \in T /\ s = Front(s) \o <<Last(s)>>
      /\ Tail(s) \in Seq(T) /\ Head(s) \in T /\ s = <<Head(s)>> \o Tail(s)
  BY <1>1, EndsOfSequence
<1>3. Len(s) \in Nat /\ Len(s) # 0 /\ DOMAIN s = 1 .. Len(s)  BY <1>1
<1>4. Last(s) = s[Len(s)] /\ Head(s) = s[1] /\ 1 \in DOMAIN s /\ Len(s) \in DOMAIN s
  BY <1>3 DEF Last
<1>5. ASSUME NEW R \in Seq(T), NEW x \in T, s = R \o <<x>> \/ s = <<x>> \o R
      PROVE  Among(R, s)
  <2>0. <<x>> \in Seq(T)  OBVIOUS
  <2>1. PICK q \in Seq(T) : q = <<x>>  BY <2>0
  <2>4. q \in Seq(T)  BY <2>1
  <2>2. CASE s = R \o q
    <3>1. IsConcat(s, R, q)  BY <2>2 DEF IsConcat
    <3> QED  BY <2>4, <3>1, ElementsOfConcat
  <2>3. CASE s = q \o R
    <3>1. IsConcat(s, q, R)  BY <2>3 DEF IsConcat
    <3> QED  BY <2>4, <3>1, ElementsOfConcat
  <2> QED  BY <1>5, <2>1, <2>2, <2>3
<1>6. CASE Back
  <2>1. Rest = Front(s) /\ Popped = Last(s)  BY <1>1, <1>6 DEF Rest, Popped
  <2>2. PICK R \in Seq(T), x \in T : R = Front(s) /\ x = Last(s) /\ s = R \o <<x>>  BY <1>2
  <2>3. Among(R, s)  BY <2>2, <1>5
  <2> QED  BY <2>1, <2>2, <2>3, <1>1, <1>4, <1>6
<1>7. CASE ~Back
  <2>1. Rest = Tail(s) /\ Popped = Head(s)  BY <1>1, <1>7 DEF Rest, Popped
  <2>2. PICK R \in Seq(T), x \in T : R = Tail(s) /\ x = Head(s) /\ s = <<x>> \o R  BY <1>2
  <2>3. Among(R, s)  BY <2>2, <1>5
  <2> QED  BY <2>1, <2>2, <2>3, <1>1, <1>4, <1>7
<1> QED  BY <1>6, <1>7

(* One subtree p of the queue `old' is replaced by the subtrees B.         *)
TurnAtBack(old, R, p, new, B) == old = R \o <<p>> /\ new = R \o B
TurnAtFront(old, R, p, new, B) == old = <<p>> \o R /\ new = B \o R
Turn(old, R, p, new, B) == TurnAtBack(old, R, p, new, B) \/ TurnAtFront(old, R, p, new, B)
AllBelow(B, n) == \A j \in DOMAIN B : IsPrefix(n.at, B[j].node.at)

LEMMA WalkTurn ==
  ASSUME TreeInvariant, NEW R \in Seq(QueueEntry), NEW p \in QueueEntry, NEW B \in Seq(QueueEntry),
         NEW old, NEW new, Turn(old, R, p, new, B),
         Descending(WalkPaths(old)), Descending(WalkPaths(B)),
         AllBelow(B, p.node)
  PROVE  /\ new \in Seq(QueueEntry) /\ Descending(WalkPaths(new))
         /\ MadeOf(new, R, B)
         /\ KeysAlong(new) = KeysAlong(R) \cup KeysAlong(B)
         /\ KeysAlong(old) = KeysAlong(R) \cup KeysBelow(p.node)
         /\ TurnAtBack(old, R, p, new, B) =>
              \A k \in KeysAlong(R), l \in KeysBelow(p.node) : Precedes(l, k)
         /\ TurnAtFront(old, R, p, new, B) =>
              \A k \in KeysAlong(R), l \in KeysBelow(p.node) : Precedes(k, l)
<1> DEFINE at == p.node.at
           q == <<p>>
           D == DOMAIN heap
<1>1. p.node \in D /\ at \in ByteString
  <2>1. p.node \in D  BY DEF QueueEntry
  <2> QED  BY <2>1, NodeFacts
<1>2. q \in Seq(QueueEntry) /\ Len(q) = 1 /\ q[1] = p /\ DOMAIN q = {1}  OBVIOUS
<1>3. QueueEntry = [node : D, depth : Nat] /\ \A x \in D : x.at \in ByteString
  BY NodeFacts DEF QueueEntry
<1>6. /\ TurnAtBack(old, R, p, new, B) => old = R \o q /\ new = R \o B
      /\ TurnAtFront(old, R, p, new, B) => old = q \o R /\ new = B \o R
  BY DEF TurnAtBack, TurnAtFront
<1> HIDE DEF q, D
<1>7. PICK r \in Seq(ByteString) : r = WalkPaths(R)  BY <1>3, WalkPathsFacts
<1>8. PICK b \in Seq(ByteString) :
        /\ b = WalkPaths(B) /\ DOMAIN b = 1 .. Len(B)
        /\ \A i \in 1 .. Len(B) : b[i] = B[i].node.at
  <2>1. /\ WalkPaths(B) \in Seq(ByteString) /\ DOMAIN WalkPaths(B) = 1 .. Len(B)
        /\ \A i \in 1 .. Len(B) : WalkPaths(B)[i] = B[i].node.at
    BY <1>3, WalkPathsFacts
  <2> QED  BY <2>1
<1>9. WalkPaths(q) = <<at>>
  <2>1. WalkPaths(q) = [i \in 1 .. 1 |-> q[i].node.at]  BY <1>2 DEF WalkPaths
  <2>2. \A i \in 1 .. 1 : q[i].node.at = at  BY <1>2
  <2> HIDE DEF at
  <2> QED  BY <2>1, <2>2
<1>10. DOMAIN B = 1 .. Len(B)  OBVIOUS
<1>11. Descending(b) /\ \A j \in DOMAIN b : IsPrefix(at, b[j])  BY <1>8, <1>10 DEF AllBelow
<1>12. PICK K \in SUBSET ByteString : K = StoredKeys  BY StoredKeysFacts
<1>13. KeysUnder(K, <<at>>) = {k \in K : IsPrefix(at, k)} /\ KeysBelow(p.node) = KeysUnder(K, <<at>>)
  BY <1>1, <1>12, OneQueued DEF KeysBelow
<1> HIDE DEF at
<1>14. /\ WalkPaths(R \o q) = r \o <<at>> /\ WalkPaths(R \o B) = r \o b
       /\ WalkPaths(q \o R) = <<at>> \o r /\ WalkPaths(B \o R) = b \o r
  BY <1>2, <1>3, <1>7, <1>8, <1>9, WalkPathsConcat
<1>15. PICK a \in Seq(ByteString) : a = <<at>> /\ KeysUnder(K, a) = KeysBelow(p.node)
  <2>1. <<at>> \in Seq(ByteString)  BY <1>1
  <2> QED  BY <2>1, <1>13
<1>16. ASSUME TurnAtBack(old, R, p, new, B)
       PROVE  /\ new \in Seq(QueueEntry) /\ Descending(WalkPaths(new))
              /\ MadeOf(new, R, B)
              /\ KeysAlong(new) = KeysAlong(R) \cup KeysAlong(B)
              /\ KeysAlong(old) = KeysAlong(R) \cup KeysBelow(p.node)
              /\ \A k \in KeysAlong(R), l \in KeysBelow(p.node) : Precedes(l, k)
  <2>1. new = R \o B /\ WalkPaths(new) = r \o b /\ WalkPaths(old) = r \o <<at>>
    BY <1>6, <1>14, <1>16
  <2>2. Descending(r \o <<at>>)  BY <2>1
  <2>3. Descending(r \o b)  BY <1>1, <1>11, <2>2, Replaced
  <2>4. \A k \in KeysUnder(K, r), l \in K : IsPrefix(at, l) => Precedes(l, k)
    BY <1>1, <2>2, EndsOfQueue
  <2>5. KeysUnder(K, r \o b) = KeysUnder(K, r) \cup KeysUnder(K, b)  BY KeysUnderConcat
  <2>6. KeysUnder(K, r \o a) = KeysUnder(K, r) \cup KeysUnder(K, a)  BY KeysUnderConcat
  <2>7. new \in Seq(QueueEntry) /\ MadeOf(new, R, B)
    <3>1. IsConcat(new, R, B)  BY <2>1 DEF IsConcat
    <3> QED  BY <3>1, ElementsOfConcat
  <2>8. \A l \in KeysBelow(p.node) : l \in K /\ IsPrefix(at, l)  BY <1>13
  <2>9. KeysAlong(new) = KeysAlong(R) \cup KeysAlong(B)  BY <2>1, <2>5, <1>7, <1>8, <1>12 DEF KeysAlong
  <2>10. KeysAlong(old) = KeysAlong(R) \cup KeysBelow(p.node)
    BY <2>1, <2>6, <1>7, <1>12, <1>15 DEF KeysAlong
  <2> QED  BY <2>1, <2>3, <2>4, <2>7, <2>8, <2>9, <2>10, <1>7, <1>12 DEF KeysAlong
<1>17. ASSUME TurnAtFront(old, R, p, new, B)
       PROVE  /\ new \in Seq(QueueEntry) /\ Descending(WalkPaths(new))
              /\ MadeOf(new, R, B)
              /\ KeysAlong(new) = KeysAlong(R) \cup KeysAlong(B)
              /\ KeysAlong(old) = KeysAlong(R) \cup KeysBelow(p.node)
              /\ \A k \in KeysAlong(R), l \in KeysBelow(p.node) : Precedes(k, l)
  <2>1. new = B \o R /\ WalkPaths(new) = b \o r /\ WalkPaths(old) = <<at>> \o r
    BY <1>6, <1>14, <1>17
  <2>2. Descending(<<at>> \o r)  BY <2>1
  <2>3. Descending(b \o r)  BY <1>1, <1>11, <2>2, Replaced
  <2>4. \A k \in KeysUnder(K, r), l \in K : IsPrefix(at, l) => Precedes(k, l)
    BY <1>1, <2>2, EndsOfQueue
  <2>5. KeysUnder(K, b \o r) = KeysUnder(K, b) \cup KeysUnder(K, r)  BY KeysUnderConcat
  <2>6. KeysUnder(K, a \o r) = KeysUnder(K, a) \cup KeysUnder(K, r)  BY KeysUnderConcat
  <2>7. new \in Seq(QueueEntry) /\ MadeOf(new, R, B)
    <3>1. IsConcat(new, B, R)  BY <2>1 DEF IsConcat
    <3> QED  BY <3>1, ElementsOfConcat
  <2>8. \A l \in KeysBelow(p.node) : l \in K /\ IsPrefix(at, l)  BY <1>13
  <2>9. KeysAlong(new) = KeysAlong(R) \cup KeysAlong(B)  BY <2>1, <2>5, <1>7, <1>8, <1>12 DEF KeysAlong
  <2>10. KeysAlong(old) = KeysAlong(R) \cup KeysBelow(p.node)
    BY <2>1, <2>6, <1>7, <1>12, <1>15 DEF KeysAlong
  <2> QED  BY <2>1, <2>3, <2>4, <2>7, <2>8, <2>9, <2>10, <1>7, <1>12 DEF KeysAlong
<1> QED  BY <1>16, <1>17 DEF Turn

LEMMA InnerTurn ==
  ASSUME TreeInvariant, ~TearingDown, iter.query \in WalkQueries, HoldsWalk(iter.query, iter.nodes),
         iter.nodes # << >>, IsInner(Popped.node),
         NEW nodes, nodes = PushedAt(Rest, Queued(Popped.node, Popped.depth))
  PROVE  /\ HoldsWalk(iter.query, nodes)
         /\ KeysAlong(nodes) \subseteq KeysAlong(iter.nodes)
         /\ iter.query.kind = "all" => KeysAlong(nodes) = KeysAlong(iter.nodes)
         /\ \A k \in KeysAlong(iter.nodes) : Matches(iter.query, k) => k \in KeysAlong(nodes)
<1>1. iter.nodes \in Seq(QueueEntry) /\ Descending(WalkPaths(iter.nodes))  BY DEF HoldsWalk
<1>2. PICK p \in QueueEntry, R \in Seq(QueueEntry) :
        /\ p = Popped /\ R = Rest
        /\ Back => iter.nodes = R \o <<p>>
        /\ ~Back => iter.nodes = <<p>> \o R
        /\ \E i \in DOMAIN iter.nodes : p = iter.nodes[i]
        /\ Among(R, iter.nodes)
  <2>1. /\ Rest \in Seq(QueueEntry) /\ Popped \in QueueEntry
        /\ Back => iter.nodes = Rest \o <<Popped>>
        /\ ~Back => iter.nodes = <<Popped>> \o Rest
        /\ \E i \in DOMAIN iter.nodes : Popped = iter.nodes[i]
        /\ Among(Rest, iter.nodes)
    BY <1>1, PoppedFacts
  <2> QED  BY <2>1
<1>3. PICK n \in DOMAIN heap : n = p.node /\ IsInner(n)  BY <1>2 DEF QueueEntry
<1>4. iter.query.kind = "prefix" => LeadsToNode(iter.query.prefix, p)  BY <1>2 DEF HoldsWalk
<1>5. QueuedWell(Queued(p.node, p.depth), n, iter.query)  BY <1>3, <1>4, QueuedIsWell
<1>6. PICK Q : Q = Queued(p.node, p.depth)  OBVIOUS
<1>7. QueuesBelow(Q, n)  BY <1>5, <1>6 DEF QueuedWell
<1>8. PICK B \in Seq(QueueEntry) :
        /\ B = Reverse(Q) /\ Descending(WalkPaths(B))
        /\ \A j \in DOMAIN B : IsPrefix(n.at, B[j].node.at)
  <2>1. /\ Reverse(Q) \in Seq(QueueEntry) /\ Descending(WalkPaths(Reverse(Q)))
        /\ \A j \in DOMAIN Reverse(Q) : IsPrefix(n.at, Reverse(Q)[j].node.at)
    BY <1>7 DEF QueuesBelow
  <2> QED  BY <2>1
<1>9. /\ iter.query.kind = "prefix" => \A j \in DOMAIN B : LeadsToNode(iter.query.prefix, B[j])
      /\ KeysAlong(B) \subseteq KeysBelow(n)
      /\ iter.query.kind = "all" => KeysAlong(B) = KeysBelow(n)
      /\ \A k \in KeysBelow(n) : Matches(iter.query, k) => k \in KeysAlong(B)
  BY <1>5, <1>6, <1>8 DEF QueuedWell, KeysAlong
<1>10. (Back => nodes = R \o B) /\ (~Back => nodes = B \o R)
  BY <1>2, <1>6, <1>8 DEF PushedAt
<1>13. Turn(iter.nodes, R, p, nodes, B)
  BY <1>2, <1>10 DEF Turn, TurnAtBack, TurnAtFront
<1>14. AllBelow(B, p.node)  BY <1>3, <1>8 DEF AllBelow
<1>15. /\ Descending(WalkPaths(nodes))
       /\ KeysAlong(nodes) = KeysAlong(R) \cup KeysAlong(B)
       /\ KeysAlong(iter.nodes) = KeysAlong(R) \cup KeysBelow(p.node)
       /\ nodes \in Seq(QueueEntry)
       /\ MadeOf(nodes, R, B)
  BY <1>1, <1>2, <1>8, <1>13, <1>14, WalkTurn
<1>17. ASSUME iter.query.kind = "prefix", NEW i \in DOMAIN nodes
       PROVE  LeadsToNode(iter.query.prefix, nodes[i])
  <2>1. \A j \in DOMAIN iter.nodes : LeadsToNode(iter.query.prefix, iter.nodes[j])
    BY <1>17 DEF HoldsWalk
  <2>2. \A j \in DOMAIN R : LeadsToNode(iter.query.prefix, R[j])  BY <2>1, <1>2 DEF Among
  <2>3. \A j \in DOMAIN B : LeadsToNode(iter.query.prefix, B[j])  BY <1>9, <1>17
  <2>4. CASE \E j \in DOMAIN R : nodes[i] = R[j]  BY <2>2, <2>4
  <2>5. CASE \E j \in DOMAIN B : nodes[i] = B[j]  BY <2>3, <2>5
  <2> QED  BY <2>4, <2>5, <1>15, <1>17 DEF MadeOf
<1>18. HoldsWalk(iter.query, nodes)  BY <1>15, <1>17 DEF HoldsWalk
<1> QED  BY <1>3, <1>9, <1>15, <1>18

(* A leaf that is popped is the next key of the queue, and gone from it.   *)
LEMMA LeafTurn ==
  ASSUME TreeInvariant, HoldsWalk(iter.query, iter.nodes), iter.nodes # << >>, IsLeaf(Popped.node)
  PROVE  /\ HoldsWalk(iter.query, Rest)
         /\ Popped \in QueueEntry /\ Popped.node \in Leaves(heap)
         /\ iter.query.kind = "prefix" => LeadsToNode(iter.query.prefix, Popped)
         /\ KeysAlong(iter.nodes) = KeysAlong(Rest) \cup {Popped.node.at}
         /\ Popped.node.at \in StoredKeys /\ Popped.node.at \notin KeysAlong(Rest)
         /\ Back => \A k \in KeysAlong(Rest) : Precedes(Popped.node.at, k)
         /\ ~Back => \A k \in KeysAlong(Rest) : Precedes(k, Popped.node.at)
<1>1. iter.nodes \in Seq(QueueEntry) /\ Descending(WalkPaths(iter.nodes))  BY DEF HoldsWalk
<1>2. PICK p \in QueueEntry, R \in Seq(QueueEntry) :
        /\ p = Popped /\ R = Rest
        /\ Back => iter.nodes = R \o <<p>>
        /\ ~Back => iter.nodes = <<p>> \o R
        /\ \E i \in DOMAIN iter.nodes : p = iter.nodes[i]
        /\ Among(R, iter.nodes)
  <2>1. /\ Rest \in Seq(QueueEntry) /\ Popped \in QueueEntry
        /\ Back => iter.nodes = Rest \o <<Popped>>
        /\ ~Back => iter.nodes = <<Popped>> \o Rest
        /\ \E i \in DOMAIN iter.nodes : Popped = iter.nodes[i]
        /\ Among(Rest, iter.nodes)
    BY <1>1, PoppedFacts
  <2> QED  BY <2>1
<1>3. PICK leaf \in Leaves(heap) : leaf = p.node
  <2>1. p.node \in DOMAIN heap  BY <1>2 DEF QueueEntry
  <2>2. p.node \in Leaves(heap)  BY <2>1, <1>2, NodeFacts
  <2> QED  BY <2>2
<1>4. iter.query.kind = "prefix" => LeadsToNode(iter.query.prefix, p)  BY <1>2 DEF HoldsWalk
<1>6. KeysBelow(leaf) = {leaf.at} /\ leaf.at \in StoredKeys /\ leaf.at \in ByteString
  <2>1. leaf.at \in ByteString  BY LeafFacts, NodeFacts
  <2>2. KeysBelow(leaf) = {leaf.at} /\ leaf.at \in StoredKeys  BY StoredKeysFacts
  <2> QED  BY <2>1, <2>2
<1>8. PICK none \in Seq(QueueEntry) : none = << >> /\ DOMAIN none = {}
  <2>1. << >> \in Seq(QueueEntry) /\ DOMAIN << >> = {}  OBVIOUS
  <2> QED  BY <2>1
<1>9. Descending(WalkPaths(none)) /\ KeysAlong(none) = {}
  <2>1. WalkPaths(none) = [i \in 1 .. 0 |-> none[i].node.at]
    <3>1. Len(none) = 0  BY <1>8
    <3> QED  BY <3>1 DEF WalkPaths
  <2>2. DOMAIN WalkPaths(none) = {}  BY <2>1
  <2> QED  BY <2>2 DEF Descending, KeysAlong, KeysUnder
<1>10. R \o none = R /\ none \o R = R  BY <1>2, <1>8
<1>11. /\ Back => TurnAtBack(iter.nodes, R, p, R, none)
       /\ ~Back => TurnAtFront(iter.nodes, R, p, R, none)
  BY <1>2, <1>10 DEF TurnAtBack, TurnAtFront
<1>12. AllBelow(none, p.node)  BY <1>8 DEF AllBelow
<1>13. /\ Descending(WalkPaths(R))
       /\ KeysAlong(iter.nodes) = KeysAlong(R) \cup KeysBelow(p.node)
       /\ TurnAtBack(iter.nodes, R, p, R, none) =>
            \A k \in KeysAlong(R), l \in KeysBelow(p.node) : Precedes(l, k)
       /\ TurnAtFront(iter.nodes, R, p, R, none) =>
            \A k \in KeysAlong(R), l \in KeysBelow(p.node) : Precedes(k, l)
  <2>1. Turn(iter.nodes, R, p, R, none)  BY <1>11 DEF Turn
  <2>2. /\ Descending(WalkPaths(iter.nodes)) /\ Descending(WalkPaths(none)) /\ AllBelow(none, p.node)
        /\ R \in Seq(QueueEntry) /\ p \in QueueEntry /\ none \in Seq(QueueEntry)
    BY <1>1, <1>2, <1>8, <1>9, <1>12
  <2> QED  BY ONLY TreeInvariant, <2>1, <2>2, WalkTurn
<1>14. /\ KeysAlong(iter.nodes) = KeysAlong(R) \cup {leaf.at}
       /\ Back => \A k \in KeysAlong(R) : Precedes(leaf.at, k)
       /\ ~Back => \A k \in KeysAlong(R) : Precedes(k, leaf.at)
  BY <1>3, <1>6, <1>11, <1>13
<1>15. leaf.at \notin KeysAlong(R)
  <2>1. ~Precedes(leaf.at, leaf.at)  BY <1>6, PrefixReflexive, PrecedesApart
  <2> QED  BY <2>1, <1>14
<1>16. ASSUME iter.query.kind = "prefix", NEW i \in DOMAIN R PROVE LeadsToNode(iter.query.prefix, R[i])
  BY <1>2, <1>16 DEF HoldsWalk, Among
<1>17. HoldsWalk(iter.query, R)  BY <1>2, <1>13, <1>16 DEF HoldsWalk
<1> QED  BY <1>2, <1>3, <1>4, <1>6, <1>14, <1>15, <1>17

(* handle_leaf yields the leaves whose key starts with the prefix.         *)
LEMMA YieldedIsMatching ==
  ASSUME TreeInvariant, ~TearingDown, iter.query \in WalkQueries, NEW p \in QueueEntry,
         IsLeaf(p.node), iter.query.kind = "prefix" => LeadsToNode(iter.query.prefix, p)
  PROVE  Yielded(p.node, p.depth) <=> Matches(iter.query, p.node.at)
<1>1. PICK leaf \in Leaves(heap), depth \in Nat : leaf = p.node /\ depth = p.depth
  <2>1. p.node \in DOMAIN heap /\ p.depth \in Nat  BY DEF QueueEntry
  <2>2. p.node \in Leaves(heap)  BY <2>1, NodeFacts
  <2> QED  BY <2>1, <2>2
<1>2. PICK key \in ByteString : key = leaf.at /\ key = heap[leaf].key
  <2>1. leaf.at \in ByteString /\ leaf.at = heap[leaf].key  BY LeafFacts, NodeFacts
  <2> QED  BY <2>1
<1>3. iter.query.kind = "all" \/ (iter.query.kind = "prefix" /\ iter.query.prefix \in ByteString)
  BY SearchPrefixesAssumption DEF WalkQueries, AllKeys, StartingWith
<1>4. CASE iter.query.kind = "all"  BY <1>4 DEF Yielded, Matches
<1>5. ASSUME iter.query.kind = "prefix", NEW prefix \in ByteString, prefix = iter.query.prefix
      PROVE  Yielded(leaf, depth) <=> IsPrefix(prefix, key)
  <2>1. Len(prefix) \in Nat /\ Len(key) \in Nat  BY DEF ByteString
  <2>2. Yielded(leaf, depth) <=>
          depth >= Len(prefix) \/ (Len(prefix) <= Len(key) /\ IsPrefixOf(DropFirst(key, depth), DropFirst(prefix, depth)))
    <3>1. iter.query.kind # "all"  BY <1>5
    <3> QED  BY <3>1, <1>2, <1>5 DEF Yielded
  <2>3. CASE depth >= Len(prefix)
    <3>1. ~(depth < Len(prefix))  BY <2>1, <2>3
    <3> QED  BY <3>1, <2>2, <2>3, <1>1, <1>2, <1>5 DEF LeadsToNode
  <2>4. CASE ~(depth >= Len(prefix))
    <3>1. depth < Len(prefix)  BY <2>1, <2>4
    <3>2. depth <= Len(key) /\ \A i \in 1 .. depth : key[i] = prefix[i]
      BY <3>1, <1>1, <1>2, <1>5, QueuedPath
    <3>3. IsPrefixOf(DropFirst(key, depth), DropFirst(prefix, depth)) <=>
            \A i \in 1 .. Lesser(Len(key), Len(prefix)) : key[i] = prefix[i]
      BY <3>1, <3>2, <2>1, IsPrefixOfSlices
    <3>4. Len(prefix) <= Len(key) => Lesser(Len(key), Len(prefix)) = Len(prefix)
      BY <2>1 DEF Lesser
    <3>5. IsPrefix(prefix, key) <=>
            Len(prefix) <= Len(key) /\ \A i \in 1 .. Len(prefix) : prefix[i] = key[i]
      BY PrefixPointwise
    <3> QED  BY <2>2, <2>4, <3>3, <3>4, <3>5
  <2> QED  BY <2>3, <2>4
<1>6. CASE iter.query.kind = "prefix"
  <2>1. PICK prefix \in ByteString : prefix = iter.query.prefix  BY <1>3, <1>6
  <2>2. Yielded(leaf, depth) <=> IsPrefix(prefix, key)  BY <2>1, <1>5, <1>6
  <2>3. iter.query.kind # "all"  BY <1>6
  <2> QED  BY <2>1, <2>2, <2>3, <1>1, <1>2 DEF Matches
<1> QED  BY <1>3, <1>4, <1>6

(* A turn of a fuzzy search, which pops at the back of its stack.          *)
LEMMA StackTurn ==
  ASSUME TreeInvariant, NEW R \in Seq(DOMAIN heap), NEW p \in DOMAIN heap, NEW B \in Seq(DOMAIN heap),
         NEW old, NEW new, TurnAtBack(old, R, p, new, B),
         Descending(StackPaths(old)), Descending(StackPaths(B)), KeysInStack(B) \subseteq KeysBelow(p),
         \A j \in DOMAIN StackPaths(B) : IsPrefix(p.at, StackPaths(B)[j])
  PROVE  /\ new \in Seq(DOMAIN heap) /\ Descending(StackPaths(new))
         /\ KeysInStack(new) = KeysInStack(R) \cup KeysInStack(B)
         /\ KeysInStack(old) = KeysInStack(R) \cup KeysBelow(p)
         /\ \A k \in KeysInStack(R), l \in KeysBelow(p) : Precedes(k, l)
<1> DEFINE at == p.at
           q == <<p>>
           D == DOMAIN heap
<1>0. PICK K \in SUBSET ByteString : K = StoredKeys  BY StoredKeysFacts
<1>1. at \in ByteString /\ \A x \in D : x.at \in ByteString  BY NodeFacts
<1>3. R \in Seq(D) /\ p \in D /\ B \in Seq(D)  OBVIOUS
<1>2. q \in Seq(D) /\ Len(q) = 1 /\ q[1] = p /\ DOMAIN q = {1}  OBVIOUS
<1>7. old = R \o q /\ new = R \o B  BY DEF TurnAtBack
<1> HIDE DEF q, D
<1>4. PICK r \in Seq(ByteString) : r = StackPaths(R)  BY <1>1, <1>3, StackPathsConcat
<1>5. PICK b \in Seq(ByteString) : b = StackPaths(B)  BY <1>1, <1>3, StackPathsConcat
<1>6. StackPaths(q) = <<at>>
  <2>1. StackPaths(q) = [i \in 1 .. 1 |-> q[1 - i + 1].at]  BY <1>2 DEF StackPaths
  <2>2. \A i \in 1 .. 1 : q[1 - i + 1].at = at  BY <1>2
  <2> HIDE DEF at
  <2> QED  BY <2>1, <2>2
<1>8. Descending(b) /\ \A j \in DOMAIN b : IsPrefix(at, b[j])  BY <1>5
<1>9. KeysUnder(K, StackPaths(q)) = {k \in K : IsPrefix(at, k)}  BY <1>1, <1>6, OneQueued
<1>10. Descending(StackPaths(R \o q))
  BY <1>7
<1> HIDE DEF at
<1>12. StackPaths(R \o q) = <<at>> \o r /\ StackPaths(R \o B) = b \o r
  BY <1>1, <1>2, <1>3, <1>4, <1>5, <1>6, StackPathsConcat
<1>19. StackPaths(old) = <<at>> \o r /\ StackPaths(new) = b \o r  BY <1>7, <1>12
<1>13. Descending(<<at>> \o r)  BY <1>10, <1>12
<1>14. Descending(b \o r)  BY <1>13, <1>1, <1>8, Replaced
<1>15. KeysUnder(K, b \o r) = KeysUnder(K, b) \cup KeysUnder(K, r)  BY KeysUnderConcat
<1>16. KeysUnder(K, <<at>> \o r) = KeysUnder(K, <<at>>) \cup KeysUnder(K, r)
  <2>1. PICK a \in Seq(ByteString) : a = <<at>>
    <3>1. <<at>> \in Seq(ByteString)  BY <1>1
    <3> QED  BY <3>1
  <2>2. KeysUnder(K, a \o r) = KeysUnder(K, a) \cup KeysUnder(K, r)  BY KeysUnderConcat
  <2> QED  BY <2>1, <2>2
<1>17. \A k \in KeysUnder(K, r), l \in K : IsPrefix(at, l) => Precedes(k, l)
  BY <1>13, <1>1, EndsOfQueue
<1>18. new \in Seq(D)  BY <1>3, <1>7
<1>20. KeysBelow(p) = KeysUnder(K, <<at>>)  BY <1>0, <1>6, <1>9 DEF KeysBelow, at
<1>21. KeysInStack(new) = KeysInStack(R) \cup KeysInStack(B)
  BY <1>0, <1>4, <1>5, <1>15, <1>19 DEF KeysInStack
<1>22. KeysInStack(old) = KeysInStack(R) \cup KeysBelow(p)
  BY <1>0, <1>4, <1>16, <1>19, <1>20 DEF KeysInStack
<1>23. \A l \in KeysBelow(p) : l \in K /\ IsPrefix(at, l)  BY <1>0 DEF KeysBelow, at
<1>24. \A k \in KeysInStack(R), l \in KeysBelow(p) : Precedes(k, l)
  BY <1>0, <1>4, <1>17, <1>23 DEF KeysInStack
<1> QED  BY <1>14, <1>18, <1>19, <1>21, <1>22, <1>24 DEF D

(* The children a fuzzy search pushes: those under the bytes of S.         *)
LEMMA KidsFacts ==
  ASSUME TreeInvariant, NEW n \in Inners(heap), NEW S \in SUBSET ChildBytes(n),
         NEW kids, kids = [i \in DOMAIN Ascending(S) |-> Child(n, Ascending(S)[i])]
  PROVE  /\ kids \in Seq(DOMAIN heap) /\ Descending(StackPaths(kids))
         /\ KeysInStack(kids) \subseteq KeysBelow(n)
         /\ \A j \in DOMAIN StackPaths(kids) : IsPrefix(n.at, StackPaths(kids)[j])
<1>1. S \in SUBSET Nat /\ IsFiniteSet(S)
  <2>1. ChildBytes(n) \subseteq Nat /\ IsFiniteSet(ChildBytes(n))  BY InnerFacts
  <2> QED  BY <2>1, FS_Subset
<1>13. PICK m \in Nat : m = Cardinality(S)  BY <1>1, AscendingFacts
<1>2. PICK bytes \in [1 .. m -> ChildBytes(n)] :
        /\ bytes = Ascending(S) /\ DOMAIN bytes = 1 .. m
        /\ \A i, j \in 1 .. m : i < j => bytes[i] < bytes[j]
  <2>2. /\ Ascending(S) \in [1 .. m -> S]
        /\ \A i, j \in 1 .. m : i < j => Ascending(S)[i] < Ascending(S)[j]
    BY <1>1, <1>13, AscendingFacts
  <2>3. PICK bytes \in [1 .. m -> S] : bytes = Ascending(S)  BY <2>2
  <2>4. bytes \in [1 .. m -> ChildBytes(n)] /\ DOMAIN bytes = 1 .. m  BY <2>3
  <2> QED  BY <2>2, <2>3, <2>4
<1>3. Shape  BY InvariantShape
<1>4. kids = [i \in 1 .. m |-> Child(n, bytes[i])]  BY <1>2
<1>5. \A b \in ChildBytes(n) : Child(n, b) \in DOMAIN heap  BY <1>3, ChildFacts
<1>6. \A i \in 1 .. m : bytes[i] \in ChildBytes(n)  BY <1>2
<1>7. kids \in [1 .. m -> DOMAIN heap]  BY <1>4, <1>5, <1>6
<1>8. kids \in Seq(DOMAIN heap) /\ Len(kids) = m  BY <1>2, <1>7
<1>9. StackPaths(kids) = PathsUnder(n, bytes, m)
  <2>1. StackPaths(kids) = [i \in 1 .. m |-> kids[m - i + 1].at]  BY <1>8 DEF StackPaths
  <2>2. ASSUME NEW i \in 1 .. m PROVE kids[m - i + 1].at = Child(n, bytes[m - i + 1]).at
    <3>1. PICK j \in 1 .. m : j = m - i + 1  BY <1>2
    <3>2. kids[j] = Child(n, bytes[j])  BY <1>4
    <3> QED  BY <3>1, <3>2
  <2> QED  BY <2>1, <2>2 DEF PathsUnder
<1>10. /\ DOMAIN PathsUnder(n, bytes, m) = 1 .. m
       /\ Descending(PathsUnder(n, bytes, m))
       /\ \A j \in 1 .. m : IsPrefix(n.at, PathsUnder(n, bytes, m)[j])
  BY <1>2, ChildrenDescend
<1>11. KeysUnder(StoredKeys, PathsUnder(n, bytes, m)) =
         {k \in StoredKeys : /\ IsPrefix(n.at, k) /\ Len(n.at) < Len(k)
                             /\ \E i \in 1 .. m : k[Len(n.at) + 1] = bytes[i]}
  BY <1>2, KeysUnderChildren
<1>12. KeysInStack(kids) \subseteq KeysBelow(n)
  <2>1. KeysInStack(kids) = KeysUnder(StoredKeys, PathsUnder(n, bytes, m))  BY <1>9 DEF KeysInStack
  <2> QED  BY <2>1, <1>11 DEF KeysBelow
<1> QED  BY <1>8, <1>9, <1>10, <1>12

LEMMA NoKids ==
  ASSUME NEW kids, kids = << >>
  PROVE  /\ kids \in Seq(DOMAIN heap) /\ Descending(StackPaths(kids)) /\ KeysInStack(kids) = {}
         /\ DOMAIN StackPaths(kids) = {}
<1>1. kids \in Seq(DOMAIN heap) /\ Len(kids) = 0  OBVIOUS
<1>2. StackPaths(kids) = [i \in 1 .. 0 |-> kids[0 - i + 1].at]  BY <1>1 DEF StackPaths
<1>3. DOMAIN StackPaths(kids) = {}  BY <1>2
<1> QED  BY <1>1, <1>3 DEF Descending, KeysInStack, KeysUnder

(* A turn of the search at an inner node, whichever children it keeps.     *)
LEMMA FuzzyInnerTurn ==
  ASSUME TreeInvariant, iter.nodes \in Seq(DOMAIN heap), iter.nodes # << >>,
         Descending(StackPaths(iter.nodes)), IsInner(Last(iter.nodes)),
         NEW S \in SUBSET ChildBytes(Last(iter.nodes)), NEW kids,
         kids = << >> \/ kids = [i \in DOMAIN Ascending(S) |-> Child(Last(iter.nodes), Ascending(S)[i])],
         NEW nodes, nodes = Front(iter.nodes) \o kids
  PROVE  /\ nodes \in Seq(DOMAIN heap) /\ Descending(StackPaths(nodes))
         /\ KeysInStack(nodes) \subseteq KeysInStack(iter.nodes)
<1>1. PICK R \in Seq(DOMAIN heap), n \in DOMAIN heap :
        R = Front(iter.nodes) /\ n = Last(iter.nodes) /\ iter.nodes = R \o <<n>>
  <2>1. Front(iter.nodes) \in Seq(DOMAIN heap) /\ Last(iter.nodes) \in DOMAIN heap
        /\ iter.nodes = Front(iter.nodes) \o <<Last(iter.nodes)>>
    BY EndsOfSequence
  <2> QED  BY <2>1
<1>2. n \in Inners(heap)  BY <1>1, NodeFacts
<1>3. TurnAtBack(iter.nodes, R, n, nodes, kids)  BY <1>1 DEF TurnAtBack
<1>4. /\ kids \in Seq(DOMAIN heap) /\ Descending(StackPaths(kids))
      /\ KeysInStack(kids) \subseteq KeysBelow(n)
      /\ \A j \in DOMAIN StackPaths(kids) : IsPrefix(n.at, StackPaths(kids)[j])
  <2>1. CASE kids = << >>  BY <2>1, NoKids
  <2>2. CASE kids # << >>  BY <1>1, <1>2, <2>2, KidsFacts
  <2> QED  BY <2>1, <2>2
<1>5. /\ nodes \in Seq(DOMAIN heap) /\ Descending(StackPaths(nodes))
      /\ KeysInStack(nodes) = KeysInStack(R) \cup KeysInStack(kids)
      /\ KeysInStack(iter.nodes) = KeysInStack(R) \cup KeysBelow(n)
  <2>1. R \in Seq(DOMAIN heap) /\ n \in DOMAIN heap  BY <1>1
  <2> QED  BY ONLY TreeInvariant, Descending(StackPaths(iter.nodes)), <2>1, <1>3, <1>4, StackTurn
<1> QED  BY <1>4, <1>5

LEMMA FuzzyLeafTurn ==
  ASSUME TreeInvariant, iter.nodes \in Seq(DOMAIN heap), iter.nodes # << >>,
         Descending(StackPaths(iter.nodes)), IsLeaf(Last(iter.nodes))
  PROVE  LET leaf == Last(iter.nodes)
             R    == Front(iter.nodes)
         IN  /\ leaf \in Leaves(heap) /\ R \in Seq(DOMAIN heap) /\ Descending(StackPaths(R))
             /\ KeysInStack(iter.nodes) = KeysInStack(R) \cup {leaf.at}
             /\ leaf.at \in StoredKeys /\ leaf.at \notin KeysInStack(R)
             /\ \A k \in KeysInStack(R) : Precedes(k, leaf.at)
<1>1. PICK R \in Seq(DOMAIN heap), leaf \in DOMAIN heap :
        R = Front(iter.nodes) /\ leaf = Last(iter.nodes) /\ iter.nodes = R \o <<leaf>>
  <2>1. Front(iter.nodes) \in Seq(DOMAIN heap) /\ Last(iter.nodes) \in DOMAIN heap
        /\ iter.nodes = Front(iter.nodes) \o <<Last(iter.nodes)>>
    BY EndsOfSequence
  <2> QED  BY <2>1
<1>2. leaf \in Leaves(heap) /\ leaf.at \in ByteString  BY <1>1, NodeFacts
<1>3. PICK none : none = << >>  OBVIOUS
<1>4. /\ none \in Seq(DOMAIN heap) /\ Descending(StackPaths(none)) /\ KeysInStack(none) = {}
      /\ DOMAIN StackPaths(none) = {}
  BY <1>3, NoKids
<1>5. TurnAtBack(iter.nodes, R, leaf, R, none)
  <2>1. R \o none = R  BY <1>1, <1>3
  <2> QED  BY <2>1, <1>1 DEF TurnAtBack
<1>6. /\ Descending(StackPaths(R))
      /\ KeysInStack(iter.nodes) = KeysInStack(R) \cup KeysBelow(leaf)
      /\ \A k \in KeysInStack(R), l \in KeysBelow(leaf) : Precedes(k, l)
  BY <1>1, <1>4, <1>5, StackTurn
<1>7. KeysBelow(leaf) = {leaf.at} /\ leaf.at \in StoredKeys  BY <1>2, StoredKeysFacts
<1>8. \A k \in KeysInStack(R) : Precedes(k, leaf.at)  BY <1>6, <1>7
<1>9. leaf.at \notin KeysInStack(R)
  <2>1. ~Precedes(leaf.at, leaf.at)  BY <1>2, PrefixReflexive, PrecedesApart
  <2> QED  BY <2>1, <1>8
<1> QED  BY <1>1, <1>2, <1>6, <1>7, <1>8, <1>9

-----------------------------------------------------------------------------
(***************************************************************************)
(* IterInvariant is kept.                                                  *)
(***************************************************************************)

(* The queue only refers to the map, so it is as good after a step that    *)
(* leaves the map alone.                                                   *)
LEMMA QueueKept ==
  ASSUME UNCHANGED vars, NEW q, NEW nodes, NEW size, QueueHolds(q, nodes, size),
         iter'.query = q, iter'.nodes = nodes, iter'.size = size
  PROVE  QueueHolds(iter.query, iter.nodes, iter.size)'
<1>1. heap' = heap /\ root' = root  BY DEF vars
<1>2. StoredKeys' = StoredKeys /\ QueueEntry' = QueueEntry
  BY <1>1 DEF StoredKeys, Leaves, QueueEntry
<1>3. KeysAlong(iter.nodes)' = KeysAlong(nodes) /\ KeysInStack(iter.nodes)' = KeysInStack(nodes)
  BY <1>2 DEF KeysAlong, KeysInStack
<1>4. HoldsStack(nodes) => HoldsStack(iter.nodes)'  BY <1>1 DEF HoldsStack
<1>5. \A p : LeadsToNode(q.prefix, p) => LeadsToNode(q.prefix, p)'
  BY <1>1 DEF LeadsToNode, Inners, ChildrenOf
<1>6. HoldsWalk(q, nodes) => HoldsWalk(iter.query, iter.nodes)'
  BY <1>2, <1>5 DEF HoldsWalk
<1> QED  BY <1>3, <1>4, <1>6 DEF QueueHolds

IterRecord(pc, query, nodes, arena, size, end, out) ==
  [pc |-> pc, query |-> query, nodes |-> nodes, arena |-> arena, size |-> size,
   end |-> end, out |-> out]

LEMMA QueryKinds ==
  /\ \A q \in Queries : q.kind \in {"all", "prefix", "fuzzy", "owned"}
  /\ \A q \in WalkQueries : q.kind \in {"all", "prefix"} /\ q \in Queries
  /\ \A q \in FuzzyQueries : q.kind = "fuzzy" /\ q \in Queries
  /\ Owned.kind = "owned" /\ Owned \in Queries
  /\ \A q \in Queries : q.kind \in {"all", "prefix"} => q \in WalkQueries
  /\ \A q \in Queries : q.kind = "fuzzy" => q \in FuzzyQueries
  /\ \A q \in Queries : q.kind = "owned" => q = Owned
<1>1. \A q \in WalkQueries : q.kind \in {"all", "prefix"}
  BY DEF WalkQueries, AllKeys, StartingWith
<1>2. \A q \in FuzzyQueries : q.kind = "fuzzy"  BY DEF FuzzyQueries, Within
<1>3. Owned.kind = "owned"  BY DEF Owned
<1> QED  BY <1>1, <1>2, <1>3 DEF Queries

(* A step of an iterator that borrows the map. *)
LEMMA BorrowedStep ==
  ASSUME UNCHANGED vars, op.pc = "idle", NEW q \in Queries, q.kind # "owned",
         NEW pc \in {"open", "walking", "answered"}, NEW nodes, NEW arena, NEW size, NEW end, NEW out,
         pc # "open" => end \in {"next", "next_back"},
         pc = "answered" => out \in Keys \cup {None}, pc # "answered" => out = None,
         QueueHolds(q, nodes, size),
         iter' = IterRecord(pc, q, nodes, arena, size, end, out)
  PROVE  IterInvariant'
<1>1. /\ iter'.pc = pc /\ iter'.query = q /\ iter'.nodes = nodes /\ iter'.arena = arena
      /\ iter'.size = size /\ iter'.end = end /\ iter'.out = out
      /\ iter' = [pc |-> iter'.pc, query |-> iter'.query, nodes |-> iter'.nodes,
                  arena |-> iter'.arena, size |-> iter'.size, end |-> iter'.end, out |-> iter'.out]
  BY DEF IterRecord
<1>2. QueueHolds(iter.query, iter.nodes, iter.size)'  BY <1>1, QueueKept
<1>3. Borrowing'  BY <1>1 DEF Borrowing
<1>4. ~Owning'  BY <1>1, QueryKinds DEF Owning
<1>5. op'.pc = "idle"  BY DEF vars
<1>6. IterType'  BY <1>1, <1>3 DEF IterType
<1>7. MapIsHeld'  BY <1>4, <1>5 DEF MapIsHeld
<1> QED  BY <1>2, <1>6, <1>7 DEF IterInvariant

(* What holds of an iterator that borrows the map, taken apart.            *)
LEMMA BorrowedFacts ==
  ASSUME IterInvariant, iter.pc # "none", iter.query.kind # "owned"
  PROVE  /\ op.pc = "idle" /\ iter.query \in Queries
         /\ QueueHolds(iter.query, iter.nodes, iter.size)
         /\ iter = IterRecord(iter.pc, iter.query, iter.nodes, iter.arena, iter.size, iter.end, iter.out)
         /\ iter.pc \in {"open", "walking", "answered"}
         /\ iter.pc # "open" => iter.end \in {"next", "next_back"}
         /\ iter.pc = "answered" => iter.out \in Keys \cup {None}
         /\ iter.pc # "answered" => iter.out = None
BY DEF IterInvariant, IterType, MapIsHeld, Borrowing, IterRecord

(* No iterator: nothing to say.                                            *)
LEMMA NoIterHolds == iter = NoIter => IterInvariant
<1> SUFFICES ASSUME iter = NoIter PROVE IterInvariant  OBVIOUS
<1>1. iter = [pc |-> "none", query |-> None, nodes |-> << >>, arena |-> << >>, size |-> 0,
              end |-> None, out |-> None]  BY DEF NoIter
<1>2. iter.pc = "none" /\ iter.out = None  BY <1>1
<1>3. iter = [pc |-> iter.pc, query |-> iter.query, nodes |-> iter.nodes, arena |-> iter.arena,
              size |-> iter.size, end |-> iter.end, out |-> iter.out]  BY <1>1
<1> QED  BY <1>2, <1>3 DEF IterInvariant, IterType, MapIsHeld, Borrowing

LEMMA NoIterNext ==
  ASSUME iter' = NoIter
  PROVE  IterInvariant'
<1>1. (iter = NoIter)'  BY DEF NoIter
<1> QED  BY <1>1, NoIterHolds, PTL

LEMMA WalkCounts ==
  ASSUME NEW q, q.kind # "fuzzy", NEW nodes, NEW size, HoldsWalk(q, nodes), Counts(size, KeysAlong(nodes)),
         q.kind = "all" => size = Cardinality(KeysAlong(nodes))
  PROVE  QueueHolds(q, nodes, size)
BY DEF QueueHolds

LEMMA KeysAlongAreFinite ==
  ASSUME TreeInvariant
  PROVE  \A nodes : /\ IsFiniteSet(KeysAlong(nodes)) /\ Cardinality(KeysAlong(nodes)) \in Nat
                    /\ IsFiniteSet(KeysInStack(nodes)) /\ Cardinality(KeysInStack(nodes)) \in Nat
<1>1. IsFiniteSet(StoredKeys)  BY StoredKeysFacts
<1>2. \A s : KeysUnder(StoredKeys, s) \subseteq StoredKeys  BY DEF KeysUnder
<1>3. \A s : IsFiniteSet(KeysUnder(StoredKeys, s)) /\ Cardinality(KeysUnder(StoredKeys, s)) \in Nat
  BY <1>1, <1>2, FS_Subset, FS_CardinalityType
<1> QED  BY <1>3 DEF KeysAlong, KeysInStack

(* A leaf of the queue is counted off. *)
LEMMA CountedOff ==
  ASSUME NEW K, IsFiniteSet(K), NEW k, k \notin K, NEW size, Counts(size, K \cup {k})
  PROVE  /\ Counts(size - 1, K)
         /\ size = Cardinality(K \cup {k}) => size - 1 = Cardinality(K)
<1>1. Cardinality(K \cup {k}) = Cardinality(K) + 1  BY FS_AddElement
<1>2. Cardinality(K) \in Nat  BY FS_CardinalityType
<1> QED  BY <1>1, <1>2 DEF Counts

LEMMA FewerCounted ==
  ASSUME NEW K, IsFiniteSet(K), NEW J, J \subseteq K, NEW size, Counts(size, K)
  PROVE  Counts(size, J)
<1>1. Cardinality(J) <= Cardinality(K) /\ Cardinality(J) \in Nat /\ Cardinality(K) \in Nat
  BY FS_Subset, FS_CardinalityType
<1> QED  BY <1>1 DEF Counts

StartQueue(e) == IF root = None THEN << >> ELSE <<e>>

(* The queue an iterator starts with has every key of the map before it.   *)
LEMMA StartOfWalk ==
  ASSUME TreeInvariant, ~TearingDown, NEW q \in WalkQueries
  PROVE  /\ HoldsWalk(q, StartQueue(Pending(root, 0)))
         /\ KeysAlong(StartQueue(Pending(root, 0))) = StoredKeys
         /\ num_entries \in Nat /\ num_entries = Cardinality(StoredKeys)
<1> DEFINE nodes == StartQueue(Pending(root, 0))
<1>1. num_entries \in Nat /\ num_entries = Cardinality(StoredKeys)
  BY StoredKeysFacts DEF TreeInvariant, TypeOK, CountIsExact
<1>2. PICK K \in SUBSET ByteString : K = StoredKeys  BY StoredKeysFacts
<1>3. /\ root = None <=> DOMAIN heap = {}
      /\ root # None => root \in DOMAIN heap
      /\ \A x \in DOMAIN heap : IsPrefix(root.at, x.at)
  BY DEF TreeInvariant, RootIsAboveAll
<1>4. CASE root = None
  <2>1. nodes = << >>  BY <1>4 DEF StartQueue
  <2>2. << >> \in Seq(QueueEntry) /\ DOMAIN << >> = {} /\ Len(<< >>) = 0  OBVIOUS
  <2>3. WalkPaths(nodes) = [i \in 1 .. 0 |-> nodes[i].node.at]  BY <2>1, <2>2 DEF WalkPaths
  <2>4. DOMAIN WalkPaths(nodes) = {}  BY <2>3
  <2>5. HoldsWalk(q, nodes)  BY <2>1, <2>2, <2>4 DEF HoldsWalk, Descending
  <2>6. KeysAlong(nodes) = {}  BY <2>4 DEF KeysAlong, KeysUnder
  <2>7. StoredKeys = {}  BY <1>3, <1>4 DEF StoredKeys, Leaves
  <2> QED  BY <1>1, <2>5, <2>6, <2>7
<1>5. CASE root # None
  <2>1. PICK e \in QueueEntry : e = Pending(root, 0) /\ e.node = root /\ e.depth = 0
    <3>1. Pending(root, 0) \in QueueEntry  BY <1>3, <1>5 DEF Pending, QueueEntry
    <3> QED  BY <3>1 DEF Pending
  <2>2. nodes = <<e>>  BY <1>5, <2>1 DEF StartQueue
  <2>3. <<e>> \in Seq(QueueEntry) /\ DOMAIN <<e>> = {1} /\ Len(<<e>>) = 1 /\ <<e>>[1] = e  OBVIOUS
  <2>4. root.at \in ByteString /\ \A x \in DOMAIN heap : x.at \in ByteString  BY <1>3, <1>5, NodeFacts
  <2>5. WalkPaths(nodes) = <<root.at>>
    <3>1. WalkPaths(nodes) = [i \in 1 .. 1 |-> nodes[i].node.at]  BY <2>2, <2>3 DEF WalkPaths
    <3>2. \A i \in 1 .. 1 : nodes[i].node.at = root.at  BY <2>1, <2>2, <2>3
    <3> QED  BY <3>1, <3>2
  <2>6. PICK at \in ByteString : at = root.at  BY <2>4
  <2>7. Descending(<<at>>) /\ KeysUnder(K, <<at>>) = {k \in K : IsPrefix(at, k)}  BY OneQueued
  <2>8. \A k \in K : IsPrefix(at, k)
    <3>1. K = {l.at : l \in Leaves(heap)}  BY <1>2, StoredKeysFacts
    <3> QED  BY <3>1, <1>3, <2>6 DEF Leaves
  <2>9. KeysAlong(nodes) = StoredKeys  BY <1>2, <2>5, <2>6, <2>7, <2>8 DEF KeysAlong
  <2>10. ASSUME q.kind = "prefix" PROVE LeadsToNode(q.prefix, e)
    <3>1. PICK prefix \in ByteString : prefix = q.prefix
      BY <2>10, SearchPrefixesAssumption DEF WalkQueries, AllKeys, StartingWith
    <3>2. IsPrefix(TakeFirst(prefix, 0), at)
      <4>1. TakeFirst(prefix, 0) \in ByteString /\ Len(TakeFirst(prefix, 0)) = 0
        BY TakeFirstFacts DEF ByteString
      <4>2. 1 .. 0 = {} /\ Len(at) \in Nat  BY DEF ByteString
      <4> QED  BY <4>1, <4>2, PrefixPointwise
    <3>3. CASE 0 < Len(prefix)
      BY <2>1, <2>6, <3>1, <3>2, <3>3 DEF LeadsToNode
    <3>4. CASE ~(0 < Len(prefix))
      <4>1. Len(prefix) = 0  BY <3>4 DEF ByteString
      <4>2. 1 .. 0 = {} /\ Len(at) \in Nat  BY DEF ByteString
      <4>3. IsPrefix(prefix, at)  BY <4>1, <4>2, PrefixPointwise
      <4> QED  BY <2>1, <2>6, <3>1, <3>4, <4>3 DEF LeadsToNode
    <3> QED  BY <3>3, <3>4
  <2>11. HoldsWalk(q, nodes)
    <3>1. Descending(WalkPaths(nodes))  BY <2>5, <2>6, <2>7
    <3>2. q.kind = "prefix" => \A i \in DOMAIN nodes : LeadsToNode(q.prefix, nodes[i])
      BY <2>2, <2>3, <2>10
    <3> QED  BY <2>2, <2>3, <3>1, <3>2 DEF HoldsWalk
  <2> QED  BY <1>1, <2>9, <2>11
<1> QED  BY <1>4, <1>5

LEMMA StartOfSearch ==
  ASSUME TreeInvariant, ~TearingDown
  PROVE  /\ HoldsStack(StartQueue(root))
         /\ KeysInStack(StartQueue(root)) = StoredKeys
         /\ num_entries \in Nat /\ num_entries = Cardinality(StoredKeys)
<1> DEFINE nodes == StartQueue(root)
<1>1. num_entries \in Nat /\ num_entries = Cardinality(StoredKeys)
  BY StoredKeysFacts DEF TreeInvariant, TypeOK, CountIsExact
<1>2. PICK K \in SUBSET ByteString : K = StoredKeys  BY StoredKeysFacts
<1>3. /\ root = None <=> DOMAIN heap = {}
      /\ root # None => root \in DOMAIN heap
      /\ \A x \in DOMAIN heap : IsPrefix(root.at, x.at)
  BY DEF TreeInvariant, RootIsAboveAll
<1>4. CASE root = None
  <2>1. nodes = << >>  BY <1>4 DEF StartQueue
  <2>2. HoldsStack(nodes) /\ KeysInStack(nodes) = {}  BY <2>1, NoKids DEF HoldsStack
  <2>3. StoredKeys = {}  BY <1>3, <1>4 DEF StoredKeys, Leaves
  <2> QED  BY <1>1, <2>2, <2>3
<1>5. CASE root # None
  <2>1. PICK e \in DOMAIN heap : e = root  BY <1>3, <1>5
  <2>2. nodes = <<e>>  BY <1>5, <2>1 DEF StartQueue
  <2>3. <<e>> \in Seq(DOMAIN heap) /\ DOMAIN <<e>> = {1} /\ Len(<<e>>) = 1 /\ <<e>>[1] = e  OBVIOUS
  <2>4. PICK at \in ByteString : at = root.at  BY <2>1, NodeFacts
  <2>5. StackPaths(nodes) = <<at>>
    <3>1. StackPaths(nodes) = [i \in 1 .. 1 |-> nodes[1 - i + 1].at]  BY <2>2, <2>3 DEF StackPaths
    <3>2. \A i \in 1 .. 1 : nodes[1 - i + 1].at = at  BY <2>1, <2>2, <2>3, <2>4
    <3> QED  BY <3>1, <3>2
  <2>7. Descending(<<at>>) /\ KeysUnder(K, <<at>>) = {k \in K : IsPrefix(at, k)}  BY OneQueued
  <2>8. \A k \in K : IsPrefix(at, k)
    <3>1. K = {l.at : l \in Leaves(heap)}  BY <1>2, StoredKeysFacts
    <3> QED  BY <3>1, <1>3, <2>4 DEF Leaves
  <2>9. KeysInStack(nodes) = StoredKeys  BY <1>2, <2>5, <2>7, <2>8 DEF KeysInStack
  <2>10. HoldsStack(nodes)  BY <2>2, <2>3, <2>5, <2>7 DEF HoldsStack
  <2> QED  BY <1>1, <2>9, <2>10
<1> QED  BY <1>4, <1>5

LEMMA Openings ==
  ASSUME NEW query, NEW pending, NEW arena
  PROVE  Opened(query, pending, arena) =
           IterRecord("open", query, StartQueue(pending), arena, num_entries, None, None)
<1> DEFINE empty == [pc |-> "none", query |-> None, nodes |-> << >>, arena |-> << >>, size |-> 0,
                    end |-> None, out |-> None]
<1>1. NoIter = empty  BY DEF NoIter
<1>2. PICK nodes : nodes = StartQueue(pending)  OBVIOUS
<1>3. Opened(query, pending, arena) =
        [empty EXCEPT !.pc = "open", !.query = query, !.size = num_entries, !.arena = arena,
                      !.nodes = nodes]
  BY <1>1, <1>2 DEF Opened, StartQueue
<1> QED  BY <1>2, <1>3 DEF IterRecord

LEMMA OpenWalkKeepsIter ==
  ASSUME Invariant, NEW query \in WalkQueries, OpenWalk(query)
  PROVE  IterInvariant'
<1> DEFINE nodes == StartQueue(Pending(root, 0))
<1>1. TreeInvariant /\ ~TearingDown /\ op.pc = "idle"
  BY DEF Invariant, OpenWalk, CanOpen, TearingDown
<1>2. HoldsWalk(query, nodes) /\ KeysAlong(nodes) = StoredKeys
      /\ num_entries \in Nat /\ num_entries = Cardinality(StoredKeys)
  BY <1>1, StartOfWalk
<1>3. iter' = IterRecord("open", query, nodes, << >>, num_entries, None, None) /\ UNCHANGED vars
  BY Openings DEF OpenWalk
<1> HIDE DEF nodes
<1>4. query.kind \notin {"fuzzy", "owned"} /\ query \in Queries  BY QueryKinds
<1>5. QueueHolds(query, nodes, num_entries)  BY <1>2, <1>4, WalkCounts DEF Counts
<1> QED  BY <1>1, <1>3, <1>4, <1>5, BorrowedStep

LEMMA OpenFuzzyKeepsIter ==
  ASSUME Invariant, NEW query \in FuzzyQueries, OpenFuzzy(query)
  PROVE  IterInvariant'
<1> DEFINE nodes == StartQueue(root)
<1>1. TreeInvariant /\ ~TearingDown /\ op.pc = "idle"
  BY DEF Invariant, OpenFuzzy, CanOpen, TearingDown
<1>2. HoldsStack(nodes) /\ KeysInStack(nodes) = StoredKeys
      /\ num_entries \in Nat /\ num_entries = Cardinality(StoredKeys)
  BY <1>1, StartOfSearch
<1>3. PICK arena : iter' = IterRecord("open", query, nodes, arena, num_entries, None, None)
  BY Openings DEF OpenFuzzy
<1>4. UNCHANGED vars  BY DEF OpenFuzzy
<1> HIDE DEF nodes
<1>5. query.kind = "fuzzy" /\ query \in Queries  BY QueryKinds
<1>6. QueueHolds(query, nodes, num_entries)  BY <1>2, <1>5 DEF QueueHolds, Counts
<1> QED  BY <1>1, <1>3, <1>4, <1>5, <1>6, BorrowedStep

(* The fields of the iterator, set one after the other.                    *)
SetPc(r, x) == [r EXCEPT !.pc = x]
SetNodes(r, x) == [r EXCEPT !.nodes = x]
SetArena(r, x) == [r EXCEPT !.arena = x]
SetSize(r, x) == [r EXCEPT !.size = x]
SetEnd(r, x) == [r EXCEPT !.end = x]
SetOut(r, x) == [r EXCEPT !.out = x]

LEMMA FieldUpdates ==
  ASSUME NEW pc, NEW query, NEW nodes, NEW arena, NEW size, NEW end, NEW out, NEW x
  PROVE  LET r == IterRecord(pc, query, nodes, arena, size, end, out)
         IN  /\ SetPc(r, x) = IterRecord(x, query, nodes, arena, size, end, out)
             /\ SetNodes(r, x) = IterRecord(pc, query, x, arena, size, end, out)
             /\ SetArena(r, x) = IterRecord(pc, query, nodes, x, size, end, out)
             /\ SetSize(r, x) = IterRecord(pc, query, nodes, arena, x, end, out)
             /\ SetEnd(r, x) = IterRecord(pc, query, nodes, arena, size, x, out)
             /\ SetOut(r, x) = IterRecord(pc, query, nodes, arena, size, end, x)
BY DEF IterRecord, SetPc, SetNodes, SetArena, SetSize, SetEnd, SetOut

LEMMA AdvanceKeepsIter ==
  ASSUME IterInvariant, NEW end \in {"next", "next_back"}, Advance(end)
  PROVE  IterInvariant'
<1>1. iter.pc = "open" /\ iter.pc # "none" /\ iter.query.kind # "owned"  BY DEF Advance
<1>2. /\ op.pc = "idle" /\ iter.query \in Queries
      /\ QueueHolds(iter.query, iter.nodes, iter.size)
      /\ iter = IterRecord(iter.pc, iter.query, iter.nodes, iter.arena, iter.size, iter.end, iter.out)
      /\ iter.out = None
  BY <1>1, BorrowedFacts
<1>3. iter' = IterRecord("walking", iter.query, iter.nodes, iter.arena, iter.size, end, iter.out)
      /\ UNCHANGED vars
  <2>1. iter' = SetEnd(SetPc(iter, "walking"), end)  BY DEF Advance, SetEnd, SetPc
  <2> QED  BY <1>2, <2>1, FieldUpdates DEF Advance
<1> QED  BY <1>1, <1>2, <1>3, BorrowedStep

LEMMA TakenKeepsIter ==
  ASSUME IterInvariant, Taken
  PROVE  IterInvariant'
<1>1. iter.pc # "none" /\ iter.query.kind # "owned"
  BY DEF Taken, IterInvariant, IterType, Borrowing
<1>2. /\ op.pc = "idle" /\ iter.query \in Queries
      /\ QueueHolds(iter.query, iter.nodes, iter.size)
      /\ iter = IterRecord(iter.pc, iter.query, iter.nodes, iter.arena, iter.size, iter.end, iter.out)
  BY <1>1, BorrowedFacts
<1>3. iter' = IterRecord("open", iter.query, iter.nodes, iter.arena, iter.size, None, None)
      /\ UNCHANGED vars
  <2>1. iter' = SetOut(SetEnd(SetPc(iter, "open"), None), None)  BY DEF Taken, SetEnd, SetPc, SetOut
  <2> QED  BY <1>2, <2>1, FieldUpdates DEF Taken
<1> QED  BY <1>1, <1>2, <1>3, BorrowedStep

LEMMA DropKeepsIter ==
  ASSUME Drop
  PROVE  IterInvariant'
BY NoIterNext DEF Drop

LEMMA NothingIsLeft ==
  ASSUME UNCHANGED vars, IterInvariant, iter.pc = "walking", iter.query.kind # "owned", NEW arena,
         iter' = IterRecord("answered", iter.query, iter.nodes, arena, iter.size, iter.end, iter.out)
  PROVE  IterInvariant'
<1>1. iter.pc # "none"  OBVIOUS
<1>2. /\ op.pc = "idle" /\ iter.query \in Queries
      /\ QueueHolds(iter.query, iter.nodes, iter.size)
      /\ iter.end \in {"next", "next_back"} /\ iter.out = None
  BY <1>1, BorrowedFacts
<1>3. iter.out \in Keys \cup {None}  BY <1>2
<1> QED  BY <1>2, <1>3, BorrowedStep

(* The turns of the loops of next and next_back. *)
LEMMA VisitInnerKeepsIter ==
  ASSUME Invariant, IterInvariant, VisitInner
  PROVE  IterInvariant'
<1>1. /\ iter.pc = "walking" /\ iter.query.kind \in {"all", "prefix"} /\ iter.nodes # << >>
      /\ IsInner(Popped.node) /\ UNCHANGED vars
  BY DEF VisitInner, Iterating
<1>2. iter.pc # "none" /\ iter.query.kind # "owned" /\ iter.query.kind # "fuzzy"  BY <1>1
<1>3. /\ op.pc = "idle" /\ iter.query \in Queries
      /\ QueueHolds(iter.query, iter.nodes, iter.size)
      /\ iter = IterRecord(iter.pc, iter.query, iter.nodes, iter.arena, iter.size, iter.end, iter.out)
      /\ iter.end \in {"next", "next_back"} /\ iter.out = None
  BY <1>1, <1>2, BorrowedFacts
<1>4. HoldsWalk(iter.query, iter.nodes) /\ Counts(iter.size, KeysAlong(iter.nodes))
      /\ (iter.query.kind = "all" => iter.size = Cardinality(KeysAlong(iter.nodes)))
  BY <1>2, <1>3 DEF QueueHolds
<1>5. TreeInvariant /\ ~TearingDown  BY <1>3 DEF Invariant, TearingDown
<1>6. iter.query \in WalkQueries  BY <1>1, <1>3, QueryKinds
<1>7. PICK nodes : nodes = PushedAt(Rest, Queued(Popped.node, Popped.depth))  OBVIOUS
<1>8. /\ HoldsWalk(iter.query, nodes)
      /\ KeysAlong(nodes) \subseteq KeysAlong(iter.nodes)
      /\ iter.query.kind = "all" => KeysAlong(nodes) = KeysAlong(iter.nodes)
  BY <1>1, <1>4, <1>5, <1>6, <1>7, InnerTurn
<1>9. Counts(iter.size, KeysAlong(nodes))  BY <1>4, <1>5, <1>8, KeysAlongAreFinite, FewerCounted
<1>10. QueueHolds(iter.query, nodes, iter.size)  BY <1>2, <1>4, <1>8, <1>9, WalkCounts
<1>11. iter' = IterRecord("walking", iter.query, nodes, iter.arena, iter.size, iter.end, iter.out)
  <2>1. iter' = SetNodes(iter, nodes)  BY <1>7 DEF VisitInner, SetNodes
  <2> QED  BY <1>1, <1>3, <2>1, FieldUpdates
<1> QED  BY <1>1, <1>2, <1>3, <1>10, <1>11, BorrowedStep

(* A leaf is counted off, and answered with if it is yielded. *)
LEMMA LeafVisited ==
  ASSUME IterInvariant, VisitLeaf, NEW nodes, nodes = Rest
  PROVE  \/ /\ Yielded(Popped.node, Popped.depth)
            /\ iter' = IterRecord("answered", iter.query, nodes, iter.arena, iter.size - 1, iter.end,
                                  heap[Popped.node].key)
         \/ /\ ~Yielded(Popped.node, Popped.depth)
            /\ iter' = IterRecord("walking", iter.query, nodes, iter.arena, iter.size - 1, iter.end, None)
<1> DEFINE counted == SetSize(SetNodes(iter, nodes), iter.size - 1)
           key     == heap[Popped.node].key
<1>1. iter.pc = "walking" /\ iter.query.kind # "owned" /\ iter.pc # "none"
  BY DEF VisitLeaf, Iterating
<1>2. /\ iter = IterRecord(iter.pc, iter.query, iter.nodes, iter.arena, iter.size, iter.end, iter.out)
      /\ iter.out = None
  BY <1>1, BorrowedFacts
<1>3. iter' = IF Yielded(Popped.node, Popped.depth)
              THEN SetOut(SetPc(counted, "answered"), key) ELSE counted
  BY DEF VisitLeaf, SetSize, SetNodes, SetOut, SetPc
<1>4. counted = IterRecord("walking", iter.query, nodes, iter.arena, iter.size - 1, iter.end, None)
  BY <1>1, <1>2, FieldUpdates
<1> HIDE DEF counted, key
<1>5. SetOut(SetPc(counted, "answered"), key) =
        IterRecord("answered", iter.query, nodes, iter.arena, iter.size - 1, iter.end, key)
  BY <1>4, FieldUpdates
<1>6. CASE Yielded(Popped.node, Popped.depth)  BY <1>3, <1>5, <1>6 DEF key
<1>7. CASE ~Yielded(Popped.node, Popped.depth)  BY <1>3, <1>4, <1>7
<1> QED  BY <1>6, <1>7

LEMMA VisitLeafKeepsIter ==
  ASSUME Invariant, IterInvariant, VisitLeaf
  PROVE  IterInvariant'
<1>1. /\ iter.pc = "walking" /\ iter.query.kind \in {"all", "prefix"} /\ iter.nodes # << >>
      /\ IsLeaf(Popped.node) /\ UNCHANGED vars
  BY DEF VisitLeaf, Iterating
<1>2. iter.pc # "none" /\ iter.query.kind # "owned" /\ iter.query.kind # "fuzzy"  BY <1>1
<1>3. /\ op.pc = "idle" /\ iter.query \in Queries
      /\ QueueHolds(iter.query, iter.nodes, iter.size)
      /\ iter = IterRecord(iter.pc, iter.query, iter.nodes, iter.arena, iter.size, iter.end, iter.out)
      /\ iter.end \in {"next", "next_back"} /\ iter.out = None
  BY <1>1, <1>2, BorrowedFacts
<1>4. HoldsWalk(iter.query, iter.nodes) /\ Counts(iter.size, KeysAlong(iter.nodes))
      /\ (iter.query.kind = "all" => iter.size = Cardinality(KeysAlong(iter.nodes)))
  BY <1>2, <1>3 DEF QueueHolds
<1>5. TreeInvariant  BY DEF Invariant
<1>6. PICK nodes, k : nodes = Rest /\ k = Popped.node.at  OBVIOUS
<1>7. /\ HoldsWalk(iter.query, nodes)
      /\ KeysAlong(iter.nodes) = KeysAlong(nodes) \cup {k}
      /\ k \notin KeysAlong(nodes)
  BY <1>1, <1>4, <1>5, <1>6, LeafTurn
<1>8. heap[Popped.node].key \in Keys
  <2>1. Popped.node \in Leaves(heap)  BY <1>1, <1>4, <1>5, LeafTurn
  <2>2. heap[Popped.node].key \in StoredKeys  BY <2>1 DEF StoredKeys
  <2> QED  BY <2>2, <1>5, StoredKeysFacts
<1>9. IsFiniteSet(KeysAlong(nodes))  BY <1>5, KeysAlongAreFinite
<1>10. /\ Counts(iter.size - 1, KeysAlong(nodes))
       /\ iter.query.kind = "all" => iter.size - 1 = Cardinality(KeysAlong(nodes))
  BY <1>4, <1>7, <1>9, CountedOff
<1>11. QueueHolds(iter.query, nodes, iter.size - 1)  BY <1>2, <1>7, <1>10, WalkCounts
<1>12. PICK pc, out :
         /\ pc \in {"walking", "answered"}
         /\ iter' = IterRecord(pc, iter.query, nodes, iter.arena, iter.size - 1, iter.end, out)
         /\ pc = "answered" => out \in Keys \cup {None}
         /\ pc # "answered" => out = None
  BY <1>6, <1>8, LeafVisited
<1> QED  BY <1>1, <1>2, <1>3, <1>11, <1>12, BorrowedStep

LEMMA ExhaustedKeepsIter ==
  ASSUME IterInvariant, Exhausted
  PROVE  IterInvariant'
<1>1. iter.pc = "walking" /\ iter.query.kind # "owned" /\ iter.pc # "none" /\ UNCHANGED vars
  BY DEF Exhausted, Iterating
<1>2. iter = IterRecord(iter.pc, iter.query, iter.nodes, iter.arena, iter.size, iter.end, iter.out)
  BY <1>1, BorrowedFacts
<1>3. iter' = IterRecord("answered", iter.query, iter.nodes, iter.arena, iter.size, iter.end, iter.out)
  <2>1. iter' = SetPc(iter, "answered")  BY DEF Exhausted, SetPc
  <2> QED  BY <1>2, <2>1, FieldUpdates
<1> QED  BY <1>1, <1>3, NothingIsLeft

(* The turns of a fuzzy search. *)
LEMMA SearchStep ==
  ASSUME Searching, IterInvariant
  PROVE  /\ iter.pc = "walking" /\ iter.pc # "none" /\ iter.query.kind = "fuzzy"
         /\ iter.query.kind # "owned"
         /\ op.pc = "idle" /\ iter.query \in Queries
         /\ HoldsStack(iter.nodes) /\ Counts(iter.size, KeysInStack(iter.nodes))
         /\ iter.nodes \in Seq(DOMAIN heap) /\ Descending(StackPaths(iter.nodes))
         /\ iter = IterRecord("walking", iter.query, iter.nodes, iter.arena, iter.size, iter.end, None)
         /\ iter.end \in {"next", "next_back"}
<1>1. iter.pc = "walking" /\ iter.query.kind = "fuzzy" /\ iter.pc # "none" /\ iter.query.kind # "owned"
  BY DEF Searching
<1>2. /\ op.pc = "idle" /\ iter.query \in Queries
      /\ QueueHolds(iter.query, iter.nodes, iter.size)
      /\ iter = IterRecord(iter.pc, iter.query, iter.nodes, iter.arena, iter.size, iter.end, iter.out)
      /\ iter.end \in {"next", "next_back"} /\ iter.out = None
  BY <1>1, BorrowedFacts
<1> QED  BY <1>1, <1>2 DEF QueueHolds, HoldsStack

LEMMA FuzzyInnerKeepsIter ==
  ASSUME Invariant, IterInvariant, FuzzyInner
  PROVE  IterInvariant'
<1>1. Searching /\ iter.nodes # << >> /\ IsInner(Last(iter.nodes)) /\ UNCHANGED vars
  BY DEF FuzzyInner
<1>2. TreeInvariant  BY DEF Invariant
<1>3. PICK S, kids, arena, nodes :
        /\ S \in SUBSET ChildBytes(Last(iter.nodes))
        /\ kids = << >> \/ kids = [i \in DOMAIN Ascending(S) |-> Child(Last(iter.nodes), Ascending(S)[i])]
        /\ nodes = Front(iter.nodes) \o kids
        /\ iter' = SetArena(SetNodes(iter, nodes), arena)
  <2> DEFINE node == Last(iter.nodes)
             old  == Last(iter.arena)
             path == ReadFullPrefix(node, old[1])
             row  == RowAfter(old, path)
             S    == {b \in ChildBytes(node) : Keep(NextRow(row, b))}
             near == Ascending(S)
             keep == \A i \in DOMAIN path : Keep(RowAfter(old, TakeFirst(path, i)))
             kids == IF keep THEN [i \in DOMAIN near |-> Child(node, near[i])] ELSE << >>
             rows == IF keep THEN [i \in DOMAIN near |-> NextRow(row, near[i])] ELSE << >>
  <2>1. S \in SUBSET ChildBytes(node)  OBVIOUS
  <2>2. iter' = [iter EXCEPT !.nodes = Front(@) \o kids, !.arena = Front(@) \o rows]
    BY DEF FuzzyInner
  <2> HIDE DEF S, near, row, path, old, rows, node
  <2>3. iter' = SetArena(SetNodes(iter, Front(iter.nodes) \o kids), Front(iter.arena) \o rows)
    <3>1. [iter EXCEPT !.nodes = Front(@) \o kids, !.arena = Front(@) \o rows] =
             [iter EXCEPT !.nodes = Front(iter.nodes) \o kids, !.arena = Front(iter.arena) \o rows]
      OBVIOUS
    <3> QED  BY <2>2, <3>1 DEF SetArena, SetNodes
  <2>4. kids = << >> \/ kids = [i \in DOMAIN Ascending(S) |-> Child(node, Ascending(S)[i])]
    BY DEF near
  <2> HIDE DEF kids
  <2> QED  BY <2>1, <2>3, <2>4 DEF node
<1>4. /\ nodes \in Seq(DOMAIN heap) /\ Descending(StackPaths(nodes))
      /\ KeysInStack(nodes) \subseteq KeysInStack(iter.nodes)
  <2>1. iter.nodes \in Seq(DOMAIN heap) /\ Descending(StackPaths(iter.nodes))  BY <1>1, SearchStep
  <2> QED  BY <1>1, <1>2, <1>3, <2>1, FuzzyInnerTurn
<1>5. Counts(iter.size, KeysInStack(nodes))
  <2>1. Counts(iter.size, KeysInStack(iter.nodes))  BY <1>1, SearchStep
  <2> QED  BY <1>2, <1>4, <2>1, KeysAlongAreFinite, FewerCounted
<1>6. iter' = IterRecord("walking", iter.query, nodes, arena, iter.size, iter.end, None)
  <2>1. iter = IterRecord("walking", iter.query, iter.nodes, iter.arena, iter.size, iter.end, None)
    BY <1>1, SearchStep
  <2> QED  BY <1>3, <2>1, FieldUpdates
<1>7. QueueHolds(iter.query, nodes, iter.size)
  BY <1>1, <1>4, <1>5, SearchStep DEF QueueHolds, HoldsStack
<1>8. op.pc = "idle" /\ iter.query \in Queries /\ iter.query.kind # "owned"
      /\ iter.end \in {"next", "next_back"}
  BY <1>1, SearchStep
<1> QED  BY <1>1, <1>6, <1>7, <1>8, BorrowedStep

LEMMA FuzzyLeafKeepsIter ==
  ASSUME Invariant, IterInvariant, FuzzyLeaf
  PROVE  IterInvariant'
<1>1. Searching /\ iter.nodes # << >> /\ IsLeaf(Last(iter.nodes)) /\ UNCHANGED vars
  BY DEF FuzzyLeaf
<1>2. TreeInvariant  BY DEF Invariant
<1>3. PICK nodes, leaf, k : nodes = Front(iter.nodes) /\ leaf = Last(iter.nodes) /\ k = leaf.at  OBVIOUS
<1>4. /\ leaf \in Leaves(heap) /\ nodes \in Seq(DOMAIN heap) /\ Descending(StackPaths(nodes))
      /\ KeysInStack(iter.nodes) = KeysInStack(nodes) \cup {k} /\ k \notin KeysInStack(nodes)
  <2>1. iter.nodes \in Seq(DOMAIN heap) /\ Descending(StackPaths(iter.nodes))  BY <1>1, SearchStep
  <2> QED  BY <1>1, <1>2, <1>3, <2>1, FuzzyLeafTurn
<1>5. heap[leaf].key \in Keys
  <2>1. heap[leaf].key \in StoredKeys  BY <1>4 DEF StoredKeys
  <2> QED  BY <2>1, <1>2, StoredKeysFacts
<1>6. Counts(iter.size - 1, KeysInStack(nodes))
  <2>1. Counts(iter.size, KeysInStack(iter.nodes))  BY <1>1, SearchStep
  <2>2. IsFiniteSet(KeysInStack(nodes))  BY <1>2, KeysAlongAreFinite
  <2> QED  BY <1>4, <2>1, <2>2, CountedOff
<1>7. QueueHolds(iter.query, nodes, iter.size - 1)
  BY <1>1, <1>4, <1>6, SearchStep DEF QueueHolds, HoldsStack
<1>8. PICK pc, arena, out :
        /\ pc \in {"walking", "answered"}
        /\ iter' = IterRecord(pc, iter.query, nodes, arena, iter.size - 1, iter.end, out)
        /\ pc = "answered" => out \in Keys \cup {None}
        /\ pc # "answered" => out = None
  <2> DEFINE arena  == Front(iter.arena)
             popped == SetSize(SetArena(SetNodes(iter, nodes), arena), iter.size - 1)
             key    == heap[leaf].key
             near   == Last(LeafRow(leaf, Last(iter.arena))) <= iter.query.max
  <2>1. iter' = IF near THEN SetOut(SetPc(popped, "answered"), key) ELSE popped
    BY <1>3 DEF FuzzyLeaf, SetSize, SetNodes, SetArena, SetOut, SetPc
  <2>2. popped = IterRecord("walking", iter.query, nodes, arena, iter.size - 1, iter.end, None)
    <3>1. iter = IterRecord("walking", iter.query, iter.nodes, iter.arena, iter.size, iter.end, None)
      BY <1>1, SearchStep
    <3> QED  BY <3>1, FieldUpdates
  <2>4. key \in Keys  BY <1>5
  <2> HIDE DEF popped, key, near, arena
  <2>3. SetOut(SetPc(popped, "answered"), key) =
          IterRecord("answered", iter.query, nodes, arena, iter.size - 1, iter.end, key)
    BY <2>2, FieldUpdates
  <2>5. CASE near  BY <2>1, <2>3, <2>4, <2>5
  <2>6. CASE ~near  BY <2>1, <2>2, <2>6
  <2> QED  BY <2>5, <2>6
<1>9. op.pc = "idle" /\ iter.query \in Queries /\ iter.query.kind # "owned"
      /\ iter.end \in {"next", "next_back"}
  BY <1>1, SearchStep
<1> QED  BY <1>1, <1>7, <1>8, <1>9, BorrowedStep

LEMMA FuzzyExhaustedKeepsIter ==
  ASSUME IterInvariant, FuzzyExhausted
  PROVE  IterInvariant'
<1>1. Searching /\ UNCHANGED vars  BY DEF FuzzyExhausted
<1>2. /\ iter = IterRecord("walking", iter.query, iter.nodes, iter.arena, iter.size, iter.end, None)
      /\ iter.pc = "walking" /\ iter.query.kind # "owned"
  BY <1>1, SearchStep
<1>3. PICK arena : iter' = SetArena(SetPc(iter, "answered"), arena)
  BY DEF FuzzyExhausted, SetArena, SetPc
<1>4. iter' = IterRecord("answered", iter.query, iter.nodes, arena, iter.size, iter.end, None)
  BY <1>2, <1>3, FieldUpdates
<1>5. iter.out = None  BY <1>2 DEF IterRecord
<1> QED  BY <1>1, <1>2, <1>4, <1>5, NothingIsLeft

(* The steps of pop_first and pop_last on a map with a root: the walk goes *)
(* down, stops at a leaf, and removes it.                                  *)
LEMMA PopRuns ==
  ASSUME Invariant, Run, op.pc # "dealloc", op.call \in {"pop_first", "pop_last"}
  PROVE  \/ /\ UNCHANGED <<heap, root, num_entries>> /\ op.pc = "search"
            /\ op'.pc \in {"search", "apply"} /\ op'.call = op.call
         \/ ApplyDelete
<1>1. op \in OpType  BY OpIsRecord DEF Invariant
<1>2. op.call \notin KeyCalls /\ op.call \notin {"first_key_value", "last_key_value"}
  BY DEF KeyCalls
<1>3. op.call \notin {"try_insert", "get", "get_mut", "remove_entry"}  OBVIOUS
<1>4. CASE Search
  <2>1. ~StepToMinimum /\ ~DescendByKey  BY <1>2 DEF StepToMinimum, DescendByKey
  <2>2. ~InsertKeyTooShort /\ ~FindMismatch /\ ~FindVacancy /\ ~FindExact /\ ~FindLeafToSplit
    BY <1>3 DEF InsertKeyTooShort, FindMismatch, FindVacancy, FindExact, FindLeafToSplit
  <2>3. ~LookupMiss /\ ~ReadLeaf /\ ~WriteLeafValue
    BY <1>2, <1>3 DEF LookupMiss, ReadLeaf, WriteLeafValue
  <2>4. CASE DescendToEnd
    <3>1. AtInner /\ UNCHANGED <<heap, root, num_entries>>  BY <2>4 DEF DescendToEnd
    <3>2. PICK byte : MoveTo(byte, 0)  BY <2>4 DEF DescendToEnd
    <3>3. op'.pc = "search" /\ op'.call = op.call  BY <1>1, <3>1, <3>2 DEF MoveTo, AtInner, OpType
    <3> QED  BY <3>1, <3>3 DEF AtInner
  <2>5. CASE FindLeafToDelete
    <3>1. /\ AtLeaf /\ UNCHANGED <<heap, root, num_entries>>
          /\ StopAt([kind |-> "Delete"], op.depth)
      BY <2>5 DEF FindLeafToDelete
    <3>2. op'.pc = "apply" /\ op'.call = op.call  BY <1>1, <3>1 DEF StopAt, OpType
    <3> QED  BY <3>1, <3>2 DEF AtLeaf
  <2> QED  BY <1>4, <2>1, <2>2, <2>3, <2>4, <2>5 DEF Search
<1>5. ~ApplyInsert
  <2>1. op.pc = "apply" => op.point.kind = "Delete"
    BY <1>3 DEF Invariant, CallInvariant, PointFitsNode
  <2> QED
    BY <2>1 DEF ApplyInsert, InsertAtMismatch, InsertAtLeaf, InsertIntoNode, InsertIntoGrownNode,
                InsertReplace, Applying
<1>6. ~Dealloc  BY DEF Dealloc, ClearPop, ClearEnd
<1> QED  BY <1>4, <1>5, <1>6 DEF Run

LEMMA LeavesHaveKeys == TreeInvariant => StoredKeys = {l.at : l \in Leaves(heap)}
BY StoredKeysFacts

(* A removal by pop_first or pop_last takes the leaf it stopped at. *)
LEMMA PopTakesLeaf ==
  ASSUME Invariant, ApplyDelete, TreeInvariant'
  PROVE  /\ op.pc = "apply" /\ op.node \in Leaves(heap)
         /\ op'.pc = "done" /\ op'.call = op.call
         /\ \E value \in Values : op'.out = Some(<<op.node.at, value>>)
         /\ op.node.at \in StoredKeys /\ op.node.at \in Keys
         /\ StoredKeys' = StoredKeys \ {op.node.at}
<1>1. /\ op.pc = "apply" /\ op.point.kind = "Delete" /\ Finish(DeletedEntry)
      /\ Leaves(heap)' = Leaves(heap) \ {op.node}
  BY ApplyDeleteDeletes DEF Applying
<1>2. TreeInvariant /\ op.node \in Leaves(heap)  BY <1>1, DeleteFacts DEF Invariant
<1>3. heap[op.node].key = op.node.at /\ op.node.at \in Keys /\ heap[op.node].value \in Values
  BY <1>2, LeafFacts
<1>4. op'.pc = "done" /\ op'.call = op.call /\ op'.out = DeletedEntry
  BY <1>1 DEF Finish, Done, IdleOp
<1>5. \E value \in Values : op'.out = Some(<<op.node.at, value>>)
  BY <1>3, <1>4 DEF DeletedEntry, LeafKey
<1>6. StoredKeys = {l.at : l \in Leaves(heap)}  BY <1>2, StoredKeysFacts
<1>7. StoredKeys' = {l.at : l \in Leaves(heap)'}
  <2>1. (TreeInvariant => StoredKeys = {l.at : l \in Leaves(heap)})'  BY LeavesHaveKeys, PTL
  <2> QED  BY <2>1
<1>8. \A l \in Leaves(heap) : l.at = op.node.at => l = op.node
  <2>1. \A l \in Leaves(heap) : l \in DOMAIN heap /\ l.at \in ByteString  BY <1>2, LeafFacts, NodeFacts
  <2>2. \A s \in ByteString : IsPrefix(s, s)  BY PrefixReflexive
  <2> QED  BY <1>2, <2>1, <2>2 DEF TreeInvariant, LeavesAreLowest
<1>9. op.node.at \in StoredKeys  BY <1>2, <1>6
<1>10. StoredKeys' = StoredKeys \ {op.node.at}
  <2>1. \A k : k \in StoredKeys' <=> k \in StoredKeys /\ k # op.node.at
    BY ONLY <1>1, <1>2, <1>6, <1>7, <1>8
  <2> QED  BY <2>1
<1> QED  BY <1>1, <1>2, <1>3, <1>4, <1>5, <1>9, <1>10

(* A step of an iterator that owns the map. *)
LEMMA OwningStep ==
  ASSUME NEW pc \in {"open", "walking"}, NEW nodes, NEW arena, NEW size, NEW end,
         pc = "open" => op'.pc = "idle",
         pc = "walking" => /\ end \in {"next", "next_back"}
                           /\ op'.pc \in {"search", "apply", "done"} /\ op'.call = PopAt(end)
                           /\ PopIsAnswered',
         iter' = IterRecord(pc, Owned, nodes, arena, size, end, None)
  PROVE  IterInvariant'
<1>1. /\ iter'.pc = pc /\ iter'.query = Owned /\ iter'.nodes = nodes /\ iter'.arena = arena
      /\ iter'.size = size /\ iter'.end = end /\ iter'.out = None
      /\ iter' = [pc |-> iter'.pc, query |-> iter'.query, nodes |-> iter'.nodes,
                  arena |-> iter'.arena, size |-> iter'.size, end |-> iter'.end, out |-> iter'.out]
  BY DEF IterRecord
<1>2. Owned.kind = "owned" /\ Owned \in Queries  BY QueryKinds
<1>3. ~Borrowing'  BY <1>1, <1>2 DEF Borrowing
<1>4. IterType'  BY <1>1, <1>2 DEF IterType
<1>5. MapIsHeld'
  <2>1. CASE pc = "open"  BY <2>1, <1>1, <1>3 DEF MapIsHeld
  <2>2. CASE pc = "walking"  BY <2>2, <1>1, <1>3 DEF MapIsHeld
  <2> QED  BY <2>1, <2>2
<1> QED  BY <1>3, <1>4, <1>5 DEF IterInvariant

LEMMA OwningFacts ==
  ASSUME IterInvariant, Owning, iter.pc # "none"
  PROVE  /\ iter = IterRecord(iter.pc, Owned, iter.nodes, iter.arena, iter.size, iter.end, None)
         /\ \/ iter.pc = "open" /\ op.pc = "idle"
            \/ /\ iter.pc = "walking" /\ op.pc \in {"search", "apply", "done"}
               /\ op.call = PopAt(iter.end) /\ iter.end \in {"next", "next_back"}
               /\ PopIsAnswered
<1>1. iter.query = Owned /\ ~Borrowing  BY QueryKinds DEF Owning, Borrowing
<1>2. \/ iter.pc = "open" /\ op.pc = "idle"
      \/ /\ iter.pc = "walking" /\ op.pc \in {"search", "apply", "done"}
         /\ op.call = PopAt(iter.end) /\ PopIsAnswered
  BY DEF IterInvariant, MapIsHeld
<1>3. iter = IterRecord(iter.pc, iter.query, iter.nodes, iter.arena, iter.size, iter.end, iter.out)
      /\ iter.out = None
  BY <1>2 DEF IterInvariant, IterType, IterRecord
<1>4. iter.pc = "walking" => iter.end \in {"next", "next_back"}  BY DEF IterInvariant, IterType
<1> QED  BY <1>1, <1>2, <1>3, <1>4

LEMMA OpenOwnedKeepsIter ==
  ASSUME OpenOwned
  PROVE  IterInvariant'
<1>1. op'.pc = "idle"  BY DEF OpenOwned, CanOpen, vars
<1> DEFINE empty == [pc |-> "none", query |-> None, nodes |-> << >>, arena |-> << >>, size |-> 0,
                    end |-> None, out |-> None]
<1>2. iter' = [empty EXCEPT !.pc = "open", !.query = Owned]  BY DEF OpenOwned, NoIter
<1>3. [empty EXCEPT !.pc = "open", !.query = Owned] = [[empty EXCEPT !.pc = "open"] EXCEPT !.query = Owned]
  OBVIOUS
<1>4. [empty EXCEPT !.pc = "open"] = IterRecord("open", None, << >>, << >>, 0, None, None)
  BY DEF IterRecord
<1>5. [IterRecord("open", None, << >>, << >>, 0, None, None) EXCEPT !.query = Owned] =
        IterRecord("open", Owned, << >>, << >>, 0, None, None)
  BY DEF IterRecord
<1>6. iter' = IterRecord("open", Owned, << >>, << >>, 0, None, None)
  BY <1>2, <1>3, <1>4, <1>5
<1> QED  BY <1>1, <1>6, OwningStep

LEMMA AdvanceOwnedKeepsIter ==
  ASSUME IterInvariant, NEW end \in {"next", "next_back"}, AdvanceOwned(end)
  PROVE  IterInvariant'
<1>1. iter.pc = "open" /\ iter.pc # "none" /\ Owning  BY DEF AdvanceOwned
<1>2. iter = IterRecord(iter.pc, Owned, iter.nodes, iter.arena, iter.size, iter.end, None)
  BY <1>1, OwningFacts
<1>3. iter' = IterRecord("walking", Owned, iter.nodes, iter.arena, iter.size, end, None)
  <2>1. iter' = SetEnd(SetPc(iter, "walking"), end)  BY DEF AdvanceOwned, SetEnd, SetPc
  <2> QED  BY <1>2, <2>1, FieldUpdates
<1>4. op'.pc \in {"search", "done"} /\ op'.call = PopAt(end) /\ PopIsAnswered'
  <2>1. CASE CallAtEnd(PopAt(end))  BY <2>1 DEF CallAtEnd, Start, IdleOp, PopIsAnswered
  <2>2. CASE op' = Done(PopAt(end), << >>, None, None)  BY <2>2 DEF Done, IdleOp, PopIsAnswered
  <2> QED  BY <2>1, <2>2 DEF AdvanceOwned
<1> QED  BY <1>3, <1>4, OwningStep

LEMMA StepOwnedKeepsIter ==
  ASSUME Invariant, IterInvariant, StepOwned, TreeInvariant'
  PROVE  IterInvariant'
<1>1. iter.pc = "walking" /\ iter.pc # "none" /\ Owning /\ Run /\ iter' = iter  BY DEF StepOwned
<1>2. /\ iter = IterRecord("walking", Owned, iter.nodes, iter.arena, iter.size, iter.end, None)
      /\ op.pc \in {"search", "apply", "done"} /\ op.call = PopAt(iter.end)
      /\ iter.end \in {"next", "next_back"}
  BY <1>1, OwningFacts
<1>3. op'.pc \in {"search", "apply", "done"} /\ op'.call = op.call /\ PopIsAnswered'
  <2>1. op.call \in {"pop_first", "pop_last"} /\ op.pc # "dealloc"  BY <1>2 DEF PopAt
  <2>2. CASE ApplyDelete
    <3>1. /\ op'.pc = "done" /\ op'.call = op.call /\ op.node.at \in Keys
          /\ \E value \in Values : op'.out = Some(<<op.node.at, value>>)
      BY <2>2, PopTakesLeaf
    <3>2. \E entry \in Keys \X Values : op'.out = Some(entry)  BY <3>1
    <3> QED  BY <3>1, <3>2 DEF PopIsAnswered
  <2>3. CASE op'.pc \in {"search", "apply"} /\ op'.call = op.call  BY <2>3 DEF PopIsAnswered
  <2> QED  BY <1>1, <2>1, <2>2, <2>3, PopRuns
<1>4. iter' = IterRecord("walking", Owned, iter.nodes, iter.arena, iter.size, iter.end, None)
  BY <1>1, <1>2
<1> QED  BY <1>2, <1>3, <1>4, OwningStep

LEMMA TakenOwnedKeepsIter ==
  ASSUME IterInvariant, TakenOwned
  PROVE  IterInvariant'
<1>1. iter.pc = "walking" /\ iter.pc # "none" /\ Owning /\ Return  BY DEF TakenOwned
<1>2. iter = IterRecord("walking", Owned, iter.nodes, iter.arena, iter.size, iter.end, None)
  BY <1>1, OwningFacts
<1>3. iter' = IterRecord("open", Owned, iter.nodes, iter.arena, iter.size, None, None)
  <2>1. iter' = SetEnd(SetPc(iter, "open"), None)  BY DEF TakenOwned, SetEnd, SetPc
  <2> QED  BY <1>2, <2>1, FieldUpdates
<1>4. op'.pc = "idle"  BY <1>1 DEF Return, IdleOp
<1> QED  BY <1>3, <1>4, OwningStep

LEMMA OtherCallKeepsIter ==
  ASSUME IterInvariant, OtherCall
  PROVE  IterInvariant'
<1>1. iter = NoIter  BY DEF OtherCall, IterInvariant, IterType
<1> QED  BY <1>1, NoIterNext DEF OtherCall

LEMMA StutterKeepsIter ==
  ASSUME IterInvariant, UNCHANGED iterVars
  PROVE  IterInvariant'
<1>1. heap' = heap /\ root' = root /\ op' = op /\ iter' = iter  BY DEF iterVars
<1>2. IterType' /\ MapIsHeld' /\ (Borrowing' <=> Borrowing)
  BY <1>1 DEF IterInvariant, IterType, MapIsHeld, Borrowing, Owning, PopIsAnswered
<1>3. CASE Borrowing
  <2>1. UNCHANGED vars  BY DEF iterVars, vars
  <2>2. QueueHolds(iter.query, iter.nodes, iter.size)  BY <1>3 DEF IterInvariant
  <2>3. QueueHolds(iter.query, iter.nodes, iter.size)'  BY <1>1, <2>1, <2>2, QueueKept
  <2> QED  BY <1>2, <2>3 DEF IterInvariant
<1>4. CASE ~Borrowing  BY <1>2, <1>4 DEF IterInvariant
<1> QED  BY <1>3, <1>4

(* What a step of the iterators does to the map. *)
LEMMA MapStep ==
  ASSUME IterInvariant, MapIterNext
  PROVE  \/ UNCHANGED vars \/ Next
         \/ \E end \in {"next", "next_back"} :
              /\ op.pc = "idle" /\ root = None
              /\ op' = Done(PopAt(end), << >>, None, None)
              /\ UNCHANGED <<heap, root, num_entries>>
<1>1. CASE OtherCall  BY <1>1 DEF OtherCall
<1>2. ASSUME NEW query \in WalkQueries, OpenWalk(query) PROVE UNCHANGED vars  BY <1>2 DEF OpenWalk
<1>3. ASSUME NEW query \in FuzzyQueries, OpenFuzzy(query) PROVE UNCHANGED vars  BY <1>3 DEF OpenFuzzy
<1>4. CASE OpenOwned  BY <1>4 DEF OpenOwned
<1>5. ASSUME NEW end \in {"next", "next_back"}, Advance(end) PROVE UNCHANGED vars  BY <1>5 DEF Advance
<1>6. ASSUME NEW end \in {"next", "next_back"}, AdvanceOwned(end)
      PROVE  \/ Next
             \/ /\ op.pc = "idle" /\ root = None
                /\ op' = Done(PopAt(end), << >>, None, None)
                /\ UNCHANGED <<heap, root, num_entries>>
  <2>1. op.pc = "idle"  BY <1>6, OwningFacts DEF AdvanceOwned
  <2>2. PopAt(end) \in MinCalls \cup MaxCalls  BY DEF PopAt, MinCalls, MaxCalls
  <2>3. CASE CallAtEnd(PopAt(end))  BY <2>2, <2>3 DEF Next, Call
  <2> QED  BY <1>6, <2>1, <2>3 DEF AdvanceOwned
<1>7. CASE WalkStep  BY <1>7 DEF WalkStep, VisitInner, VisitLeaf, Exhausted
<1>8. CASE FuzzyStep  BY <1>8 DEF FuzzyStep, FuzzyInner, FuzzyLeaf, FuzzyExhausted
<1>9. CASE OwnedStep
  <2>1. CASE StepOwned  BY <2>1 DEF StepOwned, Next
  <2>2. CASE TakenOwned  BY <2>2 DEF TakenOwned, Next
  <2>3. CASE DropOwned  BY <2>3 DEF DropOwned, Next, Call
  <2> QED  BY <1>9, <2>1, <2>2, <2>3 DEF OwnedStep
<1>10. CASE Taken \/ Drop  BY <1>10 DEF Taken, Drop
<1> QED  BY <1>1, <1>2, <1>3, <1>4, <1>5, <1>6, <1>7, <1>8, <1>9, <1>10 DEF MapIterNext

MapInvariant == Invariant /\ AnswerInvariant

LEMMA MapStepKeeps ==
  ASSUME MapInvariant, IterInvariant, MapIterNext
  PROVE  MapInvariant'
<1>1. Invariant /\ AnswerInvariant  BY DEF MapInvariant
<1>2. CASE UNCHANGED vars  BY <1>1, <1>2, StutterKeeps, StutterKeepsAnswers DEF MapInvariant
<1>3. CASE Call  BY <1>1, <1>3, CallKeeps, CallKeepsAnswers DEF MapInvariant
<1>4. CASE Run  BY <1>1, <1>4, RunKeeps, RunKeepsAnswers DEF MapInvariant
<1>5. CASE Return  BY <1>1, <1>5, ReturnKeeps, ReturnKeepsAnswers DEF MapInvariant
<1>6. ASSUME NEW end \in {"next", "next_back"}, op.pc = "idle",
             op' = Done(PopAt(end), << >>, None, None), UNCHANGED <<heap, root, num_entries>>
      PROVE  MapInvariant'
  <2>1. PopAt(end) \in Calls /\ PopAt(end) \notin {"remove_entry", "get"}  BY DEF PopAt, Calls
  <2>2. ~TearingDown  BY <1>6 DEF TearingDown
  <2>3. PICK key : key = << >> /\ key \in Keys \cup {<< >>}  OBVIOUS
  <2>4. None \in OutType /\ None \in Values \cup {None}  BY DEF OutType
  <2>5. Invariant'  BY <1>1, <1>6, <2>1, <2>2, <2>3, <2>4, FinishKeeps
  <2>6. /\ op'.pc = "done" /\ op'.value = None /\ op'.key = << >>
    BY <1>6 DEF Done, IdleOp
  <2>7. AnswerInvariant'  BY <2>6, AnsweredKeepsAnswers
  <2> QED  BY <2>5, <2>7 DEF MapInvariant
<1> QED  BY <1>2, <1>3, <1>4, <1>5, <1>6, MapStep DEF Next

LEMMA StepKeepsIter ==
  ASSUME Invariant, IterInvariant, MapIterNext, TreeInvariant'
  PROVE  IterInvariant'
<1>1. CASE OtherCall  BY <1>1, OtherCallKeepsIter
<1>2. ASSUME NEW query \in WalkQueries, OpenWalk(query) PROVE IterInvariant'
  BY <1>2, OpenWalkKeepsIter
<1>3. ASSUME NEW query \in FuzzyQueries, OpenFuzzy(query) PROVE IterInvariant'
  BY <1>3, OpenFuzzyKeepsIter
<1>4. CASE OpenOwned  BY <1>4, OpenOwnedKeepsIter
<1>5. ASSUME NEW end \in {"next", "next_back"}, Advance(end) PROVE IterInvariant'
  BY <1>5, AdvanceKeepsIter
<1>6. ASSUME NEW end \in {"next", "next_back"}, AdvanceOwned(end) PROVE IterInvariant'
  BY <1>6, AdvanceOwnedKeepsIter
<1>7. CASE WalkStep
  BY <1>7, VisitInnerKeepsIter, VisitLeafKeepsIter, ExhaustedKeepsIter DEF WalkStep
<1>8. CASE FuzzyStep
  BY <1>8, FuzzyInnerKeepsIter, FuzzyLeafKeepsIter, FuzzyExhaustedKeepsIter DEF FuzzyStep
<1>9. CASE OwnedStep
  <2>1. CASE DropOwned  BY <2>1, NoIterNext DEF DropOwned
  <2> QED  BY <1>9, <2>1, StepOwnedKeepsIter, TakenOwnedKeepsIter DEF OwnedStep
<1>10. CASE Taken  BY <1>10, TakenKeepsIter
<1>11. CASE Drop  BY <1>11, DropKeepsIter
<1> QED
  BY <1>1, <1>2, <1>3, <1>4, <1>5, <1>6, <1>7, <1>8, <1>9, <1>10, <1>11 DEF MapIterNext

(* Whatever is done with a map and its iterators, a borrowed map stays as  *)
(* it is, an owned one is only popped, and the queue of next and next_back *)
(* holds disjoint subtrees in key order with a size that counts them.      *)
THEOREM IteratorsHold == MapIterSpec => [](MapInvariant /\ IterInvariant)
<1>1. IterInit => MapInvariant /\ IterInvariant
  BY InitHolds, AnswersInit, NoIterHolds DEF IterInit, MapInvariant
<1>2. MapInvariant /\ IterInvariant /\ [MapIterNext]_iterVars => (MapInvariant /\ IterInvariant)'
  <2> SUFFICES ASSUME MapInvariant, IterInvariant, [MapIterNext]_iterVars
               PROVE  MapInvariant' /\ IterInvariant'
    OBVIOUS
  <2>1. Invariant /\ AnswerInvariant  BY DEF MapInvariant
  <2>2. CASE MapIterNext
    <3>1. MapInvariant'  BY <2>2, MapStepKeeps
    <3>2. TreeInvariant'  BY <3>1 DEF MapInvariant, Invariant
    <3> QED  BY <2>1, <2>2, <3>1, <3>2, StepKeepsIter
  <2>3. CASE UNCHANGED iterVars
    <3>1. UNCHANGED vars  BY <2>3 DEF iterVars, vars
    <3>2. MapInvariant'  BY <2>1, <3>1, StutterKeeps, StutterKeepsAnswers DEF MapInvariant
    <3> QED  BY <2>3, <3>2, StutterKeepsIter
  <2> QED  BY <2>2, <2>3
<1> QED  BY <1>1, <1>2, PTL DEF MapIterSpec

-----------------------------------------------------------------------------
(***************************************************************************)
(* What follows: the sizes and the depths.                                 *)
(***************************************************************************)

LEMMA MatchingFacts ==
  /\ Matching[Owned] = Keys
  /\ \A q \in WalkQueries : /\ q # Owned
                            /\ Matching[q] = {k \in Keys : q.kind = "all" \/ IsPrefix(q.prefix, k)}
  /\ \A q \in FuzzyQueries : q # Owned /\ Matching[q] = FuzzyMatching[q]
<1>1. Owned \in Queries /\ WalkQueries \subseteq Queries /\ FuzzyQueries \subseteq Queries
  BY DEF Queries
<1>2. \A q \in WalkQueries : q # Owned /\ q \notin FuzzyQueries  BY QueryKinds
<1>3. \A q \in FuzzyQueries : q # Owned /\ q \notin WalkQueries  BY QueryKinds
<1>4. \A q \in Queries : Matching[q] = IF q = Owned THEN Keys
                                        ELSE IF q \in WalkQueries THEN WalkMatching[q]
                                        ELSE FuzzyMatching[q]
  BY DEF Matching
<1>5. \A q \in WalkQueries : WalkMatching[q] = {k \in Keys : q.kind = "all" \/ IsPrefix(q.prefix, k)}
  BY DEF WalkMatching
<1> QED  BY <1>1, <1>2, <1>3, <1>4, <1>5

(* The keys below the queued subtrees, said of the sequence of their paths.*)
LEMMA KeysToWalkAreAlong ==
  ASSUME iter.nodes \in Seq(QueueEntry)
  PROVE  KeysToWalk = KeysAlong(iter.nodes)
<1>1. PICK s \in Seq(QueueEntry) : s = iter.nodes  OBVIOUS
<1>2. DOMAIN s = 1 .. Len(s)  BY SeqFacts
<1>3. DOMAIN WalkPaths(s) = DOMAIN s /\ \A i \in DOMAIN s : WalkPaths(s)[i] = s[i].node.at
  BY <1>2 DEF WalkPaths
<1> QED  BY <1>1, <1>3 DEF KeysToWalk, KeysBelow, KeysAlong, KeysUnder

LEMMA KeysToSearchAreInStack ==
  ASSUME iter.nodes \in Seq(DOMAIN heap)
  PROVE  KeysToSearch = KeysInStack(iter.nodes)
<1>1. PICK s \in Seq(DOMAIN heap) : s = iter.nodes  OBVIOUS
<1>2. DOMAIN s = 1 .. Len(s) /\ Len(s) \in Nat  BY SeqFacts
<1>3. PICK n \in Nat : n = Len(s)  BY <1>2
<1>4. \A i \in 1 .. n : n - i + 1 \in 1 .. n /\ n - (n - i + 1) + 1 = i  OBVIOUS
<1>5. StackPaths(s) = [i \in 1 .. n |-> s[n - i + 1].at]  BY <1>3 DEF StackPaths
<1>6. DOMAIN StackPaths(s) = 1 .. n /\ \A i \in 1 .. n : StackPaths(s)[i] = s[n - i + 1].at  BY <1>5
<1>7. ASSUME NEW k
      PROVE  (\E i \in 1 .. n : IsPrefix(s[i].at, k)) <=> \E i \in 1 .. n : IsPrefix(s[n - i + 1].at, k)
  <2>1. ASSUME NEW i \in 1 .. n, IsPrefix(s[i].at, k)
        PROVE  \E j \in 1 .. n : IsPrefix(s[n - j + 1].at, k)
    <3>1. PICK j \in 1 .. n : j = n - i + 1  BY <1>4
    <3>2. n - j + 1 = i  BY <3>1, <1>4
    <3> QED  BY <2>1, <3>2
  <2> QED  BY <2>1, <1>4
<1>8. PICK t : t = StackPaths(s) /\ DOMAIN t = 1 .. n /\ \A i \in 1 .. n : t[i] = s[n - i + 1].at
  BY <1>6
<1>9. KeysInStack(iter.nodes) = {k \in StoredKeys : \E i \in 1 .. n : IsPrefix(t[i], k)}
  BY <1>1, <1>8 DEF KeysInStack, KeysUnder
<1>10. KeysToSearch = {k \in StoredKeys : \E i \in 1 .. n : IsPrefix(s[i].at, k)}
  BY <1>1, <1>2, <1>3 DEF KeysToSearch
<1>11. \A k : (\E i \in 1 .. n : IsPrefix(t[i], k)) <=> \E i \in 1 .. n : IsPrefix(s[n - i + 1].at, k)
  BY <1>8
<1> QED  BY <1>7, <1>9, <1>10, <1>11

(* The keys that an iterator has left. *)
LEMMA KeysLeftFacts ==
  ASSUME Invariant, IterInvariant, iter.pc # "none"
  PROVE  /\ Owning => KeysLeft = StoredKeys
         /\ iter.query.kind \in {"all", "prefix"} =>
              /\ iter.query \in WalkQueries /\ ~Owning
              /\ KeysLeft = {k \in KeysAlong(iter.nodes) : Matches(iter.query, k)}
         /\ iter.query.kind = "fuzzy" =>
              /\ iter.query \in FuzzyQueries /\ ~Owning
              /\ KeysLeft = FuzzyMatching[iter.query] \cap KeysInStack(iter.nodes)
<1>1. iter.query \in Queries  BY DEF IterInvariant, IterType
<1>2. StoredKeys \subseteq Keys  BY StoredKeysFacts DEF Invariant
<1>3. CASE Owning
  <2>1. ~TearingDown  BY <1>3, OwningFacts DEF TearingDown
  <2>2. KeysLeft = Matching[Owned] \cap StoredKeys  BY <1>3, <2>1 DEF KeysLeft, MapKeys, Owning
  <2>3. KeysLeft = StoredKeys  BY <1>2, <2>2, MatchingFacts
  <2> QED  BY <1>3, <2>3, QueryKinds DEF Owning
<1>4. ASSUME iter.query.kind \in {"all", "prefix"}
      PROVE  /\ iter.query \in WalkQueries /\ ~Owning
             /\ KeysLeft = {k \in KeysAlong(iter.nodes) : Matches(iter.query, k)}
  <2>1. iter.query \in WalkQueries  BY <1>1, <1>4, QueryKinds
  <2>2. ~Owning  BY <2>1, MatchingFacts DEF Owning
  <2>3. QueueHolds(iter.query, iter.nodes, iter.size)  BY <1>4 DEF IterInvariant, Borrowing
  <2>4. iter.nodes \in Seq(QueueEntry)  BY <1>4, <2>3 DEF QueueHolds, HoldsWalk
  <2>5. KeysLeft = Matching[iter.query] \cap KeysAlong(iter.nodes)
    BY <1>4, <2>2, <2>4, KeysToWalkAreAlong DEF KeysLeft
  <2>6. KeysAlong(iter.nodes) \subseteq Keys  BY <1>2 DEF KeysAlong, KeysUnder
  <2>7. Matching[iter.query] = {k \in Keys : Matches(iter.query, k)}
    BY <2>1, MatchingFacts DEF Matches
  <2> QED  BY <2>1, <2>2, <2>5, <2>6, <2>7
<1>5. ASSUME iter.query.kind = "fuzzy"
      PROVE  /\ iter.query \in FuzzyQueries /\ ~Owning
             /\ KeysLeft = FuzzyMatching[iter.query] \cap KeysInStack(iter.nodes)
  <2>1. iter.query \in FuzzyQueries  BY <1>1, <1>5, QueryKinds
  <2>2. ~Owning  BY <2>1, MatchingFacts DEF Owning
  <2>3. QueueHolds(iter.query, iter.nodes, iter.size)  BY <1>5 DEF IterInvariant, Borrowing
  <2>4. iter.nodes \in Seq(DOMAIN heap)  BY <1>5, <2>3 DEF QueueHolds, HoldsStack
  <2>5. KeysLeft = Matching[iter.query] \cap KeysInStack(iter.nodes)
    BY <1>5, <2>2, <2>4, KeysToSearchAreInStack DEF KeysLeft
  <2> QED  BY <2>1, <2>2, <2>5, MatchingFacts
<1> QED  BY <1>3, <1>4, <1>5

LEMMA SizesAreRight ==
  ASSUME Invariant, IterInvariant
  PROVE  SizeIsRight
<1> SUFFICES ASSUME iter.pc # "none"
             PROVE  /\ iter.query.kind \in {"all", "owned"} => SizeLeft = Cardinality(KeysLeft)
                    /\ SizeLeft >= Cardinality(KeysLeft)
  BY DEF SizeIsRight
<1>1. TreeInvariant  BY DEF Invariant
<1>2. iter.query \in Queries  BY DEF IterInvariant, IterType
<1>3. CASE iter.query.kind = "owned"
  <2>1. Owning  BY <1>2, <1>3, QueryKinds DEF Owning
  <2>2. ~TearingDown  BY <2>1, OwningFacts DEF TearingDown
  <2>3. num_entries \in Nat /\ num_entries = Cardinality(StoredKeys)
    BY <1>1, <2>2, StoredKeysFacts DEF TreeInvariant, TypeOK, CountIsExact
  <2>4. KeysLeft = StoredKeys  BY <2>1, KeysLeftFacts
  <2> QED  BY <2>1, <2>3, <2>4 DEF SizeLeft
<1>4. CASE iter.query.kind \in {"all", "prefix"}
  <2>1. ~Owning /\ KeysLeft = {k \in KeysAlong(iter.nodes) : Matches(iter.query, k)}
    BY <1>4, KeysLeftFacts
  <2>2. QueueHolds(iter.query, iter.nodes, iter.size)  BY <1>4 DEF IterInvariant, Borrowing
  <2>3. /\ Counts(iter.size, KeysAlong(iter.nodes))
        /\ iter.query.kind = "all" => iter.size = Cardinality(KeysAlong(iter.nodes))
    BY <1>4, <2>2 DEF QueueHolds
  <2>4. Counts(iter.size, KeysLeft)  BY <1>1, <2>1, <2>3, KeysAlongAreFinite, FewerCounted
  <2>5. iter.query.kind = "all" => KeysLeft = KeysAlong(iter.nodes)  BY <2>1 DEF Matches
  <2> QED  BY <1>4, <2>1, <2>3, <2>4, <2>5 DEF Counts, SizeLeft
<1>5. CASE iter.query.kind = "fuzzy"
  <2>1. ~Owning /\ KeysLeft \subseteq KeysInStack(iter.nodes)  BY <1>5, KeysLeftFacts
  <2>2. QueueHolds(iter.query, iter.nodes, iter.size)  BY <1>5 DEF IterInvariant, Borrowing
  <2>3. Counts(iter.size, KeysInStack(iter.nodes))  BY <1>5, <2>2 DEF QueueHolds
  <2>4. Counts(iter.size, KeysLeft)  BY <1>1, <2>1, <2>3, KeysAlongAreFinite, FewerCounted
  <2> QED  BY <1>5, <2>1, <2>4 DEF Counts, SizeLeft
<1> QED  BY <1>2, <1>3, <1>4, <1>5, QueryKinds

(* len of TreeIterator and IntoIter is the number of entries to come, and  *)
(* the upper bound of the other size_hints is never too small.             *)
THEOREM SizeRight == MapIterSpec => []SizeIsRight
<1>1. MapInvariant /\ IterInvariant => SizeIsRight  BY SizesAreRight DEF MapInvariant
<1> QED  BY <1>1, IteratorsHold, PTL

(* Prefix slices keys and paths at the number of bytes that lead to the    *)
(* subtree, which then start with that much of the searched prefix.        *)
THEOREM DepthsRight == MapIterSpec => []DepthsLeadToNodes
<1>1. MapInvariant /\ IterInvariant => DepthsLeadToNodes
  <2> SUFFICES ASSUME IterInvariant, iter.pc # "none", iter.query.kind = "prefix"
               PROVE  \A i \in DOMAIN iter.nodes : LeadsToNode(iter.query.prefix, iter.nodes[i])
    BY DEF DepthsLeadToNodes
  <2>1. QueueHolds(iter.query, iter.nodes, iter.size)  BY DEF IterInvariant, Borrowing
  <2> QED  BY <2>1 DEF QueueHolds, HoldsWalk
<1> QED  BY <1>1, IteratorsHold, PTL

-----------------------------------------------------------------------------
(***************************************************************************)
(* IterSpec.  The keys left are those below the queued subtrees that the   *)
(* query matches; the leaf that is popped is the first or the last of them,*)
(* and it is yielded if it matches.                                        *)
(***************************************************************************)

(* IterSpec has the operators of ByteStrings too, under its own name.      *)
LEMMA SameOrderOfKeys ==
  ASSUME NEW s, NEW t
  PROVE  Abstract!LexLess(s, t) <=> LexLess(s, t)
BY DEF Abstract!LexLess, LexLess, Abstract!MatchedBytes, MatchedBytes,
       Abstract!IsMatchedBytes, IsMatchedBytes, Abstract!Lesser, Lesser

(* The key that precedes all others is the first one.                      *)
LEMMA EndsOfKeys ==
  ASSUME NEW S \in SUBSET ByteString, NEW k \in S
  PROVE  /\ (\A j \in S \ {k} : Precedes(k, j)) => Abstract!FirstOf(S) = k
         /\ (\A j \in S \ {k} : Precedes(j, k)) => Abstract!LastOf(S) = k
<1>1. ASSUME \A j \in S \ {k} : Precedes(k, j)
      PROVE  Abstract!FirstOf(S) = k
  <2>1. \A j \in S \ {k} : Abstract!LexLess(k, j) /\ ~Abstract!LexLess(j, k)
    BY <1>1, Precedence, SameOrderOfKeys
  <2>2. \A m \in S : (\A j \in S \ {m} : Abstract!LexLess(m, j)) => m = k  BY <2>1
  <2> QED  BY <2>1, <2>2 DEF Abstract!FirstOf
<1>2. ASSUME \A j \in S \ {k} : Precedes(j, k)
      PROVE  Abstract!LastOf(S) = k
  <2>1. \A j \in S \ {k} : Abstract!LexLess(j, k) /\ ~Abstract!LexLess(k, j)
    BY <1>2, Precedence, SameOrderOfKeys
  <2>2. \A m \in S : (\A j \in S \ {m} : Abstract!LexLess(j, m)) => m = k  BY <2>1
  <2> QED  BY <2>1, <2>2 DEF Abstract!LastOf
<1> QED  BY <1>1, <1>2

(* An answer that IterSpec allows: the key at the end that was asked for,  *)
(* or None when nothing is left.                                           *)
LEMMA YieldIsAllowed ==
  ASSUME iter.query \in WalkQueries \cup {Owned}, iter'.query = iter.query,
         NEW end \in {"next", "next_back"}, NEW k,
         Answer = None, Answer' = [end |-> end, out |-> k],
         KeysLeft \in SUBSET ByteString, KeysLeft' = KeysLeft \ {k},
         iter.query = Owned => MapKeys' = MapKeys \ {k},
         iter.query # Owned => MapKeys' = MapKeys,
         KeysLeft = {} => k = None,
         KeysLeft # {} => k \in KeysLeft,
         end = "next" => \A j \in KeysLeft \ {k} : Precedes(k, j),
         end = "next_back" => \A j \in KeysLeft \ {k} : Precedes(j, k)
  PROVE  Abstract!Next
<1>1. iter.query # None  BY QueryKinds, IteratorAssumption
<1>2. Abstract!Yield(end, k)
  <2>1. CASE iter.query = Owned  BY <2>1 DEF Abstract!Yield
  <2>2. CASE iter.query # Owned  BY <2>2 DEF Abstract!Yield
  <2> QED  BY <2>1, <2>2
<1>3. end = "next" => Abstract!Advance("next", TRUE)
  <2> SUFFICES ASSUME end = "next" PROVE Abstract!Advance("next", TRUE)  OBVIOUS
  <2>1. KeysLeft # {} => k = Abstract!FirstOf(KeysLeft)  BY EndsOfKeys
  <2>2. CASE KeysLeft = {}  BY <1>1, <1>2, <2>2 DEF Abstract!Advance
  <2>3. CASE KeysLeft # {}  BY <1>1, <1>2, <2>1, <2>3 DEF Abstract!Advance
  <2> QED  BY <2>2, <2>3
<1>4. end = "next_back" => Abstract!Advance("next_back", FALSE)
  <2> SUFFICES ASSUME end = "next_back" PROVE Abstract!Advance("next_back", FALSE)  OBVIOUS
  <2>1. KeysLeft # {} => k = Abstract!LastOf(KeysLeft)  BY EndsOfKeys
  <2>2. CASE KeysLeft = {}  BY <1>1, <1>2, <2>2 DEF Abstract!Advance
  <2>3. CASE KeysLeft # {}  BY <1>1, <1>2, <2>1, <2>3 DEF Abstract!Advance
  <2> QED  BY <2>2, <2>3
<1>5. (iter.query \in WalkQueries \cup {Owned}) = TRUE /\ (iter.query \notin WalkQueries \cup {Owned}) = FALSE
  OBVIOUS
<1>6. CASE end = "next"
  <2>1. Abstract!Advance("next", iter.query \in WalkQueries \cup {Owned})  BY <1>3, <1>5, <1>6
  <2> QED  BY <2>1 DEF Abstract!Next
<1>7. CASE end = "next_back"
  <2>1. Abstract!Advance("next_back", iter.query \notin WalkQueries \cup {Owned})
    BY <1>4, <1>5, <1>7
  <2> QED  BY <2>1 DEF Abstract!Next
<1> QED  BY <1>6, <1>7

(* What IterSpec sees of a map and its iterator.                           *)
Seen ==
  /\ iter.pc = "none" => iter.query = None /\ KeysLeft = {} /\ Answer = None
  /\ iter.pc # "none" => iter.query \in Queries /\ MapKeys = StoredKeys
  /\ iter.pc # "none" /\ iter.query.kind = "owned" => iter.query = Owned /\ KeysLeft = StoredKeys
  /\ iter.pc # "none" /\ iter.query.kind \in {"all", "prefix"} =>
       /\ iter.query \in WalkQueries
       /\ KeysLeft = {k \in KeysAlong(iter.nodes) : Matches(iter.query, k)}

LEMMA WhatIsSeen == Invariant /\ IterInvariant => Seen
<1> SUFFICES ASSUME Invariant, IterInvariant PROVE Seen  OBVIOUS
<1>1. CASE iter.pc = "none"
  <2>1. iter.query = None
    <3>1. iter = NoIter  BY <1>1 DEF IterInvariant, IterType
    <3> QED  BY <3>1 DEF NoIter
  <2> QED  BY <1>1, <2>1 DEF Seen, KeysLeft, Answer
<1>2. CASE iter.pc # "none"
  <2>1. iter.query \in Queries  BY <1>2 DEF IterInvariant, IterType
  <2>2. ~TearingDown
    <3>1. CASE Owning  BY <1>2, <3>1, OwningFacts DEF TearingDown
    <3>2. CASE ~Owning
      <4>1. iter.query.kind # "owned"  BY <2>1, <3>2, QueryKinds DEF Owning
      <4> QED  BY <1>2, <4>1, BorrowedFacts DEF TearingDown
    <3> QED  BY <3>1, <3>2
  <2>3. MapKeys = StoredKeys  BY <2>2 DEF MapKeys
  <2>4. iter.query.kind = "owned" => iter.query = Owned /\ KeysLeft = StoredKeys
    BY <1>2, <2>1, KeysLeftFacts, QueryKinds DEF Owning
  <2>5. iter.query.kind \in {"all", "prefix"} =>
          /\ iter.query \in WalkQueries
          /\ KeysLeft = {k \in KeysAlong(iter.nodes) : Matches(iter.query, k)}
    BY <1>2, KeysLeftFacts
  <2> QED  BY <1>2, <2>1, <2>3, <2>4, <2>5 DEF Seen
<1> QED  BY <1>1, <1>2

LEMMA WhatIsSeenNext == Invariant' /\ IterInvariant' => Seen'
BY WhatIsSeen, PTL

(* A turn of a walk: the map stays, and the keys left are those below the  *)
(* subtrees that are queued now.                                           *)
LEMMA WalkIsSeen ==
  ASSUME UNCHANGED vars, Seen, Seen', iter.pc # "none", iter'.pc # "none",
         iter.query.kind \in {"all", "prefix"}, iter'.query = iter.query,
         NEW nodes, iter'.nodes = nodes
  PROVE  /\ iter.query \in WalkQueries /\ iter.query # Owned /\ ~Owning /\ ~Owning'
         /\ MapKeys' = MapKeys
         /\ KeysLeft = {k \in KeysAlong(iter.nodes) : Matches(iter.query, k)}
         /\ KeysLeft' = {k \in KeysAlong(nodes) : Matches(iter.query, k)}
<1>1. StoredKeys' = StoredKeys  BY DEF vars, StoredKeys, Leaves
<1>2. iter.query \in WalkQueries /\ KeysLeft = {k \in KeysAlong(iter.nodes) : Matches(iter.query, k)}
  BY DEF Seen
<1>3. KeysLeft' = {k \in KeysAlong(nodes) : Matches(iter.query, k)}
  <2>1. KeysLeft' = {k \in KeysAlong(iter.nodes)' : Matches(iter'.query, k)}  BY DEF Seen
  <2>2. KeysAlong(iter.nodes)' = KeysAlong(nodes)  BY <1>1 DEF KeysAlong
  <2> QED  BY <2>1, <2>2
<1>4. MapKeys' = MapKeys  BY <1>1 DEF Seen
<1>5. iter.query # Owned  BY <1>2, MatchingFacts
<1> QED  BY <1>2, <1>3, <1>4, <1>5 DEF Owning

(* Calls that leave the queue alone: next and next_back begin, the answer  *)
(* is taken, the iterator is dropped.                                      *)
LEMMA AdvanceIsSilent ==
  ASSUME IterInvariant, Seen, Seen', NEW end, Advance(end), iter.query.kind \in {"all", "prefix"}
  PROVE  UNCHANGED Abstract!iterVars
<1>1. iter.pc = "open" /\ iter.pc # "none" /\ iter.query.kind # "owned" /\ UNCHANGED vars
  BY DEF Advance
<1>2. iter = IterRecord(iter.pc, iter.query, iter.nodes, iter.arena, iter.size, iter.end, iter.out)
  BY <1>1, BorrowedFacts
<1>3. iter' = SetEnd(SetPc(iter, "walking"), end)  BY DEF Advance, SetEnd, SetPc
<1>4. iter' = IterRecord("walking", iter.query, iter.nodes, iter.arena, iter.size, end, iter.out)
  BY <1>2, <1>3, FieldUpdates
<1>5. iter'.pc = "walking" /\ iter'.query = iter.query /\ iter'.nodes = iter.nodes
  BY <1>4 DEF IterRecord
<1>6. /\ ~Owning /\ ~Owning' /\ MapKeys' = MapKeys
      /\ KeysLeft = {k \in KeysAlong(iter.nodes) : Matches(iter.query, k)}
      /\ KeysLeft' = {k \in KeysAlong(iter.nodes) : Matches(iter.query, k)}
  BY <1>1, <1>5, WalkIsSeen
<1>7. Answer = None /\ Answer' = None  BY <1>1, <1>5, <1>6 DEF Answer
<1> QED  BY <1>5, <1>6, <1>7 DEF Abstract!iterVars

LEMMA TakenIsTaken ==
  ASSUME IterInvariant, Seen, Seen', Taken, iter.query.kind \in {"all", "prefix"}
  PROVE  Abstract!Taken
<1>1. iter.pc = "answered" /\ iter.pc # "none" /\ iter.query.kind # "owned" /\ UNCHANGED vars
  BY DEF Taken
<1>2. /\ iter = IterRecord(iter.pc, iter.query, iter.nodes, iter.arena, iter.size, iter.end, iter.out)
      /\ iter.out \in Keys \cup {None} /\ iter.end \in {"next", "next_back"}
  BY <1>1, BorrowedFacts
<1>3. iter' = SetOut(SetEnd(SetPc(iter, "open"), None), None)  BY DEF Taken, SetEnd, SetPc, SetOut
<1>4. iter' = IterRecord("open", iter.query, iter.nodes, iter.arena, iter.size, None, None)
  BY <1>2, <1>3, FieldUpdates
<1>5. iter'.pc = "open" /\ iter'.query = iter.query /\ iter'.nodes = iter.nodes
  BY <1>4 DEF IterRecord
<1>6. /\ MapKeys' = MapKeys
      /\ KeysLeft = {k \in KeysAlong(iter.nodes) : Matches(iter.query, k)}
      /\ KeysLeft' = {k \in KeysAlong(iter.nodes) : Matches(iter.query, k)}
  BY <1>1, <1>5, WalkIsSeen
<1>7. Answer' = None  BY <1>5 DEF Answer
<1>8. Answer # None
  <2>1. Answer = [end |-> iter.end, out |-> iter.out]  BY <1>1 DEF Answer
  <2> QED  BY <1>2, <2>1, IteratorAssumption
<1> QED  BY <1>5, <1>6, <1>7, <1>8 DEF Abstract!Taken

LEMMA DropIsDrop ==
  ASSUME IterInvariant, Seen, Drop
  PROVE  Abstract!Drop
<1>1. iter.pc = "open" /\ iter.query.kind # "owned" /\ iter' = NoIter /\ UNCHANGED vars
  BY DEF Drop
<1>2. iter'.pc = "none" /\ iter'.query = None  BY <1>1 DEF NoIter
<1>3. iter.query # None /\ iter.query # Owned  BY <1>1, QueryKinds, IteratorAssumption DEF Seen
<1>4. MapKeys' = MapKeys  BY <1>1 DEF vars, MapKeys, TearingDown, StoredKeys, Leaves
<1>5. KeysLeft' = {} /\ Answer' = None /\ Answer = None  BY <1>1, <1>2 DEF KeysLeft, Answer
<1> QED  BY <1>2, <1>3, <1>4, <1>5 DEF Abstract!Drop

(* TreeIterator::new and Prefix::new *)
LEMMA OpenWalkIsOpen ==
  ASSUME Invariant, IterInvariant, Seen, Seen', NEW query \in WalkQueries, OpenWalk(query)
  PROVE  Abstract!Open(query)
<1> DEFINE nodes == StartQueue(Pending(root, 0))
<1>1. /\ iter.pc = "none" /\ op.pc = "idle" /\ TreeInvariant /\ ~TearingDown /\ UNCHANGED vars
  BY DEF Invariant, OpenWalk, CanOpen, TearingDown
<1>2. iter' = IterRecord("open", query, nodes, << >>, num_entries, None, None)
  BY Openings DEF OpenWalk
<1>3. iter'.pc = "open" /\ iter'.query = query /\ iter'.nodes = nodes  BY <1>2 DEF IterRecord
<1>4. KeysAlong(nodes) = StoredKeys  BY <1>1, StartOfWalk
<1> HIDE DEF nodes
<1>5. StoredKeys' = StoredKeys  BY <1>1 DEF vars, StoredKeys, Leaves
<1>6. StoredKeys \subseteq Keys  BY <1>1, StoredKeysFacts
<1>7. KeysLeft' = {k \in StoredKeys : Matches(query, k)}
  <2>1. query.kind \in {"all", "prefix"}  BY QueryKinds
  <2>2. KeysLeft' = {k \in KeysAlong(iter.nodes)' : Matches(iter'.query, k)}
    BY <1>3, <2>1 DEF Seen
  <2>3. KeysAlong(iter.nodes)' = KeysAlong(nodes)  BY <1>3, <1>5 DEF KeysAlong
  <2> QED  BY <1>3, <1>4, <2>2, <2>3
<1>8. MapKeys = StoredKeys /\ MapKeys' = MapKeys
  BY <1>1, <1>3, <1>5 DEF MapKeys, Seen
<1>9. KeysLeft' = MapKeys \cap Matching[query]
  <2>1. Matching[query] = {k \in Keys : Matches(query, k)}  BY MatchingFacts DEF Matches
  <2> QED  BY <1>6, <1>7, <1>8, <2>1
<1>10. Answer = None /\ Answer' = None /\ iter.query = None  BY <1>1, <1>3 DEF Seen, Answer
<1> QED  BY <1>3, <1>8, <1>9, <1>10 DEF Abstract!Open

(* The turns of the walks. *)
LEMMA VisitInnerIsSilent ==
  ASSUME Invariant, IterInvariant, Seen, Seen', VisitInner
  PROVE  UNCHANGED Abstract!iterVars
<1>1. /\ iter.pc = "walking" /\ iter.pc # "none" /\ iter.query.kind \in {"all", "prefix"}
      /\ iter.query.kind \notin {"owned", "fuzzy"}
      /\ iter.nodes # << >> /\ IsInner(Popped.node) /\ UNCHANGED vars
  BY DEF VisitInner, Iterating
<1>2. /\ op.pc = "idle" /\ iter.query \in WalkQueries /\ HoldsWalk(iter.query, iter.nodes)
      /\ iter = IterRecord(iter.pc, iter.query, iter.nodes, iter.arena, iter.size, iter.end, iter.out)
  BY <1>1, BorrowedFacts, QueryKinds DEF QueueHolds
<1>3. TreeInvariant /\ ~TearingDown  BY <1>2 DEF Invariant, TearingDown
<1>4. PICK nodes : nodes = PushedAt(Rest, Queued(Popped.node, Popped.depth))  OBVIOUS
<1>5. /\ KeysAlong(nodes) \subseteq KeysAlong(iter.nodes)
      /\ \A k \in KeysAlong(iter.nodes) : Matches(iter.query, k) => k \in KeysAlong(nodes)
  BY <1>1, <1>2, <1>3, <1>4, InnerTurn
<1>6. iter'.pc = "walking" /\ iter'.query = iter.query /\ iter'.nodes = nodes
  <2>1. iter' = SetNodes(iter, nodes)  BY <1>4 DEF VisitInner, SetNodes
  <2>2. iter' = IterRecord(iter.pc, iter.query, nodes, iter.arena, iter.size, iter.end, iter.out)
    BY <1>2, <2>1, FieldUpdates
  <2> QED  BY <1>1, <2>2 DEF IterRecord
<1>7. /\ ~Owning /\ ~Owning' /\ MapKeys' = MapKeys
      /\ KeysLeft = {k \in KeysAlong(iter.nodes) : Matches(iter.query, k)}
      /\ KeysLeft' = {k \in KeysAlong(nodes) : Matches(iter.query, k)}
  BY <1>1, <1>6, WalkIsSeen
<1>8. KeysLeft' = KeysLeft  BY <1>5, <1>7
<1>9. Answer = None /\ Answer' = None  BY <1>1, <1>6, <1>7 DEF Answer
<1> QED  BY <1>6, <1>7, <1>8, <1>9 DEF Abstract!iterVars

LEMMA VisitLeafIsSeen ==
  ASSUME Invariant, IterInvariant, Seen, Seen', VisitLeaf
  PROVE  Abstract!Next \/ UNCHANGED Abstract!iterVars
<1>1. /\ iter.pc = "walking" /\ iter.pc # "none" /\ iter.query.kind \in {"all", "prefix"}
      /\ iter.query.kind \notin {"owned", "fuzzy"}
      /\ iter.nodes # << >> /\ IsLeaf(Popped.node) /\ UNCHANGED vars
  BY DEF VisitLeaf, Iterating
<1>2. /\ op.pc = "idle" /\ iter.query \in WalkQueries /\ HoldsWalk(iter.query, iter.nodes)
      /\ iter.end \in {"next", "next_back"}
  BY <1>1, BorrowedFacts, QueryKinds DEF QueueHolds
<1>3. TreeInvariant /\ ~TearingDown  BY <1>2 DEF Invariant, TearingDown
<1>4. PICK nodes, k : nodes = Rest /\ k = Popped.node.at  OBVIOUS
<1>5. /\ Popped \in QueueEntry /\ Popped.node \in Leaves(heap)
      /\ iter.query.kind = "prefix" => LeadsToNode(iter.query.prefix, Popped)
      /\ KeysAlong(iter.nodes) = KeysAlong(nodes) \cup {k}
      /\ k \notin KeysAlong(nodes)
      /\ Back => \A j \in KeysAlong(nodes) : Precedes(k, j)
      /\ ~Back => \A j \in KeysAlong(nodes) : Precedes(j, k)
  BY <1>1, <1>2, <1>3, <1>4, LeafTurn
<1>6. Yielded(Popped.node, Popped.depth) <=> Matches(iter.query, k)
  BY <1>1, <1>2, <1>3, <1>4, <1>5, YieldedIsMatching
<1>7. heap[Popped.node].key = k  BY <1>3, <1>4, <1>5, LeafFacts
<1>8. KeysLeft \in SUBSET ByteString
  <2>1. KeysLeft \subseteq StoredKeys  BY <1>1 DEF Seen, KeysAlong, KeysUnder
  <2> QED  BY <1>3, <2>1, StoredKeysFacts
<1>9. ~Owning /\ Answer = None
  <2>1. ~Owning  BY <1>1, QueryKinds DEF Owning
  <2> QED  BY <1>1, <2>1 DEF Answer
<1>10. CASE Yielded(Popped.node, Popped.depth)
  <2>1. iter' = IterRecord("answered", iter.query, nodes, iter.arena, iter.size - 1, iter.end, k)
    BY <1>4, <1>7, <1>10, LeafVisited
  <2>2. /\ iter'.pc = "answered" /\ iter'.query = iter.query /\ iter'.nodes = nodes
        /\ iter'.end = iter.end /\ iter'.out = k
    BY <2>1 DEF IterRecord
  <2>3. /\ iter.query # Owned /\ MapKeys' = MapKeys
        /\ KeysLeft = {j \in KeysAlong(iter.nodes) : Matches(iter.query, j)}
        /\ KeysLeft' = {j \in KeysAlong(nodes) : Matches(iter.query, j)}
    BY <1>1, <2>2, WalkIsSeen
  <2>4. Answer' = [end |-> iter.end, out |-> k]  BY <2>2 DEF Answer
  <2>5. k \in KeysLeft  BY <1>5, <1>6, <1>10, <2>3
  <2>6. KeysLeft' = KeysLeft \ {k}  BY <1>5, <2>3
  <2>7. KeysLeft \ {k} \subseteq KeysAlong(nodes)  BY <1>5, <2>3
  <2>8. /\ iter.end = "next" => \A j \in KeysLeft \ {k} : Precedes(k, j)
        /\ iter.end = "next_back" => \A j \in KeysLeft \ {k} : Precedes(j, k)
    BY <1>5, <2>7 DEF Back
  <2>9. Abstract!Next
    BY ONLY <1>2, <1>8, <1>9, <2>2, <2>3, <2>4, <2>5, <2>6, <2>8, YieldIsAllowed
  <2> QED  BY <2>9
<1>11. CASE ~Yielded(Popped.node, Popped.depth)
  <2>1. iter' = IterRecord("walking", iter.query, nodes, iter.arena, iter.size - 1, iter.end, None)
    BY <1>4, <1>11, LeafVisited
  <2>2. iter'.pc = "walking" /\ iter'.query = iter.query /\ iter'.nodes = nodes
    BY <2>1 DEF IterRecord
  <2>3. /\ ~Owning' /\ MapKeys' = MapKeys
        /\ KeysLeft = {j \in KeysAlong(iter.nodes) : Matches(iter.query, j)}
        /\ KeysLeft' = {j \in KeysAlong(nodes) : Matches(iter.query, j)}
    BY <1>1, <2>2, WalkIsSeen
  <2>4. Answer' = None  BY <2>2, <2>3 DEF Answer
  <2>5. KeysLeft' = KeysLeft  BY <1>5, <1>6, <1>11, <2>3
  <2> QED  BY <1>9, <2>2, <2>3, <2>4, <2>5 DEF Abstract!iterVars
<1> QED  BY <1>10, <1>11

LEMMA ExhaustedIsSeen ==
  ASSUME Invariant, IterInvariant, Seen, Seen', Exhausted
  PROVE  Abstract!Next
<1>1. /\ iter.pc = "walking" /\ iter.pc # "none" /\ iter.query.kind \in {"all", "prefix"}
      /\ iter.query.kind \notin {"owned", "fuzzy"}
      /\ iter.nodes = << >> /\ UNCHANGED vars
  BY DEF Exhausted, Iterating
<1>2. /\ iter.query \in WalkQueries /\ iter.end \in {"next", "next_back"} /\ iter.out = None
      /\ iter = IterRecord(iter.pc, iter.query, iter.nodes, iter.arena, iter.size, iter.end, iter.out)
  BY <1>1, BorrowedFacts, QueryKinds
<1>3. iter' = IterRecord("answered", iter.query, iter.nodes, iter.arena, iter.size, iter.end, iter.out)
  <2>1. iter' = SetPc(iter, "answered")  BY DEF Exhausted, SetPc
  <2> QED  BY <1>2, <2>1, FieldUpdates
<1>4. /\ iter'.pc = "answered" /\ iter'.query = iter.query /\ iter'.nodes = iter.nodes
      /\ iter'.end = iter.end /\ iter'.out = None
  BY <1>2, <1>3 DEF IterRecord
<1>5. /\ iter.query # Owned /\ ~Owning /\ MapKeys' = MapKeys
      /\ KeysLeft = {j \in KeysAlong(iter.nodes) : Matches(iter.query, j)}
      /\ KeysLeft' = {j \in KeysAlong(iter.nodes) : Matches(iter.query, j)}
  BY <1>1, <1>4, WalkIsSeen
<1>6. KeysAlong(iter.nodes) = {}
  <2>1. << >> \in Seq(QueueEntry) /\ Len(<< >>) = 0  OBVIOUS
  <2>2. WalkPaths(<< >>) = [i \in 1 .. 0 |-> << >>[i].node.at]  BY <2>1 DEF WalkPaths
  <2>3. DOMAIN WalkPaths(<< >>) = {}  BY <2>2
  <2> QED  BY <1>1, <2>3 DEF KeysAlong, KeysUnder
<1>7. KeysLeft = {} /\ KeysLeft' = {}  BY <1>5, <1>6
<1>8. Answer = None /\ Answer' = [end |-> iter.end, out |-> None]  BY <1>1, <1>4, <1>5 DEF Answer
<1>9. KeysLeft \in SUBSET ByteString /\ KeysLeft' = KeysLeft \ {None}
      /\ \A j \in KeysLeft \ {None} : Precedes(None, j) /\ Precedes(j, None)
  BY <1>7
<1> QED
  BY ONLY <1>2, <1>4, <1>5, <1>7, <1>8, <1>9, YieldIsAllowed

(* IntoIter: the map is its own iterator, and a pop its turn.              *)
LEMMA EmptyMapHasNoKeys ==
  ASSUME TreeInvariant, ~TearingDown, root = None
  PROVE  StoredKeys = {}
BY DEF StoredKeys, Leaves, TreeInvariant, RootIsAboveAll

LEMMA OpenOwnedIsOpen ==
  ASSUME Invariant, Seen, Seen', OpenOwned
  PROVE  Abstract!Open(Owned)
<1>1. /\ iter.pc = "none" /\ op.pc = "idle" /\ TreeInvariant /\ ~TearingDown /\ UNCHANGED vars
  BY DEF Invariant, OpenOwned, CanOpen, TearingDown
<1>2. iter'.pc = "open" /\ iter'.query = Owned  BY DEF OpenOwned, NoIter
<1>3. StoredKeys' = StoredKeys /\ op'.pc = "idle"  BY <1>1 DEF vars, StoredKeys, Leaves
<1>4. StoredKeys \subseteq Keys  BY <1>1, StoredKeysFacts
<1>5. MapKeys = StoredKeys  BY <1>1 DEF MapKeys
<1>6. MapKeys' = StoredKeys /\ KeysLeft' = StoredKeys  BY <1>2, <1>3, QueryKinds DEF Seen
<1>7. KeysLeft' = MapKeys \cap Matching[Owned]  BY <1>4, <1>5, <1>6, MatchingFacts
<1>8. Answer = None /\ iter.query = None  BY <1>1 DEF Seen
<1>9. Answer' = None  BY <1>2 DEF Answer
<1> QED  BY <1>2, <1>5, <1>6, <1>7, <1>8, <1>9 DEF Abstract!Open

(* The owning iterator, asked for the next entry.                          *)
LEMMA AdvanceOwnedIsSeen ==
  ASSUME Invariant, IterInvariant, Seen, Seen', NEW end \in {"next", "next_back"}, AdvanceOwned(end)
  PROVE  Abstract!Next \/ UNCHANGED Abstract!iterVars
<1>1. iter.pc = "open" /\ iter.pc # "none" /\ Owning /\ iter.query = Owned /\ iter.query.kind = "owned"
  BY QueryKinds DEF AdvanceOwned, Owning
<1>2. TreeInvariant /\ iter = IterRecord(iter.pc, Owned, iter.nodes, iter.arena, iter.size, iter.end, None)
  BY <1>1, OwningFacts DEF Invariant
<1>3. iter'.pc = "walking" /\ iter'.query = Owned /\ iter'.end = end
  <2>1. iter' = SetEnd(SetPc(iter, "walking"), end)  BY DEF AdvanceOwned, SetEnd, SetPc
  <2>2. iter' = IterRecord("walking", Owned, iter.nodes, iter.arena, iter.size, end, None)
    BY <1>2, <2>1, FieldUpdates
  <2> QED  BY <2>2 DEF IterRecord
<1>4. heap' = heap  BY DEF AdvanceOwned, CallAtEnd
<1>5. StoredKeys' = StoredKeys  BY <1>4 DEF StoredKeys, Leaves
<1>6. MapKeys = StoredKeys /\ KeysLeft = StoredKeys /\ MapKeys' = StoredKeys /\ KeysLeft' = StoredKeys
  BY <1>1, <1>3, <1>5, QueryKinds DEF Seen
<1>7. Answer = None  BY <1>1 DEF Answer
<1>8. CASE CallAtEnd(PopAt(end))
  <2>1. op'.pc = "search"  BY <1>8 DEF CallAtEnd, Start, IdleOp
  <2>2. Answer' = None  BY <1>3, <2>1 DEF Answer
  <2> QED  BY <1>1, <1>3, <1>6, <1>7, <2>2 DEF Abstract!iterVars
<1>9. CASE root = None /\ op' = Done(PopAt(end), << >>, None, None)
  <2>1. op'.pc = "done" /\ op'.out = None  BY <1>9 DEF Done, IdleOp
  <2>2. Answer' = [end |-> end, out |-> None]
    <3>1. Owning'  BY <1>3 DEF Owning
    <3> QED  BY <1>3, <2>1, <3>1 DEF Answer
  <2>3. StoredKeys = {}
    <3>1. ~TearingDown  BY <1>1, OwningFacts DEF TearingDown
    <3> QED  BY <1>2, <1>9, <3>1, EmptyMapHasNoKeys
  <2>4. KeysLeft = {} /\ KeysLeft' = {} /\ MapKeys = {} /\ MapKeys' = {}  BY <1>6, <2>3
  <2>5. /\ KeysLeft \in SUBSET ByteString /\ KeysLeft' = KeysLeft \ {None} /\ MapKeys' = MapKeys \ {None}
        /\ \A j \in KeysLeft \ {None} : Precedes(None, j) /\ Precedes(j, None)
    BY <2>4
  <2>6. iter.query \in WalkQueries \cup {Owned} /\ iter'.query = iter.query /\ iter.query = Owned
    BY <1>1, <1>3
  <2>7. Abstract!Next  BY ONLY <1>7, <2>2, <2>4, <2>5, <2>6, YieldIsAllowed, end \in {"next", "next_back"}
  <2> QED  BY <2>7
<1> QED  BY <1>8, <1>9 DEF AdvanceOwned

LEMMA StepOwnedIsSeen ==
  ASSUME Invariant, AnswerInvariant, IterInvariant, Seen, Seen', TreeInvariant', StepOwned
  PROVE  Abstract!Next \/ UNCHANGED Abstract!iterVars
<1>1. /\ iter.pc = "walking" /\ iter.pc # "none" /\ Owning /\ iter.query = Owned /\ iter.query.kind = "owned"
      /\ Run /\ iter' = iter
  BY QueryKinds DEF StepOwned, Owning
<1>2. /\ op.pc \in {"search", "apply", "done"} /\ op.call = PopAt(iter.end)
      /\ iter.end \in {"next", "next_back"} /\ TreeInvariant
  BY <1>1, OwningFacts DEF Invariant
<1>3. /\ MapKeys = StoredKeys /\ KeysLeft = StoredKeys /\ MapKeys' = StoredKeys' /\ KeysLeft' = StoredKeys'
  BY <1>1 DEF Seen
<1>4. op.call \in {"pop_first", "pop_last"} /\ op.pc # "dealloc"  BY <1>2 DEF PopAt
<1>5. CASE /\ UNCHANGED <<heap, root, num_entries>> /\ op.pc = "search"
           /\ op'.pc \in {"search", "apply"}
  <2>1. StoredKeys' = StoredKeys  BY <1>5 DEF StoredKeys, Leaves
  <2>2. Answer = None /\ Answer' = None  BY <1>1, <1>5 DEF Answer
  <2> QED  BY <1>1, <1>3, <2>1, <2>2 DEF Abstract!iterVars
<1>6. CASE ApplyDelete
  <2>1. PICK k, value : k = op.node.at /\ value \in Values /\ op'.out = Some(<<k, value>>)
    BY <1>6, PopTakesLeaf
  <2>2. /\ op.pc = "apply" /\ op.node \in Leaves(heap) /\ op'.pc = "done"
        /\ k \in StoredKeys /\ k \in Keys /\ StoredKeys' = StoredKeys \ {k}
    BY <1>6, <2>1, PopTakesLeaf
  <2>3. Answer = None  BY <1>1, <2>2 DEF Answer
  <2>4. Answer' = [end |-> iter.end, out |-> k]
    <3>1. op'.out # None
      <4>1. <<k, value>> \in Keys \X Values  BY <2>1, <2>2
      <4> QED  BY <2>1, <4>1, IteratorAssumption
    <3>2. op'.out[2][1] = k  BY <2>1 DEF Some
    <3>3. iter'.pc = "walking" /\ Owning' /\ iter'.end = iter.end  BY <1>1 DEF Owning
    <3> QED  BY <2>2, <3>1, <3>2, <3>3 DEF Answer
  <2>5. \A j \in StoredKeys \ {k} :
          /\ op.call \in MinCalls => Precedes(k, j)
          /\ op.call \in MaxCalls => Precedes(j, k)
    BY <2>1, <2>2, EndIsBeside DEF Walking, AnswerInvariant
  <2>6. /\ iter.end = "next" => \A j \in KeysLeft \ {k} : Precedes(k, j)
        /\ iter.end = "next_back" => \A j \in KeysLeft \ {k} : Precedes(j, k)
    BY <1>2, <1>3, <2>5 DEF PopAt, MinCalls, MaxCalls
  <2>7. /\ KeysLeft' = KeysLeft \ {k} /\ MapKeys' = MapKeys \ {k} /\ k \in KeysLeft  BY <1>3, <2>2
  <2>8. KeysLeft \in SUBSET ByteString  BY <1>2, <1>3, StoredKeysFacts
  <2>9. iter.query \in WalkQueries \cup {Owned} /\ iter'.query = iter.query  BY <1>1
  <2>10. Abstract!Next
    BY ONLY <1>1, <1>2, <2>3, <2>4, <2>6, <2>7, <2>8, <2>9, YieldIsAllowed
  <2> QED  BY <2>10
<1> QED  BY <1>1, <1>4, <1>5, <1>6, PopRuns

LEMMA TakenOwnedIsTaken ==
  ASSUME IterInvariant, Seen, Seen', TakenOwned
  PROVE  Abstract!Taken
<1>1. /\ iter.pc = "walking" /\ iter.pc # "none" /\ Owning /\ iter.query = Owned /\ iter.query.kind = "owned"
      /\ op.pc = "done" /\ heap' = heap
  BY QueryKinds DEF TakenOwned, Owning, Return
<1>2. /\ iter = IterRecord("walking", Owned, iter.nodes, iter.arena, iter.size, iter.end, None)
      /\ iter.end \in {"next", "next_back"}
      /\ op.out = None \/ \E entry \in Keys \X Values : op.out = Some(entry)
  BY <1>1, OwningFacts DEF PopIsAnswered
<1>3. iter'.pc = "open" /\ iter'.query = iter.query
  <2>1. iter' = SetEnd(SetPc(iter, "open"), None)  BY DEF TakenOwned, SetEnd, SetPc
  <2>2. iter' = IterRecord("open", Owned, iter.nodes, iter.arena, iter.size, None, None)
    BY <1>2, <2>1, FieldUpdates
  <2> QED  BY <1>1, <2>2 DEF IterRecord
<1>4. StoredKeys' = StoredKeys  BY <1>1 DEF StoredKeys, Leaves
<1>5. MapKeys' = MapKeys /\ KeysLeft' = KeysLeft  BY <1>1, <1>3, <1>4 DEF Seen
<1>6. Answer' = None  BY <1>3 DEF Answer
<1>7. Answer # None
  <2>1. PICK out \in Keys \cup {None} : Answer = [end |-> iter.end, out |-> out]
    <3>1. CASE op.out = None  BY <1>1, <3>1 DEF Answer
    <3>2. ASSUME NEW entry \in Keys \X Values, op.out = Some(entry)
          PROVE  Answer = [end |-> iter.end, out |-> entry[1]] /\ entry[1] \in Keys
      <4>1. op.out # None  BY <3>2, IteratorAssumption
      <4>2. op.out[2][1] = entry[1]  BY <3>2 DEF Some
      <4> QED  BY <1>1, <4>1, <4>2 DEF Answer
    <3> QED  BY <1>2, <3>1, <3>2
  <2> QED  BY <1>2, <2>1, IteratorAssumption
<1> QED  BY <1>3, <1>5, <1>6, <1>7 DEF Abstract!Taken

(* The drop of an iterator that owns the map: the rest of the map goes.    *)
LEMMA DropOwnedIsDrop ==
  ASSUME Invariant, Seen, DropOwned
  PROVE  Abstract!Drop
<1>1. /\ iter.pc = "open" /\ iter.query = Owned /\ iter' = NoIter /\ TreeInvariant
  BY DEF DropOwned, Owning, Invariant
<1>2. iter'.pc = "none" /\ iter'.query = None  BY <1>1 DEF NoIter
<1>3. iter.query # None  BY <1>1, QueryKinds, IteratorAssumption
<1>4. MapKeys' = {}
  <2>1. CASE ClearStart
    <3>1. op'.pc = "dealloc"  BY <2>1 DEF ClearStart, IdleOp
    <3> QED  BY <3>1 DEF MapKeys, TearingDown
  <2>2. CASE ClearEmpty
    <3>1. root = None /\ heap' = heap  BY <2>2 DEF ClearEmpty
    <3>2. StoredKeys = {}  BY <1>1, <2>2, <3>1, EmptyMapHasNoKeys DEF ClearEmpty, TearingDown
    <3>3. StoredKeys' = {}  BY <3>1, <3>2 DEF StoredKeys, Leaves
    <3> QED  BY <3>3 DEF MapKeys
  <2> QED  BY <2>1, <2>2 DEF DropOwned
<1>5. KeysLeft' = {} /\ Answer' = None /\ Answer = None  BY <1>1, <1>2 DEF KeysLeft, Answer
<1> QED  BY <1>1, <1>2, <1>3, <1>4, <1>5 DEF Abstract!Drop

(* Without fuzzy searches a borrowing iterator is a walk.                  *)
LEMMA BorrowingIsWalking ==
  ASSUME SearchKeys = {}, IterInvariant, iter.pc # "none", iter.query.kind # "owned"
  PROVE  iter.query.kind \in {"all", "prefix"}
<1>1. iter.query \in Queries  BY DEF IterInvariant, IterType
<1>2. FuzzyQueries = {}  BY DEF FuzzyQueries
<1> QED  BY <1>1, <1>2, QueryKinds

LEMMA StepIsSeen ==
  ASSUME SearchKeys = {}, MapInvariant, IterInvariant, MapIterNext, Seen, Seen', TreeInvariant'
  PROVE  Abstract!Next \/ UNCHANGED Abstract!iterVars
<1>1. Invariant /\ AnswerInvariant  BY DEF MapInvariant
<1>2. FuzzyQueries = {}  BY DEF FuzzyQueries
<1>3. CASE OtherCall
  <2>1. iter.pc = "none" /\ iter' = iter  BY <1>3 DEF OtherCall
  <2>2. Abstract!OtherCall  BY <2>1 DEF Abstract!OtherCall, Seen
  <2> QED  BY <2>2 DEF Abstract!Next
<1>4. ASSUME NEW query \in WalkQueries, OpenWalk(query) PROVE Abstract!Next
  <2>1. Abstract!Open(query) /\ query \in Queries  BY <1>1, <1>4, OpenWalkIsOpen, QueryKinds
  <2> QED  BY <2>1 DEF Abstract!Next
<1>5. CASE OpenOwned
  <2>1. Abstract!Open(Owned) /\ Owned \in Queries  BY <1>1, <1>5, OpenOwnedIsOpen, QueryKinds
  <2> QED  BY <2>1 DEF Abstract!Next
<1>6. ASSUME NEW end \in {"next", "next_back"}, Advance(end) PROVE UNCHANGED Abstract!iterVars
  <2>1. iter.query.kind \in {"all", "prefix"}  BY <1>6, BorrowingIsWalking DEF Advance
  <2> QED  BY <1>6, <2>1, AdvanceIsSilent
<1>7. ASSUME NEW end \in {"next", "next_back"}, AdvanceOwned(end)
      PROVE  Abstract!Next \/ UNCHANGED Abstract!iterVars
  BY <1>1, <1>7, AdvanceOwnedIsSeen
<1>8. CASE WalkStep  BY <1>1, <1>8, VisitInnerIsSilent, VisitLeafIsSeen, ExhaustedIsSeen DEF WalkStep
<1>9. ~FuzzyStep
  <2>1. Searching => FALSE
    <3>1. Searching => iter.pc # "none" /\ iter.query.kind = "fuzzy"  BY DEF Searching
    <3> QED  BY <3>1, BorrowingIsWalking
  <2> QED  BY <2>1 DEF FuzzyStep, FuzzyInner, FuzzyLeaf, FuzzyExhausted
<1>10. CASE OwnedStep
  <2>1. CASE StepOwned  BY <1>1, <2>1, StepOwnedIsSeen
  <2>2. CASE TakenOwned  BY <2>2, TakenOwnedIsTaken DEF Abstract!Next
  <2>3. CASE DropOwned  BY <1>1, <2>3, DropOwnedIsDrop DEF Abstract!Next
  <2> QED  BY <1>10, <2>1, <2>2, <2>3 DEF OwnedStep
<1>11. CASE Taken
  <2>1. iter.pc # "none" /\ iter.query.kind # "owned"
    BY <1>11 DEF Taken, IterInvariant, IterType, Borrowing
  <2>2. Abstract!Taken  BY <1>11, <2>1, BorrowingIsWalking, TakenIsTaken
  <2> QED  BY <2>2 DEF Abstract!Next
<1>12. CASE Drop  BY <1>12, DropIsDrop DEF Abstract!Next
<1> QED
  BY <1>2, <1>3, <1>4, <1>5, <1>6, <1>7, <1>8, <1>9, <1>10, <1>11, <1>12 DEF MapIterNext

(* The iterators over all keys, over those with a prefix, and the owning   *)
(* ones implement IterSpec: in any mixture of next and next_back the       *)
(* matching keys come in order, each once, and None when there is none     *)
(* left.                                                                   *)
THEOREM WalksImplementIterator ==
  ASSUME SearchKeys = {}
  PROVE  MapIterSpec => ImplementsIterator
<1>1. IterInit => Abstract!Init
  <2> SUFFICES ASSUME IterInit PROVE Abstract!Init  OBVIOUS
  <2>1. heap = [p \in {} |-> None] /\ iter = NoIter  BY DEF IterInit, Init
  <2>2. DOMAIN heap = {}  BY <2>1
  <2>3. MapKeys = {}  BY <2>2 DEF MapKeys, StoredKeys, Leaves
  <2>4. iter.pc = "none" /\ iter.query = None  BY <2>1 DEF NoIter
  <2> QED  BY <2>3, <2>4 DEF Abstract!Init, KeysLeft, Answer
<1>2. /\ MapInvariant /\ IterInvariant /\ MapInvariant' /\ IterInvariant'
      /\ [MapIterNext]_iterVars
      => [Abstract!Next]_(Abstract!iterVars)
  <2> SUFFICES ASSUME MapInvariant, IterInvariant, MapInvariant', IterInvariant', [MapIterNext]_iterVars
               PROVE  Abstract!Next \/ UNCHANGED Abstract!iterVars
    OBVIOUS
  <2>1. Invariant /\ Invariant' /\ TreeInvariant'  BY DEF MapInvariant, Invariant
  <2>2. Seen /\ Seen'  BY <2>1, WhatIsSeen, WhatIsSeenNext
  <2>3. CASE MapIterNext  BY <2>1, <2>2, <2>3, StepIsSeen
  <2>4. CASE UNCHANGED iterVars
    <3>1. heap' = heap /\ root' = root /\ num_entries' = num_entries /\ op' = op /\ iter' = iter
      BY <2>4 DEF iterVars
    <3>2. MapKeys' = MapKeys  BY <3>1 DEF MapKeys, TearingDown, StoredKeys, Leaves
    <3>3. Answer' = Answer  BY <3>1 DEF Answer, Owning
    <3>4. KeysToWalk' = KeysToWalk /\ KeysToSearch' = KeysToSearch
      BY <3>1 DEF KeysToWalk, KeysBelow, KeysToSearch, StoredKeys, Leaves
    <3>5. KeysLeft' = KeysLeft  BY <3>1, <3>2, <3>4 DEF KeysLeft, Owning
    <3> QED  BY <3>1, <3>2, <3>3, <3>5 DEF Abstract!iterVars
  <2> QED  BY <2>3, <2>4
<1> QED  BY <1>1, <1>2, IteratorsHold, PTL DEF MapIterSpec, ImplementsIterator, Abstract!Spec
=============================================================================
