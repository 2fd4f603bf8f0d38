--------------------------- MODULE TreeStepProofs ---------------------------
(***************************************************************************)
(* First the headers of the nodes: every operation on a header leaves it   *)
(* standing for the path it should stand for, whatever PREFIX_LEN is and   *)
(* however long the paths are (the only unit test of these operations,     *)
(* header_delete_prefix, covers ltrim_by on paths that fit the array).     *)
(*                                                                         *)
(* Then the shape of a tree that satisfies the conditions of               *)
(* TreeMapProperties, and what inserting or deleting a leaf does to it:    *)
(* every lemma speaks of the nodes a change touches and leaves the rest of *)
(* the heap alone.                                                         *)
(*                                                                         *)
(* Then the steps of TreeMap that only look at the tree, which keep the    *)
(* invariant: making a call, walking, finding an insert or delete point,   *)
(* answering.                                                              *)
(*                                                                         *)
(* Last the steps that write to the heap: inserting, deleting and          *)
(* overwriting a leaf, and deallocate_tree.  An insert or a delete builds  *)
(* a few nodes and hangs one of them, new, in the place of a node, old, by *)
(* the one edge that led there.                                            *)
(***************************************************************************)
EXTENDS TreeMapInvariant, ByteStringsProofs

(* new holds as many of the first bytes of q as a header has room for. *)
HoldsStartOf(new, q) ==
  /\ Lesser(Len(q), PREFIX_LEN) <= Len(new) /\ Len(new) <= Len(q)
  /\ \A i \in 1 .. Len(new) : new[i] = q[i]

LEMMA LesserFacts ==
  ASSUME NEW m \in Nat, NEW n \in Nat
  PROVE  /\ Lesser(m, n) \in Nat
         /\ Lesser(m, n) <= m /\ Lesser(m, n) <= n
         /\ m <= n => Lesser(m, n) = m
         /\ n <= m => Lesser(m, n) = n
BY DEF Lesser

LEMMA ReadPrefixFacts ==
  ASSUME NEW h \in HeaderType, NEW p \in ByteString, Represents(h, p)
  PROVE  /\ ReadPrefix(h) \in ByteString
         /\ Len(ReadPrefix(h)) = Lesser(Len(p), PREFIX_LEN)
         /\ \A i \in 1 .. Len(ReadPrefix(h)) : ReadPrefix(h)[i] = p[i]
         /\ HoldsStartOf(ReadPrefix(h), p)
<1> DEFINE n == Lesser(Len(p), PREFIX_LEN)
<1>1. Len(p) \in Nat /\ PREFIX_LEN \in Nat  BY PrefixLenAssumption DEF ByteString
<1>2. n \in Nat /\ n <= PREFIX_LEN /\ n <= Len(p)  BY <1>1, LesserFacts
<1>3. CappedPrefixLen(h) = n  BY DEF CappedPrefixLen, Represents
<1> HIDE DEF n
<1>4. \A i \in 1 .. n : h.prefix[i] \in Byte  BY <1>1, <1>2 DEF HeaderType
<1>5. ReadPrefix(h) = [i \in 1 .. n |-> h.prefix[i]]  BY <1>3 DEF ReadPrefix
<1>6. ReadPrefix(h) \in Seq(Byte) /\ Len(ReadPrefix(h)) = n  BY <1>2, <1>4, <1>5
<1>7. \A i \in 1 .. n : ReadPrefix(h)[i] = p[i]  BY <1>5 DEF Represents, n
<1> QED  BY <1>1, <1>2, <1>6, <1>7 DEF ByteString, HoldsStartOf, n

(* Header::new with the start of a path and its length.                    *)
THEOREM NewHeaderRepresents ==
  ASSUME NEW new \in ByteString, NEW q \in ByteString, HoldsStartOf(new, q)
  PROVE  /\ NewHeader(new, Len(q)) \in HeaderType
         /\ Represents(NewHeader(new, Len(q)), q)
<1> DEFINE h == NewHeader(new, Len(q))
<1>1. Len(q) \in Nat /\ Len(new) \in Nat /\ PREFIX_LEN \in Nat
  BY PrefixLenAssumption DEF ByteString
<1>2. \A i \in 1 .. Len(new) : new[i] \in Byte  BY DEF ByteString
<1>3. h.prefix = [i \in 1 .. PREFIX_LEN |-> IF i <= Len(new) THEN new[i] ELSE 0]
  BY DEF NewHeader
<1>4. h.prefix \in [1 .. PREFIX_LEN -> Byte]  BY <1>1, <1>2, <1>3, ByteAssumption
<1>5. h \in HeaderType  BY <1>1, <1>4 DEF NewHeader, HeaderType
<1>6. h.prefix_len = Len(q)  BY DEF NewHeader
<1> DEFINE kept == Lesser(Len(q), PREFIX_LEN)
<1>7. kept \in Nat /\ kept <= PREFIX_LEN /\ kept <= Len(new)
  BY <1>1, LesserFacts DEF HoldsStartOf
<1> HIDE DEF h, kept
<1>8. \A i \in 1 .. kept : h.prefix[i] = new[i]  BY <1>1, <1>3, <1>7
<1>9. \A i \in 1 .. kept : new[i] = q[i]  BY <1>1, <1>7 DEF HoldsStartOf
<1>10. \A i \in 1 .. kept : h.prefix[i] = q[i]  BY <1>8, <1>9
<1>11. Represents(h, q)  BY <1>6, <1>10 DEF Represents, kept
<1> QED  BY <1>5, <1>11 DEF h

(* Header::ltrim_by, on a path the array holds as a whole.                 *)
THEOREM LTrimByRepresents ==
  ASSUME NEW h \in HeaderType, NEW p \in ByteString, Represents(h, p),
         Len(p) <= PREFIX_LEN, NEW n \in Nat, n <= Len(p)
  PROVE  /\ LTrimBy(h, n) \in HeaderType
         /\ Represents(LTrimBy(h, n), DropFirst(p, n))
<1> DEFINE t == LTrimBy(h, n)
           rest == Len(p) - n
<1>1. Len(p) \in Nat /\ PREFIX_LEN \in Nat  BY PrefixLenAssumption DEF ByteString
<1>2. rest \in Nat /\ rest <= PREFIX_LEN  BY <1>1
<1>2a. Lesser(rest, PREFIX_LEN) = rest  BY <1>1, <1>2, LesserFacts
<1>3. Len(DropFirst(p, n)) = rest /\ \A i \in 1 .. rest : DropFirst(p, n)[i] = p[n + i]
  BY DropFirstFacts
<1>4. h.prefix_len = Len(p) /\ \A i \in 1 .. Len(p) : h.prefix[i] = p[i]
  BY <1>1, LesserFacts DEF Represents
<1>5. /\ t.prefix_len = rest
      /\ t.prefix = [i \in 1 .. PREFIX_LEN |-> IF i <= rest THEN h.prefix[n + i] ELSE h.prefix[i]]
  BY <1>2, <1>2a, <1>4 DEF LTrimBy
<1>5a. t = [prefix_len |-> t.prefix_len, prefix |-> t.prefix]  BY DEF LTrimBy
<1> HIDE DEF t
<1>6. \A i \in 1 .. PREFIX_LEN : h.prefix[i] \in Byte  BY DEF HeaderType
<1>7. \A i \in 1 .. PREFIX_LEN : i <= rest => n + i \in 1 .. PREFIX_LEN  BY <1>1
<1>8. t.prefix \in [1 .. PREFIX_LEN -> Byte]  BY <1>5, <1>6, <1>7
<1>9. t \in HeaderType  BY <1>2, <1>5, <1>5a, <1>8 DEF HeaderType
<1>10. \A i \in 1 .. rest : t.prefix[i] = h.prefix[n + i]  BY <1>1, <1>2, <1>5
<1>11. \A i \in 1 .. rest : h.prefix[n + i] = p[n + i]  BY <1>1, <1>2, <1>4
<1>12. \A i \in 1 .. rest : t.prefix[i] = DropFirst(p, n)[i]  BY <1>3, <1>10, <1>11
<1>13. Represents(t, DropFirst(p, n))
  BY <1>2a, <1>3, <1>5, <1>12 DEF Represents
<1> QED  BY <1>9, <1>13 DEF t

(* Header::ltrim_by_with_leaf, on any path, from any leaf below.           *)
THEOREM LTrimByWithLeafRepresents ==
  ASSUME NEW h \in HeaderType, NEW p \in ByteString, Represents(h, p),
         NEW n \in Nat, n <= Len(p),
         NEW depth \in Nat, NEW key \in ByteString, depth + Len(p) <= Len(key),
         \A i \in 1 .. Len(p) : key[depth + i] = p[i]
  PROVE  /\ LTrimByWithLeaf(h, n, depth, key) \in HeaderType
         /\ Represents(LTrimByWithLeaf(h, n, depth, key), DropFirst(p, n))
<1> DEFINE t == LTrimByWithLeaf(h, n, depth, key)
           rest == Len(p) - n
           kept == Lesser(rest, PREFIX_LEN)
<1>1. Len(p) \in Nat /\ Len(key) \in Nat /\ PREFIX_LEN \in Nat
  BY PrefixLenAssumption DEF ByteString
<1>2. rest \in Nat  BY <1>1
<1>3. kept \in Nat /\ kept <= rest /\ kept <= PREFIX_LEN  BY <1>1, <1>2, LesserFacts
<1>4. Len(DropFirst(p, n)) = rest /\ \A i \in 1 .. rest : DropFirst(p, n)[i] = p[n + i]
  BY DropFirstFacts
<1>5. h.prefix_len = Len(p)  BY DEF Represents
<1>6. /\ t.prefix_len = rest
      /\ t.prefix = [i \in 1 .. PREFIX_LEN |->
                       IF i <= kept THEN key[depth + n + i] ELSE h.prefix[i]]
  BY <1>5 DEF LTrimByWithLeaf
<1>6a. t = [prefix_len |-> t.prefix_len, prefix |-> t.prefix]  BY DEF LTrimByWithLeaf
<1> HIDE DEF kept, t
<1>7. \A i \in 1 .. PREFIX_LEN : h.prefix[i] \in Byte  BY DEF HeaderType
<1>8. \A i \in 1 .. kept : n + i \in 1 .. Len(p) /\ depth + n + i = depth + (n + i)
  BY <1>1, <1>2, <1>3
<1>9. \A i \in 1 .. kept : key[depth + n + i] = p[n + i]  BY <1>8
<1>10. \A i \in 1 .. Len(p) : p[i] \in Byte  BY DEF ByteString
<1>10a. \A i \in 1 .. kept : key[depth + n + i] \in Byte  BY <1>8, <1>9, <1>10
<1>10b. \A i \in 1 .. PREFIX_LEN : i <= kept => i \in 1 .. kept  BY <1>3
<1>11. t.prefix \in [1 .. PREFIX_LEN -> Byte]  BY <1>6, <1>7, <1>10a, <1>10b
<1>12. t \in HeaderType  BY <1>2, <1>6, <1>6a, <1>11 DEF HeaderType
<1>13. \A i \in 1 .. kept : t.prefix[i] = key[depth + n + i]  BY <1>1, <1>3, <1>6
<1>14. \A i \in 1 .. kept : i \in 1 .. rest  BY <1>2, <1>3
<1>15. \A i \in 1 .. kept : t.prefix[i] = DropFirst(p, n)[i]
  BY <1>4, <1>9, <1>13, <1>14
<1>16. Represents(t, DropFirst(p, n))
  BY <1>4, <1>6, <1>15 DEF Represents, kept
<1> QED  BY <1>12, <1>16 DEF t

(* Header::push_prefix appends a path, given as much of it as may fit.     *)
LEMMA PushPrefixRepresents ==
  ASSUME NEW h \in HeaderType, NEW p \in ByteString, Represents(h, p),
         NEW new \in ByteString, NEW q \in ByteString, HoldsStartOf(new, q)
  PROVE  /\ PushPrefix(h, new, Len(q)) \in HeaderType
         /\ Represents(PushPrefix(h, new, Len(q)), p \o q)
<1> DEFINE t == PushPrefix(h, new, Len(q))
           begin == Lesser(Len(p), PREFIX_LEN)
           end == Lesser(begin + Len(new), PREFIX_LEN)
           kept == Lesser(Len(p) + Len(q), PREFIX_LEN)
<1>1. Len(p) \in Nat /\ Len(q) \in Nat /\ Len(new) \in Nat /\ PREFIX_LEN \in Nat
  BY PrefixLenAssumption DEF ByteString
<1>2. /\ begin \in Nat /\ begin <= PREFIX_LEN
      /\ begin = Len(p) \/ (begin = PREFIX_LEN /\ PREFIX_LEN <= Len(p))
  BY <1>1 DEF Lesser
<1>3. /\ end \in Nat /\ end <= PREFIX_LEN /\ end <= begin + Len(new)
      /\ end = begin + Len(new) \/ end = PREFIX_LEN
  BY <1>1, <1>2 DEF Lesser
<1>4. kept \in Nat /\ kept <= PREFIX_LEN /\ kept <= Len(p) + Len(q)  BY <1>1 DEF Lesser
<1>5. Lesser(Len(q), PREFIX_LEN) <= Len(new) /\ Len(new) <= Len(q)  BY DEF HoldsStartOf
<1>6. kept <= end
  BY <1>1, <1>2, <1>3, <1>4, <1>5 DEF Lesser
<1>7. /\ h.prefix_len = Len(p)
      /\ \A i \in 1 .. begin : h.prefix[i] = p[i]
  BY DEF Represents
<1>8. /\ t.prefix_len = Len(p) + Len(q)
      /\ t.prefix = [i \in 1 .. PREFIX_LEN |->
                       IF begin < i /\ i <= end THEN new[i - begin] ELSE h.prefix[i]]
  BY <1>7 DEF PushPrefix, CappedPrefixLen
<1>8a. t = [prefix_len |-> t.prefix_len, prefix |-> t.prefix]  BY DEF PushPrefix
<1> HIDE DEF begin, end, kept, t
<1>9. \A i \in 1 .. PREFIX_LEN : h.prefix[i] \in Byte  BY DEF HeaderType
<1>10. \A i \in 1 .. Len(new) : new[i] \in Byte /\ new[i] = q[i]  BY DEF ByteString, HoldsStartOf
<1>11. \A i \in 1 .. PREFIX_LEN : begin < i /\ i <= end => i - begin \in 1 .. Len(new)
  BY <1>1, <1>2, <1>3
<1>12. t.prefix \in [1 .. PREFIX_LEN -> Byte]  BY <1>8, <1>9, <1>10, <1>11
<1>13. t \in HeaderType  BY <1>1, <1>8, <1>8a, <1>12 DEF HeaderType
<1>14. /\ p \o q \in ByteString /\ Len(p \o q) = Len(p) + Len(q)
       /\ \A i \in 1 .. Len(p) : (p \o q)[i] = p[i]
       /\ \A i \in 1 .. Len(p) + Len(q) : Len(p) < i => (p \o q)[i] = q[i - Len(p)]
  BY DEF ByteString
<1>15. ASSUME NEW i \in 1 .. kept
       PROVE  t.prefix[i] = (p \o q)[i]
  <2>1. i \in 1 .. PREFIX_LEN /\ i \in Nat  BY <1>4, <1>1
  <2>2. CASE i <= begin
    <3>1. i \in 1 .. Len(p) /\ i \in 1 .. begin  BY <1>1, <1>2, <2>1, <2>2
    <3>2. t.prefix[i] = h.prefix[i]  BY <1>2, <1>8, <2>1, <2>2
    <3> QED  BY <3>1, <3>2, <1>7, <1>14
  <2>3. CASE begin < i
    <3>1. begin = Len(p)  BY <1>2, <1>4, <2>1, <2>3
    <3>2. i <= end  BY <1>3, <1>4, <1>6
    <3>3. i - begin \in 1 .. Len(new) /\ i - begin \in 1 .. Len(q)
      BY <1>1, <1>5, <1>11, <2>1, <2>3, <3>2
    <3>4. t.prefix[i] = new[i - begin]  BY <1>8, <2>1, <2>3, <3>2
    <3>4a. new[i - begin] = q[i - begin]  BY <1>10, <3>3
    <3>5. i \in 1 .. Len(p) + Len(q) /\ Len(p) < i  BY <3>1, <1>4, <1>1, <2>1, <2>3
    <3>6. (p \o q)[i] = q[i - begin]  BY <1>14, <3>1, <3>5
    <3> QED  BY <3>4, <3>4a, <3>6
  <2>4. i <= begin \/ begin < i  BY <2>1, <1>2
  <2> QED  BY <2>2, <2>3, <2>4
<1>16. Represents(t, p \o q)  BY <1>8, <1>14, <1>15 DEF Represents, kept
<1> QED  BY <1>13, <1>16 DEF t

(* Merging a parent with one child left into that child: the child then    *)
(* stands for its parent's path, the byte between them and its own path.   *)
THEOREM MergedHeaderRepresents ==
  ASSUME NEW parent \in HeaderType, NEW p \in ByteString, Represents(parent, p),
         NEW child \in HeaderType, NEW c \in ByteString, Represents(child, c),
         NEW byte \in Byte
  PROVE  /\ MergedHeader(parent, byte, child) \in HeaderType
         /\ Represents(MergedHeader(parent, byte, child), (p \o <<byte>>) \o c)
<1> DEFINE cleared    == ClearPrefix(child)
           withParent == PushPrefix(cleared, ReadPrefix(parent), Len(p))
           withByte   == PushPrefix(withParent, <<byte>>, 1)
<1>1. << >> \in ByteString /\ Len(<< >>) = 0 /\ << >> \o p = p  BY DEF ByteString
<1>2. cleared \in HeaderType /\ cleared.prefix_len = 0  BY DEF ClearPrefix, HeaderType
<1>3. Represents(cleared, << >>)  BY <1>1, <1>2, PrefixLenAssumption DEF Represents, Lesser
<1> HIDE DEF cleared
<1>4. ReadPrefix(parent) \in ByteString /\ HoldsStartOf(ReadPrefix(parent), p)
  BY ReadPrefixFacts
<1>5. withParent \in HeaderType /\ Represents(withParent, p)
  BY <1>1, <1>2, <1>3, <1>4, PushPrefixRepresents
<1> HIDE DEF withParent
<1>6. <<byte>> \in ByteString /\ Len(<<byte>>) = 1  BY DEF ByteString
<1>7. HoldsStartOf(<<byte>>, <<byte>>)
  BY <1>6, LesserFacts, PrefixLenAssumption DEF HoldsStartOf
<1>8. withByte \in HeaderType /\ Represents(withByte, p \o <<byte>>)
  BY <1>5, <1>6, <1>7, PushPrefixRepresents
<1> HIDE DEF withByte
<1>9. p \o <<byte>> \in ByteString  BY <1>6 DEF ByteString
<1>10. ReadPrefix(child) \in ByteString /\ HoldsStartOf(ReadPrefix(child), c)
  BY ReadPrefixFacts
<1>11. parent.prefix_len = Len(p) /\ child.prefix_len = Len(c)  BY DEF Represents
<1>12. MergedHeader(parent, byte, child) = PushPrefix(withByte, ReadPrefix(child), Len(c))
  BY <1>11 DEF MergedHeader, withByte, withParent, cleared
<1> QED  BY <1>8, <1>9, <1>10, <1>12, PushPrefixRepresents
-----------------------------------------------------------------------------
(* The conditions on the shape alone. *)
Shape ==
  /\ DOMAIN heap \subseteq PointerType
  /\ \A n \in Inners(heap) : ChildBytes(n) \subseteq Byte
  /\ AddressesAreFresh
  /\ LeavesAreLowest
  /\ ChildrenAreLive
  /\ RoutesToEveryNode

LEMMA PointerFacts ==
  ASSUME NEW p \in PointerType
  PROVE  p.at \in ByteString /\ Len(p.at) \in Nat
BY DEF PointerType, LeafPointer, InnerPointer, ByteString

LEMMA LeafOrInner ==
  ASSUME NEW p \in PointerType
  PROVE  /\ IsLeaf(p) <=> ~IsInner(p)
         /\ IsLeaf(p) <=> p \in LeafPointer
         /\ IsInner(p) <=> p \in InnerPointer
BY DEF PointerType, LeafPointer, InnerPointer, InnerType, IsLeaf, IsInner

(* Two nodes above the same node lie above one another.                    *)
LEMMA AboveCompare ==
  ASSUME NEW m \in PointerType, NEW n \in PointerType, NEW x \in PointerType,
         IsPrefix(m.at, x.at), IsPrefix(n.at, x.at), Len(m.at) <= Len(n.at)
  PROVE  IsPrefix(m.at, n.at)
BY PointerFacts, PrefixesCompare

(* A child is below its parent, in the direction of its byte.              *)
LEMMA ChildFacts ==
  ASSUME Shape, NEW n \in Inners(heap), NEW b \in ChildBytes(n)
  PROVE  /\ Child(n, b) \in DOMAIN heap
         /\ Below(Child(n, b), n)
         /\ ByteTowards(Child(n, b), n) = b
<1>1. Child(n, b) \in DOMAIN heap /\ IsPrefix(Append(n.at, b), Child(n, b).at)
  BY DEF Shape, ChildrenAreLive
<1>2. n \in PointerType /\ Child(n, b) \in PointerType /\ b \in Byte
  BY <1>1 DEF Shape, Inners
<1> QED  BY <1>1, <1>2, PointerFacts, PrefixAppend DEF Below, ByteTowards

(* The direction from n is the same for everything below one of its        *)
(* children.                                                               *)
LEMMA SameDirection ==
  ASSUME NEW n \in PointerType, NEW x \in PointerType, NEW y \in PointerType,
         Below(x, n), IsPrefix(x.at, y.at)
  PROVE  Below(y, n) /\ ByteTowards(y, n) = ByteTowards(x, n)
<1>1. IsPrefix(n.at, y.at)  BY PointerFacts, PrefixTransitive DEF Below
<1>2. Len(n.at) < Len(x.at) /\ Len(x.at) <= Len(y.at) /\ \A i \in 1 .. Len(x.at) : x.at[i] = y.at[i]
  BY PointerFacts, PrefixPointwise DEF Below
<1>3. Len(n.at) + 1 \in 1 .. Len(x.at)  BY <1>2, PointerFacts
<1> QED  BY <1>1, <1>2, <1>3, PointerFacts DEF Below, ByteTowards

(* A node has one parent at most.                                          *)
LEMMA OneParent ==
  ASSUME Shape, NEW m \in Inners(heap), NEW n \in Inners(heap),
         NEW b \in ChildBytes(m), NEW c \in ChildBytes(n), Child(m, b) = Child(n, c)
  PROVE  m = n /\ b = c
<1> DEFINE x == Child(m, b)
<1>1. x \in DOMAIN heap /\ Below(x, m) /\ Below(x, n) /\ ByteTowards(x, m) = b
      /\ ByteTowards(x, n) = c
  BY ChildFacts
<1>2. m \in PointerType /\ n \in PointerType /\ x \in PointerType
      /\ m \in DOMAIN heap /\ n \in DOMAIN heap
  BY <1>1 DEF Shape, Inners
<1> HIDE DEF x
(* The node higher up leads to the lower one through x: no.                *)
<1>3. ASSUME NEW u \in Inners(heap), NEW v \in Inners(heap), NEW a \in ChildBytes(u),
             Child(u, a) = x, Below(x, v), u \in PointerType, v \in PointerType,
             v \in DOMAIN heap, Len(u.at) < Len(v.at)
      PROVE  FALSE
  <2>1. Below(x, u) /\ ByteTowards(x, u) = a  BY <1>3, ChildFacts
  <2>2. IsPrefix(u.at, v.at)  BY <1>2, <1>3, <2>1, AboveCompare, PointerFacts DEF Below
  <2>3. Below(v, u)  BY <1>3, <2>2 DEF Below
  <2>4. ByteTowards(x, u) = ByteTowards(v, u)
    BY <1>2, <1>3, <2>3, SameDirection DEF Below
  <2>5. IsPrefix(Child(u, ByteTowards(v, u)).at, v.at)
    BY <1>3, <2>3 DEF Shape, RoutesToEveryNode
  <2>6. IsPrefix(x.at, v.at)  BY <1>3, <2>1, <2>4, <2>5
  <2> QED  BY <1>2, <1>3, <2>6, PointerFacts, PrefixPointwise DEF Below
<1>4. Len(m.at) \in Nat /\ Len(n.at) \in Nat  BY <1>2, PointerFacts
<1>5. ~(Len(m.at) < Len(n.at))  BY <1>1, <1>2, <1>3 DEF x
<1>6. ~(Len(n.at) < Len(m.at))  BY <1>1, <1>2, <1>3 DEF x
<1>7. m.at = n.at
  <2>1. IsPrefix(m.at, n.at)  BY <1>1, <1>2, <1>4, <1>5, <1>6, AboveCompare DEF Below
  <2> QED  BY <2>1, <1>2, <1>4, <1>5, <1>6, PointerFacts, PrefixSameLength
<1>8. m = n  BY <1>2, <1>7 DEF Shape, AddressesAreFresh
<1> QED  BY <1>1, <1>8
-----------------------------------------------------------------------------
(* The children after a step. *)
NewChild(n, b) == heap'[n].children[b]

(* After a step, the nodes of S have the children they had, except that    *)
(* the pointers to `old' have become pointers to `new': what the           *)
(* write-back to the parent, or to the grandparent, is for.                *)
Redirects(S, old, new) ==
  \A n \in S :
    /\ ChildBytes(n)' = ChildBytes(n)
    /\ \A b \in ChildBytes(n) :
         NewChild(n, b) = IF Child(n, b) = old THEN new ELSE Child(n, b)

RootRedirects(old, new) == root' = IF root = old THEN new ELSE root

(* A key that leaves the path to `node' after `used' bytes, when the       *)
(* search has passed nothing by, is apart from everything stored.          *)
PartsFrom(k, node, used, d) ==
  /\ k \in ByteString /\ node \in DOMAIN heap /\ used \in Nat /\ d \in Nat
  /\ d <= used /\ used < Len(k) /\ used < Len(node.at)
  /\ AgreeOn(k, node.at, used)
  /\ k[used + 1] # node.at[used + 1]
  /\ \A x \in DOMAIN heap : AgreeOn(k, x.at, d) => IsPrefix(node.at, x.at)

LEMMA PartsFromPointwise ==
  ASSUME Shape, NEW k, NEW node, NEW used, NEW d, PartsFrom(k, node, used, d),
         NEW x \in DOMAIN heap, AgreeOn(k, x.at, d)
  PROVE  /\ used < Len(x.at)
         /\ \A i \in 1 .. used : k[i] = x.at[i]
         /\ k[used + 1] # x.at[used + 1]
         /\ node.at[used + 1] = x.at[used + 1]
<1>1. x \in PointerType /\ node \in PointerType  BY DEF Shape, PartsFrom
<1>2. IsPrefix(node.at, x.at)  BY DEF PartsFrom
<1>3. Len(node.at) <= Len(x.at) /\ \A i \in 1 .. Len(node.at) : node.at[i] = x.at[i]
  BY <1>1, <1>2, PointerFacts, PrefixPointwise
<1>4. used \in Nat /\ used < Len(node.at) /\ Len(node.at) \in Nat /\ Len(x.at) \in Nat
  BY <1>1, PointerFacts DEF PartsFrom
<1>5. \A i \in 1 .. used : k[i] = node.at[i]  BY DEF PartsFrom, AgreeOn
<1>6. node.at[used + 1] = x.at[used + 1]  BY <1>3, <1>4
<1>7. \A i \in 1 .. used : k[i] = x.at[i]  BY <1>3, <1>4, <1>5
<1> QED  BY <1>3, <1>4, <1>6, <1>7 DEF PartsFrom

LEMMA KeyIsApart ==
  ASSUME Shape, NEW k, NEW node, NEW used, NEW d, PartsFrom(k, node, used, d),
         NEW x \in DOMAIN heap
  PROVE  /\ ~IsPrefix(k, x.at)
         /\ IsPrefix(x.at, k) => Len(x.at) < d /\ IsPrefix(x.at, node.at) /\ x \notin Leaves(heap)
         /\ IsPrefix(TakeFirst(k, used), x.at) => IsPrefix(node.at, x.at)
         /\ x.at # TakeFirst(k, used) /\ x.at # k
<1>1. /\ x \in PointerType /\ x.at \in ByteString /\ Len(x.at) \in Nat
      /\ node \in PointerType /\ node.at \in ByteString /\ Len(node.at) \in Nat
  BY PointerFacts DEF Shape, PartsFrom
<1>2. /\ k \in ByteString /\ Len(k) \in Nat /\ used \in Nat /\ d \in Nat /\ d <= used
      /\ used < Len(k) /\ used < Len(node.at)
  BY DEF PartsFrom, ByteString
<1> DEFINE t == TakeFirst(k, used)
<1>3. t \in ByteString /\ Len(t) = used /\ \A i \in 1 .. used : t[i] = k[i]
  BY <1>2, TakeFirstFacts
<1> HIDE DEF t
<1>4. ASSUME AgreeOn(k, x.at, d)
      PROVE  ~IsPrefix(k, x.at) /\ ~IsPrefix(x.at, k) /\ x.at # t
  <2>1. used < Len(x.at) /\ k[used + 1] # x.at[used + 1]  BY <1>4, PartsFromPointwise
  <2>2. used + 1 \in 1 .. Len(k) /\ used + 1 \in 1 .. Len(x.at)  BY <2>1, <1>1, <1>2
  <2>3. ~IsPrefix(k, x.at)  BY <2>1, <2>2, <1>1, <1>2, PrefixPointwise
  <2>4. ~IsPrefix(x.at, k)  BY <2>1, <2>2, <1>1, <1>2, PrefixPointwise
  <2> QED  BY <2>1, <2>3, <2>4, <1>1, <1>2, <1>3
<1>5. ASSUME IsPrefix(k, x.at)  PROVE AgreeOn(k, x.at, d)
  BY <1>1, <1>2, <1>5, PrefixPointwise DEF AgreeOn
<1>6. ASSUME IsPrefix(t, x.at)  PROVE AgreeOn(k, x.at, d)
  <2>1. used <= Len(x.at) /\ \A i \in 1 .. used : t[i] = x.at[i]
    BY <1>1, <1>3, <1>6, PrefixPointwise
  <2> QED  BY <2>1, <1>1, <1>2, <1>3 DEF AgreeOn
<1>7. ASSUME IsPrefix(x.at, k)
      PROVE  Len(x.at) < d /\ IsPrefix(x.at, node.at) /\ x \notin Leaves(heap)
  <2>1. Len(x.at) <= Len(k) /\ \A i \in 1 .. Len(x.at) : x.at[i] = k[i]
    BY <1>1, <1>2, <1>7, PrefixPointwise
  <2>2. Len(x.at) < d
    <3>1. SUFFICES ASSUME d <= Len(x.at) PROVE FALSE  BY <1>1, <1>2
    <3>2. AgreeOn(k, x.at, d)  BY <2>1, <3>1, <1>1, <1>2 DEF AgreeOn
    <3> QED  BY <3>2, <1>4, <1>7
  <2>3. \A i \in 1 .. used : k[i] = node.at[i]  BY DEF PartsFrom, AgreeOn
  <2>4. IsPrefix(x.at, node.at)
    <3>1. \A i \in 1 .. Len(x.at) : x.at[i] = node.at[i]  BY <2>1, <2>2, <2>3, <1>1, <1>2
    <3> QED  BY <3>1, <2>2, <1>1, <1>2, PrefixPointwise
  <2>5. x \notin Leaves(heap)
    <3>1. SUFFICES ASSUME x \in Leaves(heap) PROVE FALSE  OBVIOUS
    <3>2. node = x  BY <2>4, <3>1 DEF Shape, LeavesAreLowest, PartsFrom
    <3> QED  BY <3>2, <2>2, <1>1, <1>2
  <2> QED  BY <2>2, <2>4, <2>5
<1>8. x.at # t
  <2>1. x.at = t => IsPrefix(t, x.at)  BY <1>3, PrefixReflexive
  <2> QED  BY <2>1, <1>4, <1>6
<1>9. x.at # k  BY <1>2, <1>4, <1>5, PrefixReflexive
<1> QED  BY <1>4, <1>5, <1>6, <1>7, <1>8, <1>9 DEF t, PartsFrom
-----------------------------------------------------------------------------
(* A new Node4 takes the place of `node' and holds it and the new leaf:    *)
(* InsertAtMismatch and InsertAtLeaf.                                      *)
SplitsAbove(k, node, used, n4, leaf) ==
  /\ n4 \in InnerPointer /\ n4.at = TakeFirst(k, used)
  /\ leaf \in LeafPointer /\ leaf.at = k
  /\ DOMAIN heap' = DOMAIN heap \cup {n4, leaf}
  /\ ChildBytes(n4)' = {node.at[used + 1], k[used + 1]}
  /\ NewChild(n4, node.at[used + 1]) = node
  /\ NewChild(n4, k[used + 1]) = leaf
  /\ Redirects(Inners(heap), node, n4)
  /\ RootRedirects(node, n4)

LEMMA SplitKeepsShape ==
  ASSUME Shape, RootIsAboveAll, ~TearingDown, root # None,
         None \notin PointerType,
         NEW k, NEW node, NEW used, NEW d, PartsFrom(k, node, used, d),
         NEW n4, NEW leaf, SplitsAbove(k, node, used, n4, leaf)
  PROVE  Shape' /\ RootIsAboveAll'
<1> DEFINE nb == node.at[used + 1]
           kb == k[used + 1]
<1>1. /\ node \in DOMAIN heap /\ node \in PointerType
      /\ node.at \in ByteString /\ Len(node.at) \in Nat
      /\ k \in ByteString /\ Len(k) \in Nat
      /\ used \in Nat /\ d \in Nat /\ d <= used /\ used < Len(k) /\ used < Len(node.at)
      /\ nb \in Byte /\ kb \in Byte /\ nb # kb
  BY PointerFacts DEF Shape, PartsFrom, ByteString
<1>2. /\ n4 \in PointerType /\ leaf \in PointerType /\ IsInner(n4) /\ IsLeaf(leaf)
      /\ n4 # leaf /\ ~IsLeaf(n4) /\ ~IsInner(leaf)
  BY LeafOrInner DEF SplitsAbove, PointerType
<1>3. /\ n4.at \in ByteString /\ Len(n4.at) = used /\ leaf.at = k
      /\ n4.at = TakeFirst(k, used)
      /\ \A i \in 1 .. used : n4.at[i] = k[i] /\ n4.at[i] = node.at[i]
  BY <1>1, TakeFirstFacts DEF SplitsAbove, PartsFrom, AgreeOn
<1>4. /\ IsPrefix(n4.at, k) /\ Below(leaf, n4) /\ ByteTowards(leaf, n4) = kb
      /\ IsPrefix(n4.at, node.at) /\ Below(node, n4) /\ ByteTowards(node, n4) = nb
  <2>1. IsPrefix(n4.at, k) /\ IsPrefix(n4.at, node.at)
    <3>1. \A i \in 1 .. Len(n4.at) : n4.at[i] = k[i] /\ n4.at[i] = node.at[i]  BY <1>3
    <3>2. PICK a \in ByteString, b \in ByteString, c \in ByteString :
            a = n4.at /\ b = k /\ c = node.at
      BY <1>1, <1>3
    <3>3. Len(a) <= Len(b) /\ Len(a) <= Len(c)  BY <1>1, <1>3, <3>2
    <3>4. \A i \in 1 .. Len(a) : a[i] = b[i] /\ a[i] = c[i]  BY <3>1, <3>2
    <3>5. IsPrefix(a, b)  BY <3>3, <3>4, PrefixPointwise
    <3>6. IsPrefix(a, c)  BY <3>3, <3>4, PrefixPointwise
    <3> QED  BY <3>2, <3>5, <3>6
  <2>2. Below(leaf, n4) /\ Below(node, n4)  BY <2>1, <1>1, <1>3 DEF Below
  <2>3. ByteTowards(leaf, n4) = kb /\ ByteTowards(node, n4) = nb  BY <1>3 DEF ByteTowards
  <2> QED  BY <2>1, <2>2, <2>3
<1>5. \A x \in DOMAIN heap :
        /\ x \in PointerType /\ x.at \in ByteString /\ Len(x.at) \in Nat
        /\ ~IsPrefix(k, x.at)
        /\ IsPrefix(x.at, k) => Len(x.at) < d /\ IsPrefix(x.at, node.at) /\ x \notin Leaves(heap)
        /\ IsPrefix(n4.at, x.at) => IsPrefix(node.at, x.at)
        /\ x.at # n4.at /\ x.at # k
  BY <1>3, KeyIsApart, PointerFacts DEF Shape
<1>6. n4 \notin DOMAIN heap /\ leaf \notin DOMAIN heap  BY <1>3, <1>5
<1>7. /\ DOMAIN heap' = DOMAIN heap \cup {n4, leaf}
      /\ Inners(heap)' = Inners(heap) \cup {n4}
      /\ Leaves(heap)' = Leaves(heap) \cup {leaf}
  BY <1>2 DEF SplitsAbove, Inners, Leaves
<1>8. /\ ChildBytes(n4)' = {nb, kb}
      /\ NewChild(n4, nb) = node /\ NewChild(n4, kb) = leaf
  BY DEF SplitsAbove
<1>9. \A n \in Inners(heap) : ChildBytes(n)' = ChildBytes(n) /\ ChildBytes(n) \subseteq Byte
  BY DEF SplitsAbove, Redirects, Shape
<1>10. \A n \in Inners(heap) : \A b \in ChildBytes(n) :
         NewChild(n, b) = IF Child(n, b) = node THEN n4 ELSE Child(n, b)
  BY DEF SplitsAbove, Redirects
<1>11. Inners(heap) \subseteq DOMAIN heap  BY DEF Inners
<1> HIDE DEF nb, kb
(* A node above the new key, and so above the place of the split.          *)
<1>12. ASSUME NEW n \in Inners(heap), IsPrefix(n.at, k)
       PROVE  /\ Below(node, n) /\ Below(n4, n) /\ Below(leaf, n)
              /\ ByteTowards(n4, n) = ByteTowards(node, n)
              /\ ByteTowards(leaf, n) = ByteTowards(node, n)
  <2>1. n \in DOMAIN heap /\ Len(n.at) < d /\ IsPrefix(n.at, node.at)
    BY <1>5, <1>11, <1>12
  <2>2. n \in PointerType /\ n.at \in ByteString /\ Len(n.at) \in Nat  BY <1>5, <2>1
  <2>3. Below(node, n)  BY <2>1, <2>2, <1>1 DEF Below
  <2>4. IsPrefix(n.at, n4.at)  BY <2>1, <2>2, <1>1, <1>3, <1>4, PrefixesCompare
  <2>5. Below(n4, n)  BY <2>1, <2>2, <2>4, <1>1, <1>3 DEF Below
  <2> QED  BY <2>2, <2>3, <2>5, <1>1, <1>2, <1>3, <1>4, SameDirection
(* What such a node leads to now is still above the new key.               *)
<1>13. ASSUME NEW n \in Inners(heap), IsPrefix(n.at, k)
       PROVE  /\ ByteTowards(node, n) \in ChildBytes(n)
              /\ IsPrefix(NewChild(n, ByteTowards(node, n)).at, n4.at)
  <2> DEFINE b == ByteTowards(node, n)
             c == Child(n, b)
  <2>1. Below(node, n)  BY <1>12, <1>13
  <2>2. b \in ChildBytes(n) /\ IsPrefix(c.at, node.at)
    BY <2>1, <1>1 DEF Shape, RoutesToEveryNode
  <2>3. NewChild(n, b) = IF c = node THEN n4 ELSE c  BY <2>2, <1>10
  <2>4. CASE c = node  BY <2>2, <2>3, <2>4, <1>3, PrefixReflexive
  <2>5. CASE c # node
    <3>1. c \in DOMAIN heap  BY <2>2, ChildFacts
    <3>2. c.at \in ByteString /\ Len(c.at) \in Nat  BY <3>1, <1>5
    <3>3. ~IsPrefix(node.at, c.at)
      <4>1. IsPrefix(node.at, c.at) => node.at = c.at
        BY <2>2, <3>2, <1>1, PrefixPointwise, PrefixSameLength
      <4> QED  BY <4>1, <2>5, <3>1, <1>1 DEF Shape, AddressesAreFresh
    <3>4. Len(c.at) <= Len(node.at) /\ \A i \in 1 .. Len(c.at) : c.at[i] = node.at[i]
      BY <2>2, <3>2, <1>1, PrefixPointwise
    <3>5. Len(c.at) <= used
      <4>1. SUFFICES ASSUME used < Len(c.at) PROVE FALSE  BY <3>2, <1>1
      <4>2. AgreeOn(k, c.at, d)
        BY <3>2, <3>4, <4>1, <1>1 DEF AgreeOn, PartsFrom
      <4> QED  BY <4>2, <3>1, <3>3 DEF PartsFrom
    <3>6. IsPrefix(c.at, n4.at)  BY <2>2, <3>2, <3>5, <1>1, <1>3, <1>4, PrefixesCompare
    <3> QED  BY <2>2, <2>3, <2>5, <3>6
  <2> QED  BY <2>4, <2>5
<1>14. AddressesAreFresh'
  BY <1>1, <1>3, <1>5, <1>7 DEF Shape, AddressesAreFresh
<1>15. LeavesAreLowest'
  <2>1. ASSUME NEW p \in Leaves(heap), NEW x \in {n4, leaf}, IsPrefix(p.at, x.at)
        PROVE  FALSE
    <3>1. p \in DOMAIN heap  BY DEF Leaves
    <3>2. IsPrefix(p.at, k)  BY <2>1, <3>1, <1>1, <1>3, <1>4, <1>5, PrefixTransitive
    <3> QED  BY <3>1, <3>2, <1>5
  <2>2. ~IsPrefix(leaf.at, n4.at)  BY <1>1, <1>3, PrefixPointwise
  <2>3. \A x \in DOMAIN heap : ~IsPrefix(leaf.at, x.at)  BY <1>3, <1>5
  <2>4. ASSUME NEW p \in Leaves(heap)', NEW x \in DOMAIN heap', IsPrefix(p.at, x.at)
        PROVE  x = p
    BY <2>1, <2>2, <2>3, <2>4, <1>7 DEF Shape, LeavesAreLowest
  <2> QED  BY <2>4 DEF LeavesAreLowest
<1>16. ChildrenAreLive'
  <2>1. ASSUME NEW n \in Inners(heap), NEW b \in ChildBytes(n)
        PROVE  NewChild(n, b) \in DOMAIN heap' /\ IsPrefix(Append(n.at, b), NewChild(n, b).at)
    <3>1. /\ Child(n, b) \in DOMAIN heap /\ IsPrefix(Append(n.at, b), Child(n, b).at)
          /\ Below(Child(n, b), n) /\ ByteTowards(Child(n, b), n) = b
      BY ChildFacts DEF Shape, ChildrenAreLive
    <3>2. CASE Child(n, b) # node  BY <3>1, <3>2, <1>7, <1>10
    <3>3. CASE Child(n, b) = node
      <4>1. NewChild(n, b) = n4  BY <3>3, <1>10
      <4>2. n \in DOMAIN heap /\ n.at \in ByteString /\ Len(n.at) \in Nat /\ b \in Byte
        BY <1>5, <1>9, <1>11
      <4>3. IsPrefix(n.at, node.at) /\ Len(n.at) < Len(node.at)  BY <3>1, <3>3 DEF Below
      <4>4. \A i \in 1 .. Len(n.at) : n.at[i] = node.at[i]
        BY <4>2, <4>3, <1>1, PrefixPointwise
      <4>5. Len(n.at) < d
        <5>1. SUFFICES ASSUME d <= Len(n.at) PROVE FALSE  BY <4>2, <1>1
        <5>2. AgreeOn(k, n.at, d)  BY <4>2, <4>4, <5>1, <1>1 DEF AgreeOn, PartsFrom
        <5>3. IsPrefix(node.at, n.at)  BY <5>2, <4>2 DEF PartsFrom
        <5> QED  BY <5>3, <4>2, <4>3, <1>1, PrefixPointwise
      <4>6. IsPrefix(n.at, n4.at)  BY <4>2, <4>3, <4>5, <1>1, <1>3, <1>4, PrefixesCompare
      <4>7. IsPrefix(n.at, k)  BY <4>2, <4>6, <1>1, <1>3, <1>4, PrefixTransitive
      <4>8. Below(n4, n) /\ ByteTowards(n4, n) = b  BY <4>7, <3>1, <3>3, <1>12
      <4>9. IsPrefix(Append(n.at, b), n4.at)
        BY <4>2, <4>8, <1>3, PrefixAppend DEF Below, ByteTowards
      <4> QED  BY <4>1, <4>9, <1>7
    <3> QED  BY <3>2, <3>3
  <2>2. IsPrefix(Append(n4.at, nb), node.at) /\ IsPrefix(Append(n4.at, kb), leaf.at)
    BY <1>1, <1>3, <1>4, PrefixAppend DEF Below, ByteTowards
  <2>3. ASSUME NEW n \in Inners(heap)', NEW b \in ChildBytes(n)'
        PROVE  NewChild(n, b) \in DOMAIN heap' /\ IsPrefix(Append(n.at, b), NewChild(n, b).at)
    <3>1. CASE n = n4  BY <3>1, <2>2, <2>3, <1>1, <1>7, <1>8
    <3>2. CASE n # n4
      <4>1. n \in Inners(heap) /\ b \in ChildBytes(n)  BY <3>2, <2>3, <1>7, <1>9
      <4> QED  BY <4>1, <2>1
    <3> QED  BY <3>1, <3>2
  <2> QED  BY <2>3 DEF ChildrenAreLive, NewChild, Child
<1>17. RoutesToEveryNode'
  <2>1. ASSUME NEW n \in Inners(heap), NEW x \in DOMAIN heap, Below(x, n)
        PROVE  /\ ByteTowards(x, n) \in ChildBytes(n)'
               /\ IsPrefix(NewChild(n, ByteTowards(x, n)).at, x.at)
    <3> DEFINE b == ByteTowards(x, n)
    <3>1. b \in ChildBytes(n) /\ IsPrefix(Child(n, b).at, x.at)
      BY <2>1 DEF Shape, RoutesToEveryNode
    <3>2. CASE Child(n, b) # node  BY <3>1, <3>2, <1>9, <1>10
    <3>3. CASE Child(n, b) = node
      <4>1. IsPrefix(n4.at, x.at)  BY <3>1, <3>3, <1>1, <1>3, <1>4, <1>5, PrefixTransitive
      <4> QED  BY <4>1, <3>1, <3>3, <1>9, <1>10
    <3> QED  BY <3>2, <3>3
  <2>2. ASSUME NEW n \in Inners(heap), NEW x \in {n4, leaf}, Below(x, n)
        PROVE  /\ ByteTowards(x, n) \in ChildBytes(n)'
               /\ IsPrefix(NewChild(n, ByteTowards(x, n)).at, x.at)
    <3>1. n \in DOMAIN heap /\ n.at \in ByteString  BY <1>5, <1>11
    <3>2. IsPrefix(n.at, k)
      BY <2>2, <3>1, <1>1, <1>3, <1>4, PrefixTransitive DEF Below
    <3>3. ByteTowards(x, n) = ByteTowards(node, n)  BY <2>2, <3>2, <1>12
    <3> DEFINE b == ByteTowards(node, n)
    <3>4. b \in ChildBytes(n) /\ IsPrefix(NewChild(n, b).at, n4.at)  BY <3>2, <1>13
    <3>5. NewChild(n, b).at \in ByteString
      <4>1. Child(n, b) \in DOMAIN heap  BY <3>4, ChildFacts
      <4> QED  BY <4>1, <3>4, <1>3, <1>5, <1>10
    <3>6. IsPrefix(NewChild(n, b).at, x.at)
      BY <2>2, <3>4, <3>5, <1>1, <1>3, <1>4, PrefixTransitive
    <3> QED  BY <3>3, <3>4, <3>6, <1>9
  <2>3. ASSUME NEW x \in DOMAIN heap', Below(x, n4)
        PROVE  /\ ByteTowards(x, n4) \in ChildBytes(n4)'
               /\ IsPrefix(NewChild(n4, ByteTowards(x, n4)).at, x.at)
    <3>1. x # n4  BY <2>3, <1>3, <1>1 DEF Below
    <3>2. CASE x = leaf  BY <3>2, <1>1, <1>3, <1>4, <1>8, PrefixReflexive
    <3>3. CASE x \in DOMAIN heap
      <4>1. IsPrefix(node.at, x.at)  BY <2>3, <3>3, <1>5 DEF Below
      <4>2. ByteTowards(x, n4) = nb  BY <4>1, <3>3, <1>1, <1>2, <1>4, <1>5, SameDirection
      <4> QED  BY <4>1, <4>2, <1>8
    <3> QED  BY <3>1, <3>2, <3>3, <1>7
  <2>4. ASSUME NEW n \in Inners(heap)', NEW x \in DOMAIN heap', Below(x, n)
        PROVE  /\ ByteTowards(x, n) \in ChildBytes(n)'
               /\ IsPrefix(NewChild(n, ByteTowards(x, n)).at, x.at)
    BY <2>1, <2>2, <2>3, <2>4, <1>7
  <2> QED  BY <2>4 DEF RoutesToEveryNode, NewChild, Child, Below, ByteTowards
<1>18. \A n \in Inners(heap)' : ChildBytes(n)' \subseteq Byte
  BY <1>1, <1>7, <1>8, <1>9
<1>19. DOMAIN heap' \subseteq PointerType  BY <1>2, <1>7 DEF Shape
<1>20. Shape'
  BY <1>14, <1>15, <1>16, <1>17, <1>18, <1>19 DEF Shape
<1>21. RootIsAboveAll'
  <2>1. root \in DOMAIN heap /\ \A x \in DOMAIN heap : IsPrefix(root.at, x.at)
    BY DEF RootIsAboveAll
  <2>2. root' # None /\ root' \in DOMAIN heap'
    BY <2>1, <1>2, <1>7, <1>19 DEF SplitsAbove, RootRedirects
  <2>3. \A x \in DOMAIN heap' : IsPrefix(root'.at, x.at)
    <3>1. CASE root = node
      <4>1. root' = n4  BY <3>1 DEF SplitsAbove, RootRedirects
      <4>2. \A x \in DOMAIN heap : IsPrefix(n4.at, x.at)
        BY <3>1, <2>1, <1>1, <1>3, <1>4, <1>5, PrefixTransitive
      <4> QED  BY <4>1, <4>2, <1>3, <1>4, <1>7, PrefixReflexive
    <3>2. CASE root # node
      <4>1. root' = root  BY <3>2 DEF SplitsAbove, RootRedirects
      <4>2. root.at \in ByteString /\ Len(root.at) \in Nat /\ IsPrefix(root.at, node.at)
        BY <2>1, <1>1, <1>5
      <4>3. Len(root.at) <= Len(node.at) /\ \A i \in 1 .. Len(root.at) : root.at[i] = node.at[i]
        BY <4>2, <1>1, PrefixPointwise
      <4>4. Len(root.at) < d
        <5>1. SUFFICES ASSUME d <= Len(root.at) PROVE FALSE  BY <4>2, <1>1
        <5>2. AgreeOn(k, root.at, d)
          BY <4>2, <4>3, <5>1, <1>1 DEF AgreeOn, PartsFrom
        <5>3. IsPrefix(node.at, root.at)  BY <5>2, <2>1 DEF PartsFrom
        <5>4. node.at = root.at  BY <5>3, <4>2, <4>3, <1>1, PrefixPointwise, PrefixSameLength
        <5> QED  BY <5>4, <3>2, <2>1, <1>1 DEF Shape, AddressesAreFresh
      <4>5. IsPrefix(root.at, n4.at)  BY <4>2, <4>4, <1>1, <1>3, <1>4, PrefixesCompare
      <4>6. IsPrefix(root.at, k)  BY <4>2, <4>5, <1>1, <1>3, <1>4, PrefixTransitive
      <4> QED  BY <4>1, <4>5, <4>6, <2>1, <1>3, <1>7
    <3> QED  BY <3>1, <3>2
  <2> QED  BY <2>2, <2>3, <1>7 DEF RootIsAboveAll
<1> QED  BY <1>20, <1>21
-----------------------------------------------------------------------------
(* A key whose next byte is missing among the children of `node'.          *)
BranchesOff(k, node) ==
  /\ k \in ByteString /\ node \in Inners(heap)
  /\ IsPrefix(node.at, k) /\ Len(node.at) < Len(k)
  /\ k[Len(node.at) + 1] \notin ChildBytes(node)

LEMMA BranchIsApart ==
  ASSUME Shape, NEW k, NEW node, BranchesOff(k, node), NEW x \in DOMAIN heap
  PROVE  /\ ~IsPrefix(k, x.at) /\ x.at # k
         /\ IsPrefix(x.at, k) => IsPrefix(x.at, node.at) /\ x \notin Leaves(heap)
<1>1. /\ x \in PointerType /\ x.at \in ByteString /\ Len(x.at) \in Nat
      /\ node \in DOMAIN heap /\ node \in PointerType /\ IsInner(node)
      /\ node.at \in ByteString /\ Len(node.at) \in Nat
      /\ k \in ByteString /\ Len(k) \in Nat
  BY PointerFacts DEF Shape, BranchesOff, Inners, ByteString
<1>2. /\ IsPrefix(node.at, k) /\ Len(node.at) < Len(k)
      /\ \A i \in 1 .. Len(node.at) : node.at[i] = k[i]
  BY <1>1, PrefixPointwise DEF BranchesOff
(* Nothing that runs with the key lies below the node. *)
<1>3. ASSUME Len(node.at) < Len(x.at), \A i \in 1 .. Len(node.at) + 1 : x.at[i] = k[i]
      PROVE  FALSE
  <2>1. IsPrefix(node.at, x.at)
    <3>1. \A i \in 1 .. Len(node.at) : node.at[i] = x.at[i]  BY <1>1, <1>2, <1>3
    <3> QED  BY <3>1, <1>1, <1>3, PrefixPointwise
  <2>2. Below(x, node)  BY <2>1, <1>3 DEF Below
  <2>3. ByteTowards(x, node) \in ChildBytes(node)
    BY <2>2, <1>1 DEF Shape, RoutesToEveryNode, BranchesOff
  <2>4. ByteTowards(x, node) = k[Len(node.at) + 1]  BY <1>1, <1>3 DEF ByteTowards
  <2> QED  BY <2>3, <2>4 DEF BranchesOff
<1>4. ASSUME IsPrefix(k, x.at)  PROVE FALSE
  <2>1. Len(k) <= Len(x.at) /\ \A i \in 1 .. Len(k) : k[i] = x.at[i]
    BY <1>1, <1>4, PrefixPointwise
  <2>2. Len(node.at) < Len(x.at) /\ \A i \in 1 .. Len(node.at) + 1 : x.at[i] = k[i]
    BY <2>1, <1>1, <1>2
  <2> QED  BY <2>2, <1>3
<1>5. ASSUME IsPrefix(x.at, k)
      PROVE  IsPrefix(x.at, node.at) /\ x \notin Leaves(heap)
  <2>1. Len(x.at) <= Len(k) /\ \A i \in 1 .. Len(x.at) : x.at[i] = k[i]
    BY <1>1, <1>5, PrefixPointwise
  <2>2. ~(Len(node.at) < Len(x.at))
    <3>1. SUFFICES ASSUME Len(node.at) < Len(x.at) PROVE FALSE  OBVIOUS
    <3>2. \A i \in 1 .. Len(node.at) + 1 : x.at[i] = k[i]  BY <2>1, <3>1, <1>1
    <3> QED  BY <3>1, <3>2, <1>3
  <2>3. IsPrefix(x.at, node.at)  BY <2>2, <1>1, <1>2, <1>5, PrefixesCompare
  <2>4. x \in Leaves(heap) => x = node  BY <2>3, <1>1 DEF Shape, LeavesAreLowest
  <2>5. node \notin Leaves(heap)  BY <1>1, LeafOrInner DEF Leaves
  <2> QED  BY <2>3, <2>4, <2>5
<1>6. x.at # k  BY <1>1, <1>4, PrefixReflexive
<1> QED  BY <1>4, <1>5, <1>6

(* `new', at the place of `node', has the children of `node' and the new   *)
(* leaf: InsertIntoNode and InsertIntoGrownNode.                           *)
AddsLeaf(k, node, new, leaf) ==
  /\ new \in InnerPointer /\ new.at = node.at
  /\ leaf \in LeafPointer /\ leaf.at = k
  /\ DOMAIN heap' = (DOMAIN heap \ {node}) \cup {new, leaf}
  /\ ChildBytes(new)' = ChildBytes(node) \cup {k[Len(node.at) + 1]}
  /\ NewChild(new, k[Len(node.at) + 1]) = leaf
  /\ \A b \in ChildBytes(node) : NewChild(new, b) = Child(node, b)
  /\ Redirects(Inners(heap) \ {node}, node, new)
  /\ RootRedirects(node, new)

LEMMA AddKeepsShape ==
  ASSUME Shape, RootIsAboveAll, ~TearingDown, root # None, None \notin PointerType,
         NEW k, NEW node, BranchesOff(k, node),
         NEW new, NEW leaf, AddsLeaf(k, node, new, leaf)
  PROVE  Shape' /\ RootIsAboveAll'
<1> DEFINE kb == k[Len(node.at) + 1]
<1>1. /\ node \in DOMAIN heap /\ node \in Inners(heap) /\ node \in PointerType /\ IsInner(node)
      /\ node.at \in ByteString /\ Len(node.at) \in Nat
      /\ k \in ByteString /\ Len(k) \in Nat /\ Len(node.at) < Len(k)
      /\ IsPrefix(node.at, k) /\ kb \in Byte /\ kb \notin ChildBytes(node)
  BY PointerFacts DEF Shape, BranchesOff, Inners, ByteString
<1>2. /\ new \in PointerType /\ leaf \in PointerType /\ IsInner(new) /\ IsLeaf(leaf)
      /\ new # leaf /\ ~IsLeaf(new) /\ ~IsInner(leaf)
      /\ new.at = node.at /\ leaf.at = k
  BY LeafOrInner DEF AddsLeaf, PointerType
<1>3. Below(leaf, node) /\ ByteTowards(leaf, node) = kb
  BY <1>1, <1>2 DEF Below, ByteTowards
<1>4. \A x \in DOMAIN heap :
        /\ x \in PointerType /\ x.at \in ByteString /\ Len(x.at) \in Nat
        /\ ~IsPrefix(k, x.at) /\ x.at # k
        /\ IsPrefix(x.at, k) => IsPrefix(x.at, node.at) /\ x \notin Leaves(heap)
  BY BranchIsApart, PointerFacts DEF Shape
<1>5. leaf \notin DOMAIN heap /\ (new \in DOMAIN heap => new = node)
  BY <1>1, <1>2, <1>4 DEF Shape, AddressesAreFresh
<1> DEFINE Rest == DOMAIN heap \ {node}
           InnerRest == Inners(heap) \ {node}
<1>6. /\ DOMAIN heap' = Rest \cup {new, leaf}
      /\ Inners(heap)' = InnerRest \cup {new}
      /\ Leaves(heap)' = Leaves(heap) \cup {leaf}
      /\ node \notin Leaves(heap)
  BY <1>1, <1>2, LeafOrInner DEF AddsLeaf, Inners, Leaves
<1>7. /\ ChildBytes(new)' = ChildBytes(node) \cup {kb}
      /\ NewChild(new, kb) = leaf
      /\ \A b \in ChildBytes(node) : NewChild(new, b) = Child(node, b)
  BY DEF AddsLeaf
<1>8. \A n \in InnerRest : ChildBytes(n)' = ChildBytes(n)
  BY DEF AddsLeaf, Redirects
<1>9. \A n \in InnerRest : \A b \in ChildBytes(n) :
        NewChild(n, b) = IF Child(n, b) = node THEN new ELSE Child(n, b)
  BY DEF AddsLeaf, Redirects
<1>10. /\ Inners(heap) \subseteq DOMAIN heap /\ InnerRest \subseteq Rest
       /\ \A n \in Inners(heap) : ChildBytes(n) \subseteq Byte
  BY DEF Inners, Shape
<1>11. \A n \in Inners(heap) : \A b \in ChildBytes(n) :
         Child(n, b) \in DOMAIN heap /\ IsPrefix(Append(n.at, b), Child(n, b).at)
  BY DEF Shape, ChildrenAreLive
<1>12. \A n \in Inners(heap), x \in DOMAIN heap : Below(x, n) =>
         ByteTowards(x, n) \in ChildBytes(n) /\ IsPrefix(Child(n, ByteTowards(x, n)).at, x.at)
  BY DEF Shape, RoutesToEveryNode
<1>13. \A b \in ChildBytes(node) : Child(node, b) # node
  BY <1>1, ChildFacts DEF Below
(* Old children, seen after the step, are at the addresses they were at.   *)
<1>14. \A n \in InnerRest : \A b \in ChildBytes(n) : NewChild(n, b).at = Child(n, b).at
  BY <1>2, <1>9
<1> HIDE DEF kb, Rest, InnerRest
<1>15. AddressesAreFresh'
  <2>1. \A p, q \in Rest : p.at = q.at => p = q  BY DEF Shape, AddressesAreFresh, Rest
  <2>2. \A p \in Rest : p.at # new.at  BY <1>1, <1>2 DEF Shape, AddressesAreFresh, Rest
  <2>3. \A p \in Rest : p.at # leaf.at  BY <1>2, <1>4 DEF Rest
  <2>4. new.at # leaf.at  BY <1>1, <1>2
  <2> QED  BY <2>1, <2>2, <2>3, <2>4, <1>6 DEF AddressesAreFresh
<1>16. LeavesAreLowest'
  <2>1. ASSUME NEW p \in Leaves(heap), NEW x \in {new, leaf}, IsPrefix(p.at, x.at)
        PROVE  FALSE
    <3>1. p \in DOMAIN heap  BY DEF Leaves
    <3>2. IsPrefix(p.at, k)  BY <2>1, <3>1, <1>1, <1>2, <1>4, PrefixTransitive
    <3> QED  BY <3>1, <3>2, <1>4
  <2>2. ~IsPrefix(leaf.at, new.at)  BY <1>1, <1>2, PrefixPointwise
  <2>3. \A x \in Rest : ~IsPrefix(leaf.at, x.at)  BY <1>2, <1>4 DEF Rest
  <2>4. ASSUME NEW p \in Leaves(heap)', NEW x \in DOMAIN heap', IsPrefix(p.at, x.at)
        PROVE  x = p
    <3>1. CASE p = leaf  BY <3>1, <2>2, <2>3, <2>4, <1>6
    <3>2. CASE p \in Leaves(heap)
      <4>1. x \in Rest  BY <3>2, <2>1, <2>4, <1>6
      <4> QED  BY <4>1, <3>2, <2>4 DEF Shape, LeavesAreLowest, Rest
    <3> QED  BY <3>1, <3>2, <2>4, <1>6
  <2> QED  BY <2>4 DEF LeavesAreLowest
<1>17. ChildrenAreLive'
  <2>1. ASSUME NEW n \in InnerRest, NEW b \in ChildBytes(n)
        PROVE  NewChild(n, b) \in DOMAIN heap' /\ IsPrefix(Append(n.at, b), NewChild(n, b).at)
    BY <1>6, <1>9, <1>11, <1>14 DEF Rest, InnerRest
  <2>2. ASSUME NEW b \in ChildBytes(node)
        PROVE  NewChild(new, b) \in DOMAIN heap' /\ IsPrefix(Append(new.at, b), NewChild(new, b).at)
    BY <1>1, <1>2, <1>6, <1>7, <1>11, <1>13 DEF Rest
  <2>3. NewChild(new, kb) \in DOMAIN heap' /\ IsPrefix(Append(new.at, kb), NewChild(new, kb).at)
    <3>1. IsPrefix(Append(node.at, kb), k)  BY <1>1, PrefixAppend DEF kb
    <3> QED  BY <3>1, <1>2, <1>6, <1>7
  <2>4. ASSUME NEW n \in Inners(heap)', NEW b \in ChildBytes(n)'
        PROVE  NewChild(n, b) \in DOMAIN heap' /\ IsPrefix(Append(n.at, b), NewChild(n, b).at)
    <3>1. CASE n = new  BY <3>1, <2>2, <2>3, <2>4, <1>7
    <3>2. CASE n \in InnerRest  BY <3>2, <2>1, <2>4, <1>8
    <3> QED  BY <3>1, <3>2, <2>4, <1>6
  <2> QED  BY <2>4 DEF ChildrenAreLive, NewChild, Child
<1>18. RoutesToEveryNode'
  <2>1. ASSUME NEW n \in InnerRest, NEW x \in DOMAIN heap, Below(x, n)
        PROVE  /\ ByteTowards(x, n) \in ChildBytes(n)'
               /\ IsPrefix(NewChild(n, ByteTowards(x, n)).at, x.at)
    BY <2>1, <1>8, <1>12, <1>14 DEF InnerRest
  <2>2. ASSUME NEW n \in InnerRest, Below(new, n)
        PROVE  /\ ByteTowards(new, n) \in ChildBytes(n)'
               /\ IsPrefix(NewChild(n, ByteTowards(new, n)).at, new.at)
    <3>1. Below(node, n) /\ ByteTowards(node, n) = ByteTowards(new, n)
      BY <2>2, <1>2 DEF Below, ByteTowards
    <3> QED  BY <3>1, <2>1, <1>1, <1>2
  <2>3. ASSUME NEW n \in InnerRest, Below(leaf, n)
        PROVE  /\ ByteTowards(leaf, n) \in ChildBytes(n)'
               /\ IsPrefix(NewChild(n, ByteTowards(leaf, n)).at, leaf.at)
    <3>1. n \in DOMAIN heap /\ n # node /\ n \in Inners(heap)  BY <1>10 DEF InnerRest
    <3>2. IsPrefix(n.at, k)  BY <2>3, <1>2 DEF Below
    <3>3. IsPrefix(n.at, node.at)  BY <3>1, <3>2, <1>4
    <3>4. n.at # node.at  BY <3>1, <1>1 DEF Shape, AddressesAreFresh
    <3>5. Below(node, n)
      <4>1. ~(Len(node.at) <= Len(n.at))
        BY <3>1, <3>3, <3>4, <1>1, <1>4, PrefixSameLength
      <4> QED  BY <4>1, <3>1, <3>3, <1>1, <1>4 DEF Below
    <3>6. ByteTowards(leaf, n) = ByteTowards(node, n)
      BY <3>1, <3>5, <1>1, <1>2, <1>4, SameDirection
    <3> DEFINE b == ByteTowards(node, n)
    <3>7. b \in ChildBytes(n) /\ IsPrefix(Child(n, b).at, node.at) /\ Child(n, b) \in DOMAIN heap
      BY <3>1, <3>5, <1>1, <1>11, <1>12
    <3>8. IsPrefix(Child(n, b).at, k)  BY <3>7, <1>1, <1>4, PrefixTransitive
    <3> QED  BY <3>6, <3>7, <3>8, <1>2, <1>8, <1>14
  <2>4. ASSUME NEW x \in DOMAIN heap', Below(x, new)
        PROVE  /\ ByteTowards(x, new) \in ChildBytes(new)'
               /\ IsPrefix(NewChild(new, ByteTowards(x, new)).at, x.at)
    <3>1. Below(x, node) /\ ByteTowards(x, new) = ByteTowards(x, node)
      BY <2>4, <1>2 DEF Below, ByteTowards
    <3>2. CASE x = leaf  BY <3>1, <3>2, <1>1, <1>2, <1>3, <1>7, PrefixReflexive
    <3>3. CASE x \in Rest  BY <3>1, <3>3, <1>1, <1>7, <1>12 DEF Rest
    <3>4. x # new  BY <2>4, <1>1, <1>2 DEF Below
    <3> QED  BY <3>2, <3>3, <3>4, <1>6
  <2>5. ASSUME NEW n \in Inners(heap)', NEW x \in DOMAIN heap', Below(x, n)
        PROVE  /\ ByteTowards(x, n) \in ChildBytes(n)'
               /\ IsPrefix(NewChild(n, ByteTowards(x, n)).at, x.at)
    BY <2>1, <2>2, <2>3, <2>4, <2>5, <1>6 DEF Rest
  <2> QED  BY <2>5 DEF RoutesToEveryNode, NewChild, Child, Below, ByteTowards
<1>19. \A n \in Inners(heap)' : ChildBytes(n)' \subseteq Byte
  BY <1>1, <1>6, <1>7, <1>8, <1>10 DEF InnerRest
<1>20. DOMAIN heap' \subseteq PointerType  BY <1>2, <1>6 DEF Shape, Rest
<1>21. Shape'  BY <1>15, <1>16, <1>17, <1>18, <1>19, <1>20 DEF Shape
<1>22. RootIsAboveAll'
  <2>1. root \in DOMAIN heap /\ \A x \in DOMAIN heap : IsPrefix(root.at, x.at)
    BY DEF RootIsAboveAll
  <2>2. root' # None /\ root' \in DOMAIN heap' /\ root'.at = root.at
    BY <2>1, <1>2, <1>6, <1>20 DEF AddsLeaf, RootRedirects, Rest
  <2>3. IsPrefix(root.at, new.at) /\ IsPrefix(root.at, leaf.at)
    BY <2>1, <1>1, <1>2, <1>4, PrefixTransitive
  <2> QED  BY <2>1, <2>2, <2>3, <1>6 DEF RootIsAboveAll, Rest
<1> QED  BY <1>21, <1>22
-----------------------------------------------------------------------------
(* A leaf goes away, and `new', at the place of its parent, has the other  *)
(* children: DeleteInPlace and DeleteAndShrink.                            *)
RemovesLeaf(par, byte, new) ==
  /\ par \in Inners(heap) /\ byte \in ChildBytes(par) /\ Child(par, byte) \in Leaves(heap)
  /\ new \in InnerPointer /\ new.at = par.at
  /\ DOMAIN heap' = (DOMAIN heap \ {par, Child(par, byte)}) \cup {new}
  /\ ChildBytes(new)' = ChildBytes(par) \ {byte}
  /\ \A b \in ChildBytes(par) \ {byte} : NewChild(new, b) = Child(par, b)
  /\ Redirects(Inners(heap) \ {par}, par, new)
  /\ RootRedirects(par, new)

LEMMA RemoveKeepsShape ==
  ASSUME Shape, RootIsAboveAll, ~TearingDown, root # None, None \notin PointerType,
         NEW par, NEW byte, NEW new, RemovesLeaf(par, byte, new)
  PROVE  Shape' /\ RootIsAboveAll'
<1> DEFINE leaf == Child(par, byte)
           Rest == DOMAIN heap \ {par, leaf}
           InnerRest == Inners(heap) \ {par}
           LeafRest == Leaves(heap) \ {leaf}
<1>1. /\ par \in Inners(heap) /\ par \in DOMAIN heap /\ par \in PointerType /\ IsInner(par)
      /\ byte \in ChildBytes(par)
      /\ leaf \in Leaves(heap) /\ leaf \in DOMAIN heap /\ IsLeaf(leaf)
      /\ Below(leaf, par) /\ ByteTowards(leaf, par) = byte
  BY ChildFacts DEF RemovesLeaf, Shape, Inners, Leaves
<1>2. new \in PointerType /\ IsInner(new) /\ ~IsLeaf(new) /\ new.at = par.at
  BY LeafOrInner DEF RemovesLeaf, PointerType
<1>3. \A x \in DOMAIN heap : x \in PointerType /\ x.at \in ByteString /\ Len(x.at) \in Nat
  BY PointerFacts DEF Shape
<1>4. new \in DOMAIN heap => new = par  BY <1>1, <1>2 DEF Shape, AddressesAreFresh
<1>5. leaf # par /\ leaf # new /\ ~IsInner(leaf)
  BY <1>1, <1>2, <1>3, LeafOrInner
<1> HIDE DEF leaf
<1>6. /\ DOMAIN heap' = Rest \cup {new}
      /\ Inners(heap)' = InnerRest \cup {new}
      /\ Leaves(heap)' = LeafRest
  BY <1>1, <1>2, <1>3, <1>5, LeafOrInner DEF RemovesLeaf, Inners, Leaves, leaf
<1>7. /\ ChildBytes(new)' = ChildBytes(par) \ {byte}
      /\ \A b \in ChildBytes(par) \ {byte} : NewChild(new, b) = Child(par, b)
      /\ \A n \in InnerRest : ChildBytes(n)' = ChildBytes(n)
      /\ \A n \in InnerRest : \A b \in ChildBytes(n) :
           NewChild(n, b) = IF Child(n, b) = par THEN new ELSE Child(n, b)
  BY DEF RemovesLeaf, Redirects
<1>8. /\ InnerRest \subseteq DOMAIN heap /\ par \notin InnerRest /\ InnerRest \subseteq Inners(heap)
      /\ InnerRest \subseteq Rest
      /\ \A n \in Inners(heap) : ChildBytes(n) \subseteq Byte
  BY <1>5 DEF Inners, Shape
<1>9. \A n \in Inners(heap) : \A b \in ChildBytes(n) :
        Child(n, b) \in DOMAIN heap /\ IsPrefix(Append(n.at, b), Child(n, b).at)
  BY DEF Shape, ChildrenAreLive
<1>10. \A n \in Inners(heap), x \in DOMAIN heap : Below(x, n) =>
         ByteTowards(x, n) \in ChildBytes(n) /\ IsPrefix(Child(n, ByteTowards(x, n)).at, x.at)
  BY DEF Shape, RoutesToEveryNode
(* The leaf had one parent, and nothing below it.                          *)
<1>11. \A n \in InnerRest : \A b \in ChildBytes(n) : Child(n, b) # leaf
  BY <1>1, <1>8, OneParent DEF leaf
<1>12. \A b \in ChildBytes(par) \ {byte} : Child(par, b) # leaf
  BY <1>1, OneParent DEF leaf
<1>13. \A b \in ChildBytes(par) : Child(par, b) # par
  BY <1>1, <1>3, ChildFacts DEF Below
<1>14. \A x \in Rest : ~IsPrefix(leaf.at, x.at)
  BY <1>1 DEF Shape, LeavesAreLowest
<1> HIDE DEF Rest, InnerRest, LeafRest
<1>15. \A n \in InnerRest : \A b \in ChildBytes(n) : NewChild(n, b).at = Child(n, b).at
  BY <1>2, <1>7
<1>16. AddressesAreFresh'
  <2>1. \A p, q \in Rest : p.at = q.at => p = q  BY DEF Shape, AddressesAreFresh, Rest
  <2>2. \A p \in Rest : p.at # new.at  BY <1>1, <1>2 DEF Shape, AddressesAreFresh, Rest
  <2> QED  BY <2>1, <2>2, <1>6 DEF AddressesAreFresh
<1>17. LeavesAreLowest'
  <2>1. ASSUME NEW p \in Leaves(heap), IsPrefix(p.at, new.at)  PROVE FALSE
    <3>1. p = par  BY <2>1, <1>1, <1>2 DEF Shape, LeavesAreLowest
    <3> QED  BY <3>1, <1>1, <1>3, LeafOrInner DEF Leaves
  <2> QED  BY <2>1, <1>6 DEF Shape, LeavesAreLowest, Rest, LeafRest
<1>18. ChildrenAreLive'
  <2>1. ASSUME NEW n \in InnerRest, NEW b \in ChildBytes(n)
        PROVE  NewChild(n, b) \in DOMAIN heap' /\ IsPrefix(Append(n.at, b), NewChild(n, b).at)
    BY <1>6, <1>7, <1>8, <1>9, <1>11, <1>15 DEF Rest
  <2>2. ASSUME NEW b \in ChildBytes(par) \ {byte}
        PROVE  NewChild(new, b) \in DOMAIN heap' /\ IsPrefix(Append(new.at, b), NewChild(new, b).at)
    BY <1>1, <1>2, <1>6, <1>7, <1>9, <1>12, <1>13 DEF Rest
  <2>3. ASSUME NEW n \in Inners(heap)', NEW b \in ChildBytes(n)'
        PROVE  NewChild(n, b) \in DOMAIN heap' /\ IsPrefix(Append(n.at, b), NewChild(n, b).at)
    <3>1. CASE n = new  BY <3>1, <2>2, <2>3, <1>7
    <3>2. CASE n \in InnerRest  BY <3>2, <2>1, <2>3, <1>7
    <3> QED  BY <3>1, <3>2, <2>3, <1>6
  <2> QED  BY <2>3 DEF ChildrenAreLive, NewChild, Child
<1>19. RoutesToEveryNode'
  <2>1. ASSUME NEW n \in InnerRest, NEW x \in DOMAIN heap, Below(x, n)
        PROVE  /\ ByteTowards(x, n) \in ChildBytes(n)'
               /\ IsPrefix(NewChild(n, ByteTowards(x, n)).at, x.at)
    BY <2>1, <1>7, <1>8, <1>10, <1>15
  <2>2. ASSUME NEW n \in InnerRest, Below(new, n)
        PROVE  /\ ByteTowards(new, n) \in ChildBytes(n)'
               /\ IsPrefix(NewChild(n, ByteTowards(new, n)).at, new.at)
    <3>1. Below(par, n) /\ ByteTowards(par, n) = ByteTowards(new, n)
      BY <2>2, <1>2 DEF Below, ByteTowards
    <3> QED  BY <3>1, <2>1, <1>1, <1>2
  <2>3. ASSUME NEW x \in DOMAIN heap', Below(x, new)
        PROVE  /\ ByteTowards(x, new) \in ChildBytes(new)'
               /\ IsPrefix(NewChild(new, ByteTowards(x, new)).at, x.at)
    <3>1. Below(x, par) /\ ByteTowards(x, new) = ByteTowards(x, par)
      BY <2>3, <1>2 DEF Below, ByteTowards
    <3>2. x # new  BY <2>3, <1>1, <1>2, <1>3 DEF Below
    <3>3. x \in Rest /\ x \in DOMAIN heap  BY <3>2, <1>6 DEF Rest
    <3>4. ByteTowards(x, par) \in ChildBytes(par)
          /\ IsPrefix(Child(par, ByteTowards(x, par)).at, x.at)
      BY <3>1, <3>3, <1>1, <1>10
    <3>5. ByteTowards(x, par) # byte  BY <3>3, <3>4, <1>14 DEF leaf
    <3> QED  BY <3>1, <3>4, <3>5, <1>7
  <2>4. ASSUME NEW n \in Inners(heap)', NEW x \in DOMAIN heap', Below(x, n)
        PROVE  /\ ByteTowards(x, n) \in ChildBytes(n)'
               /\ IsPrefix(NewChild(n, ByteTowards(x, n)).at, x.at)
    BY <2>1, <2>2, <2>3, <2>4, <1>6 DEF Rest
  <2> QED  BY <2>4 DEF RoutesToEveryNode, NewChild, Child, Below, ByteTowards
<1>20. \A n \in Inners(heap)' : ChildBytes(n)' \subseteq Byte
  BY <1>1, <1>6, <1>7, <1>8
<1>21. DOMAIN heap' \subseteq PointerType  BY <1>2, <1>6 DEF Shape, Rest
<1>22. Shape'  BY <1>16, <1>17, <1>18, <1>19, <1>20, <1>21 DEF Shape
<1>23. RootIsAboveAll'
  <2>1. root \in DOMAIN heap /\ \A x \in DOMAIN heap : IsPrefix(root.at, x.at)
    BY DEF RootIsAboveAll
  <2>2. root # leaf
    <3>1. IsPrefix(root.at, par.at)  BY <2>1, <1>1
    <3> QED  BY <3>1, <1>1, <1>3, PrefixPointwise DEF Below
  <2>3. root' # None /\ root' \in DOMAIN heap' /\ root'.at = root.at
    BY <2>1, <2>2, <1>2, <1>6, <1>21 DEF RemovesLeaf, RootRedirects, Rest
  <2> QED  BY <2>1, <2>3, <1>1, <1>2, <1>6 DEF RootIsAboveAll, Rest
<1> QED  BY <1>22, <1>23

(* A leaf and its parent go away, and the one other child takes the        *)
(* parent's place: DeleteAndMerge.                                         *)
Merges(par, byte, other) ==
  /\ par \in Inners(heap) /\ byte \in ChildBytes(par) /\ Child(par, byte) \in Leaves(heap)
  /\ ChildBytes(par) = {byte, other} /\ byte # other
  /\ DOMAIN heap' = DOMAIN heap \ {par, Child(par, byte)}
  /\ Redirects(Inners(heap) \ {par}, par, Child(par, other))
  /\ RootRedirects(par, Child(par, other))

LEMMA MergeKeepsShape ==
  ASSUME Shape, RootIsAboveAll, ~TearingDown, root # None, None \notin PointerType,
         NEW par, NEW byte, NEW other, Merges(par, byte, other)
  PROVE  Shape' /\ RootIsAboveAll'
<1> DEFINE leaf == Child(par, byte)
           kept == Child(par, other)
           Rest == DOMAIN heap \ {par, leaf}
           InnerRest == Inners(heap) \ {par}
           LeafRest == Leaves(heap) \ {leaf}
<1>1. /\ par \in Inners(heap) /\ par \in DOMAIN heap /\ par \in PointerType /\ IsInner(par)
      /\ ChildBytes(par) = {byte, other} /\ byte # other
      /\ leaf \in Leaves(heap) /\ leaf \in DOMAIN heap /\ IsLeaf(leaf)
      /\ kept \in DOMAIN heap
      /\ Below(leaf, par) /\ ByteTowards(leaf, par) = byte
      /\ Below(kept, par) /\ ByteTowards(kept, par) = other
  BY ChildFacts DEF Merges, Shape, Inners, Leaves
<1>2. \A x \in DOMAIN heap : x \in PointerType /\ x.at \in ByteString /\ Len(x.at) \in Nat
  BY PointerFacts DEF Shape
<1>3. leaf # par /\ ~IsInner(leaf) /\ kept # par /\ kept # leaf
  BY <1>1, <1>2, LeafOrInner DEF Below
<1> HIDE DEF leaf, kept
<1>4. /\ DOMAIN heap' = Rest
      /\ Inners(heap)' = InnerRest
      /\ Leaves(heap)' = LeafRest
  BY <1>1, <1>2, <1>3, LeafOrInner DEF Merges, Inners, Leaves, leaf
<1>5. /\ \A n \in InnerRest : ChildBytes(n)' = ChildBytes(n)
      /\ \A n \in InnerRest : \A b \in ChildBytes(n) :
           NewChild(n, b) = IF Child(n, b) = par THEN kept ELSE Child(n, b)
  BY DEF Merges, Redirects, kept
<1>6. /\ InnerRest \subseteq DOMAIN heap /\ InnerRest \subseteq Inners(heap) /\ InnerRest \subseteq Rest
      /\ par \notin InnerRest /\ kept \in Rest /\ Rest \subseteq DOMAIN heap
      /\ \A n \in Inners(heap) : ChildBytes(n) \subseteq Byte
  BY <1>1, <1>3 DEF Inners, Shape
<1>7. \A n \in Inners(heap) : \A b \in ChildBytes(n) :
        Child(n, b) \in DOMAIN heap /\ IsPrefix(Append(n.at, b), Child(n, b).at)
  BY DEF Shape, ChildrenAreLive
<1>8. \A n \in Inners(heap), x \in DOMAIN heap : Below(x, n) =>
        ByteTowards(x, n) \in ChildBytes(n) /\ IsPrefix(Child(n, ByteTowards(x, n)).at, x.at)
  BY DEF Shape, RoutesToEveryNode
<1>9. \A n \in InnerRest : \A b \in ChildBytes(n) : Child(n, b) # leaf
  BY <1>1, <1>6, OneParent DEF leaf
<1>10. \A x \in Rest : ~IsPrefix(leaf.at, x.at)
  BY <1>1 DEF Shape, LeavesAreLowest
(* Whatever was below the parent, and still is there, is below the kept    *)
(* child.                                                                  *)
<1>11. ASSUME NEW x \in Rest, IsPrefix(par.at, x.at)
       PROVE  IsPrefix(kept.at, x.at)
  <2>1. x \in DOMAIN heap /\ x # par  BY DEF Rest
  <2>2. x.at # par.at  BY <2>1, <1>1 DEF Shape, AddressesAreFresh
  <2>3. Below(x, par)
    <3>1. ~(Len(x.at) <= Len(par.at))  BY <1>11, <2>1, <2>2, <1>1, <1>2, PrefixSameLength
    <3> QED  BY <3>1, <1>11, <2>1, <1>1, <1>2 DEF Below
  <2>4. ByteTowards(x, par) \in ChildBytes(par)
        /\ IsPrefix(Child(par, ByteTowards(x, par)).at, x.at)
    BY <2>1, <2>3, <1>1, <1>8
  <2>5. ByteTowards(x, par) # byte  BY <2>4, <1>10 DEF leaf
  <2> QED  BY <2>4, <2>5, <1>1 DEF kept
<1> HIDE DEF Rest, InnerRest, LeafRest
<1>12. AddressesAreFresh'  BY <1>4, <1>6 DEF Shape, AddressesAreFresh
<1>13. LeavesAreLowest'  BY <1>4, <1>6 DEF Shape, LeavesAreLowest, LeafRest
<1>14. ChildrenAreLive'
  <2>1. ASSUME NEW n \in InnerRest, NEW b \in ChildBytes(n)
        PROVE  NewChild(n, b) \in DOMAIN heap' /\ IsPrefix(Append(n.at, b), NewChild(n, b).at)
    <3>1. Child(n, b) \in DOMAIN heap /\ IsPrefix(Append(n.at, b), Child(n, b).at)
      BY <1>6, <1>7
    <3>2. CASE Child(n, b) = par
      <4>1. NewChild(n, b) = kept  BY <3>2, <1>5
      <4>2. Append(n.at, b) \in ByteString  BY <1>2, <1>6 DEF ByteString
      <4>3. IsPrefix(Append(n.at, b), kept.at)
        BY <3>1, <3>2, <4>2, <1>1, <1>2, PrefixTransitive DEF Below
      <4> QED  BY <4>1, <4>3, <1>4, <1>6
    <3>3. CASE Child(n, b) # par  BY <3>1, <3>3, <1>4, <1>5, <1>9 DEF Rest
    <3> QED  BY <3>2, <3>3
  <2> QED  BY <2>1, <1>4, <1>5 DEF ChildrenAreLive, NewChild, Child
<1>15. RoutesToEveryNode'
  <2>1. ASSUME NEW n \in InnerRest, NEW x \in Rest, Below(x, n)
        PROVE  /\ ByteTowards(x, n) \in ChildBytes(n)'
               /\ IsPrefix(NewChild(n, ByteTowards(x, n)).at, x.at)
    <3> DEFINE b == ByteTowards(x, n)
    <3>1. b \in ChildBytes(n) /\ IsPrefix(Child(n, b).at, x.at)  BY <2>1, <1>6, <1>8
    <3>2. CASE Child(n, b) = par  BY <3>1, <3>2, <1>5, <1>11
    <3>3. CASE Child(n, b) # par  BY <3>1, <3>3, <1>5
    <3> QED  BY <3>1, <3>2, <3>3, <1>5
  <2> QED  BY <2>1, <1>4 DEF RoutesToEveryNode, NewChild, Child, Below, ByteTowards
<1>16. Shape'
  BY <1>4, <1>5, <1>6, <1>12, <1>13, <1>14, <1>15 DEF Shape
<1>17. RootIsAboveAll'
  <2>1. root \in DOMAIN heap /\ \A x \in DOMAIN heap : IsPrefix(root.at, x.at)
    BY DEF RootIsAboveAll
  <2>2. root # leaf
    <3>1. IsPrefix(root.at, par.at)  BY <2>1, <1>1
    <3> QED  BY <3>1, <1>1, <1>2, PrefixPointwise DEF Below
  <2>3. root' = IF root = par THEN kept ELSE root  BY DEF Merges, RootRedirects, kept
  <2>4. root' \in Rest /\ root' # None  BY <2>1, <2>2, <2>3, <1>2, <1>6 DEF Rest
  <2>5. \A x \in Rest : IsPrefix(root'.at, x.at)  BY <2>1, <2>3, <1>6, <1>11
  <2> QED  BY <2>4, <2>5, <1>4 DEF RootIsAboveAll
<1> QED  BY <1>16, <1>17
-----------------------------------------------------------------------------
(* What the invariant says of a node. *)
LEMMA InvariantShape == TreeInvariant => Shape
BY DEF TreeInvariant, TypeOK, InnerOK, Shape, ChildBytes

LEMMA NodeFacts ==
  ASSUME TreeInvariant, NEW p \in DOMAIN heap
  PROVE  /\ p \in PointerType /\ p.at \in ByteString /\ Len(p.at) \in Nat
         /\ IsLeaf(p) <=> ~IsInner(p)
         /\ IsInner(p) => p \in Inners(heap) /\ p \in InnerPointer
         /\ IsLeaf(p) => p \in Leaves(heap) /\ p \in LeafPointer
         /\ p # None
BY PointerFacts, LeafOrInner, NoneAssumption
   DEF TreeInvariant, TypeOK, Inners, Leaves, PointerType

LEMMA LeafFacts ==
  ASSUME TreeInvariant, NEW p \in Leaves(heap)
  PROVE  /\ p \in DOMAIN heap /\ IsLeaf(p)
         /\ heap[p].key = p.at /\ p.at \in Keys /\ heap[p].value \in Values
         /\ heap[p] = Leaf(p.at, heap[p].value)
BY DEF TreeInvariant, TypeOK, LeafOK, Leaves, Leaf

LEMMA InnerFacts ==
  ASSUME TreeInvariant, NEW n \in Inners(heap)
  PROVE  /\ n \in DOMAIN heap /\ IsInner(n)
         /\ heap[n] = Inner(heap[n].header, heap[n].children)
         /\ heap[n].header \in HeaderType
         /\ heap[n].children \in [ChildBytes(n) -> PointerType]
         /\ ChildBytes(n) \subseteq Byte /\ ChildBytes(n) \subseteq Nat
         /\ IsFiniteSet(ChildBytes(n))
         /\ NumChildren(heap[n]) = Cardinality(ChildBytes(n))
         /\ MinByte(heap[n]) \in ChildBytes(n)
         /\ MaxByte(heap[n]) \in ChildBytes(n)
<1>1. InnerOK(n) /\ n \in DOMAIN heap /\ IsInner(n)
  BY DEF TreeInvariant, TypeOK, Inners
<1>2. PICK D \in SUBSET Byte : heap[n].children \in [D -> PointerType]  BY <1>1 DEF InnerOK
<1>3. D = ChildBytes(n)  BY <1>2 DEF ChildBytes
<1>4. ChildBytes(n) \in SUBSET Nat /\ IsFiniteSet(ChildBytes(n))
  BY <1>2, <1>3, ByteAssumption, CapacityAssumption, FS_Subset
<1>5. ChildBytes(n) # {}
  <2>1. NumChildren(heap[n]) >= 2
    BY CapacityAssumption DEF TreeInvariant, NodesFitTheirType
  <2> QED  BY <2>1, FS_EmptySet DEF NumChildren, ChildBytes
<1>6. \E b \in ChildBytes(n) : \A c \in ChildBytes(n) : b <= c
  BY <1>4, <1>5, LeastExists
<1>7. \E b \in ChildBytes(n) : \A c \in ChildBytes(n) : c <= b
  BY <1>4, <1>5, FiniteIsBounded, GreatestExists
<1>8. MinByte(heap[n]) \in ChildBytes(n)  BY <1>6 DEF MinByte, ChildBytes
<1>9. MaxByte(heap[n]) \in ChildBytes(n)  BY <1>7 DEF MaxByte, ChildBytes
<1> QED
  BY <1>1, <1>2, <1>3, <1>4, <1>8, <1>9 DEF InnerOK, NumChildren, ChildBytes
-----------------------------------------------------------------------------
(* Two strings of the same length with the same bytes are the same.        *)
LEMMA SameBytes ==
  ASSUME NEW s \in ByteString, NEW t \in ByteString, Len(s) = Len(t),
         \A i \in 1 .. Len(s) : s[i] = t[i]
  PROVE  s = t
BY DEF ByteString

LEMMA SliceFacts ==
  ASSUME NEW s \in ByteString, NEW m \in Nat, NEW n \in Nat, m <= n, n <= Len(s)
  PROVE  /\ SubSeq(s, m + 1, n) \in ByteString
         /\ Len(SubSeq(s, m + 1, n)) = n - m
         /\ \A i \in 1 .. n - m : SubSeq(s, m + 1, n)[i] = s[m + i]
BY DEF ByteString

(* A key search at an inner node: the header stands for the rest of the    *)
(* path to the node.                                                       *)
LEMMA SearchFacts ==
  ASSUME Invariant, AtInner, op.call \in KeyCalls
  PROVE  /\ op.node \in Inners(heap) /\ op.node \in DOMAIN heap /\ op.node \in PointerType
         /\ op.node.at \in ByteString /\ Len(op.node.at) \in Nat
         /\ op.key \in ByteString /\ op.key \in Keys /\ Len(op.key) \in Nat
         /\ op.depth \in Nat /\ op.depth <= Len(op.key) /\ op.depth <= Len(op.node.at)
         /\ \A i \in 1 .. op.depth : op.key[i] = op.node.at[i]
         /\ CurrentHeader \in HeaderType
         /\ CurrentHeader.prefix_len = Len(op.node.at) - op.depth
         /\ Represents(CurrentHeader, DropFirst(op.node.at, op.depth))
<1>1. op.node \in DOMAIN heap
  BY DEF Invariant, CallInvariant, SearchKeepsItsPath, AtInner
<1>2. op.node \in Inners(heap) /\ op.node \in PointerType /\ op.node.at \in ByteString
  BY <1>1, NodeFacts DEF Invariant, AtInner
<1>3. op.key \in Keys /\ AgreeOn(op.key, op.node.at, op.depth)
      /\ Represents(CurrentHeader, DropFirst(op.node.at, op.depth))
  BY DEF Invariant, CallInvariant, SearchIsOnPath, AtInner, Walking
<1>4. op.key \in ByteString  BY <1>3, KeysAssumption
<1>5. op.depth \in Nat  BY DEF Invariant, TreeInvariant, TypeOK, OpType
<1>6. op.depth <= Len(op.key) /\ op.depth <= Len(op.node.at)
      /\ \A i \in 1 .. op.depth : op.key[i] = op.node.at[i]
  BY <1>3 DEF AgreeOn
<1>7. Len(DropFirst(op.node.at, op.depth)) = Len(op.node.at) - op.depth
  BY <1>2, <1>5, <1>6, DropFirstFacts
<1>8. CurrentHeader \in HeaderType  BY <1>2, InnerFacts DEF Invariant, CurrentHeader
<1> QED  BY <1>1, <1>2, <1>3, <1>4, <1>5, <1>6, <1>7, <1>8 DEF Represents, ByteString

(* Whether it is read from the header or from the leaf below, the prefix   *)
(* that is matched is the rest of the path to the node.                    *)
LEMMA FullPrefixIsPath ==
  ASSUME Invariant, AtInner, op.call \in KeyCalls, PrefixIsRead
  PROVE  FullPrefix = DropFirst(op.node.at, op.depth)
<1> DEFINE path == DropFirst(op.node.at, op.depth)
<1>1. /\ op.node \in PointerType /\ op.node.at \in ByteString /\ Len(op.node.at) \in Nat
      /\ op.depth \in Nat /\ op.depth <= Len(op.node.at)
      /\ CurrentHeader \in HeaderType
      /\ CurrentHeader.prefix_len = Len(op.node.at) - op.depth
      /\ Represents(CurrentHeader, path)
  BY SearchFacts
<1>2. path \in ByteString /\ Len(path) = Len(op.node.at) - op.depth
      /\ \A i \in 1 .. Len(path) : path[i] = op.node.at[op.depth + i]
  <2>1. PICK at \in ByteString : at = op.node.at  BY <1>1
  <2>2. PICK depth \in Nat : depth = op.depth  BY <1>1
  <2>3. depth <= Len(at)  BY <1>1, <2>1, <2>2
  <2> DEFINE rest == DropFirst(at, depth)
  <2>4. /\ rest \in ByteString
        /\ Len(rest) = Len(at) - depth
        /\ \A i \in 1 .. Len(at) - depth : rest[i] = at[depth + i]
    BY <2>3, DropFirstFacts
  <2>5. path = rest  BY <2>1, <2>2
  <2> HIDE DEF rest
  <2> HIDE DEF path
  <2> QED  BY <2>1, <2>2, <2>4, <2>5
<1> HIDE DEF path
<1>3. CASE ~PrefixIsImplicit
  <2>1. Len(path) <= PREFIX_LEN /\ Len(path) \in Nat
    BY <1>1, <1>2, <1>3, PrefixLenAssumption DEF PrefixIsImplicit
  <2>2. Lesser(Len(path), PREFIX_LEN) = Len(path)  BY <2>1, PrefixLenAssumption, LesserFacts
  <2>3. ReadPrefix(CurrentHeader) \in ByteString /\ Len(ReadPrefix(CurrentHeader)) = Len(path)
        /\ \A i \in 1 .. Len(path) : ReadPrefix(CurrentHeader)[i] = path[i]
    BY <1>1, <1>2, <2>2, ReadPrefixFacts
  <2>4. ReadPrefix(CurrentHeader) = path  BY <1>2, <2>3, SameBytes
  <2> QED  BY <1>3, <2>4 DEF FullPrefix, path
<1>4. CASE PrefixIsImplicit
  <2> DEFINE key == heap[op.cursor].key
             read == SubSeq(key, op.depth + 1, op.depth + CurrentHeader.prefix_len)
  <2>1. op.cursor # None /\ IsLeaf(op.cursor)  BY <1>4 DEF PrefixIsRead, CursorAtLeaf
  <2>2. op.cursor \in DOMAIN heap /\ IsPrefix(op.node.at, op.cursor.at)
    BY <2>1 DEF Invariant, CallInvariant, CursorIsBelow, AtInner
  <2>3. key = op.cursor.at /\ key \in ByteString /\ Len(key) \in Nat
    BY <2>1, <2>2, NodeFacts, LeafFacts DEF Invariant
  <2> HIDE DEF key
  <2>4. Len(op.node.at) <= Len(key) /\ \A i \in 1 .. Len(op.node.at) : key[i] = op.node.at[i]
    BY <1>1, <2>2, <2>3, PrefixPointwise
  <2>5. op.depth + CurrentHeader.prefix_len = Len(op.node.at)  BY <1>1
  <2>6. /\ read \in ByteString /\ Len(read) = Len(op.node.at) - op.depth
        /\ \A i \in 1 .. Len(op.node.at) - op.depth : read[i] = key[op.depth + i]
    <3>1. read = SubSeq(key, op.depth + 1, Len(op.node.at))  BY <2>5
    <3> HIDE DEF read
    <3>2. PICK k \in ByteString : k = key  BY <2>3
    <3>3. PICK depth \in Nat, n \in Nat : depth = op.depth /\ n = Len(op.node.at)  BY <1>1
    <3>4. depth <= n /\ n <= Len(k)  BY <1>1, <2>4, <3>2, <3>3
    <3>5. read = SubSeq(k, depth + 1, n)  BY <3>1, <3>2, <3>3
    <3>6. /\ read \in ByteString /\ Len(read) = n - depth
          /\ \A i \in 1 .. n - depth : read[i] = k[depth + i]
      BY <3>4, <3>5, SliceFacts
    <3> QED  BY <3>2, <3>3, <3>6
  <2> HIDE DEF read
  <2>7. \A i \in 1 .. Len(path) : read[i] = path[i]
    <3>1. \A i \in 1 .. Len(path) : op.depth + i \in 1 .. Len(op.node.at)  BY <1>1, <1>2
    <3> QED  BY <3>1, <1>2, <2>4, <2>6
  <2>8. read = path  BY <1>2, <2>6, <2>7, SameBytes
  <2> QED  BY <1>4, <2>8 DEF FullPrefix, read, key, path
<1> QED  BY <1>3, <1>4

(* An index past the part of the path above a node is an index into the path
   the node holds: plain arithmetic, kept apart from the sequences. *)
LEMMA PastTheDepth ==
  ASSUME NEW d \in Nat, NEW m \in Nat, NEW n \in Nat, d + m <= n,
         NEW i \in 1 .. d + m, ~(i <= d)
  PROVE  /\ i - d \in 1 .. m
         /\ i - d \in 1 .. n - d
         /\ i = d + (i - d)
OBVIOUS

(* Matching the prefix passes exactly the bytes that the key and the path  *)
(* to the node share.                                                      *)
LEMMA MatchFacts ==
  ASSUME Invariant, AtInner, op.call \in KeyCalls, PrefixIsRead
  PROVE  /\ Matched \in Nat
         /\ op.depth + Matched <= Len(op.key) /\ op.depth + Matched <= Len(op.node.at)
         /\ \A i \in 1 .. op.depth + Matched : op.key[i] = op.node.at[i]
         /\ PrefixMatches => op.depth + Matched = Len(op.node.at)
         /\ (~PrefixMatches /\ KeyGoesOn) =>
              /\ op.depth + Matched < Len(op.node.at)
              /\ FullPrefix[Matched + 1] = op.node.at[op.depth + Matched + 1]
              /\ op.key[op.depth + Matched + 1] # op.node.at[op.depth + Matched + 1]
<1> DEFINE path == DropFirst(op.node.at, op.depth)
           rest == DropFirst(op.key, op.depth)
           m == MatchedBytes(path, rest)
<1>1. /\ op.node.at \in ByteString /\ Len(op.node.at) \in Nat
      /\ op.key \in ByteString /\ Len(op.key) \in Nat
      /\ op.depth \in Nat /\ op.depth <= Len(op.key) /\ op.depth <= Len(op.node.at)
      /\ \A i \in 1 .. op.depth : op.key[i] = op.node.at[i]
  BY SearchFacts
<1>2. FullPrefix = path /\ Matched = m  BY FullPrefixIsPath DEF Matched
<1>3. path \in ByteString /\ Len(path) = Len(op.node.at) - op.depth
      /\ \A i \in 1 .. Len(op.node.at) - op.depth : path[i] = op.node.at[op.depth + i]
  BY <1>1, DropFirstFacts
<1>4. rest \in ByteString /\ Len(rest) = Len(op.key) - op.depth
      /\ \A i \in 1 .. Len(op.key) - op.depth : rest[i] = op.key[op.depth + i]
  BY <1>1, DropFirstFacts
<1>5. IsMatchedBytes(m, path, rest)  BY <1>3, <1>4, MatchedBytesFacts
<1> HIDE DEF path, rest, m
<1>6. /\ m \in Nat /\ m <= Len(path) /\ m <= Len(rest)
      /\ \A i \in 1 .. m : path[i] = rest[i]
      /\ m < Len(path) /\ m < Len(rest) => path[m + 1] # rest[m + 1]
  BY <1>1, <1>3, <1>4, <1>5 DEF IsMatchedBytes, Lesser
<1>7. op.depth + m <= Len(op.key) /\ op.depth + m <= Len(op.node.at)
  <2>1. m <= Len(op.key) - op.depth /\ m <= Len(op.node.at) - op.depth
    BY <1>3, <1>4, <1>6
  <2>2. m \in Nat  BY <1>6
  <2> QED  BY <1>1, <2>1, <2>2
<1>8. ASSUME NEW i \in 1 .. op.depth + m  PROVE op.key[i] = op.node.at[i]
  <2>1. CASE i <= op.depth  BY <1>1, <1>6, <2>1
  <2>2. CASE ~(i <= op.depth)
    <3>1. op.depth \in Nat /\ m \in Nat /\ Len(op.node.at) \in Nat /\ Len(op.key) \in Nat
      BY <1>1, <1>6
    <3>2. i - op.depth \in 1 .. m /\ i = op.depth + (i - op.depth)
          /\ i - op.depth \in 1 .. Len(op.node.at) - op.depth
      BY <3>1, <1>7, <2>2, PastTheDepth
    <3>3. i - op.depth \in 1 .. Len(op.key) - op.depth
      BY <3>1, <1>7, <2>2, PastTheDepth
    <3>4. path[i - op.depth] = rest[i - op.depth]  BY <3>2, <1>6
    <3>5. path[i - op.depth] = op.node.at[i]  BY <3>2, <1>3
    <3>6. rest[i - op.depth] = op.key[i]  BY <3>2, <3>3, <1>4
    <3> QED  BY <3>4, <3>5, <3>6
  <2> QED  BY <2>1, <2>2
<1>9. ASSUME PrefixMatches  PROVE op.depth + m = Len(op.node.at)
  BY <1>1, <1>2, <1>3, <1>6, <1>9 DEF PrefixMatches
<1>10. ASSUME ~PrefixMatches, KeyGoesOn
       PROVE  /\ op.depth + m < Len(op.node.at)
              /\ path[m + 1] = op.node.at[op.depth + m + 1]
              /\ op.key[op.depth + m + 1] # op.node.at[op.depth + m + 1]
  <2>1. m < Len(path)  BY <1>2, <1>3, <1>1, <1>6, <1>10 DEF PrefixMatches
  <2>2. m < Len(rest)  BY <1>2, <1>4, <1>1, <1>6, <1>10 DEF KeyGoesOn
  <2>3. m + 1 \in 1 .. Len(op.node.at) - op.depth /\ m + 1 \in 1 .. Len(op.key) - op.depth
        /\ op.depth + (m + 1) = op.depth + m + 1
    BY <2>1, <2>2, <1>1, <1>3, <1>4, <1>6
  <2>4. path[m + 1] = op.node.at[op.depth + m + 1] /\ rest[m + 1] = op.key[op.depth + m + 1]
    BY <2>3, <1>3, <1>4
  <2> QED  BY <2>1, <2>2, <2>3, <2>4, <1>1, <1>3, <1>6
<1> QED  BY <1>1, <1>2, <1>6, <1>7, <1>8, <1>9, <1>10
-----------------------------------------------------------------------------
(* The locals of a call. *)
LEMMA OpFields ==
  ASSUME TreeInvariant
  PROVE  /\ op.call \in Calls \cup {None} /\ op.key \in Keys \cup {<< >>}
         /\ op.value \in Values \cup {None} /\ op.depth \in Nat
         /\ op.parent \in EdgeType \cup {None} /\ op.grandparent \in EdgeType \cup {None}
         /\ op.stack \in SUBSET PointerType /\ op.out \in OutType
BY DEF TreeInvariant, TypeOK, OpType

LEMMA DoneType ==
  ASSUME NEW call \in Calls, NEW key \in Keys \cup {<< >>},
         NEW value \in Values \cup {None}, NEW out \in OutType
  PROVE  Done(call, key, value, out) \in OpType /\ Done(call, key, value, out).pc = "done"
BY DEF Done, IdleOp, OpType

LEMMA IdleType == IdleOp \in OpType /\ IdleOp.pc = "idle"
BY DEF IdleOp, OpType, OutType

LEMMA StartType ==
  ASSUME NEW call \in Calls, NEW key \in Keys \cup {<< >>},
         NEW value \in Values \cup {None}, root \in PointerType
  PROVE  LET o == Start(call, key, value)
         IN  /\ o \in OpType
             /\ o.pc = "search" /\ o.call = call /\ o.key = key /\ o.value = value
             /\ o.node = root /\ o.depth = 0 /\ o.parent = None /\ o.grandparent = None /\ o.cursor = None
BY DEF Start, IdleOp, OpType, OutType

(* A call that has been answered leaves nothing to keep. *)
LEMMA AnsweredKeepsCall ==
  ASSUME op'.pc \in {"done", "idle"}
  PROVE  CallInvariant' /\ ~TearingDown'
BY DEF CallInvariant, SearchKeepsItsPath, SearchIsOnPath, NothingIsPassedBy, CursorIsBelow,
       PointFitsNode, TeardownIsExact, TearingDown, Walking

(* A step that leaves the map alone leaves the tree alone. *)
LEMMA UntouchedKeepsTree ==
  ASSUME TreeInvariant, ~TearingDown, UNCHANGED <<heap, root, num_entries>>, op' \in OpType
  PROVE  TreeInvariant'
<1>1. TypeOK'
  BY DEF TreeInvariant, TypeOK, LeafOK, InnerOK, Leaves, Inners
<1>2. /\ HeapIsFinite' /\ AddressesAreFresh' /\ LeavesAreLowest' /\ ChildrenAreLive'
      /\ RoutesToEveryNode' /\ NodesFitTheirType'
  BY DEF TreeInvariant, HeapIsFinite, AddressesAreFresh, LeavesAreLowest, ChildrenAreLive,
         RoutesToEveryNode, NodesFitTheirType, Leaves, Inners, Child, ChildBytes, Below,
         ByteTowards
<1>3. RootIsAboveAll' /\ CountIsExact'
  BY DEF TreeInvariant, RootIsAboveAll, CountIsExact, Leaves
<1>4. PrefixesAreFaithful'
  BY DEF TreeInvariant, PrefixesAreFaithful, Inners, Child, ChildBytes
<1> QED  BY <1>1, <1>2, <1>3, <1>4 DEF TreeInvariant
-----------------------------------------------------------------------------
(* Making a call, and answering one. *)
LEMMA StartKeeps ==
  ASSUME Invariant, ~TearingDown, root # None, UNCHANGED <<heap, root, num_entries>>,
         NEW call \in Calls, NEW key \in Keys \cup {<< >>}, NEW value \in Values \cup {None},
         call \in KeyCalls => key \in Keys,
         call \in {"try_insert", "get_mut"} => value \in Values,
         op' = Start(call, key, value)
  PROVE  Invariant'
<1>1. root \in DOMAIN heap /\ \A x \in DOMAIN heap : IsPrefix(root.at, x.at)
  BY DEF Invariant, TreeInvariant, RootIsAboveAll
<1>2. root \in PointerType /\ root.at \in ByteString /\ Len(root.at) \in Nat
      /\ (IsInner(root) => Represents(heap[root].header, root.at))
  BY <1>1, NodeFacts DEF Invariant, TreeInvariant, PrefixesAreFaithful
<1>3. /\ op' \in OpType
      /\ op'.pc = "search" /\ op'.call = call /\ op'.key = key /\ op'.value = value
      /\ op'.node = root /\ op'.depth = 0 /\ op'.parent = None /\ op'.grandparent = None /\ op'.cursor = None
  BY <1>2, StartType
<1>4. TreeInvariant'  BY <1>3, UntouchedKeepsTree DEF Invariant
<1>5. SearchKeepsItsPath'  BY <1>1, <1>3 DEF SearchKeepsItsPath
<1>6. SearchIsOnPath'
  <2>1. call \in KeyCalls => key \in ByteString  BY KeysAssumption
  <2>2. call \in KeyCalls => AgreeOn(key, root.at, 0)
    BY <1>2, <2>1 DEF AgreeOn, ByteString
  <2>3. DropFirst(root.at, 0) = root.at  BY <1>2 DEF DropFirst, ByteString
  <2> QED  BY <1>2, <1>3, <2>2, <2>3 DEF SearchIsOnPath, Walking, CurrentHeader, EntryDepth
<1>7. NothingIsPassedBy'  BY <1>1, <1>3 DEF NothingIsPassedBy, Walking
<1>8. CursorIsBelow' /\ PointFitsNode' /\ TeardownIsExact'
  BY <1>3 DEF CursorIsBelow, PointFitsNode, TeardownIsExact, TearingDown
<1> QED  BY <1>4, <1>5, <1>6, <1>7, <1>8 DEF Invariant, CallInvariant

LEMMA FinishKeeps ==
  ASSUME Invariant, ~TearingDown, UNCHANGED <<heap, root, num_entries>>,
         NEW call \in Calls, NEW key \in Keys \cup {<< >>},
         NEW value \in Values \cup {None}, NEW out \in OutType,
         op' = Done(call, key, value, out)
  PROVE  Invariant'
BY DoneType, AnsweredKeepsCall, UntouchedKeepsTree DEF Invariant

LEMMA CallsKeep ==
  ASSUME Invariant, NEW k \in Keys, NEW v \in Values, CallByKey(k, v) \/ CallOnEmpty(k, v)
  PROVE  Invariant'
<1>1. ~TearingDown  BY DEF CallByKey, CallOnEmpty, TearingDown
<1>2. CASE CallByKey(k, v)
  <2>1. PICK call \in {"try_insert", "get_mut", "remove_entry", "get"},
             value \in {v, None} :
               op' = Start(call, k, value) /\ (call \in {"try_insert", "get_mut"} => value = v)
    BY <1>2 DEF CallByKey
  <2>2. call \in Calls /\ value \in Values \cup {None}  BY <2>1 DEF Calls
  <2> QED  BY <1>1, <1>2, <2>1, <2>2, StartKeeps DEF CallByKey
<1>3. CASE CallOnEmpty(k, v)
  <2>1. PICK call \in {"get_mut", "remove_entry", "get"} \cup MinCalls \cup MaxCalls,
             key \in {k, << >>}, value \in {v, None} : op' = Done(call, key, value, None)
    BY <1>3 DEF CallOnEmpty
  <2>2. call \in Calls /\ key \in Keys \cup {<< >>} /\ value \in Values \cup {None}
        /\ None \in OutType
    BY <2>1 DEF Calls, MinCalls, MaxCalls, OutType
  <2> QED  BY <1>1, <1>3, <2>1, <2>2, FinishKeeps DEF CallOnEmpty
<1> QED  BY <1>2, <1>3

LEMMA EndCallsKeep ==
  ASSUME Invariant, NEW call \in MinCalls \cup MaxCalls, CallAtEnd(call)
  PROVE  Invariant'
<1>1. ~TearingDown  BY DEF CallAtEnd, TearingDown
<1>2. call \in Calls /\ call \notin KeyCalls /\ call \notin {"try_insert", "get_mut"}
  BY DEF Calls, MinCalls, MaxCalls, KeyCalls
<1> QED  BY <1>1, <1>2, StartKeeps DEF CallAtEnd

LEMMA ReturnKeeps ==
  ASSUME Invariant, Return
  PROVE  Invariant'
<1>1. ~TearingDown  BY DEF Return, TearingDown
<1> QED  BY <1>1, IdleType, AnsweredKeepsCall, UntouchedKeepsTree DEF Return, Invariant

LEMMA ClearEmptyKeeps ==
  ASSUME Invariant, ClearEmpty
  PROVE  Invariant'
<1>1. ~TearingDown  BY DEF ClearEmpty, TearingDown
<1>2. "clear" \in Calls /\ None \in OutType  BY DEF Calls, OutType
<1> QED  BY <1>1, <1>2, FinishKeeps DEF ClearEmpty

LEMMA ClearStartKeeps ==
  ASSUME Invariant, ClearStart
  PROVE  Invariant'
<1>1. ~TearingDown /\ root # None  BY DEF ClearStart, TearingDown
<1>2. root \in DOMAIN heap /\ root \in PointerType /\ \A x \in DOMAIN heap : IsPrefix(root.at, x.at)
  BY <1>1, NodeFacts DEF Invariant, TreeInvariant, RootIsAboveAll
<1>3. op' = [IdleOp EXCEPT !.pc = "dealloc", !.call = "clear", !.stack = {root}]
  BY DEF ClearStart
<1>4. op' \in OpType  BY <1>2, <1>3 DEF IdleOp, OpType, OutType, Calls
<1>5. op'.pc = "dealloc" /\ op'.stack = {root}  BY <1>3 DEF IdleOp
<1>6. TreeInvariant'  BY <1>1, <1>4, UntouchedKeepsTree DEF ClearStart, Invariant
<1>7. TeardownIsExact'  BY <1>2, <1>5 DEF TeardownIsExact, ClearStart
<1>8. CallInvariant'
  BY <1>5, <1>7 DEF CallInvariant, SearchKeepsItsPath, SearchIsOnPath, NothingIsPassedBy,
       CursorIsBelow, PointFitsNode, Walking
<1> QED  BY <1>6, <1>8 DEF Invariant
-----------------------------------------------------------------------------
(* Walking. *)
LEMMA StepToMinimumKeeps ==
  ASSUME Invariant, StepToMinimum
  PROVE  Invariant'
<1> DEFINE n == IF op.cursor = None THEN op.node ELSE op.cursor
           c == Child(n, MinByte(heap[n]))
<1>1. op.pc = "search" /\ IsInner(op.node) /\ op.call \in KeyCalls /\ ~PrefixIsRead
      /\ UNCHANGED <<heap, root, num_entries>> /\ ~TearingDown
  BY DEF StepToMinimum, AtInner, TearingDown
<1>2. op.node \in DOMAIN heap /\ op.node \in PointerType /\ op.node \in Inners(heap)
  BY <1>1, SearchFacts DEF AtInner
<1>3. n \in Inners(heap) /\ IsPrefix(op.node.at, n.at)
  <2>1. CASE op.cursor = None  BY <1>2, <2>1, PointerFacts, PrefixReflexive
  <2>2. CASE op.cursor # None
    <3>1. op.cursor \in DOMAIN heap /\ IsPrefix(op.node.at, op.cursor.at)
      BY <1>1, <2>2 DEF Invariant, CallInvariant, CursorIsBelow
    <3>2. ~IsLeaf(op.cursor)  BY <1>1, <2>2 DEF PrefixIsRead, CursorAtLeaf
    <3> QED  BY <2>2, <3>1, <3>2, NodeFacts DEF Invariant
  <2> QED  BY <2>1, <2>2
<1>4. op' = [op EXCEPT !.cursor = c]  BY DEF StepToMinimum, Child
<1> HIDE DEF n
<1>5. c \in DOMAIN heap /\ Below(c, n)
  BY <1>3, InnerFacts, InvariantShape, ChildFacts DEF Invariant
<1>6. IsPrefix(op.node.at, c.at)
  <2>1. n \in PointerType /\ c \in PointerType  BY <1>3, <1>5, NodeFacts DEF Invariant, Inners
  <2> QED  BY <1>2, <1>3, <1>5, <2>1, PointerFacts, PrefixTransitive DEF Below
<1>7. c \in PointerType  BY <1>5, NodeFacts DEF Invariant
<1> HIDE DEF c
<1>8. op \in OpType  BY DEF Invariant, TreeInvariant, TypeOK
<1>9. op' \in OpType  BY <1>4, <1>7, <1>8 DEF OpType
<1>10. /\ op'.pc = op.pc /\ op'.call = op.call /\ op'.key = op.key /\ op'.value = op.value
       /\ op'.node = op.node
       /\ op'.depth = op.depth /\ op'.parent = op.parent /\ op'.grandparent = op.grandparent
       /\ op'.cursor = c
  BY <1>4, <1>8 DEF OpType
<1>11. TreeInvariant'  BY <1>1, <1>9, UntouchedKeepsTree DEF Invariant
<1>12. SearchKeepsItsPath'
  BY <1>1, <1>10 DEF Invariant, CallInvariant, SearchKeepsItsPath, Child, ChildBytes
<1>13. SearchIsOnPath'
  BY <1>1, <1>10
  DEF Invariant, CallInvariant, SearchIsOnPath, Walking, CurrentHeader, EntryDepth
<1>14. NothingIsPassedBy'
  BY <1>1, <1>10 DEF Invariant, CallInvariant, NothingIsPassedBy, Walking, Applying
<1>15. CursorIsBelow'  BY <1>1, <1>5, <1>6, <1>10 DEF CursorIsBelow
<1>16. PointFitsNode' /\ TeardownIsExact'
  BY <1>1, <1>10 DEF PointFitsNode, TeardownIsExact, TearingDown
<1> QED
  BY <1>11, <1>12, <1>13, <1>14, <1>15, <1>16 DEF Invariant, CallInvariant

(* A walk, by key or to one end, moves to a child with its edges intact.   *)
LEMMA MoveKeepsPath ==
  ASSUME Invariant, op.pc = "search", op.node \in Inners(heap),
         NEW byte \in ChildBytes(op.node), NEW depth \in Nat, MoveTo(byte, depth),
         UNCHANGED <<heap, root, num_entries>>
  PROVE  /\ TreeInvariant' /\ SearchKeepsItsPath'
         /\ CursorIsBelow' /\ PointFitsNode' /\ TeardownIsExact'
         /\ op'.pc = "search" /\ op'.call = op.call /\ op'.key = op.key /\ op'.value = op.value
         /\ op'.node = Child(op.node, byte) /\ op'.depth = depth
         /\ op'.parent = IF TracksParents(op.call) THEN Edge(op.node, byte) ELSE None
<1> DEFINE c == Child(op.node, byte)
           up == IF TracksParents(op.call) THEN op.parent ELSE None
           edge == IF TracksParents(op.call) THEN Edge(op.node, byte) ELSE None
<1>1. op' = [op EXCEPT !.node = c, !.depth = depth, !.grandparent = up,
                       !.parent = edge, !.cursor = None]
  BY DEF MoveTo, Child
<1>2. c \in DOMAIN heap /\ c \in PointerType
  BY ChildFacts, InvariantShape, NodeFacts DEF Invariant
<1>3. op.node \in DOMAIN heap /\ op.node \in InnerPointer /\ byte \in Byte
  BY InnerFacts, NodeFacts DEF Invariant
<1>4. edge \in EdgeType \cup {None}  BY <1>3 DEF Edge, EdgeType
<1>5. up \in EdgeType \cup {None}  BY OpFields DEF Invariant
<1>6. Edge(op.node, byte) # None /\ Edge(op.node, byte).node = op.node
      /\ Edge(op.node, byte).byte = byte
  BY <1>3, NoneAssumption DEF Edge, EdgeType
<1>7. op \in OpType  BY DEF Invariant, TreeInvariant, TypeOK
<1> HIDE DEF c, up, edge
<1>8. op' \in OpType  BY <1>1, <1>2, <1>4, <1>5, <1>7 DEF OpType
<1>9. /\ op'.pc = "search" /\ op'.call = op.call /\ op'.key = op.key /\ op'.value = op.value
      /\ op'.node = c
      /\ op'.depth = depth /\ op'.parent = edge /\ op'.grandparent = up /\ op'.cursor = None
  BY <1>1, <1>7 DEF OpType
<1>10. TreeInvariant'  BY <1>8, UntouchedKeepsTree DEF Invariant, TearingDown
<1>11. SearchKeepsItsPath'
  <2>1. SUFFICES ASSUME TracksParents(op.call)
        PROVE  /\ up = None => op.node = root
               /\ up # None =>
                    /\ up.node \in DOMAIN heap
                    /\ up.byte \in ChildBytes(up.node)
                    /\ Child(up.node, up.byte) = op.node
    BY <1>2, <1>3, <1>6, <1>9 DEF SearchKeepsItsPath, edge, c, Child, ChildBytes
  <2>2. up = op.parent  BY <2>1 DEF up
  <2> QED  BY <2>1, <2>2 DEF Invariant, CallInvariant, SearchKeepsItsPath
<1>12. CursorIsBelow' /\ PointFitsNode' /\ TeardownIsExact'
  BY <1>9 DEF CursorIsBelow, PointFitsNode, TeardownIsExact, TearingDown
<1> QED  BY <1>9, <1>10, <1>11, <1>12 DEF c, edge

LEMMA DescendToEndKeeps ==
  ASSUME Invariant, DescendToEnd
  PROVE  Invariant'
<1>1. op.node \in Inners(heap)
  BY NodeFacts DEF Invariant, CallInvariant, SearchKeepsItsPath, DescendToEnd, AtInner
<1>2. PICK byte \in ChildBytes(op.node) : MoveTo(byte, 0)
  BY <1>1, InnerFacts DEF DescendToEnd, Invariant
<1>3. op.call \notin KeyCalls  BY DEF DescendToEnd, MinCalls, MaxCalls, KeyCalls
<1>4. /\ TreeInvariant' /\ SearchKeepsItsPath'
      /\ CursorIsBelow' /\ PointFitsNode' /\ TeardownIsExact' /\ op'.call = op.call
  BY <1>1, <1>2, MoveKeepsPath DEF DescendToEnd, AtInner
<1>5. SearchIsOnPath' /\ NothingIsPassedBy'
  BY <1>3, <1>4 DEF SearchIsOnPath, NothingIsPassedBy
<1> QED  BY <1>4, <1>5 DEF Invariant, CallInvariant

LEMMA DescendByKeyKeeps ==
  ASSUME Invariant, DescendByKey
  PROVE  Invariant'
<1> DEFINE n == op.node
           c == Child(n, NextByte)
           depth == op.depth + Matched + 1
<1>1. /\ AtInner /\ op.call \in KeyCalls /\ PrefixIsRead /\ PrefixMatches /\ KeyGoesOn
      /\ op.pc = "search" /\ UNCHANGED <<heap, root, num_entries>>
      /\ NextByte \in ChildBytes(n) /\ MoveTo(NextByte, depth)
  BY DEF DescendByKey, AtInner, HasNextChild, ChildBytes
<1>2. /\ n \in Inners(heap) /\ n \in DOMAIN heap /\ n \in PointerType
      /\ n.at \in ByteString /\ Len(n.at) \in Nat
      /\ op.key \in ByteString /\ op.key \in Keys /\ Len(op.key) \in Nat
      /\ op.depth \in Nat
  BY <1>1, SearchFacts
<1>3. /\ Matched \in Nat /\ op.depth + Matched = Len(n.at)
      /\ \A i \in 1 .. Len(n.at) : op.key[i] = n.at[i]
      /\ Len(n.at) < Len(op.key)
  BY <1>1, <1>2, MatchFacts DEF KeyGoesOn
<1>4. depth = Len(n.at) + 1 /\ NextByte = op.key[Len(n.at) + 1] /\ depth \in Nat
  BY <1>2, <1>3 DEF NextByte
<1>5. c \in DOMAIN heap /\ Below(c, n) /\ ByteTowards(c, n) = NextByte
  BY <1>1, <1>2, ChildFacts, InvariantShape DEF Invariant
<1>6. c \in PointerType /\ c.at \in ByteString /\ Len(c.at) \in Nat
  BY <1>5, NodeFacts DEF Invariant
<1> HIDE DEF c, depth
<1>7. /\ TreeInvariant' /\ SearchKeepsItsPath'
      /\ CursorIsBelow' /\ PointFitsNode' /\ TeardownIsExact'
      /\ op'.pc = "search" /\ op'.call = op.call /\ op'.key = op.key /\ op'.value = op.value
      /\ op'.node = c /\ op'.depth = depth
      /\ op'.parent = IF TracksParents(op.call) THEN Edge(n, NextByte) ELSE None
  BY <1>1, <1>2, <1>4, MoveKeepsPath DEF c
<1>8. AgreeOn(op.key, c.at, depth)
  <2>1. Len(n.at) < Len(c.at) /\ \A i \in 1 .. Len(n.at) : n.at[i] = c.at[i]
    BY <1>2, <1>5, <1>6, PrefixPointwise DEF Below
  <2>2. c.at[Len(n.at) + 1] = op.key[Len(n.at) + 1]  BY <1>4, <1>5 DEF ByteTowards
  <2>3. \A i \in 1 .. Len(n.at) + 1 : i \in 1 .. Len(n.at) \/ i = Len(n.at) + 1  BY <1>2
  <2>4. \A i \in 1 .. Len(n.at) + 1 : op.key[i] = c.at[i]  BY <2>1, <2>2, <2>3, <1>3
  <2> QED  BY <2>1, <2>4, <1>2, <1>3, <1>4, <1>6 DEF AgreeOn
<1>9. IsInner(c) => Represents(heap[c].header, DropFirst(c.at, depth))
  BY <1>1, <1>2, <1>4 DEF Invariant, TreeInvariant, PrefixesAreFaithful, c
<1>10. TracksParents(op.call) =>
         op'.parent # None /\ op'.parent.node = n
  BY <1>1, <1>2, <1>7, InnerFacts, NodeFacts, NoneAssumption
  DEF Edge, EdgeType, Invariant
<1>11. SearchIsOnPath'
  <2>1. TracksParents(op.call) => EntryDepth' = depth  BY <1>4, <1>10 DEF EntryDepth
  <2>2. op'.parent # None => AgreeOn(op.key, c.at, Len(op'.parent.node.at) + 1)
    BY <1>4, <1>7, <1>8, <1>10
  <2>3. IsInner(c) => Represents(CurrentHeader', DropFirst(c.at, depth))
    BY <1>1, <1>7, <1>9 DEF CurrentHeader
  <2>4. op.call \in {"try_insert", "get_mut"} => op.value \in Values
    BY <1>1 DEF Invariant, CallInvariant, SearchIsOnPath, Walking
  <2> QED  BY <1>2, <1>7, <1>8, <2>1, <2>2, <2>3, <2>4 DEF SearchIsOnPath
(* What agrees with the key as far as this lies below n, towards c. *)
<1>12. ASSUME NEW x \in DOMAIN heap, AgreeOn(op.key, x.at, depth)
       PROVE  IsPrefix(c.at, x.at)
  <2>1. x.at \in ByteString /\ Len(x.at) \in Nat  BY NodeFacts DEF Invariant
  <2>2. Len(n.at) < Len(x.at) /\ \A i \in 1 .. Len(n.at) + 1 : op.key[i] = x.at[i]
    BY <1>2, <1>4, <1>12, <2>1 DEF AgreeOn
  <2>3. \A i \in 1 .. Len(n.at) : n.at[i] = x.at[i]  BY <1>2, <1>3, <2>2
  <2>4. Below(x, n)  BY <1>2, <2>1, <2>2, <2>3, PrefixPointwise DEF Below
  <2>5. ByteTowards(x, n) = NextByte
    <3>1. Len(n.at) + 1 \in 1 .. Len(n.at) + 1  BY <1>2
    <3> QED  BY <3>1, <1>4, <2>2 DEF ByteTowards
  <2> QED
    BY <1>2, <2>4, <2>5 DEF Invariant, TreeInvariant, RoutesToEveryNode, c
<1>13. NothingIsPassedBy'  BY <1>1, <1>7, <1>12 DEF NothingIsPassedBy
<1> QED  BY <1>7, <1>11, <1>13 DEF Invariant, CallInvariant
-----------------------------------------------------------------------------
(* Stopping at a point keeps what the search knows of its way there.       *)
LEMMA StopKeepsPath ==
  ASSUME Invariant, op.pc = "search", NEW point \in PointType, NEW depth \in Nat,
         StopAt(point, depth), UNCHANGED <<heap, root, num_entries>>,
         op.call \in KeyCalls => op.depth <= depth /\ AgreeOn(op.key, op.node.at, depth)
  PROVE  /\ TreeInvariant' /\ SearchKeepsItsPath' /\ SearchIsOnPath' /\ NothingIsPassedBy'
         /\ CursorIsBelow' /\ TeardownIsExact'
         /\ op'.pc = "apply" /\ op'.call = op.call /\ op'.key = op.key
         /\ op'.node = op.node /\ op'.depth = depth /\ op'.parent = op.parent
         /\ op'.point = point
<1>1. op' = [op EXCEPT !.pc = "apply", !.point = point, !.depth = depth]  BY DEF StopAt
<1>2. op \in OpType  BY DEF Invariant, TreeInvariant, TypeOK
<1>3. op' \in OpType  BY <1>1, <1>2 DEF OpType
<1>4. /\ op'.pc = "apply" /\ op'.call = op.call /\ op'.key = op.key /\ op'.value = op.value
      /\ op'.node = op.node /\ op'.depth = depth /\ op'.parent = op.parent
      /\ op'.grandparent = op.grandparent /\ op'.point = point
  BY <1>1, <1>2 DEF OpType
<1>5. TreeInvariant'  BY <1>3, UntouchedKeepsTree DEF Invariant, TearingDown
<1>6. SearchKeepsItsPath'
  BY <1>4 DEF Invariant, CallInvariant, SearchKeepsItsPath, Child, ChildBytes
<1>7. SearchIsOnPath'
  BY <1>4 DEF Invariant, CallInvariant, SearchIsOnPath, Walking
<1>8. NothingIsPassedBy'
  <2>1. SUFFICES ASSUME op.call \in KeyCalls, NEW x \in DOMAIN heap, AgreeOn(op.key, x.at, depth)
                 PROVE  IsPrefix(op.node.at, x.at)
    BY <1>4 DEF NothingIsPassedBy
  <2>2. op.depth \in Nat /\ op.depth <= depth  BY <2>1, OpFields DEF Invariant
  <2>3. op.key \in ByteString
    BY <2>1, KeysAssumption DEF Invariant, CallInvariant, SearchIsOnPath, Walking
  <2>4. x.at \in ByteString  BY NodeFacts DEF Invariant
  <2>5. AgreeOn(op.key, x.at, op.depth)
    BY <2>1, <2>2, <2>3, <2>4 DEF AgreeOn, ByteString
  <2> QED  BY <2>1, <2>5 DEF Invariant, CallInvariant, NothingIsPassedBy, Walking, Applying
<1>9. CursorIsBelow' /\ TeardownIsExact'
  BY <1>4 DEF CursorIsBelow, TeardownIsExact, TearingDown
<1> QED  BY <1>4, <1>5, <1>6, <1>7, <1>8, <1>9

(* A search at a leaf.                                                     *)
LEMMA AtLeafFacts ==
  ASSUME Invariant, AtLeaf
  PROVE  /\ op.node \in Leaves(heap) /\ op.node \in DOMAIN heap
         /\ LeafKey = op.node.at /\ LeafKey \in Keys /\ LeafKey \in ByteString
         /\ Len(LeafKey) \in Nat /\ heap[op.node].value \in Values
         /\ op.depth \in Nat
         /\ op.call \in KeyCalls =>
              /\ op.key \in Keys /\ op.key \in ByteString /\ Len(op.key) \in Nat
              /\ AgreeOn(op.key, LeafKey, op.depth)
         /\ (op.call \in KeyCalls /\ TracksParents(op.call)) => op.depth = EntryDepth
<1>1. op.node \in DOMAIN heap
  BY DEF Invariant, CallInvariant, SearchKeepsItsPath, AtLeaf
<1>2. op.node \in Leaves(heap)  BY <1>1, NodeFacts DEF Invariant, AtLeaf
<1>3. LeafKey = op.node.at /\ LeafKey \in Keys /\ heap[op.node].value \in Values
  BY <1>2, LeafFacts DEF Invariant, LeafKey
<1>4. op.call \in KeyCalls => op.key \in Keys /\ AgreeOn(op.key, op.node.at, op.depth)
                              /\ (TracksParents(op.call) => op.depth = EntryDepth)
  BY DEF Invariant, CallInvariant, SearchIsOnPath, AtLeaf, Walking
<1> QED  BY <1>1, <1>2, <1>3, <1>4, OpFields, KeysAssumption DEF Invariant, ByteString

LEMMA FindMismatchKeeps ==
  ASSUME Invariant, FindMismatch
  PROVE  Invariant'
<1> DEFINE leaf_ptr == IF PrefixIsImplicit THEN op.cursor ELSE None
           point == [kind |-> "MismatchPrefix", matched_bytes |-> Matched,
                     prefix_byte |-> FullPrefix[Matched + 1], leaf_ptr |-> leaf_ptr]
           used == op.depth + Matched
<1>1. /\ AtInner /\ op.call = "try_insert" /\ op.call \in KeyCalls /\ TracksParents(op.call)
      /\ PrefixIsRead /\ ~PrefixMatches /\ KeyGoesOn /\ op.pc = "search"
      /\ StopAt(point, op.depth) /\ UNCHANGED <<heap, root, num_entries>>
  BY DEF FindMismatch, AtInner, KeyCalls, TracksParents
<1>2. /\ op.node \in Inners(heap) /\ op.node \in DOMAIN heap
      /\ op.node.at \in ByteString /\ Len(op.node.at) \in Nat
      /\ op.key \in ByteString /\ Len(op.key) \in Nat /\ op.depth \in Nat
      /\ op.depth <= Len(op.key) /\ op.depth <= Len(op.node.at)
      /\ \A i \in 1 .. op.depth : op.key[i] = op.node.at[i]
      /\ Represents(CurrentHeader, DropFirst(op.node.at, op.depth))
  BY <1>1, SearchFacts
<1>3. /\ Matched \in Nat
      /\ used < Len(op.node.at) /\ used < Len(op.key) /\ used \in Nat
      /\ \A i \in 1 .. used : op.key[i] = op.node.at[i]
      /\ FullPrefix[Matched + 1] = op.node.at[used + 1]
      /\ op.key[used + 1] # op.node.at[used + 1]
  BY <1>1, <1>2, MatchFacts DEF KeyGoesOn
<1>4. op.node.at[used + 1] \in Byte
  <2>1. used + 1 \in 1 .. Len(op.node.at)  BY <1>2, <1>3
  <2> QED  BY <2>1, <1>2 DEF ByteString
<1>5. PrefixIsImplicit => /\ op.cursor \in Leaves(heap) /\ op.cursor \in LeafPointer
                          /\ IsPrefix(op.node.at, op.cursor.at) /\ op.cursor # None
  BY <1>1, NodeFacts
  DEF PrefixIsRead, CursorAtLeaf, Invariant, CallInvariant, CursorIsBelow
<1> HIDE DEF leaf_ptr
<1>6. leaf_ptr \in LeafPointer \cup {None}  BY <1>5 DEF leaf_ptr
<1>7. /\ point.kind = "MismatchPrefix" /\ point.matched_bytes = Matched
      /\ point.prefix_byte = op.node.at[used + 1] /\ point.leaf_ptr = leaf_ptr
  BY <1>3
<1>8. point \in PointType  BY <1>3, <1>4, <1>6 DEF PointType
<1> HIDE DEF point
<1>9. AgreeOn(op.key, op.node.at, op.depth) /\ AgreeOn(op.key, op.node.at, used)
  BY <1>2, <1>3 DEF AgreeOn
<1>10. op.depth = EntryDepth
  BY <1>1 DEF Invariant, CallInvariant, SearchIsOnPath, Walking
<1>11. /\ TreeInvariant' /\ SearchKeepsItsPath' /\ SearchIsOnPath' /\ NothingIsPassedBy'
       /\ CursorIsBelow' /\ TeardownIsExact'
       /\ op'.pc = "apply" /\ op'.call = op.call /\ op'.key = op.key
       /\ op'.node = op.node /\ op'.depth = op.depth /\ op'.parent = op.parent
       /\ op'.point = point
  BY <1>1, <1>2, <1>8, <1>9, StopKeepsPath
<1>12. EntryDepth' = EntryDepth /\ CurrentHeader' = CurrentHeader
       /\ PrefixIsImplicit' = PrefixIsImplicit
  BY <1>1, <1>11 DEF EntryDepth, CurrentHeader, PrefixIsImplicit
<1>13. op.node.at[used + 1] # op.key[used + 1] /\ IsInner(op.node)
  BY <1>1, <1>3 DEF AtInner
<1>14. /\ leaf_ptr = None => ~PrefixIsImplicit
       /\ leaf_ptr # None => leaf_ptr \in Leaves(heap) /\ IsPrefix(op.node.at, leaf_ptr.at)
  BY <1>5 DEF leaf_ptr
<1>15. Leaves(heap)' = Leaves(heap)  BY <1>1 DEF Leaves
<1> HIDE DEF used
<1>16. PointFitsNode'
  <2>1. op.depth + point.matched_bytes = used  BY <1>7 DEF used
  <2> QED  BY <2>1, <1>1, <1>2, <1>3, <1>7, <1>8, <1>9, <1>10, <1>11, <1>12, <1>13, <1>14, <1>15
           DEF PointFitsNode
<1> QED  BY <1>11, <1>16 DEF Invariant, CallInvariant

LEMMA FindVacancyKeeps ==
  ASSUME Invariant, FindVacancy
  PROVE  Invariant'
<1> DEFINE point == [kind |-> "IntoExisting"]
           depth == op.depth + Matched
<1>1. /\ AtInner /\ op.call = "try_insert" /\ op.call \in KeyCalls
      /\ PrefixIsRead /\ PrefixMatches /\ KeyGoesOn /\ ~HasNextChild /\ op.pc = "search"
      /\ StopAt(point, depth) /\ UNCHANGED <<heap, root, num_entries>>
  BY DEF FindVacancy, AtInner, KeyCalls
<1>2. /\ op.node \in Inners(heap) /\ Len(op.node.at) \in Nat /\ op.depth \in Nat
      /\ Len(op.key) \in Nat
  BY <1>1, SearchFacts
<1>3. /\ Matched \in Nat /\ depth = Len(op.node.at) /\ depth < Len(op.key)
      /\ \A i \in 1 .. depth : op.key[i] = op.node.at[i]
  BY <1>1, <1>2, MatchFacts DEF KeyGoesOn
<1>4. op.key[depth + 1] \notin ChildBytes(op.node)
  BY <1>1 DEF HasNextChild, NextByte, ChildBytes
<1>5. op.depth <= depth /\ depth \in Nat /\ AgreeOn(op.key, op.node.at, depth)
  BY <1>2, <1>3 DEF AgreeOn
<1>6. point \in PointType /\ point.kind = "IntoExisting"  BY DEF PointType
<1> HIDE DEF point, depth
<1>7. /\ TreeInvariant' /\ SearchKeepsItsPath' /\ SearchIsOnPath' /\ NothingIsPassedBy'
      /\ CursorIsBelow' /\ TeardownIsExact'
      /\ op'.pc = "apply" /\ op'.call = op.call /\ op'.key = op.key
      /\ op'.node = op.node /\ op'.depth = depth /\ op'.point = point
  BY <1>1, <1>5, <1>6, StopKeepsPath
<1>8. PointFitsNode'
  BY <1>1, <1>3, <1>4, <1>6, <1>7 DEF PointFitsNode, AtInner, ChildBytes
<1> QED  BY <1>7, <1>8 DEF Invariant, CallInvariant

LEMMA FindExactKeeps ==
  ASSUME Invariant, FindExact
  PROVE  Invariant'
<1> DEFINE point == [kind |-> "Exact"]
<1>1. /\ AtLeaf /\ op.call = "try_insert" /\ op.call \in KeyCalls /\ LeafKey = op.key
      /\ op.pc = "search" /\ IsLeaf(op.node)
      /\ StopAt(point, op.depth) /\ UNCHANGED <<heap, root, num_entries>>
  BY DEF FindExact, AtLeaf, KeyCalls
<1>2. op.depth \in Nat /\ AgreeOn(op.key, op.node.at, op.depth)
  BY <1>1, AtLeafFacts
<1>3. point \in PointType /\ point.kind = "Exact"  BY DEF PointType
<1> HIDE DEF point
<1>4. /\ TreeInvariant' /\ SearchKeepsItsPath' /\ SearchIsOnPath' /\ NothingIsPassedBy'
      /\ CursorIsBelow' /\ TeardownIsExact'
      /\ op'.pc = "apply" /\ op'.call = op.call /\ op'.key = op.key
      /\ op'.node = op.node /\ op'.depth = op.depth /\ op'.point = point
  BY <1>1, <1>2, <1>3, StopKeepsPath
<1>5. PointFitsNode'  BY <1>1, <1>3, <1>4 DEF PointFitsNode, LeafKey
<1> QED  BY <1>4, <1>5 DEF Invariant, CallInvariant

LEMMA FindLeafToDeleteKeeps ==
  ASSUME Invariant, FindLeafToDelete
  PROVE  Invariant'
<1> DEFINE point == [kind |-> "Delete"]
<1>1. /\ AtLeaf /\ op.pc = "search" /\ IsLeaf(op.node)
      /\ StopAt(point, op.depth) /\ UNCHANGED <<heap, root, num_entries>>
  BY DEF FindLeafToDelete, AtLeaf
<1>1a. TracksParents(op.call)  BY DEF FindLeafToDelete, TracksParents
<1>2. op.depth \in Nat /\ (op.call \in KeyCalls => AgreeOn(op.key, op.node.at, op.depth))
  BY <1>1, AtLeafFacts
<1>3. point \in PointType /\ point.kind = "Delete"  BY DEF PointType
<1> HIDE DEF point
<1>4. /\ TreeInvariant' /\ SearchKeepsItsPath' /\ SearchIsOnPath' /\ NothingIsPassedBy'
      /\ CursorIsBelow' /\ TeardownIsExact'
      /\ op'.pc = "apply" /\ op'.node = op.node /\ op'.point = point /\ op'.call = op.call
  BY <1>1, <1>2, <1>3, StopKeepsPath
<1>5. PointFitsNode'  BY <1>1, <1>1a, <1>3, <1>4 DEF PointFitsNode, TracksParents
<1> QED  BY <1>4, <1>5 DEF Invariant, CallInvariant

(* What two strings share beyond a depth they agree on.                    *)
LEMMA SharedBytesFacts ==
  ASSUME Invariant, AtLeaf, op.call \in KeyCalls
  PROVE  /\ SharedBytes \in Nat /\ op.depth <= SharedBytes
         /\ SharedBytes <= Len(op.key) /\ SharedBytes <= Len(LeafKey)
         /\ AgreeOn(op.key, LeafKey, SharedBytes)
         /\ (SharedBytes < Len(op.key) /\ SharedBytes < Len(LeafKey)) =>
              op.key[SharedBytes + 1] # LeafKey[SharedBytes + 1]
<1> DEFINE s == DropFirst(LeafKey, op.depth)
           t == DropFirst(op.key, op.depth)
           m == MatchedBytes(s, t)
<1>1. /\ LeafKey \in ByteString /\ Len(LeafKey) \in Nat /\ op.depth \in Nat
      /\ op.key \in ByteString /\ Len(op.key) \in Nat
      /\ op.depth <= Len(op.key) /\ op.depth <= Len(LeafKey)
      /\ \A i \in 1 .. op.depth : op.key[i] = LeafKey[i]
  BY AtLeafFacts DEF AgreeOn
<1>2. s \in ByteString /\ Len(s) = Len(LeafKey) - op.depth
      /\ \A i \in 1 .. Len(LeafKey) - op.depth : s[i] = LeafKey[op.depth + i]
  BY <1>1, DropFirstFacts
<1>3. t \in ByteString /\ Len(t) = Len(op.key) - op.depth
      /\ \A i \in 1 .. Len(op.key) - op.depth : t[i] = op.key[op.depth + i]
  BY <1>1, DropFirstFacts
<1>4. IsMatchedBytes(m, s, t)  BY <1>2, <1>3, MatchedBytesFacts
<1>5. SharedBytes = op.depth + m  BY DEF SharedBytes
<1> HIDE DEF s, t, m
<1>6. /\ m \in Nat /\ m <= Len(s) /\ m <= Len(t)
      /\ \A i \in 1 .. m : s[i] = t[i]
      /\ m < Len(s) /\ m < Len(t) => s[m + 1] # t[m + 1]
  BY <1>1, <1>2, <1>3, <1>4 DEF IsMatchedBytes, Lesser
<1>7. op.depth + m <= Len(op.key) /\ op.depth + m <= Len(LeafKey)
  <2>1. m <= Len(op.key) - op.depth /\ m <= Len(LeafKey) - op.depth  BY <1>2, <1>3, <1>6
  <2>2. m \in Nat  BY <1>6
  <2> QED  BY <1>1, <2>1, <2>2
<1>8. ASSUME NEW i \in 1 .. op.depth + m  PROVE op.key[i] = LeafKey[i]
  <2>1. CASE i <= op.depth  BY <1>1, <1>6, <2>1
  <2>2. CASE ~(i <= op.depth)
    <3>1. i - op.depth \in 1 .. m /\ i = op.depth + (i - op.depth)  BY <1>1, <1>6, <2>2
    <3>2. s[i - op.depth] = t[i - op.depth]  BY <3>1, <1>6
    <3>3. i - op.depth \in 1 .. Len(LeafKey) - op.depth
          /\ i - op.depth \in 1 .. Len(op.key) - op.depth
      BY <3>1, <1>1, <1>6, <1>7
    <3>4. s[i - op.depth] = LeafKey[i] /\ t[i - op.depth] = op.key[i]
      BY <3>1, <3>3, <1>2, <1>3
    <3> QED  BY <3>2, <3>4
  <2> QED  BY <2>1, <2>2
<1>9. ASSUME op.depth + m < Len(op.key), op.depth + m < Len(LeafKey)
      PROVE  op.key[op.depth + m + 1] # LeafKey[op.depth + m + 1]
  <2>1. m < Len(s) /\ m < Len(t)  BY <1>1, <1>2, <1>3, <1>6, <1>9
  <2>2. m + 1 \in 1 .. Len(LeafKey) - op.depth /\ m + 1 \in 1 .. Len(op.key) - op.depth
        /\ op.depth + (m + 1) = op.depth + m + 1
    BY <1>1, <1>6, <1>9
  <2>3. s[m + 1] = LeafKey[op.depth + m + 1] /\ t[m + 1] = op.key[op.depth + m + 1]
    BY <2>2, <1>2, <1>3
  <2> QED  BY <2>1, <2>3, <1>6
<1>10. AgreeOn(op.key, LeafKey, op.depth + m)  BY <1>7, <1>8 DEF AgreeOn
<1> QED  BY <1>1, <1>5, <1>6, <1>7, <1>9, <1>10

LEMMA FindLeafToSplitKeeps ==
  ASSUME Invariant, FindLeafToSplit
  PROVE  Invariant'
<1> DEFINE used == SharedBytes
           point == [kind |-> "SplitLeaf", new_key_bytes_used |-> used]
<1>1. /\ AtLeaf /\ op.call = "try_insert" /\ op.call \in KeyCalls /\ op.call \in Calls
      /\ TracksParents(op.call) /\ op.pc = "search" /\ IsLeaf(op.node)
      /\ UNCHANGED <<heap, root, num_entries>>
  BY DEF FindLeafToSplit, AtLeaf, KeyCalls, Calls, TracksParents
<1>2. CASE Finish(InsertPrefixError)
  <2>1. /\ op.key \in Keys \cup {<< >>} /\ op.value \in Values \cup {None}
        /\ InsertPrefixError \in OutType
    BY OpFields DEF Invariant, OutType
  <2> QED  BY <1>1, <1>2, <2>1, FinishKeeps DEF Finish, TearingDown
<1>3. CASE /\ ~(used >= Len(op.key) \/ used >= Len(LeafKey))
           /\ StopAt(point, op.depth)
  <2>1. /\ op.depth \in Nat /\ op.depth = EntryDepth /\ AgreeOn(op.key, LeafKey, op.depth)
        /\ LeafKey = op.node.at /\ Len(op.key) \in Nat /\ Len(LeafKey) \in Nat
    BY <1>1, AtLeafFacts
  <2>2. /\ used \in Nat /\ op.depth <= used /\ AgreeOn(op.key, LeafKey, used)
        /\ used < Len(op.key) /\ used < Len(LeafKey)
        /\ op.key[used + 1] # LeafKey[used + 1]
    BY <1>1, <1>3, <2>1, SharedBytesFacts
  <2> HIDE DEF used
  <2>3. point \in PointType /\ point.kind = "SplitLeaf" /\ point.new_key_bytes_used = used
    BY <2>2 DEF PointType
  <2> HIDE DEF point
  <2>4. /\ TreeInvariant' /\ SearchKeepsItsPath' /\ SearchIsOnPath' /\ NothingIsPassedBy'
        /\ CursorIsBelow' /\ TeardownIsExact'
        /\ op'.pc = "apply" /\ op'.call = op.call /\ op'.key = op.key
        /\ op'.node = op.node /\ op'.depth = op.depth /\ op'.parent = op.parent
        /\ op'.point = point
    BY <1>1, <1>3, <2>1, <2>3, StopKeepsPath
  <2>5. EntryDepth' = EntryDepth /\ LeafKey' = LeafKey
    BY <1>1, <2>4 DEF EntryDepth, LeafKey
  <2>6. PointFitsNode'
    BY <1>1, <2>1, <2>2, <2>3, <2>4, <2>5 DEF PointFitsNode
  <2> QED  BY <2>4, <2>6 DEF Invariant, CallInvariant
<1> QED  BY <1>2, <1>3 DEF FindLeafToSplit
-----------------------------------------------------------------------------
(* Answers of a search that changed nothing.                               *)
LEMMA SearchEndsKeep ==
  ASSUME Invariant, InsertKeyTooShort \/ LookupMiss \/ ReadLeaf
  PROVE  Invariant'
<1>1. op.pc = "search" /\ ~TearingDown /\ UNCHANGED <<heap, root, num_entries>>
  BY DEF InsertKeyTooShort, LookupMiss, ReadLeaf, AtInner, AtLeaf, TearingDown
<1>2. op.call \in Calls
  BY DEF InsertKeyTooShort, LookupMiss, ReadLeaf, Calls
<1>3. PICK out \in OutType : Finish(out)
  <2>1. CASE InsertKeyTooShort  BY <2>1 DEF InsertKeyTooShort, OutType
  <2>2. CASE LookupMiss  BY <2>2 DEF LookupMiss, OutType
  <2>3. CASE ReadLeaf
    <3>1. LeafKey \in Keys /\ heap[op.node].value \in Values
      BY <2>3, AtLeafFacts DEF ReadLeaf
    <3> QED  BY <2>3, <3>1 DEF ReadLeaf, OutType
  <2> QED  BY <2>1, <2>2, <2>3
<1>4. op.key \in Keys \cup {<< >>} /\ op.value \in Values \cup {None}
  BY OpFields DEF Invariant
<1> QED  BY <1>1, <1>2, <1>3, <1>4, FinishKeeps DEF Finish
-----------------------------------------------------------------------------
(* edge is the way to x: a parent and a byte, or None if x is the root.    *)
EdgeTo(edge, x) ==
  IF edge = None THEN x = root
  ELSE /\ edge.node \in Inners(heap) /\ edge.byte \in ChildBytes(edge.node)
       /\ Child(edge.node, edge.byte) = x

(* How many bytes the edge passes. *)
DepthAt(edge) == IF edge = None THEN 0 ELSE Len(edge.node.at) + 1

(* A node has no children changed but the one the edge names.              *)
Rewritten(n, edge, new) ==
  heap'[n] = IF edge # None /\ n = edge.node THEN WriteChild(heap[n], edge.byte, new)
             ELSE heap[n]

LEMMA OnlyThatEdge ==
  ASSUME TreeInvariant, ~TearingDown, root # None,
         NEW edge, NEW x \in DOMAIN heap, EdgeTo(edge, x)
  PROVE  /\ x = root <=> edge = None
         /\ \A n \in Inners(heap) : \A b \in ChildBytes(n) :
              Child(n, b) = x => edge # None /\ n = edge.node /\ b = edge.byte
<1>1. Shape /\ root \in DOMAIN heap /\ \A y \in DOMAIN heap : IsPrefix(root.at, y.at)
  BY InvariantShape DEF TreeInvariant, RootIsAboveAll
<1>2. ASSUME NEW n \in Inners(heap), NEW b \in ChildBytes(n), Child(n, b) = root
      PROVE  FALSE
  <2>1. Below(root, n)  BY <1>1, <1>2, ChildFacts
  <2>2. n \in DOMAIN heap /\ IsPrefix(root.at, n.at)  BY <1>1 DEF Inners
  <2> QED  BY <2>1, <2>2, <1>1, NodeFacts, PrefixPointwise DEF Below
<1>3. CASE edge = None  BY <1>2, <1>3 DEF EdgeTo
<1>4. CASE edge # None
  <2>1. /\ edge.node \in Inners(heap) /\ edge.byte \in ChildBytes(edge.node)
        /\ Child(edge.node, edge.byte) = x
    BY <1>4 DEF EdgeTo
  <2> QED  BY <1>1, <1>2, <1>4, <2>1, OneParent
<1> QED  BY <1>3, <1>4

(* The nodes that are not built anew: the pointer to old has become one to *)
(* new, and nothing else has changed.                                      *)
LEMMA RewrittenFacts ==
  ASSUME TreeInvariant, ~TearingDown, root # None,
         NEW edge, NEW old \in DOMAIN heap, EdgeTo(edge, old), NEW new \in PointerType,
         NEW n \in Inners(heap), Rewritten(n, edge, new)
  PROVE  /\ InnerOK(n)'
         /\ heap'[n].header = heap[n].header
         /\ ChildBytes(n)' = ChildBytes(n)
         /\ \A b \in ChildBytes(n) :
              NewChild(n, b) = IF Child(n, b) = old THEN new ELSE Child(n, b)
         /\ NumChildren(heap'[n]) = NumChildren(heap[n])
<1>1. /\ heap[n] = Inner(heap[n].header, heap[n].children)
      /\ heap[n].header \in HeaderType
      /\ heap[n].children \in [ChildBytes(n) -> PointerType]
      /\ ChildBytes(n) \subseteq Byte
  BY InnerFacts
<1>2. \A b \in ChildBytes(n) :
        Child(n, b) = old <=> edge # None /\ n = edge.node /\ b = edge.byte
  BY OnlyThatEdge DEF EdgeTo
<1>3. CASE edge # None /\ n = edge.node
  <2>1. edge.byte \in ChildBytes(n)  BY <1>3 DEF EdgeTo
  <2>2. heap'[n] = Inner(heap[n].header, With(heap[n].children, edge.byte, new))
    BY <1>3 DEF Rewritten, WriteChild
  <2>3. With(heap[n].children, edge.byte, new) =
          [b \in ChildBytes(n) |-> IF b = edge.byte THEN new ELSE Child(n, b)]
    BY <2>1 DEF With, ChildBytes, Child
  <2>4. \A b \in ChildBytes(n) : Child(n, b) \in PointerType  BY <1>1 DEF Child
  <2>5. With(heap[n].children, edge.byte, new) \in [ChildBytes(n) -> PointerType]
    BY <2>3, <2>4
  <2>6. heap'[n].header = heap[n].header
        /\ heap'[n].children = [b \in ChildBytes(n) |-> IF b = edge.byte THEN new ELSE Child(n, b)]
        /\ heap'[n] = Inner(heap'[n].header, heap'[n].children)
    BY <2>2, <2>3 DEF Inner
  <2>7. InnerOK(n)'  BY <2>3, <2>5, <2>6, <1>1 DEF InnerOK
  <2>8. ChildBytes(n)' = ChildBytes(n) /\ DOMAIN heap'[n].children = DOMAIN heap[n].children
    BY <2>6 DEF ChildBytes
  <2>9. \A b \in ChildBytes(n) :
          NewChild(n, b) = IF Child(n, b) = old THEN new ELSE Child(n, b)
    BY <2>6, <1>2, <1>3 DEF NewChild
  <2> QED  BY <2>6, <2>7, <2>8, <2>9 DEF NumChildren
<1>4. CASE ~(edge # None /\ n = edge.node)
  <2>1. heap'[n] = heap[n]  BY <1>4 DEF Rewritten
  <2>2. InnerOK(n)'  BY <2>1, <1>1 DEF InnerOK
  <2> QED  BY <2>1, <2>2, <1>2, <1>4 DEF ChildBytes, NewChild, Child
<1> QED  BY <1>3, <1>4

LEMMA RewrittenLeaf ==
  ASSUME TreeInvariant, NEW edge, NEW x, EdgeTo(edge, x), NEW new,
         NEW p \in Leaves(heap), Rewritten(p, edge, new)
  PROVE  heap'[p] = heap[p] /\ LeafOK(p)'
<1>1. ~(edge # None /\ p = edge.node)
  BY InnerFacts, LeafFacts, NodeFacts DEF EdgeTo
<1>2. heap'[p] = heap[p]  BY <1>1 DEF Rewritten
<1> QED  BY <1>2 DEF LeafOK, TreeInvariant, TypeOK

(* An update leaves the nodes of S but for the edge to old, which becomes  *)
(* the edge to new, and builds the nodes of T.                             *)
Update(edge, old, new, S, T) ==
  /\ old \in DOMAIN heap /\ new \in PointerType /\ EdgeTo(edge, old)
  /\ S \subseteq DOMAIN heap /\ IsFiniteSet(T) /\ DOMAIN heap' = S \cup T
  /\ \A n \in S : Rewritten(n, edge, new)
  /\ root \in S \cup {old}
  /\ \A n \in Inners(heap) : n \in S =>
       \A b \in ChildBytes(n) : IsInner(Child(n, b)) => Child(n, b) \in S \cup {old}
  /\ root' = IF edge = None THEN new ELSE root

FitsType(n) ==
  /\ NumChildren(heap[n]) \in 2 .. UpperCapacity[n.type]
  /\ ~ShouldShrink(n.type, NumChildren(heap[n]))

(* A node built by the update is as the invariant wants it. *)
Built(n) ==
  /\ IsLeaf(n) => LeafOK(n)'
  /\ IsInner(n) =>
       /\ InnerOK(n)' /\ FitsType(n)'
       /\ \A b \in ChildBytes(n)' :
            IsInner(NewChild(n, b)) =>
              Represents(heap'[NewChild(n, b)].header,
                         DropFirst(NewChild(n, b).at, Len(n.at) + 1))

LEMMA UpdateKeepsTypes ==
  ASSUME TreeInvariant, ~TearingDown, root # None,
         NEW edge, NEW old, NEW new, NEW S, NEW T, Update(edge, old, new, S, T)
  PROVE  /\ \A n \in Inners(heap) \cap S : InnerOK(n)'
         /\ \A p \in Leaves(heap) \cap S : LeafOK(p)'
BY RewrittenFacts, RewrittenLeaf DEF Update

LEMMA UpdateRedirects ==
  ASSUME TreeInvariant, ~TearingDown, root # None,
         NEW edge, NEW old, NEW new, NEW S, NEW T, Update(edge, old, new, S, T)
  PROVE  /\ Redirects(Inners(heap) \cap S, old, new)
         /\ RootRedirects(old, new)
         /\ \A n \in Inners(heap) \cap S :
              /\ heap'[n].header = heap[n].header
              /\ NumChildren(heap'[n]) = NumChildren(heap[n])
<1>1. \A n \in Inners(heap) \cap S :
        /\ heap'[n].header = heap[n].header
        /\ ChildBytes(n)' = ChildBytes(n)
        /\ \A b \in ChildBytes(n) :
             NewChild(n, b) = IF Child(n, b) = old THEN new ELSE Child(n, b)
        /\ NumChildren(heap'[n]) = NumChildren(heap[n])
  BY RewrittenFacts DEF Update
<1>3. RootRedirects(old, new)  BY OnlyThatEdge DEF Update, RootRedirects
<1> QED  BY <1>1, <1>3 DEF Redirects

LEMMA UpdateKeepsHeaders ==
  ASSUME TreeInvariant, ~TearingDown, root # None,
         NEW edge, NEW old, NEW new, NEW S, NEW T, Update(edge, old, new, S, T),
         NEW n \in Inners(heap) \cap S
  PROVE  heap'[n].header = heap[n].header
BY UpdateRedirects

LEMMA UpdateKeepsInvariant ==
  ASSUME TreeInvariant, ~TearingDown, root # None,
         NEW edge \in EdgeType \cup {None}, NEW old, NEW new, NEW S, NEW T,
         Update(edge, old, new, S, T), \A n \in T : Built(n),
         IsInner(new) => Represents(heap'[new].header, DropFirst(new.at, DepthAt(edge))),
         Shape', RootIsAboveAll', op' \in OpType, op'.pc = "done",
         num_entries' \in Nat, num_entries' = Cardinality(Leaves(heap)')
  PROVE  Invariant'
<1>1. /\ \A n \in Inners(heap) \cap S :
           /\ ChildBytes(n)' = ChildBytes(n)
           /\ \A b \in ChildBytes(n) :
                NewChild(n, b) = IF Child(n, b) = old THEN new ELSE Child(n, b)
           /\ heap'[n].header = heap[n].header
           /\ NumChildren(heap'[n]) = NumChildren(heap[n])
  BY UpdateRedirects DEF Redirects
<1>1a. /\ \A n \in Inners(heap) \cap S : InnerOK(n)'
       /\ \A p \in Leaves(heap) \cap S : LeafOK(p)'
  BY UpdateKeepsTypes
<1>2. /\ DOMAIN heap' = S \cup T /\ DOMAIN heap' \subseteq PointerType
      /\ S \subseteq DOMAIN heap /\ IsFiniteSet(T)
      /\ old \in DOMAIN heap /\ new \in PointerType
      /\ old \in PointerType
  BY NodeFacts DEF Update, Shape
<1>3. /\ \A p \in Leaves(heap)' : p \in Leaves(heap) \cap S \/ (p \in T /\ IsLeaf(p))
      /\ \A n \in Inners(heap)' : n \in Inners(heap) \cap S \/ (n \in T /\ IsInner(n))
  BY <1>2 DEF Leaves, Inners
<1>4. TypeOK'
  <2>1. \A p \in Leaves(heap)' : LeafOK(p)'  BY <1>1a, <1>3 DEF Built
  <2>2. \A n \in Inners(heap)' : InnerOK(n)'  BY <1>1a, <1>3 DEF Built
  <2>3. root' \in PointerType \cup {None}
    BY <1>2 DEF Update, TreeInvariant, TypeOK
  <2> QED  BY <1>2, <2>1, <2>2, <2>3 DEF TypeOK
<1>5. HeapIsFinite'
  <2>1. IsFiniteSet(S)  BY <1>2, FS_Subset DEF TreeInvariant, HeapIsFinite
  <2> QED  BY <1>2, <2>1, FS_Union DEF HeapIsFinite
<1>6. NodesFitTheirType'
  <2>1. \A n \in Inners(heap)' : FitsType(n)'
    BY <1>1, <1>3 DEF Built, FitsType, TreeInvariant, NodesFitTheirType
  <2> QED  BY <2>1 DEF NodesFitTheirType, FitsType
(* What the old headers stand for. *)
<1>7. \A n \in Inners(heap) : \A b \in ChildBytes(n) :
        IsInner(Child(n, b)) =>
          Represents(heap[Child(n, b)].header, DropFirst(Child(n, b).at, Len(n.at) + 1))
  BY DEF TreeInvariant, PrefixesAreFaithful
<1>8. ASSUME NEW n \in Inners(heap) \cap S, NEW b \in ChildBytes(n), IsInner(NewChild(n, b))
      PROVE  Represents(heap'[NewChild(n, b)].header,
                        DropFirst(NewChild(n, b).at, Len(n.at) + 1))
  <2>1. CASE Child(n, b) = old
    <3>1. NewChild(n, b) = new  BY <1>1, <2>1
    <3>2. edge # None /\ n = edge.node  BY <1>2, <2>1, OnlyThatEdge DEF Update
    <3>3. DepthAt(edge) = Len(n.at) + 1  BY <3>2 DEF DepthAt
    <3> QED  BY <1>8, <3>1, <3>3
  <2>2. CASE Child(n, b) # old
    <3>1. NewChild(n, b) = Child(n, b)  BY <1>1, <2>2
    <3>2. Child(n, b) \in S  BY <1>8, <2>2, <3>1 DEF Update
    <3>3. Child(n, b) \in Inners(heap) \cap S  BY <1>2, <1>8, <3>1, <3>2 DEF Inners
    <3>4. heap'[Child(n, b)].header = heap[Child(n, b)].header  BY <1>1, <3>3
    <3> QED  BY <1>7, <1>8, <3>1, <3>4
  <2> QED  BY <2>1, <2>2
<1>9. ASSUME NEW n \in Inners(heap)', NEW b \in ChildBytes(n)', IsInner(NewChild(n, b))
      PROVE  Represents(heap'[NewChild(n, b)].header,
                        DropFirst(NewChild(n, b).at, Len(n.at) + 1))
  BY <1>1, <1>3, <1>8, <1>9 DEF Built
<1>10. (root' # None /\ IsInner(root')) => Represents(heap'[root'].header, root'.at)
  <2>1. SUFFICES ASSUME root' # None, IsInner(root')
                 PROVE  Represents(heap'[root'].header, root'.at)
    OBVIOUS
  <2>2. CASE edge = None
    <3>1. root' = new /\ DepthAt(edge) = 0  BY <2>2 DEF Update, DepthAt
    <3>2. DropFirst(new.at, 0) = new.at
      BY <1>2, PointerFacts DEF DropFirst, ByteString
    <3> QED  BY <2>1, <3>1, <3>2
  <2>3. CASE edge # None
    <3>1. root' = root /\ root # old  BY <1>2, <2>3, OnlyThatEdge DEF Update
    <3>2. root \in S  BY <3>1 DEF Update
    <3>3. root \in Inners(heap) \cap S  BY <1>2, <2>1, <3>1, <3>2 DEF Inners
    <3>4. heap'[root].header = heap[root].header  BY <1>1, <3>3
    <3> QED  BY <2>1, <3>1, <3>4 DEF TreeInvariant, PrefixesAreFaithful
  <2> QED  BY <2>2, <2>3
<1>11. PrefixesAreFaithful'
  BY <1>9, <1>10 DEF PrefixesAreFaithful, NewChild, Child, ChildBytes
<1>12. CountIsExact'  BY DEF CountIsExact
<1>13. TreeInvariant'
  BY <1>4, <1>5, <1>6, <1>11, <1>12 DEF TreeInvariant, Shape
<1>14. CallInvariant'  BY AnsweredKeepsCall
<1> QED  BY <1>13, <1>14 DEF Invariant
-----------------------------------------------------------------------------
(* The number of entries follows the leaves.                               *)
LEMMA CountUp ==
  ASSUME TreeInvariant, ~TearingDown, NEW leaf, leaf \notin Leaves(heap),
         Leaves(heap)' = Leaves(heap) \cup {leaf}, num_entries' = num_entries + 1
  PROVE  num_entries' \in Nat /\ num_entries' = Cardinality(Leaves(heap)')
<1>1. IsFiniteSet(Leaves(heap))
  BY FS_Subset DEF TreeInvariant, HeapIsFinite, Leaves
<1>2. num_entries = Cardinality(Leaves(heap)) /\ num_entries \in Nat
  BY DEF TreeInvariant, CountIsExact, TypeOK
<1> QED  BY <1>1, <1>2, FS_AddElement

LEMMA CountDown ==
  ASSUME TreeInvariant, ~TearingDown, NEW leaf \in Leaves(heap),
         Leaves(heap)' = Leaves(heap) \ {leaf}, num_entries' = num_entries - 1
  PROVE  num_entries' \in Nat /\ num_entries' = Cardinality(Leaves(heap)')
<1>1. IsFiniteSet(Leaves(heap))
  BY FS_Subset DEF TreeInvariant, HeapIsFinite, Leaves
<1>2. num_entries = Cardinality(Leaves(heap)) /\ num_entries \in Nat
  BY DEF TreeInvariant, CountIsExact, TypeOK
<1>3. num_entries' = Cardinality(Leaves(heap)')  BY <1>1, <1>2, FS_RemoveElement
<1>4. IsFiniteSet(Leaves(heap)')  BY <1>1, FS_RemoveElement
<1>5. Cardinality(Leaves(heap)') \in Nat  BY <1>4, FS_CardinalityType
<1> QED  BY <1>3, <1>5
-----------------------------------------------------------------------------
(* Overwriting the value of a leaf changes nothing else.                   *)
LEMMA OverwriteKeeps ==
  ASSUME Invariant, ~TearingDown, NEW p \in Leaves(heap), NEW v \in Values,
         heap' = [heap EXCEPT ![p] = Leaf(p.at, v)], UNCHANGED <<root, num_entries>>,
         op' \in OpType, op'.pc = "done"
  PROVE  Invariant'
<1> USE DEF Invariant, TreeInvariant
<1>1. /\ p \in DOMAIN heap /\ IsLeaf(p) /\ p.at \in Keys /\ ~IsInner(p)
  BY LeafFacts, NodeFacts
<1>2. /\ DOMAIN heap' = DOMAIN heap
      /\ Inners(heap)' = Inners(heap) /\ Leaves(heap)' = Leaves(heap)
      /\ \A x \in DOMAIN heap \ {p} : heap'[x] = heap[x]
      /\ heap'[p] = Leaf(p.at, v)
  BY <1>1 DEF Inners, Leaves
<1>3. \A n \in Inners(heap) : heap'[n] = heap[n] /\ n \in DOMAIN heap  BY <1>1, <1>2 DEF Inners
<1>4. \A n \in Inners(heap) : ChildBytes(n)' = ChildBytes(n)  BY <1>3 DEF ChildBytes
<1>5. \A n \in Inners(heap) : \A b \in ChildBytes(n) : NewChild(n, b) = Child(n, b)
  BY <1>3 DEF NewChild, Child
<1>6. TypeOK'
  <2>1. \A x \in Leaves(heap) : LeafOK(x)'
    BY <1>1, <1>2 DEF TypeOK, LeafOK, Leaf, Leaves
  <2>2. \A n \in Inners(heap) : InnerOK(n)'  BY <1>3 DEF TypeOK, InnerOK
  <2> QED  BY <1>2, <2>1, <2>2 DEF TypeOK
<1>7. HeapIsFinite' /\ AddressesAreFresh' /\ LeavesAreLowest' /\ RootIsAboveAll' /\ CountIsExact'
  BY <1>2 DEF HeapIsFinite, AddressesAreFresh, LeavesAreLowest, RootIsAboveAll, CountIsExact
<1>8. ChildrenAreLive'
  BY <1>2, <1>4, <1>5 DEF ChildrenAreLive, NewChild, Child
<1>8a. RoutesToEveryNode'
  <2>1. ASSUME NEW n \in Inners(heap), NEW x \in DOMAIN heap, Below(x, n)
        PROVE  ByteTowards(x, n) \in ChildBytes(n)'
               /\ IsPrefix(NewChild(n, ByteTowards(x, n)).at, x.at)
    BY <2>1, <1>4, <1>5 DEF RoutesToEveryNode
  <2> QED  BY <2>1, <1>2 DEF RoutesToEveryNode, Below, ByteTowards, NewChild, Child
<1>9. NodesFitTheirType'  BY <1>2, <1>3 DEF NodesFitTheirType
<1>10. PrefixesAreFaithful'
  <2>1. \A n \in Inners(heap) : \A b \in ChildBytes(n) :
          IsInner(Child(n, b)) => heap'[Child(n, b)] = heap[Child(n, b)]
    BY <1>3 DEF ChildrenAreLive, Inners
  <2>2. root # None /\ IsInner(root) /\ ~TearingDown => heap'[root] = heap[root]
    BY <1>3 DEF RootIsAboveAll, Inners
  <2> QED
    BY <1>2, <1>4, <1>5, <2>1, <2>2 DEF PrefixesAreFaithful, NewChild, Child
<1>11. CallInvariant'  BY AnsweredKeepsCall
<1> QED  BY <1>6, <1>7, <1>8, <1>8a, <1>9, <1>10, <1>11

LEMMA WriteLeafValueKeeps ==
  ASSUME Invariant, WriteLeafValue
  PROVE  Invariant'
<1>1. /\ AtLeaf /\ op.call = "get_mut" /\ op.call \in KeyCalls /\ op.call \in Calls
      /\ LeafKey = op.key /\ ~TearingDown
      /\ heap' = [heap EXCEPT ![op.node].value = op.value]
      /\ op' = Done(op.call, op.key, op.value, Some(heap[op.node].value))
      /\ UNCHANGED <<root, num_entries>>
  BY DEF WriteLeafValue, KeyCalls, Calls, AtLeaf, TearingDown, Finish
<1>2. op.node \in Leaves(heap) /\ op.node \in DOMAIN heap /\ heap[op.node].value \in Values
      /\ LeafKey = op.node.at
  BY <1>1, AtLeafFacts
<1>3. heap[op.node] = Leaf(op.node.at, heap[op.node].value)
  BY <1>2, LeafFacts DEF Invariant
<1>4. op.value \in Values
  BY <1>1 DEF Invariant, CallInvariant, SearchIsOnPath, Walking, AtLeaf
<1>5. heap' = [heap EXCEPT ![op.node] = Leaf(op.node.at, op.value)]
  <2>1. [heap[op.node] EXCEPT !.value = op.value] = Leaf(op.node.at, op.value)
    BY <1>3 DEF Leaf
  <2> QED  BY <1>1, <1>2, <2>1
<1>6. op' \in OpType /\ op'.pc = "done"
  <2>1. Some(heap[op.node].value) \in OutType  BY <1>2 DEF OutType
  <2> QED  BY <1>1, <2>1, OpFields, DoneType DEF Invariant
<1> QED  BY <1>1, <1>2, <1>4, <1>5, <1>6, OverwriteKeeps
-----------------------------------------------------------------------------
(* What an insert point and the search before it say.                      *)
LEMMA InsertFacts ==
  ASSUME Invariant, op.pc = "apply", op.point.kind # "Delete"
  PROVE  /\ op.call = "try_insert" /\ op.call \in Calls /\ op.call \in KeyCalls
         /\ ~TearingDown /\ root # None
         /\ op.key \in Keys /\ op.key \in ByteString /\ Len(op.key) \in Nat
         /\ op.value \in Values /\ op.depth \in Nat
         /\ op.node \in DOMAIN heap /\ op.node \in PointerType
         /\ op.node.at \in ByteString /\ Len(op.node.at) \in Nat
         /\ op.parent \in EdgeType \cup {None} /\ EdgeTo(op.parent, op.node)
         /\ op.parent # None => op.parent.node \in Inners(heap)
         /\ EntryDepth = DepthAt(op.parent)
         /\ NewLeaf \in LeafPointer /\ NewLeaf \in PointerType /\ NewLeaf.at = op.key
         /\ IsLeaf(NewLeaf) /\ ~IsInner(NewLeaf)
         /\ AgreeOn(op.key, op.node.at, op.depth)
         /\ \A x \in DOMAIN heap : AgreeOn(op.key, x.at, op.depth) => IsPrefix(op.node.at, x.at)
<1>1. op.call = "try_insert" /\ op.call \in Calls /\ op.call \in KeyCalls
      /\ TracksParents(op.call)
  BY DEF Invariant, CallInvariant, PointFitsNode, Calls, KeyCalls, TracksParents
<1>2. /\ op.key \in Keys /\ op.value \in Values /\ AgreeOn(op.key, op.node.at, op.depth)
      /\ \A x \in DOMAIN heap : AgreeOn(op.key, x.at, op.depth) => IsPrefix(op.node.at, x.at)
  BY <1>1 DEF Invariant, CallInvariant, SearchIsOnPath, NothingIsPassedBy, Walking, Applying
<1>3. /\ op.node \in DOMAIN heap
      /\ op.parent = None => op.node = root
      /\ op.parent # None =>
           /\ op.parent.node \in DOMAIN heap
           /\ op.parent.byte \in ChildBytes(op.parent.node)
           /\ Child(op.parent.node, op.parent.byte) = op.node
  BY <1>1 DEF Invariant, CallInvariant, SearchKeepsItsPath
<1>4. op.depth \in Nat /\ op.parent \in EdgeType \cup {None}  BY OpFields DEF Invariant
<1>5. op.parent # None => op.parent.node \in Inners(heap)
  BY <1>3, <1>4, LeafOrInner DEF EdgeType, Inners, PointerType
<1>6. EdgeTo(op.parent, op.node)  BY <1>3, <1>5 DEF EdgeTo
<1>7. ~TearingDown /\ root # None
  BY <1>3 DEF TearingDown, Invariant, TreeInvariant, RootIsAboveAll
<1>8. op.key \in ByteString /\ Len(op.key) \in Nat  BY <1>2, KeysAssumption DEF ByteString
<1>9. NewLeaf \in LeafPointer /\ NewLeaf.at = op.key
  BY <1>8 DEF NewLeaf, Pointer, LeafPointer
<1>10. EntryDepth = DepthAt(op.parent)  BY DEF EntryDepth, DepthAt
<1> QED
  BY <1>1, <1>2, <1>3, <1>4, <1>5, <1>6, <1>7, <1>8, <1>9, <1>10, NodeFacts, LeafOrInner
  DEF Invariant, PointerType

(* The allocation of the new leaf and the write-back to the parent.        *)
LEMMA InsertedFacts ==
  ASSUME Invariant, op.pc = "apply", op.point.kind # "Delete",
         NEW h, NEW new, Inserted(h, new), NEW leaf, leaf = NewLeaf,
         NEW key, key = op.key, NEW edge, edge = op.parent,
         edge # None => edge.node \in DOMAIN h, leaf \notin DOMAIN h
  PROVE  /\ DOMAIN heap' = DOMAIN h \cup {leaf}
         /\ heap'[leaf] = Leaf(key, op.value)
         /\ \A n \in DOMAIN h :
              heap'[n] = IF edge # None /\ n = edge.node
                         THEN WriteChild(h[n], edge.byte, new) ELSE h[n]
         /\ root' = IF edge = None THEN new ELSE root
         /\ num_entries' = num_entries + 1
         /\ op' \in OpType /\ op'.pc = "done"
<1> DEFINE g == With(h, leaf, Leaf(key, op.value))
<1>1. /\ heap' = IF edge = None THEN g
                 ELSE [g EXCEPT ![edge.node] = WriteChild(@, edge.byte, new)]
      /\ root' = IF edge = None THEN new ELSE root
      /\ num_entries' = num_entries + 1
      /\ op' = Done(op.call, op.key, op.value, Ok(None))
  BY DEF Inserted, WriteBack, NewRoot, Finish, Allocate
<1>2. /\ DOMAIN g = DOMAIN h \cup {leaf}
      /\ g[leaf] = Leaf(key, op.value)
      /\ \A n \in DOMAIN h : g[n] = h[n]
      /\ g = [n \in DOMAIN g |-> g[n]]
  BY DEF With
<1>3. op' \in OpType /\ op'.pc = "done"
  BY <1>1, OpFields, InsertFacts, DoneType DEF Invariant, OutType
<1> HIDE DEF g
<1>4. edge # None => edge.node # leaf  OBVIOUS
<1> QED  BY <1>1, <1>2, <1>3, <1>4

LEMMA InsertReplaceKeeps ==
  ASSUME Invariant, InsertReplace
  PROVE  Invariant'
<1>1. /\ op.pc = "apply" /\ op.point.kind = "Exact"
      /\ heap' = [heap EXCEPT ![op.node] = Leaf(op.key, op.value)]
      /\ op' = Done(op.call, op.key, op.value, Ok(Some(heap[op.node].value)))
      /\ UNCHANGED <<root, num_entries>>
  BY DEF InsertReplace, Applying, Finish
<1>2. op.call \in Calls /\ op.key \in Keys /\ op.value \in Values /\ op.node \in DOMAIN heap
      /\ ~TearingDown
  BY <1>1, InsertFacts
<1>3. IsLeaf(op.node) /\ LeafKey = op.key
  BY <1>1 DEF Invariant, CallInvariant, PointFitsNode
<1>4. op.node \in Leaves(heap) /\ op.node.at = op.key /\ heap[op.node].value \in Values
  BY <1>2, <1>3, NodeFacts, LeafFacts DEF Invariant, LeafKey
<1>5. op' \in OpType /\ op'.pc = "done"
  <2>1. Ok(Some(heap[op.node].value)) \in OutType  BY <1>4 DEF OutType
  <2> QED  BY <1>1, <1>2, <2>1, DoneType
<1> QED  BY <1>1, <1>2, <1>4, <1>5, OverwriteKeeps

(* The first entry. *)
LEMMA InitTreeKeeps ==
  ASSUME Invariant, NEW k \in Keys, NEW v \in Values, InitTree(k, v)
  PROVE  Invariant'
<1> DEFINE leaf == Pointer("Leaf", k)
<1>1. /\ root = None /\ ~TearingDown /\ heap' = With(heap, leaf, Leaf(k, v))
      /\ root' = leaf /\ num_entries' = 1 /\ op' = Done("try_insert", k, v, Ok(None))
  BY DEF InitTree, Allocate, TearingDown
<1>2. DOMAIN heap = {}
  BY <1>1 DEF Invariant, TreeInvariant, RootIsAboveAll
<1>3. leaf \in LeafPointer /\ leaf \in PointerType /\ IsLeaf(leaf) /\ ~IsInner(leaf)
      /\ leaf.at = k /\ leaf # None
  BY KeysAssumption, NoneAssumption, LeafOrInner
  DEF Pointer, LeafPointer, PointerType, IsLeaf, IsInner, InnerType
<1> HIDE DEF leaf
<1>4. DOMAIN heap' = {leaf} /\ heap'[leaf] = Leaf(k, v)
  BY <1>1, <1>2 DEF With
<1>5. Leaves(heap)' = {leaf} /\ Inners(heap)' = {}
  BY <1>3, <1>4 DEF Leaves, Inners
<1>6. op' \in OpType /\ op'.pc = "done"
  <2>1. "try_insert" \in Calls /\ Ok(None) \in OutType  BY DEF Calls, OutType
  <2> QED  BY <1>1, <2>1, DoneType
<1>7. TypeOK'
  <2>1. LeafOK(leaf)'  BY <1>3, <1>4 DEF LeafOK, Leaf
  <2> QED  BY <1>1, <1>3, <1>4, <1>5, <1>6, <2>1 DEF TypeOK
<1>8. HeapIsFinite' /\ CountIsExact'
  BY <1>1, <1>4, <1>5, FS_Singleton DEF HeapIsFinite, CountIsExact
<1>9. AddressesAreFresh' /\ LeavesAreLowest' /\ ChildrenAreLive' /\ RoutesToEveryNode'
      /\ NodesFitTheirType'
  BY <1>4, <1>5
  DEF AddressesAreFresh, LeavesAreLowest, ChildrenAreLive, RoutesToEveryNode, NodesFitTheirType
<1>10. RootIsAboveAll'
  <2>1. IsPrefix(leaf.at, leaf.at)  BY <1>3, PointerFacts, PrefixReflexive
  <2> QED  BY <1>1, <1>3, <1>4, <2>1 DEF RootIsAboveAll
<1>11. PrefixesAreFaithful'  BY <1>1, <1>3, <1>5 DEF PrefixesAreFaithful
<1>12. CallInvariant'  BY <1>6, AnsweredKeepsCall
<1> QED
  BY <1>7, <1>8, <1>9, <1>10, <1>11, <1>12 DEF Invariant, TreeInvariant
-----------------------------------------------------------------------------
(* Splits.                                                                 *)
(* An inner node with children, as TypeOK wants it. *)
InnerNodeOK(t) ==
  /\ t = Inner(t.header, t.children) /\ t.header \in HeaderType
  /\ \E D \in SUBSET Byte : t.children \in [D -> PointerType]

LEMMA TwoChildrenFacts ==
  ASSUME NEW header \in HeaderType, NEW byte \in Byte, NEW key_byte \in Byte, byte # key_byte,
         NEW child \in PointerType, NewLeaf \in PointerType,
         NEW t, t = TwoChildren(header, byte, child, key_byte)
  PROVE  /\ InnerNodeOK(t) /\ t.header = header
         /\ DOMAIN t.children = {byte, key_byte}
         /\ t.children[byte] = child /\ t.children[key_byte] = NewLeaf
         /\ NumChildren(t) = 2
<1>1. /\ t.header = header
      /\ t.children = [b \in {byte, key_byte} |-> IF b = byte THEN child ELSE NewLeaf]
      /\ t = Inner(t.header, t.children)
  BY DEF TwoChildren, Inner
<1>2. DOMAIN t.children = {byte, key_byte}  BY <1>1
<1>3. Cardinality({byte, key_byte}) = 2
  <2>1. IsFiniteSet({byte}) /\ Cardinality({byte}) = 1  BY FS_Singleton
  <2>2. Cardinality({byte} \cup {key_byte}) = 1 + 1  BY <2>1, FS_AddElement
  <2>3. {byte} \cup {key_byte} = {byte, key_byte}  OBVIOUS
  <2> QED  BY <2>2, <2>3
<1>4. InnerNodeOK(t)
  <2>1. {byte, key_byte} \in SUBSET Byte  OBVIOUS
  <2>2. t.children \in [{byte, key_byte} -> PointerType]  BY <1>1
  <2> QED  BY <1>1, <2>1, <2>2 DEF InnerNodeOK
<1> QED  BY <1>1, <1>2, <1>3, <1>4 DEF NumChildren

(* A new Node4 in the place of op.node takes the first bytes of its path,  *)
(* and op.node keeps the rest.                                             *)
LEMMA SplitKeeps ==
  ASSUME Invariant, op.pc = "apply", op.point.kind # "Delete", op.depth = EntryDepth,
         NEW node, node = op.node, NEW leaf, leaf = NewLeaf, NEW key, key = op.key,
         NEW edge, edge = op.parent,
         NEW used, PartsFrom(key, node, used, op.depth),
         NEW nb, nb = node.at[used + 1], NEW kb, kb = key[used + 1],
         NEW n4, n4 = Pointer("Node4", TakeFirst(key, used)),
         NEW header \in HeaderType, NEW g, NEW new_node, NEW h,
         new_node = TwoChildren(header, nb, node, kb), h = With(g, n4, new_node),
         Represents(header, DropFirst(n4.at, op.depth)),
         DOMAIN g = DOMAIN heap, \A n \in DOMAIN heap \ {node} : g[n] = heap[n],
         IsLeaf(node) => g[node] = heap[node],
         IsInner(node) =>
           /\ g[node] = Inner(g[node].header, heap[node].children)
           /\ g[node].header \in HeaderType
           /\ Represents(g[node].header, DropFirst(node.at, used + 1)),
         Inserted(h, n4),
         NEW S, S = DOMAIN heap \ {node}, NEW T, T = {n4, leaf, node}
  PROVE  Invariant'
<1>1. /\ ~TearingDown /\ root # None
      /\ key \in Keys /\ key \in ByteString /\ Len(key) \in Nat /\ op.value \in Values
      /\ node \in DOMAIN heap /\ node \in PointerType
      /\ node.at \in ByteString /\ Len(node.at) \in Nat
      /\ edge \in EdgeType \cup {None} /\ EdgeTo(edge, node)
      /\ edge # None => edge.node \in Inners(heap)
      /\ EntryDepth = DepthAt(edge)
      /\ leaf \in LeafPointer /\ leaf \in PointerType /\ leaf.at = key
      /\ IsLeaf(leaf) /\ ~IsInner(leaf)
  BY InsertFacts
<1>2. Shape /\ RootIsAboveAll /\ TreeInvariant
  BY InvariantShape DEF Invariant, TreeInvariant
<1>3. /\ used \in Nat /\ used < Len(key) /\ used < Len(node.at) /\ nb # kb
      /\ nb \in Byte /\ kb \in Byte
  <2>1. used \in Nat /\ used < Len(key) /\ used < Len(node.at) /\ nb # kb
    BY DEF PartsFrom
  <2>2. used + 1 \in 1 .. Len(key) /\ used + 1 \in 1 .. Len(node.at)  BY <1>1, <2>1
  <2> QED  BY <1>1, <2>1, <2>2 DEF ByteString
<1>4. /\ n4 \in InnerPointer /\ n4 \in PointerType /\ IsInner(n4) /\ ~IsLeaf(n4)
      /\ n4.at = TakeFirst(key, used) /\ n4.type = "Node4" /\ n4 # leaf
      /\ Len(n4.at) = used
  <2>1. TakeFirst(key, used) \in ByteString /\ Len(TakeFirst(key, used)) = used
    BY <1>1, <1>3, TakeFirstFacts
  <2>2. n4 \in InnerPointer /\ n4.at = TakeFirst(key, used) /\ n4.type = "Node4"
    BY <2>1 DEF Pointer, InnerPointer, InnerType
  <2> QED  BY <2>1, <2>2, <1>1, LeafOrInner DEF PointerType
<1>5. n4 \notin DOMAIN heap /\ leaf \notin DOMAIN heap
  BY <1>1, <1>2, <1>4, KeyIsApart
<1>6. edge # None => edge.node \in S
  <2>1. SUFFICES ASSUME edge # None PROVE edge.node \in DOMAIN heap /\ edge.node # node
    OBVIOUS
  <2>2. edge.node \in Inners(heap) /\ Below(node, edge.node)
    BY <1>1, <1>2, <2>1, ChildFacts DEF EdgeTo
  <2> QED  BY <2>2, <1>1 DEF Below, Inners
<1>7. /\ DOMAIN h = DOMAIN heap \cup {n4} /\ h[n4] = new_node
      /\ \A n \in S : h[n] = heap[n]
      /\ h[node] = g[node]
  BY <1>1, <1>5 DEF With
<1>9. /\ InnerNodeOK(new_node) /\ new_node.header = header
      /\ DOMAIN new_node.children = {nb, kb}
      /\ new_node.children[nb] = node /\ new_node.children[kb] = leaf
      /\ NumChildren(new_node) = 2
  <2>1. PICK p \in PointerType : p = node  BY <1>1
  <2>2. PICK a \in Byte, b \in Byte : a = nb /\ b = kb  BY <1>3
  <2>3. a # b /\ NewLeaf \in PointerType /\ new_node = TwoChildren(header, a, p, b)
    BY <1>1, <1>3, <2>1, <2>2
  <2>4. /\ InnerNodeOK(new_node) /\ new_node.header = header
        /\ DOMAIN new_node.children = {a, b}
        /\ new_node.children[a] = p /\ new_node.children[b] = NewLeaf
        /\ NumChildren(new_node) = 2
    BY <2>3, TwoChildrenFacts
  <2> HIDE DEF InnerNodeOK
  <2> QED  BY <2>1, <2>2, <2>4
<1>10a. /\ DOMAIN heap' = DOMAIN h \cup {leaf}
        /\ heap'[leaf] = Leaf(key, op.value)
        /\ \A n \in DOMAIN h :
             heap'[n] = IF edge # None /\ n = edge.node
                        THEN WriteChild(h[n], edge.byte, n4) ELSE h[n]
        /\ root' = IF edge = None THEN n4 ELSE root
        /\ num_entries' = num_entries + 1
        /\ op' \in OpType /\ op'.pc = "done"
  <2>1. edge # None => edge.node \in DOMAIN h  BY <1>6, <1>7
  <2>2. leaf \notin DOMAIN h  BY <1>4, <1>5, <1>7
  <2> QED  BY <2>1, <2>2, InsertedFacts
<1>10. /\ DOMAIN heap' = DOMAIN heap \cup {n4, leaf}
       /\ heap'[leaf] = Leaf(key, op.value)
       /\ heap'[n4] = new_node
       /\ heap'[node] = g[node]
       /\ \A n \in S : Rewritten(n, edge, n4)
       /\ root' = IF edge = None THEN n4 ELSE root
       /\ num_entries' = num_entries + 1
       /\ op' \in OpType /\ op'.pc = "done"
  <2>1. DOMAIN heap' = DOMAIN heap \cup {n4, leaf}  BY <1>7, <1>10a
  <2>2. edge # None => edge.node # n4 /\ edge.node # node  BY <1>5, <1>6
  <2>3. heap'[n4] = new_node
    <3>1. n4 \in DOMAIN h /\ h[n4] = new_node  BY <1>7
    <3> QED  BY <3>1, <2>2, <1>10a
  <2>4. heap'[node] = g[node]
    <3>1. node \in DOMAIN h /\ h[node] = g[node]  BY <1>1, <1>7
    <3> QED  BY <3>1, <2>2, <1>10a
  <2>5. ASSUME NEW n \in S  PROVE Rewritten(n, edge, n4)
    <3>1. n \in DOMAIN h /\ h[n] = heap[n]  BY <2>5, <1>7
    <3> QED  BY <3>1, <1>10a DEF Rewritten
  <2> QED  BY <2>1, <2>3, <2>4, <2>5, <1>10a
<1>11. Update(edge, node, n4, S, T)
  <2>1. DOMAIN heap' = S \cup T /\ S \subseteq DOMAIN heap  BY <1>1, <1>10
  <2>2. IsFiniteSet({n4}) /\ IsFiniteSet({n4} \cup {leaf})  BY FS_Singleton, FS_AddElement
  <2>3. IsFiniteSet(T)
    <3>1. T = ({n4} \cup {leaf}) \cup {node}  OBVIOUS
    <3> QED  BY <2>2, <3>1, FS_AddElement
  <2>4. root \in S \cup {node}  BY <1>1, <1>2 DEF RootIsAboveAll
  <2>5. \A n \in Inners(heap) : \A b \in ChildBytes(n) : Child(n, b) \in S \cup {node}
    BY <1>2, ChildFacts
  <2> QED  BY <1>1, <1>4, <1>10, <2>1, <2>3, <2>4, <2>5 DEF Update
<1>12. /\ Redirects(Inners(heap) \cap S, node, n4) /\ RootRedirects(node, n4)
       /\ \A n \in Inners(heap) \cap S : heap'[n].header = heap[n].header
  <2>1. TreeInvariant /\ ~TearingDown /\ root # None  BY <1>1, <1>2
  <2>2. Redirects(Inners(heap) \cap S, node, n4)  BY <2>1, <1>11, UpdateRedirects
  <2>3. RootRedirects(node, n4)  BY <2>1, <1>11, UpdateRedirects
  <2>4. \A n \in Inners(heap) \cap S : heap'[n].header = heap[n].header
    BY <2>1, <1>11, UpdateKeepsHeaders
  <2> QED  BY <2>2, <2>3, <2>4
(* The node itself, when it is an inner node. *)
<1>13. IsInner(node) =>
         /\ node \in Inners(heap)
         /\ ChildBytes(node)' = ChildBytes(node)
         /\ \A b \in ChildBytes(node) :
              NewChild(node, b) = Child(node, b) /\ Child(node, b) \in S
         /\ heap'[node] = Inner(g[node].header, heap[node].children)
         /\ heap'[node].header = g[node].header
         /\ heap'[node].children = heap[node].children
  <2>1. SUFFICES ASSUME IsInner(node)
        PROVE  /\ node \in Inners(heap)
               /\ ChildBytes(node)' = ChildBytes(node)
               /\ \A b \in ChildBytes(node) :
                    NewChild(node, b) = Child(node, b) /\ Child(node, b) \in S
               /\ heap'[node] = Inner(g[node].header, heap[node].children)
               /\ heap'[node].header = g[node].header
               /\ heap'[node].children = heap[node].children
    OBVIOUS
  <2>2. node \in Inners(heap)  BY <1>1, <1>2, <2>1, NodeFacts
  <2>3. heap'[node] = Inner(g[node].header, heap[node].children)  BY <1>10, <2>1
  <2>4. heap'[node].children = heap[node].children /\ heap'[node].header = g[node].header
    BY <2>3 DEF Inner
  <2>5. \A b \in ChildBytes(node) : Child(node, b) \in DOMAIN heap /\ Below(Child(node, b), node)
    BY <1>2, <2>2, ChildFacts
  <2>6. \A b \in ChildBytes(node) : Child(node, b) \in S
    BY <2>5, <1>1 DEF Below
  <2>7. ChildBytes(node)' = ChildBytes(node)
        /\ \A b \in ChildBytes(node) : NewChild(node, b) = Child(node, b)
    BY <2>4 DEF ChildBytes, NewChild, Child
  <2> QED  BY <2>2, <2>3, <2>4, <2>6, <2>7
<1>14. SplitsAbove(key, node, used, n4, leaf)
  <2>1. Redirects(Inners(heap), node, n4)
    <3>1. \A n \in Inners(heap) : n \in S \/ (n = node /\ IsInner(node))  BY DEF Inners
    <3>2. IsInner(node) => \A b \in ChildBytes(node) : Child(node, b) # node  BY <1>13
    <3> QED  BY <3>1, <3>2, <1>12, <1>13 DEF Redirects
  <2>2. ChildBytes(n4)' = {nb, kb} /\ NewChild(n4, nb) = node /\ NewChild(n4, kb) = leaf
    BY <1>9, <1>10 DEF ChildBytes, NewChild
  <2> QED  BY <1>1, <1>4, <1>10, <1>12, <2>1, <2>2 DEF SplitsAbove
<1>15. Shape' /\ RootIsAboveAll'
  BY <1>1, <1>2, <1>14, SplitKeepsShape, NoneAssumption DEF PointerType
<1>16. Built(leaf)
  BY <1>1, <1>10 DEF Built, LeafOK, Leaf
<1>17. Built(n4)
  <2>1. InnerOK(n4)'  BY <1>9, <1>10 DEF InnerOK, InnerNodeOK
  <2>2. FitsType(n4)'
    <3>1. NumChildren(heap'[n4]) = 2  BY <1>9, <1>10
    <3> QED  BY <3>1, <1>4, CapacityAssumption DEF FitsType, ShouldShrink, InnerType
  <2>3. ASSUME NEW b \in ChildBytes(n4)', IsInner(NewChild(n4, b))
        PROVE  Represents(heap'[NewChild(n4, b)].header,
                          DropFirst(NewChild(n4, b).at, Len(n4.at) + 1))
    <3>1. NewChild(n4, b) = node
      BY <1>1, <1>9, <1>10, <2>3 DEF ChildBytes, NewChild
    <3>2. IsInner(node)  BY <2>3, <3>1
    <3> QED  BY <3>1, <3>2, <1>4, <1>13
  <2> QED  BY <1>4, <2>1, <2>2, <2>3 DEF Built
<1>18. Built(node)
  <2>1. CASE IsLeaf(node)
    <3>1. heap'[node] = heap[node]  BY <1>10, <2>1
    <3>2. node \in Leaves(heap) /\ ~IsInner(node)  BY <1>1, <1>2, <2>1, NodeFacts
    <3> QED  BY <3>1, <3>2, <1>2 DEF Built, LeafOK, TreeInvariant, TypeOK
  <2>2. CASE IsInner(node)
    <3>1. /\ heap[node].children \in [ChildBytes(node) -> PointerType]
          /\ ChildBytes(node) \subseteq Byte
      BY <1>2, <1>13, <2>2, InnerFacts
    <3>2. InnerOK(node)'  BY <3>1, <1>13, <2>2 DEF InnerOK
    <3>3. FitsType(node)'
      <4>1. NumChildren(heap'[node]) = NumChildren(heap[node])
        BY <1>13, <2>2 DEF NumChildren
      <4> QED
        BY <4>1, <1>2, <1>13, <2>2 DEF FitsType, TreeInvariant, NodesFitTheirType
    <3>4. ASSUME NEW b \in ChildBytes(node)', IsInner(NewChild(node, b))
          PROVE  Represents(heap'[NewChild(node, b)].header,
                            DropFirst(NewChild(node, b).at, Len(node.at) + 1))
      <4>1. b \in ChildBytes(node) /\ NewChild(node, b) = Child(node, b) /\ Child(node, b) \in S
        BY <1>13, <2>2, <3>4
      <4>2. Child(node, b) \in Inners(heap) \cap S  BY <3>4, <4>1 DEF Inners
      <4>3. heap'[Child(node, b)].header = heap[Child(node, b)].header  BY <1>12, <4>2
      <4> QED
        BY <1>2, <1>13, <2>2, <3>4, <4>1, <4>3 DEF TreeInvariant, PrefixesAreFaithful
    <3>5. ~IsLeaf(node)  BY <1>1, <2>2, LeafOrInner
    <3> QED  BY <3>2, <3>3, <3>4, <3>5 DEF Built
  <2> QED  BY <1>1, <2>1, <2>2, LeafOrInner
<1>19. Represents(heap'[n4].header, DropFirst(n4.at, DepthAt(edge)))
  BY <1>1, <1>9, <1>10
<1>20. num_entries' \in Nat /\ num_entries' = Cardinality(Leaves(heap)')
  <2>1. Leaves(heap)' = Leaves(heap) \cup {leaf}
    BY <1>1, <1>4, <1>10 DEF Leaves
  <2>2. leaf \notin Leaves(heap)  BY <1>5 DEF Leaves
  <2> QED  BY <1>1, <1>2, <1>10, <2>1, <2>2, CountUp
<1>21. \A n \in T : Built(n)  BY <1>16, <1>17, <1>18
<1> QED
  BY <1>1, <1>2, <1>10, <1>11, <1>15, <1>19, <1>20, <1>21, UpdateKeepsInvariant

(* What the mismatch splits: the new parent gets the first bytes of the    *)
(* path, the node keeps what follows the byte it parts at.                 *)
LEMMA SharedPrefixFacts ==
  ASSUME NEW header \in HeaderType, NEW p \in ByteString, Represents(header, p),
         NEW m \in Nat, m < Len(p), NEW q \in ByteString, Len(q) = m,
         \A i \in 1 .. m : q[i] = p[i],
         NEW shared, shared = TakeFirst(ReadPrefix(header), Lesser(CappedPrefixLen(header), m))
  PROVE  NewHeader(shared, m) \in HeaderType /\ Represents(NewHeader(shared, m), q)
<1> DEFINE r == ReadPrefix(header)
           n == Lesser(CappedPrefixLen(header), m)
<1>1. Len(p) \in Nat /\ PREFIX_LEN \in Nat  BY PrefixLenAssumption DEF ByteString
<1>2. CappedPrefixLen(header) = Lesser(Len(p), PREFIX_LEN)
  BY DEF CappedPrefixLen, Represents
<1>3. n = Lesser(m, PREFIX_LEN)  BY <1>1, <1>2 DEF Lesser
<1>4. r \in ByteString /\ Len(r) = Lesser(Len(p), PREFIX_LEN) /\ \A i \in 1 .. Len(r) : r[i] = p[i]
  BY ReadPrefixFacts
<1>5. n \in Nat /\ n <= Len(r) /\ n <= m  BY <1>1, <1>3, <1>4 DEF Lesser
<1> HIDE DEF r, n
<1>6. shared = TakeFirst(r, n)  BY DEF r, n
<1>7. shared \in ByteString /\ Len(shared) = n /\ \A i \in 1 .. n : shared[i] = r[i]
  <2>1. r \in ByteString  BY <1>4
  <2>2. /\ TakeFirst(r, n) \in ByteString
        /\ Len(TakeFirst(r, n)) = n
        /\ \A i \in 1 .. n : TakeFirst(r, n)[i] = r[i]
    BY <2>1, <1>5, TakeFirstFacts
  <2> QED  BY <2>2, <1>6
<1>8. Len(r) \in Nat  BY <1>4 DEF ByteString
<1>9. \A i \in 1 .. n : shared[i] = q[i]  BY <1>4, <1>5, <1>7, <1>8
<1>10. HoldsStartOf(shared, q)  BY <1>1, <1>3, <1>5, <1>7, <1>9 DEF HoldsStartOf
<1> QED  BY <1>7, <1>10, NewHeaderRepresents

LEMMA DropTwice ==
  ASSUME NEW s \in ByteString, NEW m \in Nat, NEW n \in Nat, m + n <= Len(s)
  PROVE  DropFirst(DropFirst(s, m), n) = DropFirst(s, m + n)
<1>1. Len(s) \in Nat /\ m <= Len(s) /\ m + n \in Nat /\ n <= Len(s) - m
  BY DEF ByteString
<1> DEFINE t == DropFirst(s, m)
<1>2. t \in ByteString /\ Len(t) = Len(s) - m /\ \A i \in 1 .. Len(s) - m : t[i] = s[m + i]
  BY <1>1, DropFirstFacts
<1> HIDE DEF t
<1>3. /\ DropFirst(t, n) \in ByteString /\ Len(DropFirst(t, n)) = Len(s) - m - n
      /\ \A i \in 1 .. Len(s) - m - n : DropFirst(t, n)[i] = t[n + i]
  BY <1>1, <1>2, DropFirstFacts
<1>4. /\ DropFirst(s, m + n) \in ByteString /\ Len(DropFirst(s, m + n)) = Len(s) - (m + n)
      /\ \A i \in 1 .. Len(s) - (m + n) : DropFirst(s, m + n)[i] = s[m + n + i]
  BY <1>1, DropFirstFacts
<1>5. \A i \in 1 .. Len(s) - m - n : n + i \in 1 .. Len(s) - m /\ m + (n + i) = m + n + i
  BY <1>1
<1>6. \A i \in 1 .. Len(s) - m - n : DropFirst(t, n)[i] = s[m + n + i]  BY <1>2, <1>3, <1>5
<1>7. Len(s) - m - n = Len(s) - (m + n)  BY <1>1
<1> QED  BY <1>3, <1>4, <1>6, <1>7, SameBytes DEF t

LEMMA TrimmedFacts ==
  ASSUME NEW header \in HeaderType, NEW at \in ByteString, NEW d \in Nat, d <= Len(at),
         Represents(header, DropFirst(at, d)), NEW m \in Nat, d + m < Len(at),
         NEW leaf_ptr, NEW leaf_key,
         leaf_ptr = None => header.prefix_len <= PREFIX_LEN,
         leaf_ptr # None => leaf_key \in ByteString /\ IsPrefix(at, leaf_key),
         NEW trimmed,
         trimmed = IF leaf_ptr # None THEN LTrimByWithLeaf(header, m + 1, d, leaf_key)
                   ELSE LTrimBy(header, m + 1)
  PROVE  trimmed \in HeaderType /\ Represents(trimmed, DropFirst(at, d + m + 1))
<1> DEFINE p == DropFirst(at, d)
<1>1. Len(at) \in Nat  BY DEF ByteString
<1>2. p \in ByteString /\ Len(p) = Len(at) - d /\ \A i \in 1 .. Len(at) - d : p[i] = at[d + i]
  BY <1>1, DropFirstFacts
<1>3. m + 1 \in Nat /\ m + 1 <= Len(p) /\ d + (m + 1) <= Len(at) /\ d + (m + 1) = d + m + 1
  BY <1>1, <1>2
<1>4. DropFirst(p, m + 1) = DropFirst(at, d + m + 1)  BY <1>1, <1>3, DropTwice
<1>5. Represents(header, p) /\ header.prefix_len = Len(p)  BY DEF Represents
<1> HIDE DEF p
<1>6. CASE leaf_ptr = None
  <2>1. Len(p) <= PREFIX_LEN  BY <1>5, <1>6
  <2>2. trimmed = LTrimBy(header, m + 1)  BY <1>6
  <2> QED  BY <1>2, <1>3, <1>4, <1>5, <2>1, <2>2, LTrimByRepresents
<1>7. CASE leaf_ptr # None
  <2>1. leaf_key \in ByteString /\ Len(at) <= Len(leaf_key)
        /\ \A i \in 1 .. Len(at) : at[i] = leaf_key[i]
    BY <1>7, PrefixPointwise
  <2>2. \A i \in 1 .. Len(p) : d + i \in 1 .. Len(at)  BY <1>1, <1>2
  <2>3. \A i \in 1 .. Len(p) : leaf_key[d + i] = p[i]  BY <1>2, <2>1, <2>2
  <2>4. d + Len(p) <= Len(leaf_key)
    <3>1. Len(leaf_key) \in Nat  BY <2>1 DEF ByteString
    <3> QED  BY <1>1, <1>2, <2>1, <3>1
  <2>5. trimmed = LTrimByWithLeaf(header, m + 1, d, leaf_key)  BY <1>7
  <2> QED  BY <1>2, <1>3, <1>4, <1>5, <2>1, <2>3, <2>4, <2>5, LTrimByWithLeafRepresents
<1> QED  BY <1>6, <1>7

LEMMA InsertAtMismatchKeeps ==
  ASSUME Invariant, InsertAtMismatch
  PROVE  Invariant'
<1>1. PICK node \in {op.node}, leaf \in {NewLeaf}, key \in {op.key}, edge \in {op.parent},
           d \in {op.depth}, matched \in {op.point.matched_bytes},
           leaf_ptr \in {op.point.leaf_ptr}, header \in {CurrentHeader} : TRUE
  OBVIOUS
<1> DEFINE used     == d + matched
           n4       == Pointer("Node4", TakeFirst(key, used))
           shared   == TakeFirst(ReadPrefix(header), Lesser(CappedPrefixLen(header), matched))
           trimmed  == IF leaf_ptr # None
                       THEN LTrimByWithLeaf(header, matched + 1, d, heap[leaf_ptr].key)
                       ELSE LTrimBy(header, matched + 1)
           new_node == TwoChildren(NewHeader(shared, matched), node.at[used + 1], node,
                                   key[used + 1])
           g        == [heap EXCEPT ![node].header = trimmed]
           h        == With(g, n4, new_node)
<1>2. op.pc = "apply" /\ op.point.kind = "MismatchPrefix" /\ op.point.kind # "Delete"
  BY DEF InsertAtMismatch, Applying
<1>3. /\ op.point \in PointType /\ IsInner(node) /\ d = EntryDepth
      /\ Represents(header, DropFirst(node.at, d))
      /\ AgreeOn(key, node.at, used)
      /\ used < Len(key) /\ used < Len(node.at)
      /\ op.point.prefix_byte = node.at[used + 1]
      /\ node.at[used + 1] # key[used + 1]
      /\ IF leaf_ptr = None THEN ~(header.prefix_len > PREFIX_LEN)
         ELSE leaf_ptr \in Leaves(heap) /\ IsPrefix(node.at, leaf_ptr.at)
  BY <1>1, <1>2 DEF Invariant, CallInvariant, PointFitsNode, PrefixIsImplicit
<1>4. matched \in Nat  BY <1>1, <1>2, <1>3 DEF PointType
<1>5. Inserted(h, n4)
  BY <1>1, <1>2, <1>3 DEF InsertAtMismatch, Allocate
<1>6. /\ key \in ByteString /\ Len(key) \in Nat /\ d \in Nat
      /\ node \in DOMAIN heap /\ node.at \in ByteString /\ Len(node.at) \in Nat
      /\ \A x \in DOMAIN heap : AgreeOn(key, x.at, d) => IsPrefix(node.at, x.at)
  BY <1>1, <1>2, InsertFacts
<1>7. node \in Inners(heap) /\ header \in HeaderType
      /\ heap[node] = Inner(header, heap[node].children)
      /\ header.prefix_len \in Nat /\ PREFIX_LEN \in Nat
  <2>1. node \in Inners(heap)  BY <1>3, <1>6, NodeFacts DEF Invariant
  <2>2. header = heap[node].header  BY <1>1 DEF CurrentHeader
  <2> QED  BY <2>1, <2>2, InnerFacts, PrefixLenAssumption DEF Invariant, HeaderType
<1>8. used \in Nat /\ d <= used /\ d <= Len(node.at) /\ matched < Len(node.at) - d
  BY <1>3, <1>4, <1>6
<1>9. PartsFrom(key, node, used, d)  BY <1>3, <1>6, <1>8 DEF PartsFrom
<1>10. trimmed \in HeaderType /\ Represents(trimmed, DropFirst(node.at, used + 1))
  <2>0. PICK leaf_key : leaf_key = heap[leaf_ptr].key  OBVIOUS
  <2>1. leaf_ptr # None =>
          leaf_key \in ByteString /\ IsPrefix(node.at, leaf_key)
    BY <1>3, <2>0, LeafFacts, KeysAssumption DEF Invariant
  <2>2. leaf_ptr = None => header.prefix_len <= PREFIX_LEN  BY <1>3, <1>7
  <2>3. /\ trimmed = IF leaf_ptr # None THEN LTrimByWithLeaf(header, matched + 1, d, leaf_key)
                     ELSE LTrimBy(header, matched + 1)
        /\ d + matched < Len(node.at) /\ used = d + matched
    BY <1>3, <2>0
  <2>4. used + 1 = d + matched + 1  BY <1>4, <1>6
  <2> HIDE DEF trimmed, used
  <2>5. trimmed \in HeaderType /\ Represents(trimmed, DropFirst(node.at, d + matched + 1))
    <3>1. PICK at : at = node.at  OBVIOUS
    <3>2. /\ header \in HeaderType /\ at \in ByteString /\ d \in Nat /\ d <= Len(at)
          /\ Represents(header, DropFirst(at, d)) /\ matched \in Nat /\ d + matched < Len(at)
      BY <1>3, <1>4, <1>6, <1>7, <1>8, <2>3, <3>1
    <3>3. leaf_ptr # None => leaf_key \in ByteString /\ IsPrefix(at, leaf_key)  BY <2>1, <3>1
    <3>4. trimmed = IF leaf_ptr # None THEN LTrimByWithLeaf(header, matched + 1, d, leaf_key)
                    ELSE LTrimBy(header, matched + 1)
      BY <2>3
    <3>5. trimmed \in HeaderType /\ Represents(trimmed, DropFirst(at, d + matched + 1))
      <4>1. PICK hd \in HeaderType : hd = header  BY <3>2
      <4>2. PICK a \in ByteString : a = at  BY <3>2
      <4>3. PICK e \in Nat, n \in Nat : e = d /\ n = matched  BY <3>2
      <4>4. e <= Len(a) /\ Represents(hd, DropFirst(a, e)) /\ e + n < Len(a)
        BY <3>2, <4>1, <4>2, <4>3
      <4>5. leaf_ptr = None => hd.prefix_len <= PREFIX_LEN  BY <2>2, <4>1
      <4>6. leaf_ptr # None => leaf_key \in ByteString /\ IsPrefix(a, leaf_key)  BY <3>3, <4>2
      <4>7. trimmed = IF leaf_ptr # None THEN LTrimByWithLeaf(hd, n + 1, e, leaf_key)
                      ELSE LTrimBy(hd, n + 1)
        BY <3>4, <4>1, <4>3
      <4>8. trimmed \in HeaderType /\ Represents(trimmed, DropFirst(a, e + n + 1))
        BY <4>4, <4>5, <4>6, <4>7, TrimmedFacts
      <4> QED  BY <4>2, <4>3, <4>8
    <3> QED  BY <3>1, <3>5
  <2> QED  BY <2>4, <2>5
<1>11. NewHeader(shared, matched) \in HeaderType
       /\ Represents(NewHeader(shared, matched), DropFirst(n4.at, d))
  <2> DEFINE p == DropFirst(node.at, d)
             q == DropFirst(n4.at, d)
  <2>1. p \in ByteString /\ Len(p) = Len(node.at) - d
        /\ \A i \in 1 .. Len(node.at) - d : p[i] = node.at[d + i]
    BY <1>6, <1>8, DropFirstFacts
  <2>2. n4.at = TakeFirst(key, used) /\ n4.at \in ByteString /\ Len(n4.at) = used
        /\ \A i \in 1 .. used : n4.at[i] = key[i]
    BY <1>3, <1>6, <1>8, TakeFirstFacts DEF Pointer
  <2> HIDE DEF n4, used
  <2>3. q \in ByteString /\ Len(q) = used - d /\ \A i \in 1 .. used - d : q[i] = n4.at[d + i]
    BY <1>6, <1>8, <2>2, DropFirstFacts
  <2>4. used - d = matched  BY <1>4, <1>6 DEF used
  <2>5. \A i \in 1 .. used : key[i] = node.at[i]  BY <1>3 DEF AgreeOn
  <2>6. \A i \in 1 .. matched : d + i \in 1 .. used /\ i \in 1 .. Len(node.at) - d
    BY <1>4, <1>6, <1>8 DEF used
  <2> HIDE DEF p, q
  <2>7. \A i \in 1 .. matched : q[i] = p[i]  BY <2>1, <2>2, <2>3, <2>4, <2>5, <2>6
  <2>8. Represents(header, p) /\ matched < Len(p) /\ Len(q) = matched
    BY <1>3, <1>8, <2>1, <2>3, <2>4 DEF p
  <2> HIDE DEF shared
  <2>9. shared = TakeFirst(ReadPrefix(header), Lesser(CappedPrefixLen(header), matched))
    BY DEF shared
  <2>10. NewHeader(shared, matched) \in HeaderType /\ Represents(NewHeader(shared, matched), q)
    BY <1>4, <1>7, <2>1, <2>3, <2>7, <2>8, <2>9, SharedPrefixFacts
  <2> QED  BY <2>10 DEF q
<1>12. /\ DOMAIN g = DOMAIN heap /\ \A n \in DOMAIN heap \ {node} : g[n] = heap[n]
       /\ g[node] = Inner(trimmed, heap[node].children) /\ g[node].header = trimmed
  BY <1>6, <1>7 DEF Inner
<1>13. ~IsLeaf(node)  BY <1>3, <1>6, NodeFacts DEF Invariant
<1> DEFINE nb == node.at[used + 1]
           kb == key[used + 1]
           new_header == NewHeader(shared, matched)
           S == DOMAIN heap \ {node}
           T == {n4, leaf, node}
<1>14. /\ nb = node.at[used + 1] /\ kb = key[used + 1] /\ n4 = Pointer("Node4", TakeFirst(key, used))
       /\ new_node = TwoChildren(new_header, nb, node, kb) /\ h = With(g, n4, new_node)
       /\ S = DOMAIN heap \ {node} /\ T = {n4, leaf, node}
       /\ node = op.node /\ leaf = NewLeaf /\ key = op.key /\ edge = op.parent /\ d = op.depth
  BY <1>1
<1> HIDE DEF used, n4, shared, trimmed, new_node, g, h, nb, kb, new_header, S, T
<1>15. new_header \in HeaderType /\ Represents(new_header, DropFirst(n4.at, op.depth))
  BY <1>11, <1>14 DEF new_header
<1>16. op.depth = EntryDepth /\ PartsFrom(key, node, used, op.depth)  BY <1>3, <1>9, <1>14
<1>17. IsInner(node) =>
         /\ g[node] = Inner(g[node].header, heap[node].children)
         /\ g[node].header \in HeaderType
         /\ Represents(g[node].header, DropFirst(node.at, used + 1))
  BY <1>10, <1>12
<1> QED  BY <1>2, <1>5, <1>12, <1>13, <1>14, <1>15, <1>16, <1>17, SplitKeeps

LEMMA InsertAtLeafKeeps ==
  ASSUME Invariant, InsertAtLeaf
  PROVE  Invariant'
<1>1. PICK node \in {op.node}, leaf \in {NewLeaf}, key \in {op.key}, edge \in {op.parent},
           d \in {op.depth}, used \in {op.point.new_key_bytes_used} : TRUE
  OBVIOUS
<1> DEFINE n4       == Pointer("Node4", TakeFirst(key, used))
           slice    == SubSeq(key, d + 1, used)
           nb       == node.at[used + 1]
           kb       == key[used + 1]
           header   == NewHeader(slice, used - d)
           new_node == TwoChildren(header, nb, node, kb)
           h        == With(heap, n4, new_node)
           S        == DOMAIN heap \ {node}
           T        == {n4, leaf, node}
<1>2. op.pc = "apply" /\ op.point.kind = "SplitLeaf" /\ op.point.kind # "Delete"
  BY DEF InsertAtLeaf, Applying
<1>3. /\ key \in ByteString /\ Len(key) \in Nat /\ d \in Nat
      /\ node \in DOMAIN heap /\ node.at \in ByteString /\ Len(node.at) \in Nat
      /\ \A x \in DOMAIN heap : AgreeOn(key, x.at, d) => IsPrefix(node.at, x.at)
  BY <1>1, <1>2, InsertFacts
<1>4. /\ op.point \in PointType /\ IsLeaf(node) /\ d = EntryDepth /\ d <= used
      /\ AgreeOn(key, LeafKey, used) /\ used < Len(key) /\ used < Len(LeafKey)
      /\ key[used + 1] # LeafKey[used + 1]
  BY <1>1, <1>2 DEF Invariant, CallInvariant, PointFitsNode
<1>5. used \in Nat  BY <1>1, <1>2, <1>4 DEF PointType
<1>6. LeafKey = node.at /\ ~IsInner(node)
  BY <1>1, <1>3, <1>4, NodeFacts, LeafFacts DEF Invariant, LeafKey
<1>7. PartsFrom(key, node, used, d)  BY <1>3, <1>4, <1>5, <1>6 DEF PartsFrom
<1>8. Inserted(h, n4)
  BY <1>1, <1>6 DEF InsertAtLeaf, Allocate
<1>9. used - d \in Nat  BY <1>3, <1>4, <1>5
<1>10. header \in HeaderType /\ Represents(header, DropFirst(n4.at, d))
  <2> DEFINE q == DropFirst(n4.at, d)
  <2>1. slice \in ByteString /\ Len(slice) = used - d
        /\ \A i \in 1 .. used - d : slice[i] = key[d + i]
    BY <1>3, <1>4, <1>5, SliceFacts
  <2>2. n4.at = TakeFirst(key, used) /\ n4.at \in ByteString /\ Len(n4.at) = used
        /\ \A i \in 1 .. used : n4.at[i] = key[i]
    BY <1>3, <1>4, <1>5, TakeFirstFacts DEF Pointer
  <2> HIDE DEF n4, slice
  <2>3. q \in ByteString /\ Len(q) = used - d /\ \A i \in 1 .. used - d : q[i] = n4.at[d + i]
    BY <1>3, <1>4, <1>5, <2>2, DropFirstFacts
  <2> HIDE DEF q
  <2>4. \A i \in 1 .. used - d : d + i \in 1 .. used  BY <1>3, <1>5
  <2>5. \A i \in 1 .. used - d : slice[i] = q[i]  BY <2>1, <2>2, <2>3, <2>4
  <2>6. HoldsStartOf(slice, q)
    <3>1. Lesser(used - d, PREFIX_LEN) <= used - d  BY <1>9, PrefixLenAssumption DEF Lesser
    <3>2. used - d <= used - d  BY <1>9
    <3> QED  BY <2>1, <2>3, <2>5, <3>1, <3>2 DEF HoldsStartOf
  <2>7. NewHeader(slice, Len(q)) \in HeaderType /\ Represents(NewHeader(slice, Len(q)), q)
    BY <2>1, <2>3, <2>6, NewHeaderRepresents
  <2> QED  BY <2>3, <2>7 DEF q
<1>11. /\ nb = node.at[used + 1] /\ kb = key[used + 1] /\ n4 = Pointer("Node4", TakeFirst(key, used))
       /\ new_node = TwoChildren(header, nb, node, kb) /\ h = With(heap, n4, new_node)
       /\ S = DOMAIN heap \ {node} /\ T = {n4, leaf, node}
       /\ node = op.node /\ leaf = NewLeaf /\ key = op.key /\ edge = op.parent /\ d = op.depth
  BY <1>1
<1> HIDE DEF n4, slice, nb, kb, header, new_node, h, S, T
<1>12. op.depth = EntryDepth /\ PartsFrom(key, node, used, op.depth)
       /\ Represents(header, DropFirst(n4.at, op.depth))
  BY <1>4, <1>7, <1>10, <1>11
<1> QED  BY <1>2, <1>6, <1>8, <1>10, <1>11, <1>12, SplitKeeps

-----------------------------------------------------------------------------
(* A new leaf in an existing node.                                         *)

LEMMA HeaderAtEdge ==
  ASSUME TreeInvariant, ~TearingDown, root # None, NEW edge, NEW x \in Inners(heap),
         EdgeTo(edge, x)
  PROVE  Represents(heap[x].header, DropFirst(x.at, DepthAt(edge)))
<1>1. x \in DOMAIN heap /\ IsInner(x)  BY DEF Inners
<1>2. CASE edge = None
  <2>1. x = root  BY <1>2 DEF EdgeTo
  <2>2. Represents(heap[x].header, x.at)
    BY <1>1, <2>1 DEF TreeInvariant, PrefixesAreFaithful
  <2>3. x.at \in ByteString  BY <1>1, NodeFacts
  <2>4. DropFirst(x.at, 0) = x.at  BY <2>3 DEF DropFirst, ByteString
  <2> QED  BY <1>2, <2>2, <2>4 DEF DepthAt
<1>3. CASE edge # None
  <2>1. /\ edge.node \in Inners(heap) /\ edge.byte \in ChildBytes(edge.node)
        /\ Child(edge.node, edge.byte) = x
    BY <1>3 DEF EdgeTo
  <2> QED  BY <1>1, <1>3, <2>1 DEF DepthAt, TreeInvariant, PrefixesAreFaithful
<1> QED  BY <1>2, <1>3

LEMMA WriteChildFacts ==
  ASSUME NEW n, NEW header \in HeaderType, NEW D \in SUBSET Byte,
         NEW children \in [D -> PointerType], n = Inner(header, children), IsFiniteSet(D),
         NEW byte \in Byte, byte \notin D, NEW child \in PointerType,
         NEW t, t = WriteChild(n, byte, child)
  PROVE  /\ InnerNodeOK(t) /\ t.header = header
         /\ DOMAIN t.children = D \cup {byte}
         /\ t.children[byte] = child /\ \A b \in D : t.children[b] = children[b]
         /\ NumChildren(t) = NumChildren(n) + 1
<1>1. t = Inner(header, With(children, byte, child))  BY DEF WriteChild, Inner
<1>2. t.header = header /\ t.children = With(children, byte, child)
      /\ t = Inner(t.header, t.children)
  BY <1>1 DEF Inner
<1>3. DOMAIN t.children = D \cup {byte}  BY <1>2 DEF With
<1>4. t.children[byte] = child /\ \A b \in D : t.children[b] = children[b]
  BY <1>2 DEF With
<1>5. t.children \in [D \cup {byte} -> PointerType]  BY <1>2 DEF With
<1>6. D \cup {byte} \in SUBSET Byte  OBVIOUS
<1>7. InnerNodeOK(t)  BY <1>2, <1>5, <1>6 DEF InnerNodeOK
<1>8. NumChildren(n) = Cardinality(D)  BY DEF NumChildren, Inner
<1>9. Cardinality(D \cup {byte}) = Cardinality(D) + 1  BY FS_AddElement
<1> QED  BY <1>2, <1>3, <1>4, <1>7, <1>8, <1>9 DEF NumChildren

LEMMA AddKeeps ==
  ASSUME Invariant, op.pc = "apply", op.point.kind = "IntoExisting",
         NEW node, node = op.node, NEW leaf, leaf = NewLeaf, NEW key, key = op.key,
         NEW edge, edge = op.parent, NEW kb, kb = key[op.depth + 1],
         NEW new \in InnerPointer, new.at = node.at,
         NEW t, t = WriteChild(heap[node], kb, leaf), NEW h,
         DOMAIN h = (DOMAIN heap \ {node}) \cup {new}, h[new] = t,
         \A n \in DOMAIN heap \ {node} : h[n] = heap[n],
         NumChildren(heap[node]) + 1 <= UpperCapacity[new.type],
         ~ShouldShrink(new.type, NumChildren(heap[node]) + 1),
         Inserted(h, new),
         NEW S, S = DOMAIN heap \ {node}, NEW T, T = {new, leaf}
  PROVE  Invariant'
<1>1. /\ ~TearingDown /\ root # None
      /\ key \in Keys /\ key \in ByteString /\ Len(key) \in Nat /\ op.value \in Values
      /\ node \in DOMAIN heap /\ node \in PointerType
      /\ node.at \in ByteString /\ Len(node.at) \in Nat
      /\ edge \in EdgeType \cup {None} /\ EdgeTo(edge, node)
      /\ edge # None => edge.node \in Inners(heap)
      /\ leaf \in LeafPointer /\ leaf \in PointerType /\ leaf.at = key
      /\ IsLeaf(leaf) /\ ~IsInner(leaf) /\ AgreeOn(key, node.at, op.depth)
  BY InsertFacts
<1>2. Shape /\ RootIsAboveAll /\ TreeInvariant
  BY InvariantShape DEF Invariant, TreeInvariant
<1>3. IsInner(node) /\ op.depth = Len(node.at) /\ op.depth < Len(key)
      /\ kb \notin ChildBytes(node)
  BY DEF Invariant, CallInvariant, PointFitsNode
<1>4. node \in Inners(heap)  BY <1>1, <1>2, <1>3, NodeFacts
<1>5. kb \in Byte /\ kb = key[Len(node.at) + 1]  BY <1>1, <1>3 DEF ByteString
<1>6. BranchesOff(key, node)
  <2>1. IsPrefix(node.at, key)
    <3>1. \A i \in 1 .. Len(node.at) : node.at[i] = key[i]  BY <1>1, <1>3 DEF AgreeOn
    <3> QED  BY <3>1, <1>1, <1>3, PrefixPointwise
  <2> QED  BY <2>1, <1>1, <1>3, <1>4, <1>5 DEF BranchesOff
<1>7. new \in PointerType /\ IsInner(new) /\ ~IsLeaf(new) /\ new # leaf /\ new # None
      /\ new.type \in InnerType
  BY <1>1, LeafOrInner, NoneAssumption DEF PointerType, InnerPointer
<1>8. leaf \notin DOMAIN heap /\ new \notin S
  <2>1. leaf \notin DOMAIN heap  BY <1>1, <1>2, <1>6, BranchIsApart
  <2>2. new \in DOMAIN heap => new = node
    BY <1>1, <1>2 DEF TreeInvariant, AddressesAreFresh
  <2> QED  BY <2>1, <2>2
<1>9. edge # None => edge.node \in S
  <2>1. SUFFICES ASSUME edge # None PROVE edge.node \in DOMAIN heap /\ edge.node # node
    OBVIOUS
  <2>2. edge.node \in Inners(heap) /\ Below(node, edge.node)
    BY <1>1, <1>2, <2>1, ChildFacts DEF EdgeTo
  <2> QED  BY <2>2, <1>1 DEF Below, Inners
<1>10. /\ heap[node] = Inner(heap[node].header, heap[node].children)
       /\ heap[node].header \in HeaderType
       /\ heap[node].children \in [ChildBytes(node) -> PointerType]
       /\ ChildBytes(node) \in SUBSET Byte /\ IsFiniteSet(ChildBytes(node))
  BY <1>2, <1>4, InnerFacts
<1>11. /\ InnerNodeOK(t) /\ t.header = heap[node].header
       /\ DOMAIN t.children = ChildBytes(node) \cup {kb}
       /\ t.children[kb] = leaf /\ \A b \in ChildBytes(node) : t.children[b] = Child(node, b)
       /\ NumChildren(t) = NumChildren(heap[node]) + 1
  <2>1. PICK n : n = heap[node]  OBVIOUS
  <2>2. PICK header \in HeaderType, D \in SUBSET Byte :
          header = heap[node].header /\ D = ChildBytes(node)
    BY <1>10
  <2>3. PICK children \in [D -> PointerType] : children = heap[node].children  BY <1>10, <2>2
  <2>4. n = Inner(header, children) /\ IsFiniteSet(D)  BY <1>10, <2>1, <2>2, <2>3
  <2>5. kb \in Byte /\ kb \notin D /\ leaf \in PointerType  BY <1>1, <1>3, <1>5, <2>2
  <2>6. t = WriteChild(n, kb, leaf)  BY <2>1
  <2> HIDE DEF InnerNodeOK
  <2>7. /\ InnerNodeOK(t) /\ t.header = header
        /\ DOMAIN t.children = D \cup {kb}
        /\ t.children[kb] = leaf /\ \A b \in D : t.children[b] = children[b]
        /\ NumChildren(t) = NumChildren(n) + 1
    BY <2>4, <2>5, <2>6, WriteChildFacts
  <2> QED  BY <2>1, <2>2, <2>3, <2>7 DEF Child
<1>12. /\ DOMAIN heap' = DOMAIN h \cup {leaf}
       /\ heap'[leaf] = Leaf(key, op.value)
       /\ \A n \in DOMAIN h :
            heap'[n] = IF edge # None /\ n = edge.node
                       THEN WriteChild(h[n], edge.byte, new) ELSE h[n]
       /\ root' = IF edge = None THEN new ELSE root
       /\ num_entries' = num_entries + 1
       /\ op' \in OpType /\ op'.pc = "done"
  <2>1. edge # None => edge.node \in DOMAIN h  BY <1>9
  <2>2. leaf \notin DOMAIN h  BY <1>7, <1>8
  <2>3. op.point.kind # "Delete"  OBVIOUS
  <2> QED  BY <2>1, <2>2, <2>3, InsertedFacts
<1>13. /\ DOMAIN heap' = S \cup T
       /\ heap'[leaf] = Leaf(key, op.value) /\ heap'[new] = t
       /\ \A n \in S : Rewritten(n, edge, new)
       /\ root' = IF edge = None THEN new ELSE root
       /\ num_entries' = num_entries + 1
       /\ op' \in OpType /\ op'.pc = "done"
  BY <1>8, <1>9, <1>12 DEF Rewritten
<1>14. Update(edge, node, new, S, T)
  <2>1. IsFiniteSet({new}) /\ IsFiniteSet({new} \cup {leaf})  BY FS_Singleton, FS_AddElement
  <2>2. IsFiniteSet(T)
    <3>1. T = {new} \cup {leaf}  OBVIOUS
    <3> QED  BY <2>1, <3>1
  <2>3. root \in S \cup {node}  BY <1>1, <1>2 DEF RootIsAboveAll
  <2>4. \A n \in Inners(heap) : \A b \in ChildBytes(n) : Child(n, b) \in S \cup {node}
    BY <1>2, ChildFacts
  <2> QED  BY <1>1, <1>7, <1>13, <2>2, <2>3, <2>4 DEF Update
<1>15. /\ Redirects(Inners(heap) \cap S, node, new) /\ RootRedirects(node, new)
       /\ \A n \in Inners(heap) \cap S : heap'[n].header = heap[n].header
  <2>1. TreeInvariant /\ ~TearingDown /\ root # None  BY <1>1, <1>2
  <2>2. Redirects(Inners(heap) \cap S, node, new)  BY <2>1, <1>14, UpdateRedirects
  <2>3. RootRedirects(node, new)  BY <2>1, <1>14, UpdateRedirects
  <2>4. \A n \in Inners(heap) \cap S : heap'[n].header = heap[n].header
    BY <2>1, <1>14, UpdateKeepsHeaders
  <2> QED  BY <2>2, <2>3, <2>4
<1>16. /\ ChildBytes(new)' = ChildBytes(node) \cup {kb}
       /\ NewChild(new, kb) = leaf
       /\ \A b \in ChildBytes(node) : NewChild(new, b) = Child(node, b)
  BY <1>11, <1>13 DEF ChildBytes, NewChild
<1>17. AddsLeaf(key, node, new, leaf)
  <2>1. Inners(heap) \cap S = Inners(heap) \ {node}  BY DEF Inners
  <2>2. DOMAIN heap' = (DOMAIN heap \ {node}) \cup {new, leaf}  BY <1>13
  <2> QED  BY <1>1, <1>5, <1>15, <1>16, <2>1, <2>2 DEF AddsLeaf
<1>18. Shape' /\ RootIsAboveAll'
  BY <1>1, <1>2, <1>6, <1>17, AddKeepsShape, NoneAssumption DEF PointerType
<1>19. Built(leaf)  BY <1>1, <1>13 DEF Built, LeafOK, Leaf
<1>20. Built(new)
  <2>1. InnerOK(new)'  BY <1>11, <1>13 DEF InnerOK, InnerNodeOK
  <2>2. FitsType(new)'
    <3>1. NumChildren(heap'[new]) = NumChildren(heap[node]) + 1  BY <1>11, <1>13
    <3>2. NumChildren(heap[node]) \in Nat /\ NumChildren(heap[node]) >= 2
      BY <1>2, <1>4, CapacityAssumption, FS_CardinalityType, InnerFacts
      DEF TreeInvariant, NodesFitTheirType
    <3>3. UpperCapacity[new.type] \in Nat  BY <1>7, CapacityAssumption
    <3> QED  BY <3>1, <3>2, <3>3 DEF FitsType
  <2>3. ASSUME NEW b \in ChildBytes(new)', IsInner(NewChild(new, b))
        PROVE  Represents(heap'[NewChild(new, b)].header,
                          DropFirst(NewChild(new, b).at, Len(new.at) + 1))
    <3>1. b \in ChildBytes(node) /\ NewChild(new, b) = Child(node, b)
      BY <1>1, <1>16, <2>3
    <3>2. Child(node, b) \in DOMAIN heap /\ Below(Child(node, b), node)
      BY <1>2, <1>4, <3>1, ChildFacts
    <3>3. Child(node, b) \in Inners(heap) \cap S
      BY <1>1, <2>3, <3>1, <3>2 DEF Inners, Below
    <3>4. heap'[Child(node, b)].header = heap[Child(node, b)].header  BY <1>15, <3>3
    <3>5. Represents(heap[Child(node, b)].header, DropFirst(Child(node, b).at, Len(node.at) + 1))
      BY <1>2, <1>4, <2>3, <3>1 DEF TreeInvariant, PrefixesAreFaithful
    <3> QED  BY <3>1, <3>4, <3>5
  <2> QED  BY <1>7, <2>1, <2>2, <2>3 DEF Built
<1>21. Represents(heap'[new].header, DropFirst(new.at, DepthAt(edge)))
  BY <1>1, <1>2, <1>4, <1>11, <1>13, HeaderAtEdge
<1>22. num_entries' \in Nat /\ num_entries' = Cardinality(Leaves(heap)')
  <2>1. Leaves(heap)' = Leaves(heap) \cup {leaf}
    <3>1. ~IsLeaf(node)  BY <1>1, <1>2, <1>3, NodeFacts
    <3> QED  BY <3>1, <1>1, <1>7, <1>13 DEF Leaves
  <2>2. leaf \notin Leaves(heap)  BY <1>8 DEF Leaves
  <2> QED  BY <1>1, <1>2, <1>13, <2>1, <2>2, CountUp
<1>23. \A n \in T : Built(n)  BY <1>19, <1>20
<1> QED
  BY <1>1, <1>2, <1>13, <1>14, <1>18, <1>21, <1>22, <1>23, UpdateKeepsInvariant

LEMMA VacancyFacts ==
  ASSUME Invariant, op.pc = "apply", op.point.kind = "IntoExisting",
         NEW node, node = op.node, NEW kb, kb = op.key[op.depth + 1]
  PROVE  /\ node \in Inners(heap) /\ node \in DOMAIN heap /\ node \in InnerPointer
         /\ node.type \in InnerType /\ node.at \in ByteString
         /\ kb \in Byte /\ kb \notin ChildBytes(node)
         /\ NumChildren(heap[node]) \in 2 .. UpperCapacity[node.type]
         /\ UpperCapacity[node.type] \in Nat
         /\ ~ShouldShrink(node.type, NumChildren(heap[node]))
<1>1. /\ op.key \in ByteString /\ Len(op.key) \in Nat
      /\ node \in DOMAIN heap /\ node.at \in ByteString /\ Len(node.at) \in Nat
  BY InsertFacts
<1>2. IsInner(node) /\ op.depth = Len(node.at) /\ op.depth < Len(op.key)
      /\ kb \notin ChildBytes(node)
  BY DEF Invariant, CallInvariant, PointFitsNode
<1>3. node \in Inners(heap) /\ node \in InnerPointer  BY <1>1, <1>2, NodeFacts DEF Invariant
<1>4. kb \in Byte  BY <1>1, <1>2 DEF ByteString
<1>5. node.type \in InnerType /\ UpperCapacity[node.type] \in Nat
  BY <1>3, CapacityAssumption DEF InnerPointer
<1> QED
  BY <1>1, <1>2, <1>3, <1>4, <1>5 DEF Invariant, TreeInvariant, NodesFitTheirType

LEMMA InsertIntoNodeKeeps ==
  ASSUME Invariant, InsertIntoNode
  PROVE  Invariant'
<1>1. PICK node \in {op.node}, leaf \in {NewLeaf}, key \in {op.key}, edge \in {op.parent},
           kb \in {op.key[op.depth + 1]}, new \in {op.node} : TRUE
  OBVIOUS
<1> DEFINE t == WriteChild(heap[node], kb, leaf)
           h == [heap EXCEPT ![node] = t]
           S == DOMAIN heap \ {node}
           T == {new, leaf}
<1>2. op.pc = "apply" /\ op.point.kind = "IntoExisting"
  BY DEF InsertIntoNode, Applying
<1>3. Inserted(h, node) /\ ~IsFull(node.type, heap[node])
  BY <1>1 DEF InsertIntoNode
<1>4. /\ node \in DOMAIN heap /\ node \in InnerPointer /\ node.type \in InnerType
      /\ NumChildren(heap[node]) \in 2 .. UpperCapacity[node.type]
      /\ UpperCapacity[node.type] \in Nat
      /\ ~ShouldShrink(node.type, NumChildren(heap[node]))
  BY <1>1, <1>2, VacancyFacts
<1>5. DOMAIN h = (DOMAIN heap \ {node}) \cup {node} /\ h[node] = t
      /\ \A n \in DOMAIN heap \ {node} : h[n] = heap[n]
  BY <1>4
<1>6. NumChildren(heap[node]) + 1 <= UpperCapacity[node.type]  BY <1>3, <1>4 DEF IsFull
<1>7. ~ShouldShrink(node.type, NumChildren(heap[node]) + 1)
  <2>1. CASE node.type = "Node4"  BY <2>1 DEF ShouldShrink
  <2>2. CASE node.type # "Node4"
    <3>1. NextSmaller[node.type] \in InnerType  BY <1>4, <2>2 DEF NextSmaller, InnerType
    <3>2. UpperCapacity[NextSmaller[node.type]] \in Nat  BY <3>1, CapacityAssumption
    <3> QED  BY <1>4, <2>2, <3>2 DEF ShouldShrink
  <2> QED  BY <2>1, <2>2
<1>8. node = op.node /\ leaf = NewLeaf /\ key = op.key /\ edge = op.parent
      /\ kb = key[op.depth + 1] /\ t = WriteChild(heap[node], kb, leaf)
      /\ S = DOMAIN heap \ {node} /\ T = {new, leaf} /\ new = node
  BY <1>1
<1> HIDE DEF t, h, S, T
<1>9. /\ new \in InnerPointer /\ new.at = node.at /\ Inserted(h, new)
      /\ DOMAIN h = (DOMAIN heap \ {node}) \cup {new} /\ h[new] = t
      /\ NumChildren(heap[node]) + 1 <= UpperCapacity[new.type]
      /\ ~ShouldShrink(new.type, NumChildren(heap[node]) + 1)
  BY <1>3, <1>4, <1>5, <1>6, <1>7, <1>8
<1> QED  BY <1>2, <1>5, <1>8, <1>9, AddKeeps

(* A full Node256 has a child for every byte, so the byte that is missing  *)
(* never makes one grow.                                                   *)
LEMMA FullNodeGrows ==
  ASSUME NEW type \in InnerType, NEW n \in Nat, n = UpperCapacity[type],
         NEW D \in SUBSET Byte, n = Cardinality(D), NEW b \in Byte, b \notin D
  PROVE  /\ NextLarger[type] \in InnerType
         /\ n + 1 <= UpperCapacity[NextLarger[type]]
         /\ ~ShouldShrink(NextLarger[type], n + 1)
<1>1. type # "Node256"
  <2>1. SUFFICES ASSUME type = "Node256" PROVE FALSE  OBVIOUS
  <2>2. IsFiniteSet(Byte) /\ Cardinality(Byte) <= n  BY <2>1, CapacityAssumption
  <2>3. IsFiniteSet(D)  BY <2>2, FS_Subset
  <2>4. IsFiniteSet(D \cup {b}) /\ Cardinality(D \cup {b}) = n + 1
    BY <2>3, FS_AddElement
  <2>5. Cardinality(D \cup {b}) <= Cardinality(Byte)  BY <2>2, FS_Subset
  <2>6. Cardinality(Byte) \in Nat  BY <2>2, FS_CardinalityType
  <2> QED  BY <2>2, <2>4, <2>5, <2>6
<1>2. NextLarger[type] \in InnerType /\ NextSmaller[NextLarger[type]] = type
      /\ type \in DOMAIN NextLarger
  BY <1>1 DEF NextLarger, NextSmaller, InnerType
<1>3. UpperCapacity[NextLarger[type]] \in Nat /\ n < UpperCapacity[NextLarger[type]]
  BY <1>2, CapacityAssumption
<1>4. n + 1 <= UpperCapacity[NextLarger[type]]  BY <1>3
<1>5. ~(n + 1 <= UpperCapacity[type])  OBVIOUS
<1>6. ~ShouldShrink(NextLarger[type], n + 1)  BY <1>2, <1>5 DEF ShouldShrink
<1> QED  BY <1>2, <1>4, <1>6

LEMMA InsertIntoGrownNodeKeeps ==
  ASSUME Invariant, InsertIntoGrownNode
  PROVE  Invariant'
<1>1. PICK node \in {op.node}, leaf \in {NewLeaf}, key \in {op.key}, edge \in {op.parent},
           kb \in {op.key[op.depth + 1]} : TRUE
  OBVIOUS
<1> DEFINE grown == Pointer(NextLarger[node.type], node.at)
           t == WriteChild(heap[node], kb, leaf)
           h == With(Without(heap, node), grown, t)
           S == DOMAIN heap \ {node}
           T == {grown, leaf}
<1>2. op.pc = "apply" /\ op.point.kind = "IntoExisting"
  BY DEF InsertIntoGrownNode, Applying
<1>3. Inserted(h, grown) /\ IsFull(node.type, heap[node])
  BY <1>1 DEF InsertIntoGrownNode, Allocate, Deallocate
<1>4. /\ node \in Inners(heap) /\ node \in DOMAIN heap /\ node.type \in InnerType
      /\ node.at \in ByteString
      /\ kb \in Byte /\ kb \notin ChildBytes(node)
      /\ NumChildren(heap[node]) \in 2 .. UpperCapacity[node.type]
      /\ UpperCapacity[node.type] \in Nat
  BY <1>1, <1>2, VacancyFacts
<1>5. /\ NextLarger[node.type] \in InnerType
      /\ NumChildren(heap[node]) + 1 <= UpperCapacity[NextLarger[node.type]]
      /\ ~ShouldShrink(NextLarger[node.type], NumChildren(heap[node]) + 1)
  <2>1. NumChildren(heap[node]) = UpperCapacity[node.type]  BY <1>3, <1>4 DEF IsFull
  <2>2. NumChildren(heap[node]) = Cardinality(ChildBytes(node)) /\ ChildBytes(node) \in SUBSET Byte
    BY <1>4, InnerFacts DEF Invariant
  <2> QED  BY <1>4, <2>1, <2>2, FullNodeGrows
<1>6. grown \in InnerPointer /\ grown.at = node.at /\ grown.type = NextLarger[node.type]
  BY <1>4, <1>5 DEF Pointer, InnerPointer
<1>7. node = op.node /\ leaf = NewLeaf /\ key = op.key /\ edge = op.parent
      /\ kb = key[op.depth + 1] /\ t = WriteChild(heap[node], kb, leaf)
      /\ S = DOMAIN heap \ {node} /\ T = {grown, leaf}
  BY <1>1
<1> HIDE DEF grown, t, S, T
<1>8. grown \notin S  BY <1>4, <1>6, <1>7 DEF Invariant, TreeInvariant, AddressesAreFresh
<1>9. DOMAIN h = (DOMAIN heap \ {node}) \cup {grown} /\ h[grown] = t
      /\ \A n \in DOMAIN heap \ {node} : h[n] = heap[n]
  BY <1>7, <1>8 DEF With, Without
<1> HIDE DEF h
<1> QED  BY <1>2, <1>3, <1>5, <1>6, <1>7, <1>9, AddKeeps
-----------------------------------------------------------------------------
(***************************************************************************)
(* Deleting a leaf keeps the invariant, whether its parent only loses a    *)
(* child, gives way to a smaller node or is merged into the child that is  *)
(* left; and so does deallocate_tree.                                      *)
(***************************************************************************)

(* What a delete point and the search before it say.                       *)
LEMMA DeleteFacts ==
  ASSUME Invariant, op.pc = "apply", op.point.kind = "Delete"
  PROVE  /\ ~TearingDown /\ root # None
         /\ op.node \in Leaves(heap) /\ op.node \in DOMAIN heap /\ DeletedEntry \in OutType
         /\ op.call \in Calls /\ op.key \in Keys \cup {<< >>} /\ op.value \in Values \cup {None}
         /\ op.parent \in EdgeType \cup {None} /\ op.grandparent \in EdgeType \cup {None}
         /\ EdgeTo(op.parent, op.node)
         /\ op.parent # None => op.parent.node \in Inners(heap)
                                /\ EdgeTo(op.grandparent, op.parent.node)
<1>1. TracksParents(op.call) /\ IsLeaf(op.node)
  BY DEF Invariant, CallInvariant, PointFitsNode
<1>2. op.call \in Calls  BY <1>1 DEF TracksParents, Calls
<1>3. /\ op.node \in DOMAIN heap
      /\ op.parent = None => op.node = root
      /\ op.parent # None =>
           /\ op.parent.node \in DOMAIN heap
           /\ op.parent.byte \in ChildBytes(op.parent.node)
           /\ Child(op.parent.node, op.parent.byte) = op.node
           /\ op.grandparent = None => op.parent.node = root
      /\ op.grandparent # None =>
           /\ op.grandparent.node \in DOMAIN heap
           /\ op.grandparent.byte \in ChildBytes(op.grandparent.node)
           /\ Child(op.grandparent.node, op.grandparent.byte) = op.parent.node
  BY <1>1 DEF Invariant, CallInvariant, SearchKeepsItsPath
<1>4. /\ op.key \in Keys \cup {<< >>} /\ op.value \in Values \cup {None}
      /\ op.parent \in EdgeType \cup {None} /\ op.grandparent \in EdgeType \cup {None}
  BY OpFields DEF Invariant
<1>5. op.parent # None => op.parent.node \in Inners(heap)
  BY <1>3, <1>4, LeafOrInner DEF EdgeType, Inners, PointerType
<1>6. op.grandparent # None => op.grandparent.node \in Inners(heap)
  BY <1>3, <1>4, LeafOrInner DEF EdgeType, Inners, PointerType
<1>7. EdgeTo(op.parent, op.node) /\ (op.parent # None => EdgeTo(op.grandparent, op.parent.node))
  BY <1>3, <1>5, <1>6 DEF EdgeTo
<1>8. ~TearingDown /\ root # None
  BY <1>3 DEF TearingDown, Invariant, TreeInvariant, RootIsAboveAll
<1>9. op.node \in Leaves(heap)  BY <1>1, <1>3 DEF Leaves
<1>10. DeletedEntry \in OutType
  <2>1. LeafKey \in Keys /\ heap[op.node].value \in Values
    BY <1>9, LeafFacts DEF Invariant, LeafKey
  <2> QED  BY <2>1 DEF DeletedEntry, OutType
<1> QED  BY <1>2, <1>3, <1>4, <1>5, <1>7, <1>8, <1>9, <1>10

LEMMA DeletedFacts ==
  ASSUME Invariant, op.pc = "apply", op.point.kind = "Delete",
         NEW h, NEW new_root, Deleted(h, new_root), NEW leaf, leaf = op.node
  PROVE  /\ heap' = Without(h, leaf) /\ root' = new_root /\ num_entries' = num_entries - 1
         /\ op' \in OpType /\ op'.pc = "done"
<1>1. /\ heap' = Without(h, leaf) /\ root' = new_root /\ num_entries' = num_entries - 1
      /\ op' = Done(op.call, op.key, op.value, DeletedEntry)
  BY DEF Deleted, Deallocate, Finish
<1>2. op' \in OpType /\ op'.pc = "done"  BY <1>1, DeleteFacts, DoneType
<1> QED  BY <1>1, <1>2

(* The last entry. *)
LEMMA DeleteRootKeeps ==
  ASSUME Invariant, DeleteRoot
  PROVE  Invariant'
<1>1. op.pc = "apply" /\ op.point.kind = "Delete" /\ op.parent = None /\ Deleted(heap, None)
  BY DEF DeleteRoot, Applying
<1>2. PICK leaf \in {op.node} : TRUE  OBVIOUS
<1>3. ~TearingDown /\ leaf \in Leaves(heap) /\ leaf = root /\ leaf \in DOMAIN heap
  BY <1>1, <1>2, DeleteFacts DEF EdgeTo
<1>4. DOMAIN heap = {leaf}
  BY <1>3 DEF Invariant, TreeInvariant, RootIsAboveAll, LeavesAreLowest
<1>5. heap' = Without(heap, leaf) /\ root' = None /\ num_entries' = num_entries - 1
      /\ op' \in OpType /\ op'.pc = "done"
  BY <1>1, <1>2, DeletedFacts
<1>6. DOMAIN heap' = {}  BY <1>4, <1>5 DEF Without
<1>7. Leaves(heap)' = {} /\ Inners(heap)' = {}  BY <1>6 DEF Leaves, Inners
<1>8. Leaves(heap)' = Leaves(heap) \ {leaf}
  BY <1>3, <1>4, <1>7 DEF Leaves
<1>9. num_entries' \in Nat /\ num_entries' = Cardinality(Leaves(heap)')
  BY <1>3, <1>5, <1>8, CountDown DEF Invariant
<1>10. TypeOK'  BY <1>5, <1>6, <1>7, <1>9 DEF TypeOK
<1>11. HeapIsFinite'  BY <1>6, FS_EmptySet DEF HeapIsFinite
<1>12. /\ AddressesAreFresh' /\ LeavesAreLowest' /\ ChildrenAreLive' /\ RoutesToEveryNode'
       /\ NodesFitTheirType' /\ RootIsAboveAll' /\ PrefixesAreFaithful' /\ CountIsExact'
  BY <1>5, <1>6, <1>7, <1>9
  DEF AddressesAreFresh, LeavesAreLowest, ChildrenAreLive, RoutesToEveryNode,
      NodesFitTheirType, RootIsAboveAll, PrefixesAreFaithful, CountIsExact
<1>13. CallInvariant'  BY <1>5, AnsweredKeepsCall
<1> QED  BY <1>10, <1>11, <1>12, <1>13 DEF Invariant, TreeInvariant
-----------------------------------------------------------------------------
(* The parent without the leaf. *)
LEMMA RemoveChildFacts ==
  ASSUME NEW n, NEW header \in HeaderType, NEW D \in SUBSET Byte,
         NEW children \in [D -> PointerType], n = Inner(header, children), IsFiniteSet(D),
         NEW byte \in D, NEW t, t = RemoveChild(n, byte)
  PROVE  /\ InnerNodeOK(t) /\ t.header = header
         /\ DOMAIN t.children = D \ {byte}
         /\ \A b \in D \ {byte} : t.children[b] = children[b]
         /\ NumChildren(t) = NumChildren(n) - 1
<1>1. t = Inner(header, Without(children, byte))  BY DEF RemoveChild, Inner
<1>2. t.header = header /\ t.children = Without(children, byte)
      /\ t = Inner(t.header, t.children)
  BY <1>1 DEF Inner
<1>3. DOMAIN t.children = D \ {byte} /\ \A b \in D \ {byte} : t.children[b] = children[b]
  BY <1>2 DEF Without
<1>4. t.children \in [D \ {byte} -> PointerType]  BY <1>2 DEF Without
<1>5. D \ {byte} \in SUBSET Byte  OBVIOUS
<1>6. InnerNodeOK(t)  BY <1>2, <1>4, <1>5 DEF InnerNodeOK
<1>7. NumChildren(n) = Cardinality(D)  BY DEF NumChildren, Inner
<1>8. Cardinality(D \ {byte}) = Cardinality(D) - 1  BY FS_RemoveElement
<1> QED  BY <1>2, <1>3, <1>6, <1>7, <1>8 DEF NumChildren

(* Writing the child that is already there changes nothing. *)
LEMMA WriteSameChild ==
  ASSUME TreeInvariant, NEW n \in Inners(heap), NEW b \in ChildBytes(n)
  PROVE  WriteChild(heap[n], b, Child(n, b)) = heap[n]
<1>1. /\ heap[n] = Inner(heap[n].header, heap[n].children)
      /\ heap[n].children \in [ChildBytes(n) -> PointerType]
  BY InnerFacts
<1>2. With(heap[n].children, b, Child(n, b)) = heap[n].children
  BY <1>1 DEF With, Child
<1> QED  BY <1>1, <1>2 DEF WriteChild

LEMMA ParentFacts ==
  ASSUME Invariant, op.pc = "apply", op.point.kind = "Delete", op.parent # None,
         NEW leaf, leaf = op.node, NEW par, par = op.parent.node,
         NEW byte, byte = op.parent.byte, NEW edge, edge = op.grandparent
  PROVE  /\ TreeInvariant /\ Shape /\ RootIsAboveAll /\ ~TearingDown /\ root # None
         /\ leaf \in Leaves(heap) /\ leaf \in DOMAIN heap /\ IsLeaf(leaf) /\ ~IsInner(leaf)
         /\ par \in Inners(heap) /\ par \in DOMAIN heap /\ IsInner(par) /\ ~IsLeaf(par)
         /\ par \in InnerPointer /\ par.type \in InnerType /\ par.at \in ByteString
         /\ byte \in ChildBytes(par) /\ Child(par, byte) = leaf /\ leaf # par
         /\ edge \in EdgeType \cup {None} /\ EdgeTo(edge, par)
         /\ edge # None => /\ edge.node \in Inners(heap) /\ edge.node \in DOMAIN heap
                           /\ edge.node # par /\ edge.node # leaf /\ Below(par, edge.node)
         /\ root \in DOMAIN heap /\ root # leaf
<1>1. TreeInvariant /\ Shape /\ RootIsAboveAll
  BY InvariantShape DEF Invariant, TreeInvariant
<1>2. /\ ~TearingDown /\ root # None
      /\ leaf \in Leaves(heap) /\ leaf \in DOMAIN heap
      /\ edge \in EdgeType \cup {None} /\ EdgeTo(edge, par)
      /\ par \in Inners(heap) /\ byte \in ChildBytes(par) /\ Child(par, byte) = leaf
  BY DeleteFacts DEF EdgeTo
<1>3. /\ par \in DOMAIN heap /\ IsInner(par) /\ IsLeaf(leaf)
  BY <1>2 DEF Inners, Leaves
<1>4. /\ ~IsLeaf(par) /\ ~IsInner(leaf) /\ par \in InnerPointer /\ par.type \in InnerType
      /\ par.at \in ByteString /\ Len(par.at) \in Nat
  BY <1>1, <1>2, <1>3, NodeFacts DEF InnerPointer
<1>5. edge # None => /\ edge.node \in Inners(heap) /\ edge.node \in DOMAIN heap
                     /\ edge.node # par /\ edge.node # leaf /\ Below(par, edge.node)
  <2>1. SUFFICES ASSUME edge # None
                 PROVE  /\ edge.node \in Inners(heap) /\ edge.node \in DOMAIN heap
                        /\ edge.node # par /\ edge.node # leaf /\ Below(par, edge.node)
    OBVIOUS
  <2>2. edge.node \in Inners(heap) /\ Below(par, edge.node)
    BY <1>1, <1>2, <2>1, ChildFacts DEF EdgeTo
  <2> QED  BY <2>2, <1>4 DEF Below, Inners
<1>6. root \in DOMAIN heap  BY <1>1, <1>2 DEF RootIsAboveAll
<1>7. root # leaf
  <2>1. EdgeTo(op.parent, leaf)  BY DeleteFacts
  <2> QED  BY <1>1, <1>2, <2>1, OnlyThatEdge
<1> QED  BY <1>1, <1>2, <1>3, <1>4, <1>5, <1>6, <1>7

LEMMA RemoveKeeps ==
  ASSUME Invariant, op.pc = "apply", op.point.kind = "Delete", op.parent # None,
         NEW leaf, leaf = op.node, NEW par, par = op.parent.node,
         NEW byte, byte = op.parent.byte, NEW edge, edge = op.grandparent,
         NEW new \in InnerPointer, new.at = par.at,
         NEW t, t = RemoveChild(heap[par], byte),
         NEW S, S = DOMAIN heap \ {par, leaf}, NEW T, T = {new},
         DOMAIN heap' = S \cup T, heap'[new] = t, \A n \in S : Rewritten(n, edge, new),
         root' = IF edge = None THEN new ELSE root, num_entries' = num_entries - 1,
         op' \in OpType, op'.pc = "done",
         NumChildren(t) \in 2 .. UpperCapacity[new.type],
         ~ShouldShrink(new.type, NumChildren(t))
  PROVE  Invariant'
<1>1. /\ TreeInvariant /\ Shape /\ RootIsAboveAll /\ ~TearingDown /\ root # None
      /\ leaf \in Leaves(heap) /\ leaf \in DOMAIN heap /\ IsLeaf(leaf) /\ ~IsInner(leaf)
      /\ par \in Inners(heap) /\ par \in DOMAIN heap /\ IsInner(par) /\ ~IsLeaf(par)
      /\ byte \in ChildBytes(par) /\ Child(par, byte) = leaf /\ leaf # par
      /\ edge \in EdgeType \cup {None} /\ EdgeTo(edge, par)
      /\ root \in DOMAIN heap /\ root # leaf
  BY ParentFacts
<1>2. new \in PointerType /\ IsInner(new) /\ ~IsLeaf(new)  BY LeafOrInner DEF PointerType
<1>3. new \notin S /\ new # leaf
  <2>1. new \in DOMAIN heap => new = par
    BY <1>1 DEF TreeInvariant, AddressesAreFresh
  <2> QED  BY <1>1, <2>1
<1>4. /\ heap[par] = Inner(heap[par].header, heap[par].children)
      /\ heap[par].header \in HeaderType
      /\ heap[par].children \in [ChildBytes(par) -> PointerType]
      /\ ChildBytes(par) \in SUBSET Byte /\ IsFiniteSet(ChildBytes(par))
  BY <1>1, InnerFacts
<1>5. /\ InnerNodeOK(t) /\ t.header = heap[par].header
      /\ DOMAIN t.children = ChildBytes(par) \ {byte}
      /\ \A b \in ChildBytes(par) \ {byte} : t.children[b] = Child(par, b)
  <2>1. /\ InnerNodeOK(t) /\ t.header = heap[par].header
        /\ DOMAIN t.children = ChildBytes(par) \ {byte}
        /\ \A b \in ChildBytes(par) \ {byte} : t.children[b] = heap[par].children[b]
    <3>1. PICK n, header, D, children :
            /\ n = heap[par] /\ header = heap[par].header
            /\ D = ChildBytes(par) /\ children = heap[par].children
      OBVIOUS
    <3>2. /\ header \in HeaderType /\ D \in SUBSET Byte /\ children \in [D -> PointerType]
          /\ n = Inner(header, children) /\ IsFiniteSet(D) /\ byte \in D
          /\ t = RemoveChild(n, byte)
      BY <1>1, <1>4, <3>1
    <3>3. /\ InnerNodeOK(t) /\ t.header = header /\ DOMAIN t.children = D \ {byte}
          /\ \A b \in D \ {byte} : t.children[b] = children[b]
          /\ NumChildren(t) = NumChildren(n) - 1
      BY <3>2, RemoveChildFacts
    <3> QED  BY <3>1, <3>3
  <2> QED  BY <2>1 DEF Child
<1>6. Update(edge, par, new, S, T)
  <2>1. IsFiniteSet(T)  BY FS_Singleton
  <2>2. root \in S \cup {par}  BY <1>1
  <2>3. \A n \in Inners(heap) : \A b \in ChildBytes(n) :
          IsInner(Child(n, b)) => Child(n, b) \in S \cup {par}
    BY <1>1, ChildFacts
  <2> QED  BY <1>1, <1>2, <2>1, <2>2, <2>3 DEF Update
<1>7. /\ Redirects(Inners(heap) \cap S, par, new) /\ RootRedirects(par, new)
      /\ \A n \in Inners(heap) \cap S : heap'[n].header = heap[n].header
  <2>1. TreeInvariant /\ ~TearingDown /\ root # None  BY <1>1
  <2>2. Redirects(Inners(heap) \cap S, par, new)  BY <2>1, <1>6, UpdateRedirects
  <2>3. RootRedirects(par, new)  BY <2>1, <1>6, UpdateRedirects
  <2>4. \A n \in Inners(heap) \cap S : heap'[n].header = heap[n].header
    BY <2>1, <1>6, UpdateKeepsHeaders
  <2> QED  BY <2>2, <2>3, <2>4
<1>8. /\ ChildBytes(new)' = ChildBytes(par) \ {byte}
      /\ \A b \in ChildBytes(par) \ {byte} : NewChild(new, b) = Child(par, b)
  BY <1>5 DEF ChildBytes, NewChild
<1>9. RemovesLeaf(par, byte, new)
  <2>1. Inners(heap) \cap S = Inners(heap) \ {par}  BY <1>1 DEF Inners
  <2>2. DOMAIN heap' = (DOMAIN heap \ {par, Child(par, byte)}) \cup {new}  BY <1>1
  <2> QED  BY <1>1, <1>7, <1>8, <2>1, <2>2 DEF RemovesLeaf
<1>10. Shape' /\ RootIsAboveAll'
  BY <1>1, <1>9, RemoveKeepsShape, NoneAssumption DEF PointerType
<1>11. Built(new)
  <2>1. InnerOK(new)'  BY <1>5 DEF InnerOK, InnerNodeOK
  <2>2. FitsType(new)'  BY DEF FitsType
  <2>3. ASSUME NEW b \in ChildBytes(new)', IsInner(NewChild(new, b))
        PROVE  Represents(heap'[NewChild(new, b)].header,
                          DropFirst(NewChild(new, b).at, Len(new.at) + 1))
    <3>1. b \in ChildBytes(par) /\ NewChild(new, b) = Child(par, b)  BY <1>8, <2>3
    <3>2. Child(par, b) \in DOMAIN heap /\ Below(Child(par, b), par)
      BY <1>1, <3>1, ChildFacts
    <3>3. Child(par, b) # par
      BY <1>1, <3>2, NodeFacts DEF Below
    <3>4. Child(par, b) \in Inners(heap) \cap S
      BY <1>1, <2>3, <3>1, <3>2, <3>3 DEF Inners
    <3>5. heap'[Child(par, b)].header = heap[Child(par, b)].header  BY <1>7, <3>4
    <3>6. Represents(heap[Child(par, b)].header, DropFirst(Child(par, b).at, Len(par.at) + 1))
      BY <1>1, <2>3, <3>1 DEF TreeInvariant, PrefixesAreFaithful
    <3> QED  BY <3>1, <3>5, <3>6
  <2> QED  BY <1>2, <2>1, <2>2, <2>3 DEF Built
<1>12. Represents(heap'[new].header, DropFirst(new.at, DepthAt(edge)))
  BY <1>1, <1>5, HeaderAtEdge
<1>13. num_entries' \in Nat /\ num_entries' = Cardinality(Leaves(heap)')
  <2>1. Leaves(heap)' = Leaves(heap) \ {leaf}  BY <1>1, <1>2 DEF Leaves
  <2> QED  BY <1>1, <2>1, CountDown
<1>14. \A n \in T : Built(n)  BY <1>11
<1> QED
  BY <1>1, <1>6, <1>10, <1>12, <1>13, <1>14, UpdateKeepsInvariant

(* The node that takes the parent's place is written to the grandparent.   *)
LEMMA ReplaceParentFacts ==
  ASSUME Invariant, op.pc = "apply", op.point.kind = "Delete",
         NEW h, NEW new, ReplaceParent(h, new),
         NEW leaf, leaf = op.node, NEW par, par = op.parent.node,
         NEW edge, edge = op.grandparent,
         edge # None => edge.node \in DOMAIN h \ {par, leaf}
  PROVE  /\ DOMAIN heap' = DOMAIN h \ {par, leaf}
         /\ \A n \in DOMAIN h \ {par, leaf} :
              heap'[n] = IF edge # None /\ n = edge.node
                         THEN WriteChild(h[n], edge.byte, new) ELSE h[n]
         /\ root' = IF edge = None THEN new ELSE root
         /\ num_entries' = num_entries - 1
         /\ op' \in OpType /\ op'.pc = "done"
<1>1. CASE edge = None
  <2>1. PICK cut : cut = Without(h, par)  OBVIOUS
  <2>2. Deleted(cut, new)  BY <1>1, <2>1 DEF ReplaceParent, Deallocate
  <2>3. heap' = Without(cut, leaf) /\ root' = new /\ num_entries' = num_entries - 1
        /\ op' \in OpType /\ op'.pc = "done"
    BY <2>2, DeletedFacts
  <2>4. DOMAIN cut = DOMAIN h \ {par} /\ \A n \in DOMAIN h \ {par} : cut[n] = h[n]
    BY <2>1 DEF Without
  <2>5. DOMAIN heap' = DOMAIN cut \ {leaf} /\ \A n \in DOMAIN cut \ {leaf} : heap'[n] = cut[n]
    BY <2>3 DEF Without
  <2> QED  BY <1>1, <2>3, <2>4, <2>5
<1>2. CASE edge # None
  <2>1. PICK cut : cut = Without(h, par)  OBVIOUS
  <2>2. PICK w : w = [cut EXCEPT ![edge.node] = WriteChild(@, edge.byte, new)]  OBVIOUS
  <2>3. Deleted(w, root)  BY <1>2, <2>1, <2>2 DEF ReplaceParent, Deallocate
  <2>4. heap' = Without(w, leaf) /\ root' = root /\ num_entries' = num_entries - 1
        /\ op' \in OpType /\ op'.pc = "done"
    BY <2>3, DeletedFacts
  <2>5. /\ DOMAIN cut = DOMAIN h \ {par}
        /\ \A n \in DOMAIN h \ {par} : cut[n] = h[n]
        /\ cut = [n \in DOMAIN cut |-> cut[n]]
    BY <2>1 DEF Without
  <2>6. DOMAIN w = DOMAIN cut
        /\ \A n \in DOMAIN cut :
             w[n] = IF n = edge.node THEN WriteChild(cut[n], edge.byte, new) ELSE cut[n]
    BY <1>2, <2>2, <2>5
  <2>7. DOMAIN heap' = DOMAIN w \ {leaf} /\ \A n \in DOMAIN w \ {leaf} : heap'[n] = w[n]
    BY <2>4 DEF Without
  <2> QED  BY <1>2, <2>4, <2>5, <2>6, <2>7
<1> QED  BY <1>1, <1>2

LEMMA BereftFacts ==
  ASSUME Invariant, op.pc = "apply", op.point.kind = "Delete", op.parent # None,
         NEW par, par = op.parent.node, NEW t, t = Bereft
  PROVE  /\ NumChildren(t) \in Nat /\ NumChildren(t) = NumChildren(heap[par]) - 1
         /\ NumChildren(heap[par]) \in 2 .. UpperCapacity[par.type]
         /\ UpperCapacity[par.type] \in Nat
         /\ ~ShouldShrink(par.type, NumChildren(heap[par]))
         /\ t.header = heap[par].header
         /\ DOMAIN t.children = ChildBytes(par) \ {op.parent.byte}
         /\ \A b \in ChildBytes(par) \ {op.parent.byte} : t.children[b] = Child(par, b)
<1>1. PICK byte : byte = op.parent.byte  OBVIOUS
<1>2. /\ TreeInvariant /\ par \in Inners(heap) /\ par.type \in InnerType /\ byte \in ChildBytes(par)
  <2>1. PICK leaf \in {op.node}, edge \in {op.grandparent} : TRUE  OBVIOUS
  <2> QED  BY <1>1, <2>1, ParentFacts
<1>3. PICK n, header, D, children :
         /\ n = heap[par] /\ header = heap[par].header
         /\ D = ChildBytes(par) /\ children = heap[par].children
  OBVIOUS
<1>4. /\ header \in HeaderType /\ D \in SUBSET Byte /\ children \in [D -> PointerType]
      /\ n = Inner(header, children) /\ IsFiniteSet(D) /\ byte \in D
      /\ t = RemoveChild(n, byte)
  BY <1>1, <1>2, <1>3, InnerFacts DEF Bereft
<1>5. /\ InnerNodeOK(t) /\ t.header = header /\ DOMAIN t.children = D \ {byte}
      /\ \A b \in D \ {byte} : t.children[b] = children[b]
      /\ NumChildren(t) = NumChildren(n) - 1
  BY <1>4, RemoveChildFacts
<1>6. /\ NumChildren(heap[par]) \in 2 .. UpperCapacity[par.type]
      /\ ~ShouldShrink(par.type, NumChildren(heap[par]))
  BY <1>2 DEF TreeInvariant, NodesFitTheirType
<1>7. UpperCapacity[par.type] \in Nat  BY <1>2, CapacityAssumption
<1> QED  BY <1>1, <1>3, <1>5, <1>6, <1>7 DEF Child

LEMMA DeleteInPlaceKeeps ==
  ASSUME Invariant, DeleteInPlace
  PROVE  Invariant'
<1>1. PICK leaf \in {op.node}, par \in {op.parent.node}, byte \in {op.parent.byte},
           edge \in {op.grandparent}, new \in {op.parent.node}, t \in {Bereft} : TRUE
  OBVIOUS
<1> DEFINE S == DOMAIN heap \ {par, leaf}
           T == {new}
           h == [heap EXCEPT ![par] = t]
<1>2. op.pc = "apply" /\ op.point.kind = "Delete" /\ op.parent # None
  BY DEF DeleteInPlace, Applying
<1>3. /\ ~OneChildLeft /\ ~ShouldShrink(par.type, NumChildren(t)) /\ Deleted(h, root)
  BY <1>1 DEF DeleteInPlace, ParentType
<1>4. /\ TreeInvariant /\ par \in DOMAIN heap /\ par \in InnerPointer /\ leaf # par
      /\ edge \in EdgeType \cup {None} /\ EdgeTo(edge, par)
  BY <1>1, <1>2, ParentFacts
<1>5. heap' = Without(h, leaf) /\ root' = root /\ num_entries' = num_entries - 1
      /\ op' \in OpType /\ op'.pc = "done"
  BY <1>1, <1>2, <1>3, DeletedFacts
<1>6. DOMAIN heap' = S \cup T /\ heap'[new] = t /\ \A n \in S : heap'[n] = heap[n]
  BY <1>1, <1>4, <1>5 DEF Without
<1>7. ASSUME NEW n \in S
      PROVE  Rewritten(n, edge, new)
  <2>1. CASE edge # None /\ n = edge.node
    <3>1. n \in Inners(heap) /\ edge.byte \in ChildBytes(n) /\ Child(n, edge.byte) = new
      BY <1>1, <1>4, <2>1 DEF EdgeTo
    <3>2. WriteChild(heap[n], edge.byte, new) = heap[n]  BY <1>4, <3>1, WriteSameChild
    <3> QED  BY <1>6, <2>1, <3>2 DEF Rewritten
  <2>2. CASE ~(edge # None /\ n = edge.node)  BY <1>6, <2>2 DEF Rewritten
  <2> QED  BY <2>1, <2>2
<1>8. root' = IF edge = None THEN new ELSE root  BY <1>1, <1>4, <1>5 DEF EdgeTo
<1>9. NumChildren(t) \in 2 .. UpperCapacity[new.type]
  <2>1. /\ NumChildren(t) \in Nat /\ NumChildren(t) = NumChildren(heap[par]) - 1
        /\ NumChildren(heap[par]) \in 2 .. UpperCapacity[par.type]
        /\ UpperCapacity[par.type] \in Nat
    BY <1>1, <1>2, BereftFacts
  <2>2. NumChildren(t) # 1  BY <1>1, <1>3 DEF OneChildLeft
  <2>3. new = par  BY <1>1
  <2> QED  BY <2>1, <2>2, <2>3
<1>10. /\ leaf = op.node /\ par = op.parent.node /\ byte = op.parent.byte /\ edge = op.grandparent
       /\ new \in InnerPointer /\ new.at = par.at /\ t = RemoveChild(heap[par], byte)
       /\ S = DOMAIN heap \ {par, leaf} /\ T = {new}
       /\ ~ShouldShrink(new.type, NumChildren(t))
  BY <1>1, <1>3, <1>4 DEF Bereft
<1> HIDE DEF S, T, h
<1> QED  BY <1>2, <1>5, <1>6, <1>7, <1>8, <1>9, <1>10, RemoveKeeps

LEMMA DeleteAndShrinkKeeps ==
  ASSUME Invariant, DeleteAndShrink
  PROVE  Invariant'
<1>1. PICK leaf \in {op.node}, par \in {op.parent.node}, byte \in {op.parent.byte},
           edge \in {op.grandparent}, t \in {Bereft},
           new \in {Pointer(NextSmaller[ParentType], op.parent.node.at)} : TRUE
  OBVIOUS
<1> DEFINE S == DOMAIN heap \ {par, leaf}
           T == {new}
           h == With(heap, new, t)
<1>2. op.pc = "apply" /\ op.point.kind = "Delete" /\ op.parent # None
  BY DEF DeleteAndShrink, Applying
<1>3. /\ ~OneChildLeft /\ ShouldShrink(par.type, NumChildren(t)) /\ ReplaceParent(h, new)
  BY <1>1 DEF DeleteAndShrink, ParentType, Allocate
<1>4. /\ TreeInvariant /\ par \in DOMAIN heap /\ par \in InnerPointer /\ leaf # par
      /\ par.type \in InnerType /\ par.at \in ByteString /\ leaf \in DOMAIN heap
      /\ IsLeaf(leaf)
      /\ edge # None => edge.node \in DOMAIN heap /\ edge.node # par /\ edge.node # leaf
  BY <1>1, <1>2, ParentFacts
<1>5. par.type # "Node4" /\ NextSmaller[par.type] \in InnerType /\ NextSmaller[par.type] # par.type
  BY <1>3, <1>4 DEF ShouldShrink, NextSmaller, InnerType
<1>6. /\ new \in InnerPointer /\ new.at = par.at /\ new.type = NextSmaller[par.type]
      /\ new # par
  <2>1. new = Pointer(NextSmaller[par.type], par.at)  BY <1>1 DEF ParentType
  <2> QED  BY <2>1, <1>4, <1>5 DEF Pointer, InnerPointer
<1>7. new \notin DOMAIN heap /\ new # leaf
  BY <1>4, <1>6 DEF TreeInvariant, AddressesAreFresh
<1>8. DOMAIN h = DOMAIN heap \cup {new} /\ h[new] = t /\ \A n \in DOMAIN heap : h[n] = heap[n]
  BY <1>7 DEF With
<1>9. /\ DOMAIN heap' = DOMAIN h \ {par, leaf}
      /\ \A n \in DOMAIN h \ {par, leaf} :
           heap'[n] = IF edge # None /\ n = edge.node
                      THEN WriteChild(h[n], edge.byte, new) ELSE h[n]
      /\ root' = IF edge = None THEN new ELSE root
      /\ num_entries' = num_entries - 1
      /\ op' \in OpType /\ op'.pc = "done"
  <2>1. edge # None => edge.node \in DOMAIN h \ {par, leaf}  BY <1>4, <1>8
  <2>2. PICK hh : hh = h  OBVIOUS
  <2> HIDE DEF h
  <2>3. /\ leaf = op.node /\ par = op.parent.node /\ edge = op.grandparent
        /\ ReplaceParent(hh, new) /\ (edge # None => edge.node \in DOMAIN hh \ {par, leaf})
    BY <1>1, <1>3, <2>1, <2>2
  <2>4. /\ DOMAIN heap' = DOMAIN hh \ {par, leaf}
        /\ \A n \in DOMAIN hh \ {par, leaf} :
             heap'[n] = IF edge # None /\ n = edge.node
                        THEN WriteChild(hh[n], edge.byte, new) ELSE hh[n]
        /\ root' = IF edge = None THEN new ELSE root
        /\ num_entries' = num_entries - 1
        /\ op' \in OpType /\ op'.pc = "done"
    BY <1>2, <2>3, ReplaceParentFacts
  <2> QED  BY <2>2, <2>4
<1>10. DOMAIN heap' = S \cup T /\ heap'[new] = t /\ \A n \in S : Rewritten(n, edge, new)
  BY <1>4, <1>6, <1>7, <1>8, <1>9 DEF Rewritten
<1>11. NumChildren(t) \in 2 .. UpperCapacity[new.type]
       /\ ~ShouldShrink(new.type, NumChildren(t))
  <2>1. /\ NumChildren(t) \in Nat /\ NumChildren(t) = NumChildren(heap[par]) - 1
        /\ NumChildren(heap[par]) \in 2 .. UpperCapacity[par.type]
        /\ UpperCapacity[par.type] \in Nat
        /\ ~ShouldShrink(par.type, NumChildren(heap[par]))
    BY <1>1, <1>2, BereftFacts
  <2>2. NumChildren(t) # 1  BY <1>1, <1>3 DEF OneChildLeft
  <2>3. UpperCapacity[new.type] \in Nat  BY <1>5, <1>6, CapacityAssumption
  <2>4. NumChildren(t) <= UpperCapacity[new.type]  BY <1>3, <1>6 DEF ShouldShrink
  <2>5. UpperCapacity[new.type] < NumChildren(heap[par])
    BY <1>5, <1>6, <2>1, <2>3 DEF ShouldShrink
  <2>6. ~ShouldShrink(new.type, NumChildren(t))
    <3>1. SUFFICES ASSUME new.type # "Node4" PROVE ~(NumChildren(t) <= UpperCapacity[NextSmaller[new.type]])
      BY DEF ShouldShrink
    <3>2. /\ NextSmaller[new.type] \in DOMAIN NextLarger
          /\ NextSmaller[new.type] \in InnerType
          /\ NextLarger[NextSmaller[new.type]] = new.type
      BY <1>4, <1>5, <1>6, <3>1 DEF NextSmaller, NextLarger, InnerType
    <3>3. UpperCapacity[NextSmaller[new.type]] < UpperCapacity[new.type]
          /\ UpperCapacity[NextSmaller[new.type]] \in Nat
      BY <3>2, CapacityAssumption
    <3> QED  BY <2>1, <2>3, <2>5, <3>3
  <2> QED  BY <2>1, <2>2, <2>3, <2>4, <2>6
<1>12. /\ leaf = op.node /\ par = op.parent.node /\ byte = op.parent.byte /\ edge = op.grandparent
       /\ t = RemoveChild(heap[par], byte)
       /\ S = DOMAIN heap \ {par, leaf} /\ T = {new}
  BY <1>1 DEF Bereft
<1> HIDE DEF S, T, h
<1>13. new \in InnerPointer /\ new.at = par.at  BY <1>6
<1>14. /\ root' = IF edge = None THEN new ELSE root
       /\ num_entries' = num_entries - 1 /\ op' \in OpType /\ op'.pc = "done"
  BY <1>9
<1> QED  BY <1>2, <1>10, <1>11, <1>12, <1>13, <1>14, RemoveKeeps

-----------------------------------------------------------------------------
LEMMA ConcatFacts ==
  ASSUME NEW p \in ByteString, NEW q \in ByteString
  PROVE  /\ p \o q \in ByteString /\ Len(p \o q) = Len(p) + Len(q)
         /\ \A i \in 1 .. Len(p) : (p \o q)[i] = p[i]
         /\ \A i \in 1 .. Len(q) : (p \o q)[Len(p) + i] = q[i]
BY DEF ByteString

(* The path of a merged node: what its parent's stood for, the byte        *)
(* between them and its own.                                               *)
LEMMA JoinPath ==
  ASSUME NEW s \in ByteString, NEW t \in ByteString, NEW b \in Byte,
         IsPrefix(s, t), Len(s) < Len(t), t[Len(s) + 1] = b, NEW d \in Nat, d <= Len(s)
  PROVE  (DropFirst(s, d) \o <<b>>) \o DropFirst(t, Len(s) + 1) = DropFirst(t, d)
<1> DEFINE u == DropFirst(s, d)
           v == DropFirst(t, Len(s) + 1)
           w == DropFirst(t, d)
<1>1. Len(s) \in Nat /\ Len(t) \in Nat  BY DEF ByteString
<1>2. u \in ByteString /\ Len(u) = Len(s) - d /\ \A i \in 1 .. Len(s) - d : u[i] = s[d + i]
  BY <1>1, DropFirstFacts
<1>3. Len(s) + 1 \in Nat /\ Len(s) + 1 <= Len(t)  BY <1>1
<1>4. v \in ByteString /\ Len(v) = Len(t) - (Len(s) + 1)
      /\ \A i \in 1 .. Len(t) - (Len(s) + 1) : v[i] = t[Len(s) + 1 + i]
  BY <1>1, <1>3, DropFirstFacts
<1>5. d <= Len(t)  BY <1>1
<1>6. w \in ByteString /\ Len(w) = Len(t) - d /\ \A i \in 1 .. Len(t) - d : w[i] = t[d + i]
  BY <1>1, <1>5, DropFirstFacts
<1>7. \A i \in 1 .. Len(s) : s[i] = t[i]  BY PrefixPointwise
<1> HIDE DEF u, v, w
<1> DEFINE j == (u \o <<b>>) \o v
           n == Len(s) - d
<1>7a. n \in Nat /\ n + 1 \in Nat  BY <1>1
<1> HIDE DEF n
<1>7b. <<b>> \in ByteString /\ Len(<<b>>) = 1 /\ <<b>>[1] = b  BY DEF ByteString
<1>7c. Len(u) = n  BY <1>2 DEF n
<1>8. u \o <<b>> \in ByteString /\ Len(u \o <<b>>) = n + 1
      /\ (\A i \in 1 .. n : (u \o <<b>>)[i] = u[i]) /\ (u \o <<b>>)[n + 1] = b
  <2>1. /\ u \o <<b>> \in ByteString /\ Len(u \o <<b>>) = n + 1
        /\ \A i \in 1 .. n : (u \o <<b>>)[i] = u[i]
        /\ \A i \in 1 .. 1 : (u \o <<b>>)[n + i] = <<b>>[i]
    BY <1>2, <1>7b, <1>7c, ConcatFacts
  <2>2. 1 \in 1 .. 1  OBVIOUS
  <2> QED  BY <2>1, <2>2, <1>7b
<1>8a. PICK ub : ub = u \o <<b>>  OBVIOUS
<1>9. /\ j \in ByteString /\ Len(j) = n + 1 + Len(v)
      /\ \A i \in 1 .. n + 1 : j[i] = (u \o <<b>>)[i]
      /\ \A i \in 1 .. Len(v) : j[n + 1 + i] = v[i]
  <2>1. /\ ub \o v \in ByteString /\ Len(ub \o v) = Len(ub) + Len(v)
        /\ \A i \in 1 .. Len(ub) : (ub \o v)[i] = ub[i]
        /\ \A i \in 1 .. Len(v) : (ub \o v)[Len(ub) + i] = v[i]
    <3>1. ub \in ByteString /\ v \in ByteString  BY <1>4, <1>8, <1>8a
    <3> QED  BY <3>1, ConcatFacts
  <2> QED  BY <2>1, <1>8, <1>8a
<1>9a. n = Len(s) - d  BY DEF n
<1> HIDE DEF j
<1>10. Len(j) = Len(w)  BY <1>1, <1>4, <1>6, <1>9, <1>9a
<1>11. ASSUME NEW i \in 1 .. Len(w)
       PROVE  j[i] = w[i]
  <2>1. w[i] = t[d + i]  BY <1>6
  <2>2. CASE i <= n
    <3>1. i \in 1 .. n /\ i \in 1 .. n + 1 /\ i \in 1 .. Len(s) - d /\ d + i \in 1 .. Len(s)
      BY <1>1, <1>6, <1>9a, <2>2
    <3>2. j[i] = u[i]  BY <1>8, <1>9, <3>1
    <3>3. u[i] = s[d + i] /\ s[d + i] = t[d + i]  BY <1>2, <1>7, <3>1
    <3> QED  BY <2>1, <3>2, <3>3
  <2>3. CASE i = n + 1
    <3>1. i \in 1 .. n + 1 /\ d + i = Len(s) + 1  BY <1>1, <1>9a, <2>3
    <3>2. j[i] = b  BY <1>8, <1>9, <2>3, <3>1
    <3> QED  BY <2>1, <3>1, <3>2
  <2>4. CASE i > n + 1
    <3>1. PICK k : k = i - (n + 1)  OBVIOUS
    <3>2. k \in 1 .. Len(v) /\ i = n + 1 + k /\ Len(s) + 1 + k = d + i
      BY <1>1, <1>4, <1>6, <1>9a, <2>4, <3>1
    <3>3. j[i] = v[k]  BY <1>9, <3>2
    <3>4. v[k] = t[Len(s) + 1 + k]  BY <1>4, <3>2
    <3> QED  BY <2>1, <3>2, <3>3, <3>4
  <2>5. i <= n \/ i = n + 1 \/ i > n + 1  BY <1>1, <1>6, <1>7a
  <2> QED  BY <2>2, <2>3, <2>4, <2>5
<1>12. j = w  BY <1>6, <1>9, <1>10, <1>11, SameBytes
<1> QED  BY <1>12 DEF j, u, v, w

(* One child is left. *)
LEMMA SurvivorFacts ==
  ASSUME Invariant, op.pc = "apply", op.point.kind = "Delete", op.parent # None, OneChildLeft,
         NEW leaf, leaf = op.node, NEW par, par = op.parent.node,
         NEW byte, byte = op.parent.byte, NEW edge, edge = op.grandparent,
         NEW other, other = MinByte(Bereft), NEW kept, kept = Bereft.children[other]
  PROVE  /\ ChildBytes(par) = {byte, other} /\ byte # other /\ other \in Byte
         /\ kept = Child(par, other) /\ kept \in DOMAIN heap /\ kept \in PointerType
         /\ Below(kept, par) /\ ByteTowards(kept, par) = other
         /\ kept # par /\ kept # leaf /\ root # kept
         /\ edge # None => edge.node # kept
<1>1. /\ TreeInvariant /\ Shape /\ RootIsAboveAll /\ ~TearingDown /\ root # None
      /\ par \in Inners(heap) /\ par \in DOMAIN heap /\ byte \in ChildBytes(par)
      /\ Child(par, byte) = leaf /\ leaf \in DOMAIN heap
      /\ edge # None => edge.node \in Inners(heap) /\ Below(par, edge.node)
      /\ root \in DOMAIN heap
  BY ParentFacts
<1>2. ChildBytes(par) \in SUBSET Byte /\ ChildBytes(par) \in SUBSET Nat /\ IsFiniteSet(ChildBytes(par))
  BY <1>1, InnerFacts
<1>3. PICK t : t = Bereft  OBVIOUS
<1>4. /\ DOMAIN t.children = ChildBytes(par) \ {byte}
      /\ \A b \in ChildBytes(par) \ {byte} : t.children[b] = Child(par, b)
  BY <1>3, BereftFacts
<1>5. Cardinality(DOMAIN t.children) = 1  BY <1>3 DEF OneChildLeft, NumChildren
<1>6. PICK x : DOMAIN t.children = {x}
  <2>1. IsFiniteSet(DOMAIN t.children)  BY <1>2, <1>4, FS_Subset
  <2> QED  BY <1>5, <2>1, FS_Singleton
<1>7. x \in Nat /\ x \in Byte /\ x # byte /\ x \in ChildBytes(par)  BY <1>2, <1>4, <1>6
<1>8. other = x
  <2>1. other = CHOOSE b \in {x} : \A c \in {x} : b <= c  BY <1>3, <1>6 DEF MinByte
  <2>2. x <= x  BY <1>7
  <2> QED  BY <2>1, <2>2
<1>9. ChildBytes(par) = {byte, other}  BY <1>1, <1>4, <1>6, <1>8
<1>10. kept = Child(par, other)  BY <1>3, <1>4, <1>6, <1>8
<1>11. kept \in DOMAIN heap /\ Below(kept, par) /\ ByteTowards(kept, par) = other
  BY <1>1, <1>7, <1>8, <1>10, ChildFacts
<1>12. kept # leaf
  <2>1. ByteTowards(leaf, par) = byte  BY <1>1, ChildFacts
  <2> QED  BY <2>1, <1>7, <1>8, <1>11
<1>13. /\ Len(kept.at) \in Nat /\ Len(par.at) \in Nat /\ Len(root.at) \in Nat
       /\ kept \in PointerType /\ root.at \in ByteString /\ par.at \in ByteString
  BY <1>1, <1>11, NodeFacts
<1>14. Len(par.at) < Len(kept.at) /\ Len(root.at) <= Len(par.at)
  <2>1. IsPrefix(root.at, par.at)  BY <1>1 DEF RootIsAboveAll
  <2> QED  BY <2>1, <1>11, <1>13, PrefixPointwise DEF Below
<1>15. edge # None => edge.node # kept
  <2>1. SUFFICES ASSUME edge # None, edge.node = kept PROVE FALSE  OBVIOUS
  <2>2. Len(kept.at) < Len(par.at)  BY <1>1, <2>1 DEF Below
  <2> QED  BY <2>2, <1>13, <1>14
<1>16. kept # par /\ root # kept  BY <1>13, <1>14
<1> QED  BY <1>7, <1>8, <1>9, <1>10, <1>11, <1>12, <1>13, <1>15, <1>16

LEMMA DeleteAndMergeKeeps ==
  ASSUME Invariant, DeleteAndMerge
  PROVE  Invariant'
<1>1. PICK leaf \in {op.node}, par \in {op.parent.node}, byte \in {op.parent.byte},
           edge \in {op.grandparent}, other \in {MinByte(Bereft)},
           kept \in {Bereft.children[MinByte(Bereft)]},
           header \in {MergedHeader(Bereft.header, MinByte(Bereft),
                                    heap[Bereft.children[MinByte(Bereft)]].header)} : TRUE
  OBVIOUS
<1> DEFINE h == IF IsLeaf(kept) THEN heap ELSE [heap EXCEPT ![kept].header = header]
           S == DOMAIN heap \ {par, leaf, kept}
           T == {kept}
<1>2. op.pc = "apply" /\ op.point.kind = "Delete" /\ op.parent # None /\ OneChildLeft
  BY DEF DeleteAndMerge, Applying
<1>3. ReplaceParent(h, kept)  BY <1>1 DEF DeleteAndMerge
<1>4. /\ TreeInvariant /\ Shape /\ RootIsAboveAll /\ ~TearingDown /\ root # None
      /\ leaf \in Leaves(heap) /\ leaf \in DOMAIN heap /\ IsLeaf(leaf) /\ ~IsInner(leaf)
      /\ par \in Inners(heap) /\ par \in DOMAIN heap /\ IsInner(par) /\ ~IsLeaf(par)
      /\ byte \in ChildBytes(par) /\ Child(par, byte) = leaf /\ leaf # par
      /\ edge \in EdgeType \cup {None} /\ EdgeTo(edge, par)
      /\ edge # None => /\ edge.node \in Inners(heap) /\ edge.node \in DOMAIN heap
                        /\ edge.node # par /\ edge.node # leaf /\ Below(par, edge.node)
      /\ root \in DOMAIN heap /\ root # leaf
  BY <1>1, <1>2, ParentFacts
<1>5. /\ ChildBytes(par) = {byte, other} /\ byte # other /\ other \in Byte
      /\ kept = Child(par, other) /\ kept \in DOMAIN heap /\ kept \in PointerType
      /\ Below(kept, par) /\ ByteTowards(kept, par) = other
      /\ kept # par /\ kept # leaf /\ root # kept
      /\ edge # None => edge.node # kept
  BY <1>1, <1>2, SurvivorFacts
<1>6. IsInner(kept) => kept \in Inners(heap) /\ ~IsLeaf(kept)
  BY <1>4, <1>5, NodeFacts
<1>7. /\ DOMAIN h = DOMAIN heap /\ \A n \in DOMAIN heap \ {kept} : h[n] = heap[n]
      /\ IsLeaf(kept) => h[kept] = heap[kept]
      /\ IsInner(kept) => h[kept] = Inner(header, heap[kept].children)
  <2>1. IsInner(kept) => heap[kept] = Inner(heap[kept].header, heap[kept].children)
    BY <1>4, <1>6, InnerFacts
  <2>2. [Inner(heap[kept].header, heap[kept].children) EXCEPT !.header = header]
          = Inner(header, heap[kept].children)
    BY DEF Inner
  <2>3. IsInner(kept) => h = [heap EXCEPT ![kept].header = header]  BY <1>6
  <2>4. IsLeaf(kept) => h = heap  OBVIOUS
  <2>5. IsLeaf(kept) \/ IsInner(kept)  BY <1>5, LeafOrInner
  <2> HIDE DEF h
  <2>6. CASE IsInner(kept)
    <3>1. h = [heap EXCEPT ![kept] = [heap[kept] EXCEPT !.header = header]]  BY <2>3, <2>6
    <3> QED  BY <3>1, <2>1, <2>2, <2>6, <1>5, <1>6
  <2>7. CASE ~IsInner(kept)  BY <2>4, <2>5, <2>7
  <2> QED  BY <2>6, <2>7
<1>8. /\ DOMAIN heap' = DOMAIN h \ {par, leaf}
      /\ \A n \in DOMAIN h \ {par, leaf} :
           heap'[n] = IF edge # None /\ n = edge.node
                      THEN WriteChild(h[n], edge.byte, kept) ELSE h[n]
      /\ root' = IF edge = None THEN kept ELSE root
      /\ num_entries' = num_entries - 1
      /\ op' \in OpType /\ op'.pc = "done"
  <2>1. edge # None => edge.node \in DOMAIN h \ {par, leaf}  BY <1>4, <1>7
  <2>2. PICK hh : hh = h  OBVIOUS
  <2> HIDE DEF h
  <2>3. /\ leaf = op.node /\ par = op.parent.node /\ edge = op.grandparent
        /\ ReplaceParent(hh, kept) /\ (edge # None => edge.node \in DOMAIN hh \ {par, leaf})
    BY <1>1, <1>3, <2>1, <2>2
  <2>4. /\ DOMAIN heap' = DOMAIN hh \ {par, leaf}
        /\ \A n \in DOMAIN hh \ {par, leaf} :
             heap'[n] = IF edge # None /\ n = edge.node
                        THEN WriteChild(hh[n], edge.byte, kept) ELSE hh[n]
        /\ root' = IF edge = None THEN kept ELSE root
        /\ num_entries' = num_entries - 1
        /\ op' \in OpType /\ op'.pc = "done"
    <3>1. op.pc = "apply" /\ op.point.kind = "Delete"  BY <1>2
    <3>2. leaf = op.node /\ par = op.parent.node /\ edge = op.grandparent  BY <2>3
    <3>3. ReplaceParent(hh, kept)  BY <2>3
    <3>4. edge # None => edge.node \in DOMAIN hh \ {par, leaf}  BY <2>3
    <3> QED  BY <3>1, <3>2, <3>3, <3>4, ReplaceParentFacts
  <2> QED  BY <2>2, <2>4
<1> HIDE DEF h
<1>9. /\ DOMAIN heap' = S \cup T /\ \A n \in S : Rewritten(n, edge, kept)
      /\ heap'[kept] = h[kept] /\ DOMAIN heap' = DOMAIN heap \ {par, leaf}
  BY <1>4, <1>5, <1>7, <1>8 DEF Rewritten
<1>10. S = DOMAIN heap \ {par, leaf, kept} /\ T = {kept}  OBVIOUS
<1> HIDE DEF S, T
<1>11. \A n \in Inners(heap) \cap S : \A b \in ChildBytes(n) : Child(n, b) # kept
  <2>1. ASSUME NEW n \in Inners(heap) \cap S, NEW b \in ChildBytes(n), Child(n, b) = kept
        PROVE  FALSE
    <3>1. n = par  BY <1>4, <1>5, <2>1, OneParent
    <3> QED  BY <1>10, <2>1, <3>1
  <2> QED  BY <2>1
<1>12. Update(edge, par, kept, S, T)
  <2>1. IsFiniteSet(T) /\ S \subseteq DOMAIN heap  BY <1>10, FS_Singleton
  <2>2. root \in S \cup {par}  BY <1>4, <1>5, <1>10
  <2>3. ASSUME NEW n \in Inners(heap), n \in S, NEW b \in ChildBytes(n), IsInner(Child(n, b))
        PROVE  Child(n, b) \in S \cup {par}
    <3>1. Child(n, b) \in DOMAIN heap  BY <1>4, ChildFacts
    <3>2. Child(n, b) # leaf /\ Child(n, b) # kept  BY <1>4, <1>11, <2>3
    <3> QED  BY <3>1, <3>2, <1>10
  <2> QED  BY <1>4, <1>5, <1>8, <1>9, <2>1, <2>2, <2>3 DEF Update
<1>13. /\ Redirects(Inners(heap) \cap S, par, kept) /\ RootRedirects(par, kept)
       /\ \A n \in Inners(heap) \cap S : heap'[n].header = heap[n].header
  <2>1. TreeInvariant /\ ~TearingDown /\ root # None  BY <1>4
  <2>2. Redirects(Inners(heap) \cap S, par, kept)  BY <2>1, <1>12, UpdateRedirects
  <2>3. RootRedirects(par, kept)  BY <2>1, <1>12, UpdateRedirects
  <2>4. \A n \in Inners(heap) \cap S : heap'[n].header = heap[n].header
    BY <2>1, <1>12, UpdateKeepsHeaders
  <2> QED  BY <2>2, <2>3, <2>4
(* The child that is left, when it is an inner node. *)
<1>14. IsInner(kept) =>
         /\ heap'[kept].header = header /\ heap'[kept].children = heap[kept].children
         /\ heap'[kept] = Inner(header, heap[kept].children)
         /\ ChildBytes(kept)' = ChildBytes(kept)
         /\ \A b \in ChildBytes(kept) :
              /\ NewChild(kept, b) = Child(kept, b) /\ Child(kept, b) # par
              /\ IsInner(Child(kept, b)) => Child(kept, b) \in Inners(heap) \cap S
  <2>1. SUFFICES ASSUME IsInner(kept)
        PROVE  /\ heap'[kept].header = header /\ heap'[kept].children = heap[kept].children
               /\ heap'[kept] = Inner(header, heap[kept].children)
               /\ ChildBytes(kept)' = ChildBytes(kept)
               /\ \A b \in ChildBytes(kept) :
                    /\ NewChild(kept, b) = Child(kept, b) /\ Child(kept, b) # par
                    /\ IsInner(Child(kept, b)) => Child(kept, b) \in Inners(heap) \cap S
    OBVIOUS
  <2>2. heap'[kept] = Inner(header, heap[kept].children)  BY <1>7, <1>9, <2>1
  <2>3. heap'[kept].header = header /\ heap'[kept].children = heap[kept].children
    BY <2>2 DEF Inner
  <2>4. kept \in Inners(heap)  BY <1>6, <2>1
  <2>5. ASSUME NEW b \in ChildBytes(kept)
        PROVE  /\ Child(kept, b) # par
               /\ IsInner(Child(kept, b)) => Child(kept, b) \in Inners(heap) \cap S
    <3>1. Child(kept, b) \in DOMAIN heap /\ Below(Child(kept, b), kept)
      BY <1>4, <2>4, ChildFacts
    <3>2. Child(kept, b) # par /\ Child(kept, b) # kept
      <4>1. /\ Len(kept.at) \in Nat /\ Len(par.at) \in Nat /\ Len(Child(kept, b).at) \in Nat
        BY <1>4, <1>5, <3>1, NodeFacts
      <4> QED  BY <4>1, <3>1, <1>5 DEF Below
    <3> QED  BY <3>1, <3>2, <1>4, <1>10 DEF Inners
  <2>6. ChildBytes(kept)' = ChildBytes(kept)
        /\ \A b \in ChildBytes(kept) : NewChild(kept, b) = Child(kept, b)
    BY <2>3 DEF ChildBytes, NewChild, Child
  <2> QED  BY <2>2, <2>3, <2>5, <2>6
<1>15. Merges(par, byte, other)
  <2>1. Redirects(Inners(heap) \ {par}, par, kept)
    <3>1. \A n \in Inners(heap) \ {par} : n \in Inners(heap) \cap S \/ (n = kept /\ IsInner(kept))
      BY <1>4, <1>10 DEF Inners
    <3> QED  BY <3>1, <1>13, <1>14 DEF Redirects
  <2> QED  BY <1>4, <1>5, <1>9, <1>13, <2>1 DEF Merges
<1>16. Shape' /\ RootIsAboveAll'
  BY <1>4, <1>15, MergeKeepsShape, NoneAssumption DEF PointerType
<1>17. IsInner(kept) =>
         header \in HeaderType /\ Represents(header, DropFirst(kept.at, DepthAt(edge)))
  <2>1. SUFFICES ASSUME IsInner(kept)
                 PROVE  header \in HeaderType
                        /\ Represents(header, DropFirst(kept.at, DepthAt(edge)))
    OBVIOUS
  <2>2. /\ heap[par].header \in HeaderType /\ heap[kept].header \in HeaderType
        /\ kept.at \in ByteString /\ par.at \in ByteString
        /\ Len(kept.at) \in Nat /\ Len(par.at) \in Nat
    BY <1>4, <1>5, <1>6, <2>1, InnerFacts, NodeFacts
  <2>3. Represents(heap[par].header, DropFirst(par.at, DepthAt(edge)))
    BY <1>4, HeaderAtEdge
  <2>4. Represents(heap[kept].header, DropFirst(kept.at, Len(par.at) + 1))
    BY <1>4, <1>5, <2>1 DEF TreeInvariant, PrefixesAreFaithful
  <2>5. DepthAt(edge) \in Nat /\ DepthAt(edge) <= Len(par.at)
    <3>1. CASE edge = None  BY <2>2, <3>1 DEF DepthAt
    <3>2. CASE edge # None
      <4>1. Len(edge.node.at) \in Nat /\ Len(edge.node.at) < Len(par.at)
        BY <1>4, <3>2, NodeFacts DEF Below
      <4> QED  BY <4>1, <2>2, <3>2 DEF DepthAt
    <3> QED  BY <3>1, <3>2
  <2>6. PICK d : d = DepthAt(edge)  OBVIOUS
  <2>7. PICK p, c : p = DropFirst(par.at, d) /\ c = DropFirst(kept.at, Len(par.at) + 1)  OBVIOUS
  <2>8. /\ IsPrefix(par.at, kept.at) /\ Len(par.at) < Len(kept.at)
        /\ kept.at[Len(par.at) + 1] = other
    BY <1>5 DEF Below, ByteTowards
  <2>9. p \in ByteString /\ c \in ByteString
    <3>1. Len(par.at) + 1 \in Nat /\ Len(par.at) + 1 <= Len(kept.at)  BY <2>2, <2>8
    <3> QED  BY <2>2, <2>5, <2>6, <2>7, <3>1, DropFirstFacts
  <2>10. (p \o <<other>>) \o c = DropFirst(kept.at, d)
    BY <1>5, <2>2, <2>5, <2>6, <2>7, <2>8, JoinPath
  <2>11. header = MergedHeader(heap[par].header, other, heap[kept].header)
    <3>1. PICK t : t = Bereft  OBVIOUS
    <3>2. t.header = heap[par].header
      <4>1. par = op.parent.node  BY <1>1
      <4> QED  BY <1>2, <3>1, <4>1, BereftFacts
    <3> QED  BY <1>1, <3>1, <3>2
  <2>12. PICK hp, hk : hp = heap[par].header /\ hk = heap[kept].header  OBVIOUS
  <2>13. /\ hp \in HeaderType /\ Represents(hp, p) /\ hk \in HeaderType /\ Represents(hk, c)
    BY <2>2, <2>3, <2>4, <2>6, <2>7, <2>12
  <2>14. MergedHeader(hp, other, hk) \in HeaderType
         /\ Represents(MergedHeader(hp, other, hk), (p \o <<other>>) \o c)
    BY <1>5, <2>9, <2>13, MergedHeaderRepresents
  <2> QED  BY <2>6, <2>10, <2>11, <2>12, <2>14
<1>18. Built(kept)
  <2>1. CASE IsLeaf(kept)
    <3>1. heap'[kept] = heap[kept] /\ kept \in Leaves(heap) /\ ~IsInner(kept)
      BY <1>4, <1>5, <1>7, <1>9, <2>1, NodeFacts
    <3> QED  BY <3>1, <1>4 DEF Built, LeafOK, TreeInvariant, TypeOK
  <2>2. CASE IsInner(kept)
    <3>1. /\ heap[kept].children \in [ChildBytes(kept) -> PointerType]
          /\ ChildBytes(kept) \subseteq Byte
      BY <1>4, <1>6, <2>2, InnerFacts
    <3>2. InnerOK(kept)'  BY <3>1, <1>14, <1>17, <2>2 DEF InnerOK
    <3>3. FitsType(kept)'
      <4>1. NumChildren(heap'[kept]) = NumChildren(heap[kept])
        BY <1>14, <2>2 DEF NumChildren
      <4> QED  BY <4>1, <1>4, <1>6, <2>2 DEF FitsType, TreeInvariant, NodesFitTheirType
    <3>4. ASSUME NEW b \in ChildBytes(kept)', IsInner(NewChild(kept, b))
          PROVE  Represents(heap'[NewChild(kept, b)].header,
                            DropFirst(NewChild(kept, b).at, Len(kept.at) + 1))
      <4>1. /\ b \in ChildBytes(kept) /\ NewChild(kept, b) = Child(kept, b)
            /\ Child(kept, b) \in Inners(heap) \cap S
        BY <1>14, <2>2, <3>4
      <4>2. heap'[Child(kept, b)].header = heap[Child(kept, b)].header  BY <1>13, <4>1
      <4>3. Represents(heap[Child(kept, b)].header, DropFirst(Child(kept, b).at, Len(kept.at) + 1))
        BY <1>4, <1>6, <2>2, <3>4, <4>1 DEF TreeInvariant, PrefixesAreFaithful
      <4> QED  BY <4>1, <4>2, <4>3
    <3> QED  BY <3>2, <3>3, <3>4, <1>6, <2>2 DEF Built
  <2> QED  BY <1>5, <2>1, <2>2, LeafOrInner
<1>19. num_entries' \in Nat /\ num_entries' = Cardinality(Leaves(heap)')
  <2>1. Leaves(heap)' = Leaves(heap) \ {leaf}  BY <1>4, <1>9 DEF Leaves
  <2> QED  BY <1>4, <1>8, <2>1, CountDown
<1>20. \A n \in T : Built(n)  BY <1>10, <1>18
<1>21. IsInner(kept) => Represents(heap'[kept].header, DropFirst(kept.at, DepthAt(edge)))
  BY <1>14, <1>17
<1>22. op' \in OpType /\ op'.pc = "done" /\ edge \in EdgeType \cup {None}  BY <1>4, <1>8
<1> QED
  BY <1>4, <1>12, <1>16, <1>19, <1>20, <1>21, <1>22, UpdateKeepsInvariant

-----------------------------------------------------------------------------
(* deallocate_tree: the stack holds the roots of disjoint subtrees, so     *)
(* that no node that is left refers to one that is freed.                  *)
LEMMA ClearPopKeeps ==
  ASSUME Invariant, ClearPop
  PROVE  Invariant'
<1>1. PICK p \in op.stack : /\ heap' = Deallocate(heap, p)
                            /\ op' = [op EXCEPT !.stack = (@ \ {p}) \cup ChildrenOf(p)]
  BY DEF ClearPop
<1>2. op.pc = "dealloc" /\ TearingDown /\ UNCHANGED <<root, num_entries>>
  BY DEF ClearPop, TearingDown
<1>3. /\ op.stack \subseteq DOMAIN heap
      /\ \A x \in DOMAIN heap : \E q \in op.stack : IsPrefix(q.at, x.at)
      /\ \A q, r \in op.stack : PrefixRelated(q.at, r.at) => q = r
  BY <1>2 DEF Invariant, CallInvariant, TeardownIsExact
<1>4. TreeInvariant /\ Shape /\ p \in DOMAIN heap
  BY <1>1, <1>3, InvariantShape DEF Invariant
<1>5. \A x \in DOMAIN heap : x \in PointerType /\ x.at \in ByteString /\ Len(x.at) \in Nat
  BY <1>4, NodeFacts
<1>6. /\ DOMAIN heap' = DOMAIN heap \ {p}
      /\ \A x \in DOMAIN heap' : heap'[x] = heap[x]
      /\ Leaves(heap)' = Leaves(heap) \ {p} /\ Inners(heap)' = Inners(heap) \ {p}
  BY <1>1 DEF Deallocate, Without, Leaves, Inners
<1>7. \A n \in Inners(heap)' : heap'[n] = heap[n] /\ n \in Inners(heap)
  BY <1>6 DEF Inners
<1>8. \A n \in Inners(heap)' : ChildBytes(n)' = ChildBytes(n)  BY <1>7 DEF ChildBytes
<1>9. \A n \in Inners(heap)' : \A b \in ChildBytes(n) : NewChild(n, b) = Child(n, b)
  BY <1>7 DEF NewChild, Child
(* Nothing that is left refers to p. *)
<1>10. ASSUME NEW n \in Inners(heap), NEW b \in ChildBytes(n)
       PROVE  Child(n, b) \in DOMAIN heap \ {p}
  <2>1. Child(n, b) \in DOMAIN heap /\ Below(Child(n, b), n) /\ n \in DOMAIN heap
    BY <1>4, ChildFacts DEF Inners
  <2>2. SUFFICES ASSUME Child(n, b) = p PROVE FALSE  BY <2>1
  <2>3. IsPrefix(n.at, p.at) /\ Len(n.at) < Len(p.at)  BY <2>1, <2>2 DEF Below
  <2>4. PICK q \in op.stack : IsPrefix(q.at, n.at)  BY <1>3, <2>1
  <2>5. IsPrefix(q.at, p.at)  BY <1>3, <1>4, <1>5, <2>1, <2>3, <2>4, PrefixTransitive
  <2>6. q = p  BY <1>1, <1>3, <2>5 DEF PrefixRelated
  <2> QED  BY <1>4, <1>5, <2>1, <2>3, <2>4, <2>6, PrefixPointwise
<1>11. ChildrenOf(p) \subseteq DOMAIN heap \ {p}
       /\ \A r \in ChildrenOf(p) : /\ p \in Inners(heap) /\ Below(r, p)
                                   /\ r = Child(p, ByteTowards(r, p))
  <2>1. CASE IsLeaf(p)  BY <2>1 DEF ChildrenOf
  <2>2. CASE ~IsLeaf(p)
    <3>1. p \in Inners(heap)  BY <1>4, <2>2, NodeFacts
    <3>2. ChildrenOf(p) = {Child(p, b) : b \in ChildBytes(p)}
      BY <2>2 DEF ChildrenOf, Child, ChildBytes
    <3>3. \A b \in ChildBytes(p) :
            /\ Child(p, b) \in DOMAIN heap \ {p} /\ Below(Child(p, b), p)
            /\ ByteTowards(Child(p, b), p) = b
      BY <1>4, <1>10, <3>1, ChildFacts
    <3> QED  BY <3>1, <3>2, <3>3
  <2> QED  BY <2>1, <2>2
<1>12. /\ op' \in OpType /\ op'.pc = "dealloc" /\ op'.stack = (op.stack \ {p}) \cup ChildrenOf(p)
  <2>1. op \in OpType /\ DOMAIN heap \subseteq PointerType
    BY <1>4 DEF TreeInvariant, TypeOK
  <2>2. (op.stack \ {p}) \cup ChildrenOf(p) \in SUBSET PointerType  BY <1>3, <1>11, <2>1
  <2>3. op'.pc = "dealloc" /\ op'.stack = (op.stack \ {p}) \cup ChildrenOf(p)
    BY <1>1, <1>2, <2>1 DEF OpType
  <2>4. op' \in OpType  BY <1>1, <2>1, <2>2 DEF OpType
  <2> QED  BY <2>3, <2>4
<1>13. TypeOK'
  <2>1. \A x \in Leaves(heap)' : LeafOK(x)'
    BY <1>4, <1>6 DEF TreeInvariant, TypeOK, LeafOK, Leaves
  <2>2. \A n \in Inners(heap)' : InnerOK(n)'
    BY <1>4, <1>7 DEF TreeInvariant, TypeOK, InnerOK
  <2> QED  BY <1>2, <1>4, <1>6, <1>12, <2>1, <2>2 DEF TreeInvariant, TypeOK
<1>14. HeapIsFinite' /\ AddressesAreFresh' /\ LeavesAreLowest'
  BY <1>4, <1>6, FS_Subset
  DEF TreeInvariant, HeapIsFinite, AddressesAreFresh, LeavesAreLowest
<1>15. ChildrenAreLive'
  <2>1. \A n \in Inners(heap)' : \A b \in ChildBytes(n) :
          /\ Child(n, b) \in DOMAIN heap \ {p}
          /\ IsPrefix(Append(n.at, b), Child(n, b).at)
    BY <1>4, <1>7, <1>10 DEF Shape, ChildrenAreLive
  <2> QED  BY <1>6, <1>8, <1>9, <2>1 DEF ChildrenAreLive, NewChild, Child
<1>16. RoutesToEveryNode'
  <2>1. ASSUME NEW n \in Inners(heap)', NEW x \in DOMAIN heap', Below(x, n)
        PROVE  ByteTowards(x, n) \in ChildBytes(n)'
               /\ IsPrefix(NewChild(n, ByteTowards(x, n)).at, x.at)
    <3>1. n \in Inners(heap) /\ x \in DOMAIN heap  BY <1>6, <1>7
    <3>2. ByteTowards(x, n) \in ChildBytes(n) /\ IsPrefix(Child(n, ByteTowards(x, n)).at, x.at)
      BY <1>4, <2>1, <3>1 DEF Shape, RoutesToEveryNode
    <3> QED  BY <1>8, <1>9, <3>2
  <2> QED  BY <2>1 DEF RoutesToEveryNode, Below, ByteTowards, NewChild, Child
<1>17. NodesFitTheirType'
  BY <1>4, <1>7 DEF TreeInvariant, NodesFitTheirType
<1>18. PrefixesAreFaithful'
  <2>1. ASSUME NEW n \in Inners(heap)', NEW b \in ChildBytes(n)', IsInner(NewChild(n, b))
        PROVE  Represents(heap'[NewChild(n, b)].header,
                          DropFirst(NewChild(n, b).at, Len(n.at) + 1))
    <3>1. n \in Inners(heap) /\ b \in ChildBytes(n) /\ NewChild(n, b) = Child(n, b)
      BY <1>7, <1>8, <1>9
    <3>2. heap'[Child(n, b)] = heap[Child(n, b)]  BY <1>6, <1>10, <3>1
    <3> QED  BY <1>4, <2>1, <3>1, <3>2 DEF TreeInvariant, PrefixesAreFaithful
  <2>2. TearingDown'  BY <1>12 DEF TearingDown
  <2> QED  BY <2>1, <2>2 DEF PrefixesAreFaithful, NewChild, Child, ChildBytes
<1>19. RootIsAboveAll' /\ CountIsExact'
  BY <1>12 DEF RootIsAboveAll, CountIsExact, TearingDown
<1>20. TeardownIsExact'
  <2>1. op'.stack \subseteq DOMAIN heap'  BY <1>3, <1>6, <1>11, <1>12
  <2>2. ASSUME NEW x \in DOMAIN heap'
        PROVE  \E q \in op'.stack : IsPrefix(q.at, x.at)
    <3>1. x \in DOMAIN heap /\ x # p  BY <1>6
    <3>2. PICK q \in op.stack : IsPrefix(q.at, x.at)  BY <1>3, <3>1
    <3>3. CASE q # p  BY <1>12, <3>2, <3>3
    <3>4. CASE q = p
      <4>1. p \in Inners(heap)
        BY <1>4, <3>1, <3>2, <3>4, NodeFacts DEF TreeInvariant, LeavesAreLowest
      <4>2. Below(x, p)
        <5>1. ~(Len(x.at) <= Len(p.at))
          BY <1>4, <1>5, <3>1, <3>2, <3>4, PrefixSameLength DEF TreeInvariant, AddressesAreFresh
        <5> QED  BY <5>1, <1>4, <1>5, <3>1, <3>2, <3>4 DEF Below
      <4>3. /\ ByteTowards(x, p) \in ChildBytes(p)
            /\ IsPrefix(Child(p, ByteTowards(x, p)).at, x.at)
        BY <1>4, <3>1, <4>1, <4>2 DEF Shape, RoutesToEveryNode
      <4>4. Child(p, ByteTowards(x, p)) \in ChildrenOf(p)
        BY <1>4, <4>1, <4>3, InnerFacts, NodeFacts DEF ChildrenOf, Child, ChildBytes
      <4> QED  BY <1>12, <4>3, <4>4
    <3> QED  BY <3>3, <3>4
  (* A child of p lies apart from the rest of the stack. *)
  <2>3. ASSUME NEW q \in op.stack \ {p}, NEW r \in ChildrenOf(p)
        PROVE  ~IsPrefix(q.at, r.at) /\ ~IsPrefix(r.at, q.at)
    <3>1. /\ q \in DOMAIN heap /\ r \in DOMAIN heap
          /\ IsPrefix(p.at, r.at) /\ ~PrefixRelated(q.at, p.at)
      BY <1>1, <1>3, <1>11 DEF Below
    <3>2. /\ q.at \in ByteString /\ r.at \in ByteString /\ p.at \in ByteString
          /\ Len(q.at) \in Nat /\ Len(p.at) \in Nat
      BY <1>4, <1>5, <3>1
    <3>3. ~IsPrefix(r.at, q.at)  BY <3>1, <3>2, PrefixTransitive DEF PrefixRelated
    <3>4. ~IsPrefix(q.at, r.at)
      <4>1. Len(q.at) <= Len(p.at) \/ Len(p.at) <= Len(q.at)  BY <3>2
      <4> QED  BY <3>1, <3>2, <4>1, PrefixesCompare DEF PrefixRelated
    <3> QED  BY <3>3, <3>4
  <2>4. ASSUME NEW q \in ChildrenOf(p), NEW r \in ChildrenOf(p), IsPrefix(q.at, r.at)
        PROVE  q = r
    <3>1. /\ Below(q, p) /\ q = Child(p, ByteTowards(q, p)) /\ r = Child(p, ByteTowards(r, p))
          /\ q \in PointerType /\ r \in PointerType /\ p \in PointerType
      BY <1>4, <1>5, <1>11
    <3>2. ByteTowards(r, p) = ByteTowards(q, p)  BY <2>4, <3>1, SameDirection
    <3> QED  BY <3>1, <3>2
  <2>5. ASSUME NEW q \in op'.stack, NEW r \in op'.stack, PrefixRelated(q.at, r.at)
        PROVE  q = r
    <3>1. CASE q \in op.stack /\ r \in op.stack  BY <1>3, <2>5, <3>1
    <3>2. CASE q \in ChildrenOf(p) /\ r \in ChildrenOf(p)
      BY <2>4, <2>5, <3>2 DEF PrefixRelated
    <3>3. CASE q \in op.stack \ {p} /\ r \in ChildrenOf(p)
      BY <2>3, <2>5, <3>3 DEF PrefixRelated
    <3>4. CASE r \in op.stack \ {p} /\ q \in ChildrenOf(p)
      BY <2>3, <2>5, <3>4 DEF PrefixRelated
    <3> QED  BY <1>12, <3>1, <3>2, <3>3, <3>4
  <2> QED  BY <2>1, <2>2, <2>5 DEF TeardownIsExact
<1>21. SearchKeepsItsPath' /\ SearchIsOnPath' /\ NothingIsPassedBy' /\ CursorIsBelow' /\ PointFitsNode'
  BY <1>12
  DEF SearchKeepsItsPath, SearchIsOnPath, NothingIsPassedBy, CursorIsBelow, PointFitsNode, Walking
<1> QED
  BY <1>13, <1>14, <1>15, <1>16, <1>17, <1>18, <1>19, <1>20, <1>21
  DEF Invariant, TreeInvariant, CallInvariant

LEMMA ClearEndKeeps ==
  ASSUME Invariant, ClearEnd
  PROVE  Invariant'
<1>1. /\ op.pc = "dealloc" /\ op.stack = {} /\ root' = None /\ num_entries' = 0
      /\ heap' = heap /\ op' = Done(op.call, op.key, op.value, None)
  BY DEF ClearEnd, Finish
<1>2. DOMAIN heap = {}
  BY <1>1 DEF Invariant, CallInvariant, TeardownIsExact, TearingDown
<1>3. Leaves(heap)' = {} /\ Inners(heap)' = {} /\ DOMAIN heap' = {}
  BY <1>1, <1>2 DEF Leaves, Inners
<1>4. op' \in OpType /\ op'.pc = "done"
  <2>1. op \in OpType /\ None \in OutType  BY DEF Invariant, TreeInvariant, TypeOK, OutType
  <2> QED  BY <1>1, <2>1 DEF Done, IdleOp, OpType
<1>5. TypeOK'  BY <1>1, <1>3, <1>4 DEF TypeOK
<1>6. HeapIsFinite' /\ CountIsExact'
  BY <1>1, <1>3, FS_EmptySet DEF HeapIsFinite, CountIsExact
<1>7. /\ AddressesAreFresh' /\ LeavesAreLowest' /\ ChildrenAreLive' /\ RoutesToEveryNode'
      /\ NodesFitTheirType' /\ RootIsAboveAll' /\ PrefixesAreFaithful'
  BY <1>1, <1>3
  DEF AddressesAreFresh, LeavesAreLowest, ChildrenAreLive, RoutesToEveryNode,
      NodesFitTheirType, RootIsAboveAll, PrefixesAreFaithful
<1>8. CallInvariant'  BY <1>4, AnsweredKeepsCall
<1> QED  BY <1>5, <1>6, <1>7, <1>8 DEF Invariant, TreeInvariant
=============================================================================
