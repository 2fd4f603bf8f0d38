---------------------------- MODULE VisitorProofs ----------------------------
(***************************************************************************)
(* The visitors keep VisitorInvariant.  A walk divides the nodes of a tree *)
(* in those it has done with, those on the way to where it is and those    *)
(* that are ahead; each step moves at most one node from one part to the   *)
(* next, and what a visitor has in hand is about the nodes it has done     *)
(* with.  When none are left, it is about the whole tree: which trees the  *)
(* checker accepts and what the collector says of a tree follow.           *)
(***************************************************************************)
EXTENDS VisitorInvariant, TreeMapProofs, FiniteSetsExt

(***************************************************************************)
(* Sequences used as stacks.                                               *)
(***************************************************************************)

LEMMA PopFacts ==
  ASSUME NEW T, NEW s \in Seq(T), s # << >>
  PROVE  /\ Len(s) \in Nat /\ Len(s) >= 1 /\ DOMAIN s = 1 .. Len(s)
         /\ Last(s) = s[Len(s)] /\ Last(s) \in T
         /\ Front(s) \in Seq(T) /\ Len(Front(s)) = Len(s) - 1
         /\ DOMAIN Front(s) = 1 .. Len(s) - 1
         /\ \A i \in 1 .. Len(s) - 1 : Front(s)[i] = s[i]
         /\ Front(s) = << >> <=> Len(s) = 1
<1>1. Len(s) \in Nat /\ Len(s) >= 1 /\ DOMAIN s = 1 .. Len(s) /\ s[Len(s)] \in T
  <2>1. Len(s) \in Nat /\ DOMAIN s = 1 .. Len(s)  OBVIOUS
  <2>2. Len(s) # 0  OBVIOUS
  <2>3. Len(s) >= 1  BY <2>1, <2>2
  <2>4. s[Len(s)] \in T  BY <2>1, <2>3
  <2> QED  BY <2>1, <2>3, <2>4
<1>2. Last(s) = s[Len(s)]  BY DEF Last
<1>0. Len(s) - 1 \in Nat /\ Len(s) - 1 <= Len(s)  BY <1>1
<1>3. PICK n \in Nat : n = Len(s) - 1 /\ n <= Len(s)  BY <1>0
<1>4. Front(s) = SubSeq(s, 1, n)  BY <1>3 DEF Front
<1>5. SubSeq(s, 1, n) \in Seq(T) /\ Len(SubSeq(s, 1, n)) = n
      /\ \A i \in 1 .. n : SubSeq(s, 1, n)[i] = s[i]
  BY <1>3
<1>6. PICK f \in Seq(T) : f = Front(s) /\ Len(f) = n /\ \A i \in 1 .. n : f[i] = s[i]
  BY <1>4, <1>5
<1>7. f = << >> <=> n = 0  BY <1>6
<1>8. DOMAIN f = 1 .. n  BY <1>6
<1> QED  BY <1>1, <1>2, <1>3, <1>6, <1>7, <1>8

LEMMA PushFacts ==
  ASSUME NEW T, NEW s \in Seq(T), NEW e \in T
  PROVE  /\ Append(s, e) \in Seq(T) /\ Len(Append(s, e)) = Len(s) + 1 /\ Len(s) \in Nat
         /\ DOMAIN Append(s, e) = 1 .. Len(s) + 1
         /\ \A i \in 1 .. Len(s) : Append(s, e)[i] = s[i]
         /\ Append(s, e)[Len(s) + 1] = e
         /\ Append(s, e) # << >> /\ Last(Append(s, e)) = e
         /\ Front(Append(s, e)) = s
<1>1. /\ Append(s, e) \in Seq(T) /\ Len(Append(s, e)) = Len(s) + 1 /\ Len(s) \in Nat
      /\ DOMAIN Append(s, e) = 1 .. Len(s) + 1
      /\ \A i \in 1 .. Len(s) : Append(s, e)[i] = s[i]
      /\ Append(s, e)[Len(s) + 1] = e
      /\ Append(s, e) # << >>
  OBVIOUS
<1>2. Last(Append(s, e)) = e  BY <1>1 DEF Last
<1>3. Front(Append(s, e)) = s  BY <1>1 DEF Front
<1> QED  BY <1>1, <1>2, <1>3

LEMMA SwapFacts ==
  ASSUME NEW T, NEW s \in Seq(T), s # << >>, NEW e \in T
  PROVE  /\ Append(Front(s), e) \in Seq(T) /\ Len(Append(Front(s), e)) = Len(s)
         /\ DOMAIN Append(Front(s), e) = 1 .. Len(s)
         /\ \A i \in 1 .. Len(s) - 1 : Append(Front(s), e)[i] = s[i]
         /\ Append(Front(s), e)[Len(s)] = e
         /\ Append(Front(s), e) # << >> /\ Last(Append(Front(s), e)) = e
         /\ Front(Append(Front(s), e)) = Front(s)
<1>1. Front(s) \in Seq(T) /\ Len(Front(s)) = Len(s) - 1 /\ Len(s) \in Nat
      /\ \A i \in 1 .. Len(s) - 1 : Front(s)[i] = s[i]
  BY PopFacts
<1>2. PICK f \in Seq(T) : f = Front(s)  BY <1>1
<1> QED  BY <1>1, <1>2, PushFacts

(***************************************************************************)
(* The nodes below a node, by its children.                                *)
(***************************************************************************)

LEMMA OneByte ==
  ASSUME NEW s \in ByteString, NEW t \in ByteString, NEW b \in Byte, NEW c \in Byte,
         IsPrefix(Append(s, b), t), IsPrefix(Append(s, c), t)
  PROVE  b = c
BY PrefixAppend

LEMMA UnderChild ==
  ASSUME TreeInvariant, NEW n \in Inners(heap), NEW b \in ChildBytes(n), NEW x \in DOMAIN heap
  PROVE  IsPrefix(Append(n.at, b), x.at) <=> IsPrefix(Child(n, b).at, x.at)
<1>1. /\ n \in DOMAIN heap /\ b \in Byte /\ n.at \in ByteString /\ x.at \in ByteString
      /\ Child(n, b) \in DOMAIN heap /\ IsPrefix(Append(n.at, b), Child(n, b).at)
  BY InnerFacts, NodeFacts DEF TreeInvariant, ChildrenAreLive
<1>2. Append(n.at, b) \in ByteString /\ Child(n, b).at \in ByteString
  BY <1>1, NodeFacts DEF ByteString
<1>3. ASSUME IsPrefix(Child(n, b).at, x.at) PROVE IsPrefix(Append(n.at, b), x.at)
  BY <1>1, <1>2, <1>3, PrefixTransitive
<1>4. ASSUME IsPrefix(Append(n.at, b), x.at) PROVE IsPrefix(Child(n, b).at, x.at)
  <2>1. Below(x, n) /\ ByteTowards(x, n) = b
    BY <1>1, <1>4, PrefixAppend DEF Below, ByteTowards
  <2> QED  BY <2>1 DEF TreeInvariant, RoutesToEveryNode
<1> QED  BY <1>3, <1>4

LEMMA UnderInner ==
  ASSUME TreeInvariant, NEW n \in Inners(heap), NEW x \in DOMAIN heap
  PROVE  /\ IsPrefix(n.at, x.at) <=>
              x = n \/ \E b \in ChildBytes(n) : IsPrefix(Append(n.at, b), x.at)
         /\ \A b \in ChildBytes(n) : ~IsPrefix(Append(n.at, b), n.at)
<1>1. /\ n \in DOMAIN heap /\ n.at \in ByteString /\ x.at \in ByteString
      /\ \A b \in ChildBytes(n) : b \in Byte
  BY InnerFacts, NodeFacts
<1>2. Len(n.at) \in Nat /\ Len(x.at) \in Nat  BY <1>1 DEF ByteString
<1>3. \A b \in ChildBytes(n) : ~IsPrefix(Append(n.at, b), n.at)
  BY <1>1, <1>2, PrefixAppend
<1>4. ASSUME IsPrefix(n.at, x.at), x # n
      PROVE  \E b \in ChildBytes(n) : IsPrefix(Append(n.at, b), x.at)
  <2>1. x.at # n.at  BY <1>1, <1>4 DEF TreeInvariant, AddressesAreFresh
  <2>2. Len(n.at) < Len(x.at)  BY <1>1, <1>2, <1>4, <2>1, PrefixSameLength, PrefixPointwise
  <2>3. ByteTowards(x, n) \in ChildBytes(n)
    BY <1>4, <2>2 DEF Below, TreeInvariant, RoutesToEveryNode
  <2> QED  BY <1>1, <1>4, <2>2, <2>3, PrefixAppend DEF ByteTowards
<1>5. IsPrefix(n.at, n.at)  BY <1>1, PrefixReflexive
<1> QED  BY <1>1, <1>3, <1>4, <1>5, PrefixAppend

LEMMA UnderLeaf ==
  ASSUME TreeInvariant, NEW p \in Leaves(heap), NEW x \in DOMAIN heap
  PROVE  IsPrefix(p.at, x.at) <=> x = p
<1>1. p \in DOMAIN heap /\ p.at \in ByteString  BY LeafFacts, NodeFacts
<1> QED  BY <1>1, PrefixReflexive DEF TreeInvariant, LeavesAreLowest

(***************************************************************************)
(* One stop of a walk: what lies below it is ahead or has been passed.     *)
(***************************************************************************)

LEMMA StopType ==
  ASSUME TreeInvariant, NEW stop \in Stop, StopHolds(stop)
  PROVE  /\ stop.node \in Inners(heap) /\ stop.node \in DOMAIN heap
         /\ stop.node.at \in ByteString /\ Len(stop.node.at) \in Nat
         /\ stop.todo \in Seq(Byte) /\ stop = [node |-> stop.node, todo |-> stop.todo]
         /\ ChildBytes(stop.node) \subseteq Byte /\ ToVisit(stop) \subseteq Byte
<1>1. stop.node \in DOMAIN heap /\ IsInner(stop.node) /\ stop.todo \in Seq(Byte)
      /\ stop = [node |-> stop.node, todo |-> stop.todo]
  BY DEF Stop, StopHolds
<1>2. stop.node \in Inners(heap) /\ stop.node.at \in ByteString /\ Len(stop.node.at) \in Nat
  BY <1>1, NodeFacts
<1>3. ChildBytes(stop.node) \subseteq Byte  BY <1>2, InnerFacts
<1> QED  BY <1>1, <1>2, <1>3 DEF StopHolds

LEMMA PassedFacts ==
  ASSUME TreeInvariant, NEW stop \in Stop, StopHolds(stop), NEW x \in DOMAIN heap,
         Passes(stop, x)
  PROVE  /\ ~AheadOf(stop, x) /\ x # stop.node
         /\ IsPrefix(stop.node.at, x.at) /\ Len(stop.node.at) < Len(x.at)
<1>1. /\ stop.node.at \in ByteString /\ ChildBytes(stop.node) \subseteq Byte
      /\ ToVisit(stop) \subseteq Byte /\ x.at \in ByteString
  BY StopType, NodeFacts
<1>2. PICK b \in ChildBytes(stop.node) \ ToVisit(stop) : IsPrefix(Append(stop.node.at, b), x.at)
  BY DEF Passes
<1>3. IsPrefix(stop.node.at, x.at) /\ Len(stop.node.at) < Len(x.at)  BY <1>1, <1>2, PrefixAppend
<1>4. ~AheadOf(stop, x)
  <2> SUFFICES ASSUME NEW c \in ToVisit(stop), IsPrefix(Append(stop.node.at, c), x.at) PROVE FALSE
    BY DEF AheadOf
  <2>1. b = c  BY <1>1, <1>2, OneByte
  <2> QED  BY <2>1
<1>5. Len(stop.node.at) \in Nat /\ Len(x.at) \in Nat  BY <1>1 DEF ByteString
<1>6. x # stop.node  BY <1>3, <1>5
<1> QED  BY <1>3, <1>4, <1>6

LEMMA AheadFacts ==
  ASSUME TreeInvariant, NEW stop \in Stop, StopHolds(stop), NEW x \in DOMAIN heap,
         AheadOf(stop, x)
  PROVE  /\ x # stop.node
         /\ IsPrefix(stop.node.at, x.at) /\ Len(stop.node.at) < Len(x.at)
<1>1. stop.node.at \in ByteString /\ ToVisit(stop) \subseteq Byte /\ x.at \in ByteString
  BY StopType, NodeFacts
<1>2. PICK b \in ToVisit(stop) : IsPrefix(Append(stop.node.at, b), x.at)  BY DEF AheadOf
<1>3. IsPrefix(stop.node.at, x.at) /\ Len(stop.node.at) < Len(x.at)  BY <1>1, <1>2, PrefixAppend
<1>5. Len(stop.node.at) \in Nat /\ Len(x.at) \in Nat  BY <1>1 DEF ByteString
<1>6. x # stop.node  BY <1>3, <1>5
<1> QED  BY <1>3, <1>6

LEMMA PassesBelow ==
  ASSUME TreeInvariant, NEW stop \in Stop, StopHolds(stop), NEW x \in DOMAIN heap,
         Passes(stop, x), NEW y \in DOMAIN heap, IsPrefix(x.at, y.at)
  PROVE  Passes(stop, y)
<1>1. /\ stop.node.at \in ByteString /\ ChildBytes(stop.node) \subseteq Byte
      /\ x.at \in ByteString /\ y.at \in ByteString
  BY StopType, NodeFacts
<1>2. PICK b \in ChildBytes(stop.node) \ ToVisit(stop) : IsPrefix(Append(stop.node.at, b), x.at)
  BY DEF Passes
<1>3. Append(stop.node.at, b) \in ByteString  BY <1>1 DEF ByteString
<1>4. IsPrefix(Append(stop.node.at, b), y.at)  BY <1>1, <1>2, <1>3, PrefixTransitive
<1> QED  BY <1>4 DEF Passes

LEMMA InnerStop ==
  ASSUME TreeInvariant, NEW n \in Inners(heap), NEW stop,
         stop = [node |-> n, todo |-> BytesInOrder(n)]
  PROVE  /\ stop \in Stop /\ StopHolds(stop) /\ ToVisit(stop) = ChildBytes(n)
         /\ Len(stop.todo) = Cardinality(ChildBytes(n)) /\ Cardinality(ChildBytes(n)) \in Nat
         /\ \A x \in DOMAIN heap : IsPrefix(n.at, x.at) <=> x = n \/ AheadOf(stop, x)
         /\ ~AheadOf(stop, n)
<1>1. n \in DOMAIN heap /\ IsInner(n) /\ ChildBytes(n) \subseteq Byte /\ ChildBytes(n) \subseteq Nat
  BY InnerFacts
<1>2. PICK m \in Nat : m = Cardinality(ChildBytes(n))  BY BytesInOrderFacts
<1>3. PICK s : s = BytesInOrder(n)  OBVIOUS
<1>4. /\ s \in [1 .. m -> ChildBytes(n)] /\ DOMAIN s = 1 .. m
      /\ \A i, j \in 1 .. m : i < j => s[i] < s[j]
      /\ \A b \in ChildBytes(n) : \E i \in 1 .. m : s[i] = b
  BY <1>2, <1>3, BytesInOrderFacts
<1>5. s \in Seq(Byte) /\ Len(s) = m
  <2>1. s \in [1 .. m -> Byte]  BY <1>1, <1>4
  <2> QED  BY <2>1, <1>2
<1>6. stop.node = n /\ stop.todo = s  BY <1>3
<1>7. stop \in Stop  BY <1>1, <1>3, <1>5 DEF Stop
<1>8. ToVisit(stop) = ChildBytes(n)
  <2>1. \A b \in ToVisit(stop) : b \in ChildBytes(n)  BY <1>4, <1>6 DEF ToVisit
  <2>2. \A b \in ChildBytes(n) : b \in ToVisit(stop)  BY <1>4, <1>6 DEF ToVisit
  <2> QED  BY <2>1, <2>2
<1>9. StopHolds(stop)
  <2>1. ASSUME NEW i \in 1 .. m, NEW j \in 1 .. m, s[i] = s[j] PROVE i = j
    <3>1. s[i] \in Nat /\ s[j] \in Nat  BY <1>1, <1>4
    <3>2. ~(i < j) /\ ~(j < i)  BY <1>4, <2>1, <3>1
    <3> QED  BY <3>2
  <2> QED  BY <2>1, <1>1, <1>4, <1>6, <1>8 DEF StopHolds
<1>10. \A x \in DOMAIN heap : IsPrefix(n.at, x.at) <=> x = n \/ AheadOf(stop, x)
  BY <1>6, <1>8, UnderInner DEF AheadOf
<1>11. ~AheadOf(stop, n)  BY <1>1, <1>6, <1>8, UnderInner DEF AheadOf
<1> QED  BY <1>2, <1>5, <1>6, <1>7, <1>8, <1>9, <1>10, <1>11

LEMMA NextStop ==
  ASSUME TreeInvariant, NEW stop \in Stop, StopHolds(stop), stop.todo # << >>, NEW next,
         next = [node |-> stop.node, todo |-> Tail(stop.todo)],
         NEW b, b = Head(stop.todo), NEW child, child = Child(stop.node, b)
  PROVE  /\ next \in Stop /\ StopHolds(next) /\ b \in ChildBytes(stop.node)
         /\ Len(next.todo) \in Nat /\ Len(stop.todo) = Len(next.todo) + 1
         /\ child \in DOMAIN heap /\ Passes(next, child) /\ AheadOf(stop, child)
         /\ IsPrefix(Append(stop.node.at, b), child.at)
         /\ \A x : Passes(stop, x) => Passes(next, x)
         /\ \A x \in DOMAIN heap : AheadOf(stop, x) <=> IsPrefix(child.at, x.at) \/ AheadOf(next, x)
<1>1. /\ stop.node \in Inners(heap) /\ stop.node.at \in ByteString /\ stop.todo \in Seq(Byte)
      /\ stop.node \in DOMAIN heap
  BY StopType
<1>2. PICK s \in Seq(Byte) : s = stop.todo  BY <1>1
<1>3. /\ Len(s) \in Nat /\ Len(s) >= 1 /\ DOMAIN s = 1 .. Len(s) /\ b = s[1]
      /\ Tail(s) \in Seq(Byte) /\ Len(Tail(s)) = Len(s) - 1 /\ DOMAIN Tail(s) = 1 .. Len(s) - 1
      /\ \A i \in 1 .. Len(s) - 1 : Tail(s)[i] = s[i + 1]
  <2>1. Len(s) \in Nat /\ DOMAIN s = 1 .. Len(s)  OBVIOUS
  <2>2. Len(s) # 0  BY <1>2
  <2>3. Len(s) >= 1  BY <2>1, <2>2
  <2>4. b = s[1]  BY <1>2
  <2>5. Tail(s) \in Seq(Byte) /\ Len(Tail(s)) = Len(s) - 1
    BY <1>2, <2>3
  <2>6. \A i \in 1 .. Len(s) - 1 : Tail(s)[i] = s[i + 1]  BY <1>2, <2>3
  <2> QED  BY <2>1, <2>3, <2>4, <2>5, <2>6
<1>4. PICK t \in Seq(Byte) : t = Tail(s)  BY <1>3
<1>5. next.node = stop.node /\ next.todo = t  BY <1>2, <1>4
<1>6. next \in Stop  BY <1>1, <1>2, <1>4 DEF Stop
<1>7. /\ ToVisit(stop) \subseteq ChildBytes(stop.node)
      /\ \A i, j \in 1 .. Len(s) : s[i] = s[j] => i = j
  BY <1>2, <1>3 DEF StopHolds
<1>8. ToVisit(stop) = ToVisit(next) \cup {b} /\ b \notin ToVisit(next)
  <2>1. ToVisit(stop) = {s[i] : i \in 1 .. Len(s)}  BY <1>2, <1>3 DEF ToVisit
  <2>2. ToVisit(next) = {t[i] : i \in 1 .. Len(s) - 1}  BY <1>3, <1>4, <1>5 DEF ToVisit
  <2>3. \A c \in ToVisit(next) : c \in ToVisit(stop)
    <3>1. TAKE c \in ToVisit(next)
    <3>2. PICK i \in 1 .. Len(s) - 1 : c = s[i + 1]  BY <2>2, <1>3, <1>4
    <3>3. i + 1 \in 1 .. Len(s)  BY <1>3
    <3> QED  BY <2>1, <3>2, <3>3
  <2>4. b \in ToVisit(stop)  BY <1>3, <2>1
  <2>5. \A c \in ToVisit(stop) : c \in ToVisit(next) \/ c = b
    <3>1. TAKE c \in ToVisit(stop)
    <3>2. PICK i \in 1 .. Len(s) : c = s[i]  BY <2>1
    <3>3. CASE i = 1  BY <3>2, <3>3, <1>3
    <3>4. CASE i # 1
      <4>1. i - 1 \in 1 .. Len(s) - 1 /\ (i - 1) + 1 = i  BY <3>4, <1>3
      <4>2. PICK j \in 1 .. Len(s) - 1 : j + 1 = i  BY <4>1
      <4>3. t[j] = c  BY <4>2, <3>2, <1>3, <1>4
      <4> QED  BY <4>3, <2>2
    <3> QED  BY <3>3, <3>4
  <2>6. b \notin ToVisit(next)
    <3> SUFFICES ASSUME b \in ToVisit(next) PROVE FALSE  OBVIOUS
    <3>1. PICK i \in 1 .. Len(s) - 1 : b = s[i + 1]  BY <2>2, <1>3, <1>4
    <3>2. i + 1 \in 1 .. Len(s) /\ i + 1 # 1 /\ 1 \in 1 .. Len(s)  BY <1>3
    <3> QED  BY <3>1, <3>2, <1>3, <1>7
  <2> QED  BY <2>3, <2>4, <2>5, <2>6
<1>9. StopHolds(next)
  <2>1. ASSUME NEW i \in 1 .. Len(s) - 1, NEW j \in 1 .. Len(s) - 1, t[i] = t[j] PROVE i = j
    <3>1. i + 1 \in 1 .. Len(s) /\ j + 1 \in 1 .. Len(s)  BY <1>3
    <3>2. s[i + 1] = s[j + 1]  BY <2>1, <1>3, <1>4
    <3>3. i + 1 = j + 1  BY <3>1, <3>2, <1>7
    <3> QED  BY <3>3
  <2>2. DOMAIN t = 1 .. Len(s) - 1  BY <1>3, <1>4
  <2>3. IsInner(next.node)  BY <1>5 DEF StopHolds
  <2>4. ToVisit(next) \subseteq ChildBytes(next.node)  BY <1>5, <1>7, <1>8
  <2>5. \A i, j \in DOMAIN next.todo : next.todo[i] = next.todo[j] => i = j
    BY <2>1, <2>2, <1>5
  <2> QED  BY <2>3, <2>4, <2>5 DEF StopHolds
<1>10. b \in ChildBytes(stop.node)  BY <1>7, <1>8
<1>11. child \in DOMAIN heap /\ IsPrefix(Append(stop.node.at, b), child.at)
  BY <1>1, <1>10 DEF TreeInvariant, ChildrenAreLive
<1>12. Passes(next, child) /\ AheadOf(stop, child)
  BY <1>5, <1>8, <1>10, <1>11 DEF Passes, AheadOf
<1>13. \A x : Passes(stop, x) => Passes(next, x)  BY <1>5, <1>8 DEF Passes
<1>14. \A x \in DOMAIN heap : AheadOf(stop, x) <=> IsPrefix(child.at, x.at) \/ AheadOf(next, x)
  <2>1. TAKE x \in DOMAIN heap
  <2>2. IsPrefix(Append(stop.node.at, b), x.at) <=> IsPrefix(child.at, x.at)
    BY <1>1, <1>10, UnderChild
  <2> QED  BY <2>2, <1>5, <1>8 DEF AheadOf
<1>15. Len(next.todo) \in Nat /\ Len(stop.todo) = Len(next.todo) + 1
  <2>1. Len(t) = Len(s) - 1  BY <1>3, <1>4
  <2>2. Len(t) \in Nat /\ Len(s) = Len(t) + 1  BY <2>1, <1>3
  <2> QED  BY <2>2, <1>2, <1>5
<1> QED  BY <1>6, <1>9, <1>10, <1>11, <1>12, <1>13, <1>14, <1>15

-----------------------------------------------------------------------------
(***************************************************************************)
(* The walk: each step of a visitor moves the border between what is ahead *)
(* and what the walk has done with by at most one node.                    *)
(***************************************************************************)

LEMMA PushedTrail ==
  ASSUME NEW rest \in Seq(Stop), NEW stop \in Stop, NEW node
  PROVE  TrailHolds(Append(rest, stop), node) <=>
           /\ \A i \in DOMAIN rest : StopHolds(rest[i])
           /\ \A i, j \in DOMAIN rest : i < j => Passes(rest[i], rest[j].node)
           /\ StopHolds(stop) /\ \A i \in DOMAIN rest : Passes(rest[i], stop.node)
           /\ node \in DOMAIN heap \cup {None}
           /\ node # None => (\A i \in DOMAIN rest : Passes(rest[i], node)) /\ Passes(stop, node)
<1> DEFINE trail == Append(rest, stop)
<1>1. /\ trail \in Seq(Stop) /\ Len(rest) \in Nat /\ DOMAIN trail = 1 .. Len(rest) + 1
      /\ DOMAIN rest = 1 .. Len(rest) /\ trail # << >>
      /\ \A i \in 1 .. Len(rest) : trail[i] = rest[i]
      /\ trail[Len(rest) + 1] = stop
  BY PushFacts
<1> HIDE DEF trail
<1>2. \A i \in DOMAIN trail : i \in DOMAIN rest \/ i = Len(rest) + 1  BY <1>1
<1>3. \A i \in DOMAIN rest : i \in DOMAIN trail /\ i < Len(rest) + 1 /\ i # Len(rest) + 1  BY <1>1
<1>4. Len(rest) + 1 \in DOMAIN trail  BY <1>1
<1>5. (\A i \in DOMAIN trail : StopHolds(trail[i])) <=>
        (\A i \in DOMAIN rest : StopHolds(rest[i])) /\ StopHolds(stop)
  BY <1>1, <1>2, <1>3, <1>4
<1>6. node # None =>
        ((\A i \in DOMAIN trail : Passes(trail[i], node)) <=>
          (\A i \in DOMAIN rest : Passes(rest[i], node)) /\ Passes(stop, node))
  BY <1>1, <1>2, <1>3, <1>4
<1>7. (\A i, j \in DOMAIN trail : i < j => Passes(trail[i], trail[j].node)) <=>
        /\ \A i, j \in DOMAIN rest : i < j => Passes(rest[i], rest[j].node)
        /\ \A i \in DOMAIN rest : Passes(rest[i], stop.node)
  <2>1. ASSUME \A i, j \in DOMAIN trail : i < j => Passes(trail[i], trail[j].node)
        PROVE  /\ \A i, j \in DOMAIN rest : i < j => Passes(rest[i], rest[j].node)
               /\ \A i \in DOMAIN rest : Passes(rest[i], stop.node)
    BY <2>1, <1>1, <1>3, <1>4
  <2>2. ASSUME \A i, j \in DOMAIN rest : i < j => Passes(rest[i], rest[j].node),
               \A i \in DOMAIN rest : Passes(rest[i], stop.node),
               NEW i \in DOMAIN trail, NEW j \in DOMAIN trail, i < j
        PROVE  Passes(trail[i], trail[j].node)
    <3>1. i \in DOMAIN rest /\ trail[i] = rest[i]  BY <2>2, <1>1
    <3>2. CASE j \in DOMAIN rest  BY <3>1, <3>2, <2>2, <1>1
    <3>3. CASE j = Len(rest) + 1  BY <3>1, <3>3, <2>2, <1>1
    <3> QED  BY <3>2, <3>3, <1>2
  <2> QED  BY <2>1, <2>2
<1> QED  BY <1>1, <1>5, <1>6, <1>7 DEF trail, TrailHolds

LEMMA PushedAhead ==
  ASSUME NEW rest \in Seq(Stop), NEW stop \in Stop, NEW node
  PROVE  /\ Ahead(Append(rest, stop), node) =
              {x \in DOMAIN heap : x \in Ahead(rest, node) \/ AheadOf(stop, x)}
         /\ Walked(Append(rest, stop), node) =
              {x \in Walked(rest, node) : ~AheadOf(stop, x) /\ x # stop.node}
<1> DEFINE trail == Append(rest, stop)
<1>1. /\ Len(rest) \in Nat /\ DOMAIN trail = 1 .. Len(rest) + 1
      /\ DOMAIN rest = 1 .. Len(rest)
      /\ \A i \in 1 .. Len(rest) : trail[i] = rest[i]
      /\ trail[Len(rest) + 1] = stop
  BY PushFacts
<1> HIDE DEF trail
<1>2. \A i \in DOMAIN trail : i \in DOMAIN rest \/ i = Len(rest) + 1  BY <1>1
<1>3. \A i \in DOMAIN rest : i \in DOMAIN trail  BY <1>1
<1>4. Len(rest) + 1 \in DOMAIN trail  BY <1>1
<1>5. \A x : (\E i \in DOMAIN trail : AheadOf(trail[i], x)) <=>
             (\E i \in DOMAIN rest : AheadOf(rest[i], x)) \/ AheadOf(stop, x)
  BY <1>1, <1>2, <1>3, <1>4
<1>6. \A x : (\A i \in DOMAIN trail : x # trail[i].node) <=>
             (\A i \in DOMAIN rest : x # rest[i].node) /\ x # stop.node
  BY <1>1, <1>2, <1>3, <1>4
<1>7. Ahead(trail, node) = {x \in DOMAIN heap : x \in Ahead(rest, node) \/ AheadOf(stop, x)}
  BY <1>5 DEF Ahead
<1>8. Walked(trail, node) = {x \in Walked(rest, node) : ~AheadOf(stop, x) /\ x # stop.node}
  BY <1>6, <1>7 DEF Walked
<1> QED  BY <1>7, <1>8 DEF trail

LEMMA OnTrail ==
  ASSUME TreeInvariant, NEW trail, NEW node, TrailHolds(trail, node)
  PROVE  /\ trail \in Seq(Stop) /\ \A i \in DOMAIN trail : trail[i] \in Stop /\ StopHolds(trail[i])
         /\ \A i, j \in DOMAIN trail : ~AheadOf(trail[i], trail[j].node)
         /\ \A i, j \in DOMAIN trail : i < j => trail[i].node # trail[j].node
         /\ node # None => \A i \in DOMAIN trail :
              ~AheadOf(trail[i], node) /\ node # trail[i].node /\ ~IsPrefix(node.at, trail[i].node.at)
<1>1. /\ trail \in Seq(Stop) /\ \A i \in DOMAIN trail : trail[i] \in Stop /\ StopHolds(trail[i])
      /\ \A i \in DOMAIN trail : i \in Nat
  <2>1. trail \in Seq(Stop) /\ \A i \in DOMAIN trail : StopHolds(trail[i])  BY DEF TrailHolds
  <2> QED  BY <2>1
<1>2. \A i \in DOMAIN trail :
        /\ trail[i].node \in Inners(heap) /\ trail[i].node \in DOMAIN heap
        /\ trail[i].node.at \in ByteString /\ Len(trail[i].node.at) \in Nat
  BY <1>1, StopType
<1>3. ASSUME NEW i \in DOMAIN trail, NEW j \in DOMAIN trail, i < j
      PROVE  /\ ~AheadOf(trail[i], trail[j].node) /\ trail[i].node # trail[j].node
             /\ Len(trail[i].node.at) < Len(trail[j].node.at)
  <2>1. Passes(trail[i], trail[j].node)  BY <1>3 DEF TrailHolds
  <2> QED  BY <2>1, <1>1, <1>2, PassedFacts
<1>4. ASSUME NEW i \in DOMAIN trail, NEW j \in DOMAIN trail, AheadOf(trail[i], trail[j].node)
      PROVE  FALSE
  <2>1. Len(trail[i].node.at) < Len(trail[j].node.at) /\ trail[j].node # trail[i].node
    BY <1>1, <1>2, <1>4, AheadFacts
  <2>2. CASE i < j  BY <2>2, <1>3, <1>4
  <2>3. CASE j < i
    <3>1. Len(trail[j].node.at) < Len(trail[i].node.at)  BY <2>3, <1>3
    <3> QED  BY <3>1, <2>1, <1>2
  <2>4. CASE i = j  BY <2>4, <2>1
  <2> QED  BY <2>2, <2>3, <2>4, <1>1
<1>5. ASSUME node # None, NEW i \in DOMAIN trail
      PROVE  ~AheadOf(trail[i], node) /\ node # trail[i].node /\ ~IsPrefix(node.at, trail[i].node.at)
  <2>1. node \in DOMAIN heap /\ Passes(trail[i], node)  BY <1>5 DEF TrailHolds
  <2>2. ~AheadOf(trail[i], node) /\ node # trail[i].node /\ Len(trail[i].node.at) < Len(node.at)
    BY <2>1, <1>1, PassedFacts
  <2>3. node.at \in ByteString /\ Len(node.at) \in Nat  BY <2>1, NodeFacts
  <2> QED  BY <2>2, <2>3, <1>2, PrefixPointwise
<1> QED  BY <1>1, <1>3, <1>4, <1>5

LEMMA WalkStarts ==
  ASSUME TreeInvariant, ~TearingDown, root # None
  PROVE  /\ TrailHolds(<< >>, root)
         /\ Ahead(<< >>, root) = DOMAIN heap /\ Walked(<< >>, root) = {}
<1>1. root \in DOMAIN heap /\ \A x \in DOMAIN heap : IsPrefix(root.at, x.at)
  BY DEF TreeInvariant, RootIsAboveAll
<1>2. << >> \in Seq(Stop) /\ DOMAIN << >> = {}  OBVIOUS
<1> QED  BY <1>1, <1>2 DEF TrailHolds, Ahead, Walked

LEMMA WalkEnds ==
  Ahead(<< >>, None) = {} /\ Walked(<< >>, None) = DOMAIN heap
BY DEF Ahead, Walked

LEMMA WalkEnters ==
  ASSUME TreeInvariant, NEW trail, NEW node, TrailHolds(trail, node), node # None, IsInner(node),
         NEW stop, stop = [node |-> node, todo |-> BytesInOrder(node)]
  PROVE  /\ TrailHolds(Append(trail, stop), None)
         /\ node \in Ahead(trail, node)
         /\ Ahead(Append(trail, stop), None) = Ahead(trail, node) \ {node}
         /\ Walked(Append(trail, stop), None) = Walked(trail, node)
<1>1. node \in DOMAIN heap /\ trail \in Seq(Stop) /\ \A i \in DOMAIN trail : Passes(trail[i], node)
  BY DEF TrailHolds
<1>2. node \in Inners(heap) /\ node.at \in ByteString  BY <1>1, NodeFacts
<1>3. /\ stop \in Stop /\ StopHolds(stop)
      /\ \A x \in DOMAIN heap : IsPrefix(node.at, x.at) <=> x = node \/ AheadOf(stop, x)
      /\ ~AheadOf(stop, node)
  BY <1>2, InnerStop
<1>4. stop.node = node  OBVIOUS
<1>5. TrailHolds(Append(trail, stop), None)
  BY <1>1, <1>3, <1>4, PushedTrail DEF TrailHolds
<1>6. \A i \in DOMAIN trail : ~AheadOf(trail[i], node)  BY OnTrail
<1>7. \A x \in DOMAIN heap :
        /\ x \in Ahead(trail, node) <=> IsPrefix(node.at, x.at) \/ x \in Ahead(trail, None)
        /\ x \in Ahead(trail, None) => x # node
  BY <1>6 DEF Ahead
<1>8. Ahead(Append(trail, stop), None) = Ahead(trail, node) \ {node}
  <2>1. Ahead(Append(trail, stop), None) \subseteq DOMAIN heap /\ Ahead(trail, node) \subseteq DOMAIN heap
    BY DEF Ahead
  <2>2. ASSUME NEW x \in DOMAIN heap
        PROVE  x \in Ahead(Append(trail, stop), None) <=> x \in Ahead(trail, node) \ {node}
    <3>1. x \in Ahead(Append(trail, stop), None) <=> x \in Ahead(trail, None) \/ AheadOf(stop, x)
      BY <1>1, <1>3, PushedAhead
    <3> QED  BY <3>1, <1>3, <1>7
  <2> QED  BY <2>1, <2>2
<1>9. node \in Ahead(trail, node)  BY <1>1, <1>2, PrefixReflexive DEF Ahead
<1>10. Walked(Append(trail, stop), None) = Walked(trail, node)
  <2>1. \A x \in Walked(trail, None) : x \in DOMAIN heap  BY DEF Walked
  <2>2. \A x \in DOMAIN heap :
          x \in Walked(Append(trail, stop), None) <=>
            x \in Walked(trail, None) /\ ~AheadOf(stop, x) /\ x # node
    BY <1>1, <1>3, <1>4, PushedAhead
  <2>3. \A x \in DOMAIN heap : x \in Walked(trail, node) <=> x \in Walked(trail, None) /\ ~IsPrefix(node.at, x.at)
    BY <1>7 DEF Walked
  <2>4. Walked(Append(trail, stop), None) \subseteq DOMAIN heap /\ Walked(trail, node) \subseteq DOMAIN heap
    BY DEF Walked
  <2> QED  BY <2>2, <2>3, <2>4, <1>3
<1> QED  BY <1>5, <1>8, <1>9, <1>10

LEMMA WalkDescends ==
  ASSUME TreeInvariant, NEW rest \in Seq(Stop), NEW stop \in Stop,
         TrailHolds(Append(rest, stop), None), stop.todo # << >>,
         NEW next, next = [node |-> stop.node, todo |-> Tail(stop.todo)],
         NEW child, child = Child(stop.node, Head(stop.todo))
  PROVE  /\ next \in Stop /\ TrailHolds(Append(rest, next), child)
         /\ child \in Ahead(Append(rest, stop), None)
         /\ Ahead(Append(rest, next), child) = Ahead(Append(rest, stop), None)
         /\ Walked(Append(rest, next), child) = Walked(Append(rest, stop), None)
<1>0. stop.node \in DOMAIN heap /\ next.node = stop.node  BY DEF Stop
<1>1. /\ \A i \in DOMAIN rest : StopHolds(rest[i])
      /\ \A i, j \in DOMAIN rest : i < j => Passes(rest[i], rest[j].node)
      /\ StopHolds(stop) /\ \A i \in DOMAIN rest : Passes(rest[i], stop.node)
  BY PushedTrail
<1>2. /\ next \in Stop /\ StopHolds(next)
      /\ child \in DOMAIN heap /\ Passes(next, child) /\ AheadOf(stop, child)
      /\ \A x \in DOMAIN heap : AheadOf(stop, x) <=> IsPrefix(child.at, x.at) \/ AheadOf(next, x)
  BY <1>1, NextStop
<1>3. child # None  BY <1>2, NodeFacts
<1>4. \A i \in DOMAIN rest : Passes(rest[i], child)
  <2>1. \A i \in DOMAIN rest : rest[i] \in Stop  OBVIOUS
  <2>2. IsPrefix(stop.node.at, child.at)  BY <1>1, <1>2, AheadFacts
  <2> QED  BY <2>1, <2>2, <1>0, <1>1, <1>2, PassesBelow
<1>5. TrailHolds(Append(rest, next), child)
  BY <1>0, <1>1, <1>2, <1>4, PushedTrail
<1>6. \A x \in DOMAIN heap : x \in Ahead(rest, child) <=> IsPrefix(child.at, x.at) \/ x \in Ahead(rest, None)
  BY <1>3 DEF Ahead
<1>7. Ahead(Append(rest, next), child) = Ahead(Append(rest, stop), None)
  <2>1. \A x \in DOMAIN heap :
          /\ x \in Ahead(Append(rest, next), child) <=> x \in Ahead(rest, child) \/ AheadOf(next, x)
          /\ x \in Ahead(Append(rest, stop), None) <=> x \in Ahead(rest, None) \/ AheadOf(stop, x)
    BY <1>2, PushedAhead
  <2>2. /\ Ahead(Append(rest, next), child) \subseteq DOMAIN heap
        /\ Ahead(Append(rest, stop), None) \subseteq DOMAIN heap
    BY DEF Ahead
  <2> QED  BY <2>1, <2>2, <1>2, <1>6
<1>8. child \in Ahead(Append(rest, stop), None)
  BY <1>2, PushedAhead
<1>9. Walked(Append(rest, next), child) = Walked(Append(rest, stop), None)
  <2>1. \A x \in DOMAIN heap :
          /\ x \in Walked(Append(rest, next), child) <=>
               x \in Walked(rest, child) /\ ~AheadOf(next, x) /\ x # stop.node
          /\ x \in Walked(Append(rest, stop), None) <=>
               x \in Walked(rest, None) /\ ~AheadOf(stop, x) /\ x # stop.node
    BY <1>0, <1>2, PushedAhead
  <2>2. \A x \in DOMAIN heap :
          x \in Walked(rest, child) <=> x \in Walked(rest, None) /\ ~IsPrefix(child.at, x.at)
    BY <1>6 DEF Walked
  <2>3. /\ Walked(Append(rest, next), child) \subseteq DOMAIN heap
        /\ Walked(Append(rest, stop), None) \subseteq DOMAIN heap
    BY DEF Walked
  <2> QED  BY <2>1, <2>2, <2>3, <1>2
<1> QED  BY <1>2, <1>5, <1>7, <1>8, <1>9

LEMMA WalkPassesLeaf ==
  ASSUME TreeInvariant, NEW trail, NEW node, TrailHolds(trail, node), node # None, IsLeaf(node)
  PROVE  /\ node \in Leaves(heap) /\ node \in DOMAIN heap
         /\ trail # << >> => TrailHolds(trail, None)
         /\ Ahead(trail, None) = Ahead(trail, node) \ {node}
         /\ node \in Ahead(trail, node)
         /\ node \notin Walked(trail, node)
         /\ Walked(trail, None) = Walked(trail, node) \cup {node}
<1>1. node \in DOMAIN heap /\ node \in Leaves(heap)
  <2>1. node \in DOMAIN heap  BY DEF TrailHolds
  <2> QED  BY <2>1, NodeFacts
<1>2. trail # << >> => TrailHolds(trail, None)  BY DEF TrailHolds
<1>3. \A i \in DOMAIN trail : ~AheadOf(trail[i], node) /\ node # trail[i].node  BY OnTrail
<1>4. \A x \in DOMAIN heap : IsPrefix(node.at, x.at) <=> x = node  BY <1>1, UnderLeaf
<1>5. \A x \in DOMAIN heap :
        /\ x \in Ahead(trail, node) <=> x = node \/ x \in Ahead(trail, None)
        /\ x \in Ahead(trail, None) => x # node
  BY <1>3, <1>4 DEF Ahead
<1>6. Ahead(trail, node) \subseteq DOMAIN heap /\ Ahead(trail, None) \subseteq DOMAIN heap
  BY DEF Ahead
<1>7. Ahead(trail, None) = Ahead(trail, node) \ {node} /\ node \in Ahead(trail, node)
  BY <1>1, <1>5, <1>6
<1>8. node \notin Walked(trail, node)  BY <1>7 DEF Walked
<1>9. Walked(trail, None) = Walked(trail, node) \cup {node}
  <2>1. \A x \in DOMAIN heap :
          x \in Walked(trail, None) <=> x \in Walked(trail, node) \/ x = node
    BY <1>1, <1>3, <1>5 DEF Walked
  <2>2. Walked(trail, node) \subseteq DOMAIN heap /\ Walked(trail, None) \subseteq DOMAIN heap
    BY DEF Walked
  <2> QED  BY <1>1, <2>1, <2>2
<1> QED  BY <1>1, <1>2, <1>7, <1>8, <1>9

LEMMA WalkLeaves ==
  ASSUME TreeInvariant, NEW rest \in Seq(Stop), NEW stop \in Stop,
         TrailHolds(Append(rest, stop), None), stop.todo = << >>
  PROVE  /\ stop.node \in Inners(heap) /\ stop.node \in DOMAIN heap
         /\ rest # << >> => TrailHolds(rest, None)
         /\ Ahead(rest, None) = Ahead(Append(rest, stop), None)
         /\ stop.node \notin Walked(Append(rest, stop), None)
         /\ Walked(rest, None) = Walked(Append(rest, stop), None) \cup {stop.node}
<1>1. /\ \A i \in DOMAIN rest : StopHolds(rest[i])
      /\ \A i, j \in DOMAIN rest : i < j => Passes(rest[i], rest[j].node)
      /\ StopHolds(stop) /\ \A i \in DOMAIN rest : Passes(rest[i], stop.node)
  BY PushedTrail
<1>2. stop.node \in Inners(heap) /\ stop.node \in DOMAIN heap  BY <1>1, StopType
<1>3. \A x : ~AheadOf(stop, x)
  <2>1. ToVisit(stop) = {}  BY DEF ToVisit
  <2> QED  BY <2>1 DEF AheadOf
<1>4. rest # << >> => TrailHolds(rest, None)  BY <1>1 DEF TrailHolds
<1>5. Ahead(rest, None) = Ahead(Append(rest, stop), None)
  <2>1. Ahead(rest, None) \subseteq DOMAIN heap  BY DEF Ahead
  <2>2. Ahead(Append(rest, stop), None) =
          {x \in DOMAIN heap : x \in Ahead(rest, None) \/ AheadOf(stop, x)}
    BY PushedAhead
  <2> QED  BY <2>1, <2>2, <1>3
<1>6. \A x \in DOMAIN heap :
        x \in Walked(Append(rest, stop), None) <=> x \in Walked(rest, None) /\ x # stop.node
  BY <1>3, PushedAhead
<1>7. stop.node \in Walked(rest, None)
  <2>1. \A i \in DOMAIN rest : rest[i] \in Stop  OBVIOUS
  <2>2. \A i \in DOMAIN rest : ~AheadOf(rest[i], stop.node) /\ stop.node # rest[i].node
    BY <2>1, <1>1, <1>2, PassedFacts
  <2> QED  BY <2>2, <1>2 DEF Walked, Ahead
<1>8. Walked(rest, None) \subseteq DOMAIN heap /\ Walked(Append(rest, stop), None) \subseteq DOMAIN heap
  BY DEF Walked
<1> QED  BY <1>2, <1>4, <1>5, <1>6, <1>7, <1>8

LEMMA TrailKept ==
  ASSUME heap' = heap, NEW v, visit' = v, TrailHolds(Trail(v.frames), v.node)
  PROVE  TrailHolds(Trail(visit.frames), visit.node)'
<1>1. Stop' = Stop  BY DEF Stop
<1>2. \A s, x : Passes(s, x) => Passes(s, x)'  BY DEF Passes, ChildBytes, ToVisit
<1>3. \A s : StopHolds(s) => StopHolds(s)'  BY DEF StopHolds, IsInner, ChildBytes, ToVisit
<1> DEFINE t == Trail(v.frames)
<1>4. Trail(visit.frames)' = t  BY DEF Trail
<1>5. /\ t \in Seq(Stop') /\ \A i \in DOMAIN t : StopHolds(t[i])'
      /\ \A i, j \in DOMAIN t : i < j => Passes(t[i], t[j].node)'
      /\ v.node \in DOMAIN heap' \cup {None}
      /\ v.node # None => \A i \in DOMAIN t : Passes(t[i], v.node)'
      /\ v.node = None => t # << >>
  BY <1>1, <1>2, <1>3 DEF TrailHolds
<1> HIDE DEF t
<1> QED  BY <1>4, <1>5 DEF TrailHolds

LEMMA AheadKept ==
  ASSUME heap' = heap, NEW v, visit' = v
  PROVE  Ahead(Trail(visit.frames), visit.node)' = Ahead(Trail(v.frames), v.node)
BY DEF Ahead, Trail, ToVisit, AheadOf

LEMMA WalkedKept ==
  ASSUME heap' = heap, NEW v, visit' = v
  PROVE  Walked(Trail(visit.frames), visit.node)' = Walked(Trail(v.frames), v.node)
BY AheadKept DEF Walked, Trail

LEMMA FramesKept ==
  ASSUME heap' = heap, NEW v, visit' = v, \A i \in DOMAIN v.frames : FrameHolds(v.frames, v.node, i)
  PROVE  (\A i \in DOMAIN visit.frames : FrameHolds(visit.frames, visit.node, i))'
BY DEF FrameHolds, ChildBytes

LEMMA PrefixKept ==
  ASSUME heap' = heap, NEW v, visit' = v,
         PrefixHolds(v.frames, v.node, v.current_key_prefix)
  PROVE  PrefixHolds(visit.frames, visit.node, visit.current_key_prefix)'
BY DEF PrefixHolds, IsInner, Represents, Last, DropFirst

-----------------------------------------------------------------------------
(***************************************************************************)
(* The frames of a visitor, as a trail.                                    *)
(***************************************************************************)

StopOf(frame) == [node |-> frame.node, todo |-> frame.todo]

LEMMA TrailFacts ==
  ASSUME NEW T, \A f \in T : f.node \in DOMAIN heap /\ f.todo \in Seq(Byte), NEW frames \in Seq(T)
  PROVE  /\ Trail(frames) \in Seq(Stop) /\ Len(Trail(frames)) = Len(frames)
         /\ DOMAIN Trail(frames) = DOMAIN frames /\ DOMAIN frames = 1 .. Len(frames)
         /\ \A i \in DOMAIN frames : Trail(frames)[i] = StopOf(frames[i]) /\ StopOf(frames[i]) \in Stop
         /\ Trail(frames) = << >> <=> frames = << >>
<1>1. Len(frames) \in Nat /\ DOMAIN frames = 1 .. Len(frames) /\ \A i \in 1 .. Len(frames) : frames[i] \in T
  OBVIOUS
<1>2. PICK n \in Nat : n = Len(frames)  BY <1>1
<1>3. \A i \in 1 .. n : StopOf(frames[i]) \in Stop  BY <1>1, <1>2 DEF StopOf, Stop
<1>4. PICK t : t = [i \in 1 .. n |-> StopOf(frames[i])]  OBVIOUS
<1>5. t \in Seq(Stop) /\ Len(t) = n /\ DOMAIN t = 1 .. n
      /\ \A i \in 1 .. n : t[i] = StopOf(frames[i])
  <2>1. t \in [1 .. n -> Stop]  BY <1>3, <1>4
  <2> QED  BY <2>1, <1>4
<1>6. Trail(frames) = t  BY <1>1, <1>2, <1>4 DEF Trail, StopOf
<1>7. t = << >> <=> n = 0  BY <1>5
<1>8. frames = << >> <=> n = 0  BY <1>2
<1> QED  BY <1>1, <1>2, <1>3, <1>5, <1>6, <1>7, <1>8

LEMMA TrailPush ==
  ASSUME NEW T, \A f \in T : f.node \in DOMAIN heap /\ f.todo \in Seq(Byte), NEW frames \in Seq(T),
         NEW f \in T
  PROVE  Trail(Append(frames, f)) = Append(Trail(frames), StopOf(f))
<1>1. /\ Append(frames, f) \in Seq(T) /\ Len(Append(frames, f)) = Len(frames) + 1 /\ Len(frames) \in Nat
      /\ \A i \in 1 .. Len(frames) : Append(frames, f)[i] = frames[i]
      /\ Append(frames, f)[Len(frames) + 1] = f
  BY PushFacts
<1>2. PICK g \in Seq(T) : g = Append(frames, f)  BY <1>1
<1>3. PICK n \in Nat : n = Len(frames)  BY <1>1
<1>4. /\ Trail(frames) \in Seq(Stop) /\ Len(Trail(frames)) = n /\ DOMAIN frames = 1 .. n
      /\ \A i \in DOMAIN frames : Trail(frames)[i] = StopOf(frames[i])
  BY <1>3, TrailFacts
<1>5. /\ Trail(g) \in Seq(Stop) /\ Len(Trail(g)) = n + 1 /\ DOMAIN g = 1 .. n + 1
      /\ \A i \in DOMAIN g : Trail(g)[i] = StopOf(g[i]) /\ StopOf(g[i]) \in Stop
  <2>1. Len(g) = n + 1  BY <1>1, <1>2, <1>3
  <2> QED  BY <2>1, TrailFacts
<1>6. PICK s \in Seq(Stop) : s = Trail(frames)  BY <1>4
<1>7. StopOf(f) \in Stop
  <2>1. n + 1 \in DOMAIN g  BY <1>5
  <2> QED  BY <2>1, <1>1, <1>2, <1>3, <1>5
<1>8. /\ Append(s, StopOf(f)) \in Seq(Stop) /\ Len(Append(s, StopOf(f))) = n + 1
      /\ \A i \in 1 .. n : Append(s, StopOf(f))[i] = s[i]
      /\ Append(s, StopOf(f))[n + 1] = StopOf(f)
  BY <1>4, <1>6, <1>7, PushFacts
<1>9. \A i \in 1 .. n + 1 : Trail(g)[i] = Append(s, StopOf(f))[i]
  <2>1. TAKE i \in 1 .. n + 1
  <2>2. CASE i = n + 1  BY <2>2, <1>1, <1>2, <1>3, <1>5, <1>8
  <2>3. CASE i # n + 1
    <3>1. i \in 1 .. n  BY <2>3
    <3>2. g[i] = frames[i]  BY <3>1, <1>1, <1>2, <1>3
    <3> QED  BY <3>1, <3>2, <1>4, <1>5, <1>6, <1>8
  <2> QED  BY <2>2, <2>3
<1>10. PICK t \in Seq(Stop) : t = Trail(g)  BY <1>5
<1>11. PICK u \in Seq(Stop) : u = Append(s, StopOf(f))  BY <1>8
<1>12. Len(t) = n + 1 /\ Len(u) = n + 1 /\ \A i \in 1 .. n + 1 : t[i] = u[i]
  BY <1>5, <1>8, <1>9, <1>10, <1>11
<1>13. t = u  BY <1>12
<1> QED  BY <1>2, <1>6, <1>10, <1>11, <1>13

(* frames, taken apart at the top. *)
LEMMA TrailSplit ==
  ASSUME NEW T, \A f \in T : f.node \in DOMAIN heap /\ f.todo \in Seq(Byte), NEW frames \in Seq(T),
         frames # << >>
  PROVE  /\ Front(frames) \in Seq(T) /\ Last(frames) \in T
         /\ frames = Append(Front(frames), Last(frames))
         /\ Trail(frames) = Append(Trail(Front(frames)), StopOf(Last(frames)))
         /\ Trail(Front(frames)) \in Seq(Stop) /\ StopOf(Last(frames)) \in Stop
<1>1. /\ Front(frames) \in Seq(T) /\ Last(frames) \in T /\ Len(frames) \in Nat /\ Len(frames) >= 1
      /\ Last(frames) = frames[Len(frames)] /\ Len(Front(frames)) = Len(frames) - 1
      /\ \A i \in 1 .. Len(frames) - 1 : Front(frames)[i] = frames[i]
  BY PopFacts
<1>2. PICK r \in Seq(T) : r = Front(frames)  BY <1>1
<1>3. PICK g \in Seq(T) : g = Append(r, Last(frames))
  <2>1. Append(r, Last(frames)) \in Seq(T)  BY <1>1, PushFacts
  <2> QED  BY <2>1
<1>4. Len(g) = Len(frames) /\ \A i \in 1 .. Len(frames) : g[i] = frames[i]
  BY <1>1, <1>2, <1>3, SwapFacts
<1>5. g = frames  BY <1>4
<1>6. Trail(frames) = Append(Trail(r), StopOf(Last(frames)))  BY <1>1, <1>3, <1>5, TrailPush
<1>7. Trail(r) \in Seq(Stop)  BY TrailFacts
<1>8. StopOf(Last(frames)) \in Stop  BY <1>1 DEF StopOf, Stop
<1> QED  BY <1>1, <1>2, <1>3, <1>5, <1>6, <1>7, <1>8

LEMMA FrontIs ==
  ASSUME NEW p \in ByteString, NEW s \in ByteString, NEW t \in ByteString,
         IsPrefix(p, t), IsPrefix(s, t), Len(p) = Len(s) + 1
  PROVE  Front(p) = s
<1>1. Len(p) \in Nat /\ Len(s) \in Nat /\ p # << >> /\ p \in Seq(Byte) /\ s \in Seq(Byte)
  <2>1. Len(p) \in Nat /\ Len(s) \in Nat  BY DEF ByteString
  <2>2. Len(p) # 0  BY <2>1
  <2> QED  BY <2>1, <2>2 DEF ByteString
<1>2. /\ \A i \in 1 .. Len(p) : p[i] = t[i]
      /\ \A i \in 1 .. Len(s) : s[i] = t[i]
  BY PrefixPointwise
<1>3. PICK f \in Seq(Byte) : f = Front(p)  BY <1>1, PopFacts
<1>4. Len(f) = Len(s) /\ \A i \in 1 .. Len(s) : f[i] = p[i]  BY <1>1, <1>3, PopFacts
<1>5. \A i \in 1 .. Len(s) : i \in 1 .. Len(p)  BY <1>1
<1>6. \A i \in 1 .. Len(s) : f[i] = s[i]  BY <1>2, <1>4, <1>5
<1>7. f = s  BY <1>1, <1>4, <1>6
<1> QED  BY <1>3, <1>7

LEMMA PrefixAndRest ==
  ASSUME NEW p \in ByteString, NEW t \in ByteString, IsPrefix(p, t)
  PROVE  Len(p) \in Nat /\ Len(p) <= Len(t) /\ p \o DropFirst(t, Len(p)) = t
<1>1. Len(p) \in Nat /\ Len(t) \in Nat /\ Len(p) <= Len(t) /\ \A i \in 1 .. Len(p) : p[i] = t[i]
  BY PrefixPointwise DEF ByteString
<1>2. PICK m \in Nat : m = Len(p)  BY <1>1
<1>3. PICK n \in Nat : n = Len(t)  BY <1>1
<1>4. PICK d \in ByteString : d = DropFirst(t, m)  BY <1>1, <1>2, DropFirstFacts
<1>5. Len(d) = n - m /\ \A i \in 1 .. n - m : d[i] = t[m + i]  BY <1>1, <1>2, <1>3, <1>4, DropFirstFacts
<1>6. /\ p \o d \in ByteString /\ Len(p \o d) = n
      /\ \A i \in 1 .. m : (p \o d)[i] = p[i]
      /\ \A i \in 1 .. n - m : (p \o d)[m + i] = d[i]
  <2>1. Len(p) + Len(d) = n  BY <1>2, <1>5
  <2> QED  BY <2>1, <1>2, <1>5, ConcatFacts
<1>7. \A i \in 1 .. n : (p \o d)[i] = t[i]
  <2>1. TAKE i \in 1 .. n
  <2>2. CASE i <= m  BY <2>2, <1>1, <1>2, <1>6
  <2>3. CASE ~(i <= m)
    <3>1. PICK j \in 1 .. n - m : i = m + j
      <4>1. i - m \in 1 .. n - m /\ i = m + (i - m)  BY <2>3
      <4> QED  BY <4>1
    <3> QED  BY <3>1, <1>5, <1>6
  <2> QED  BY <2>2, <2>3
<1>8. p \o d = t  BY <1>3, <1>6, <1>7, SameBytes
<1> QED  BY <1>1, <1>2, <1>4, <1>8

-----------------------------------------------------------------------------
(***************************************************************************)
(* WellFormedChecker: each of its steps keeps CheckerHolds, or ends the    *)
(* visit with the answer that CheckerAnswer foretells.                     *)
(***************************************************************************)

CheckerRecord(node, frames, prefix, seen, count) ==
  [pc |-> "visiting", visitor |-> "WellFormedChecker", node |-> node, frames |-> frames,
   current_key_prefix |-> prefix, seen_nodes |-> seen, count |-> count, result |-> None]

SetNode(v, x)   == [v EXCEPT !.node = x]
SetFrames(v, x) == [v EXCEPT !.frames = x]
SetPrefix(v, x) == [v EXCEPT !.current_key_prefix = x]
SetSeen(v, x)   == [v EXCEPT !.seen_nodes = x]
SetCount(v, x)  == [v EXCEPT !.count = x]

LEMMA CheckerUpdates ==
  ASSUME NEW n, NEW f, NEW p, NEW s, NEW c, NEW x
  PROVE  /\ SetNode(CheckerRecord(n, f, p, s, c), x) = CheckerRecord(x, f, p, s, c)
         /\ SetFrames(CheckerRecord(n, f, p, s, c), x) = CheckerRecord(n, x, p, s, c)
         /\ SetPrefix(CheckerRecord(n, f, p, s, c), x) = CheckerRecord(n, f, x, s, c)
         /\ SetSeen(CheckerRecord(n, f, p, s, c), x) = CheckerRecord(n, f, p, x, c)
         /\ SetCount(CheckerRecord(n, f, p, s, c), x) = CheckerRecord(n, f, p, s, x)
BY DEF SetNode, SetFrames, SetPrefix, SetSeen, SetCount, CheckerRecord

LEMMA CheckerFields ==
  ASSUME NEW n, NEW f, NEW p, NEW s, NEW c, NEW v, v = CheckerRecord(n, f, p, s, c)
  PROVE  /\ v.pc = "visiting" /\ v.visitor = "WellFormedChecker" /\ v.node = n /\ v.frames = f
         /\ v.current_key_prefix = p /\ v.seen_nodes = s /\ v.count = c /\ v.result = None
BY DEF CheckerRecord

LEMMA CheckerIsRecord ==
  ASSUME NEW v \in CheckerVisit
  PROVE  /\ v = CheckerRecord(v.node, v.frames, v.current_key_prefix, v.seen_nodes, v.count)
         /\ v.pc = "visiting" /\ v.visitor = "WellFormedChecker" /\ v.result = None
         /\ v.node \in DOMAIN heap \cup {None} /\ v.frames \in Seq(CheckerFrame)
         /\ v.current_key_prefix \in ByteString /\ v.seen_nodes \in SUBSET DOMAIN heap
         /\ v.count \in Nat
BY DEF CheckerVisit, CheckerRecord

LEMMA CheckerFrames ==
  /\ \A f \in CheckerFrame : f.node \in DOMAIN heap /\ f.todo \in Seq(Byte)
  /\ \A f \in CheckerFrame : f = [node |-> f.node, todo |-> f.todo,
       original_key_prefix_len |-> f.original_key_prefix_len, num_children |-> f.num_children]
  /\ \A f \in CheckerFrame : f.original_key_prefix_len \in Nat /\ f.num_children \in Nat
BY DEF CheckerFrame

(* CheckerHolds of a record, by its fields. *)
LEMMA CheckerMade ==
  ASSUME NEW n, NEW f, NEW p, NEW s, NEW c,
         n \in DOMAIN heap \cup {None}, f \in Seq(CheckerFrame), p \in ByteString,
         c \in Nat, TrailHolds(Trail(f), n), \A i \in DOMAIN f : FrameHolds(f, n, i),
         PrefixHolds(f, n, p),
         s = {x \in DOMAIN heap : x \in Ahead(Trail(f), n) => x = n},
         c = Cardinality(Walked(Trail(f), n)),
         \A x \in Walked(Trail(f), n) : IsInner(x) => ~Overfull(x),
         NEW v, v = CheckerRecord(n, f, p, s, c)
  PROVE  CheckerHolds(v)
<1>1. v.node = n /\ v.frames = f /\ v.current_key_prefix = p /\ v.seen_nodes = s /\ v.count = c
  BY CheckerFields
<1>2. s \in SUBSET DOMAIN heap  OBVIOUS
<1>3. v \in CheckerVisit  BY <1>2 DEF CheckerVisit, CheckerRecord
<1> QED  BY <1>1, <1>3 DEF CheckerHolds

LEMMA CheckTreeStarts ==
  ASSUME TreeInvariant, ~TearingDown, CheckTree
  PROVE  visit'.pc = "visiting" /\ visit'.visitor = "WellFormedChecker" /\ CheckerHolds(visit')
<1>1. root # None /\ visit' = CheckerRecord(root, << >>, << >>, {root}, 0)
  <2>1. visit' = SetSeen(SetNode(WellFormedChecker, root), {root}) /\ root # None
    BY DEF CheckTree, SetSeen, SetNode
  <2>2. WellFormedChecker = CheckerRecord(None, << >>, << >>, {}, 0)
    BY DEF WellFormedChecker, CheckerRecord
  <2> QED  BY <2>1, <2>2, CheckerUpdates
<1>2. root \in DOMAIN heap  BY <1>1 DEF TreeInvariant, RootIsAboveAll
<1>3. Trail(<< >>) = << >>  BY DEF Trail
<1>4. TrailHolds(<< >>, root) /\ Ahead(<< >>, root) = DOMAIN heap /\ Walked(<< >>, root) = {}
  BY <1>1, WalkStarts
<1>5. root.at \in ByteString /\ << >> \in ByteString /\ Len(<< >>) = 0
  BY <1>2, NodeFacts DEF ByteString
<1>6. PrefixHolds(<< >>, root, << >>)
  <2>1. IsPrefix(<< >>, root.at)  BY <1>5, PrefixPointwise
  <2>2. DropFirst(root.at, 0) = root.at  BY <1>5 DEF DropFirst, ByteString
  <2>3. IsInner(root) => Represents(heap[root].header, root.at)
    BY <1>1 DEF TreeInvariant, PrefixesAreFaithful
  <2> QED  BY <1>1, <1>5, <2>1, <2>2, <2>3 DEF PrefixHolds
<1>7. {root} = {x \in DOMAIN heap : x \in Ahead(<< >>, root) => x = root}  BY <1>2, <1>4
<1>8. << >> \in Seq(CheckerFrame) /\ DOMAIN << >> = {}  OBVIOUS
<1>9. Cardinality({}) = 0  BY FS_EmptySet
<1>10. CheckerHolds(visit')
  BY <1>1, <1>2, <1>3, <1>4, <1>5, <1>6, <1>7, <1>8, <1>9, CheckerMade
<1> QED  BY <1>1, <1>10, CheckerFields

LEMMA CheckEmptyAnswers ==
  ASSUME TreeInvariant, ~TearingDown, CheckEmpty
  PROVE  visit'.pc = "done" /\ visit'.visitor = "WellFormedChecker" /\ visit'.result = CheckerAnswer
<1>1. DOMAIN heap = {} /\ Leaves(heap) = {} /\ Inners(heap) = {}
  BY DEF CheckEmpty, TreeInvariant, RootIsAboveAll, Leaves, Inners
<1>2. num_entries = 0  BY <1>1, FS_EmptySet DEF TreeInvariant, CountIsExact
<1>3. visit' = [WellFormedChecker EXCEPT !.pc = "done", !.result = Passed(0)]
  BY <1>2 DEF CheckEmpty
<1>4. CheckerAnswer = Passed(0)
  BY <1>1, FS_EmptySet DEF CheckerAnswer, SomeOverfull
<1> QED  BY <1>3, <1>4 DEF WellFormedChecker

LEMMA PrefixFacts ==
  ASSUME NEW f, NEW n, NEW p, PrefixHolds(f, n, p)
  PROVE  /\ n = None => p = Last(f).node.at
         /\ n # None => IsPrefix(p, n.at)
         /\ n # None => (f = << >> => p = << >>)
         /\ n # None => (f # << >> => Len(p) = Len(Last(f).node.at) + 1)
         /\ n # None => (IsInner(n) => Represents(heap[n].header, DropFirst(n.at, Len(p))))
BY ZenonT(60) DEF PrefixHolds

LEMMA EnterInnerKeeps ==
  ASSUME TreeInvariant, CheckerHolds(visit), EnterInner
  PROVE  visit'.pc = "visiting" /\ visit'.visitor = "WellFormedChecker" /\ CheckerHolds(visit')
<1>1. PICK v \in CheckerVisit : v = visit  BY DEF CheckerHolds
<1>2. PICK n, f, p, s, c : n = v.node /\ f = v.frames /\ p = v.current_key_prefix
                           /\ s = v.seen_nodes /\ c = v.count
  OBVIOUS
<1>3. /\ v = CheckerRecord(n, f, p, s, c) /\ f \in Seq(CheckerFrame) /\ p \in ByteString /\ c \in Nat
  BY <1>2, CheckerIsRecord
<1>4. n # None /\ IsInner(n)  BY <1>1, <1>2 DEF EnterInner
<1>5. /\ TrailHolds(Trail(f), n) /\ PrefixHolds(f, n, p)
      /\ \A i \in DOMAIN f : FrameHolds(f, n, i)
      /\ s = {x \in DOMAIN heap : x \in Ahead(Trail(f), n) => x = n}
      /\ c = Cardinality(Walked(Trail(f), n))
      /\ \A x \in Walked(Trail(f), n) : IsInner(x) => ~Overfull(x)
  BY <1>1, <1>2 DEF CheckerHolds
<1>6. n \in DOMAIN heap /\ n \in Inners(heap) /\ n.at \in ByteString
  <2>1. n \in DOMAIN heap  BY <1>4, <1>5 DEF TrailHolds
  <2> QED  BY <2>1, <1>4, NodeFacts
<1>7. PICK from \in Nat : from = Len(p)  BY <1>3 DEF ByteString
<1>8. PICK frame : frame = Frame(n, from)  OBVIOUS
<1>9. PICK stop : stop = [node |-> n, todo |-> BytesInOrder(n)]  OBVIOUS
<1>10. /\ stop \in Stop /\ Len(stop.todo) = Cardinality(ChildBytes(n)) /\ Cardinality(ChildBytes(n)) \in Nat
  BY <1>6, <1>9, InnerStop
<1>11. /\ frame \in CheckerFrame /\ StopOf(frame) = stop /\ frame.node = n /\ frame.todo = stop.todo
       /\ frame.original_key_prefix_len = from /\ frame.num_children = 0
  <2>1. frame = [node |-> n, todo |-> BytesInOrder(n), original_key_prefix_len |-> from, num_children |-> 0]
    BY <1>8 DEF Frame
  <2>2. stop.todo = BytesInOrder(n) /\ BytesInOrder(n) \in Seq(Byte)  BY <1>9, <1>10 DEF Stop
  <2> QED  BY <2>1, <2>2, <1>6, <1>9 DEF CheckerFrame, StopOf
<1>12. PICK g \in Seq(CheckerFrame) : g = Append(f, frame)  BY <1>3, <1>11, PushFacts
<1>13. /\ Len(f) \in Nat /\ Len(g) = Len(f) + 1 /\ DOMAIN g = 1 .. Len(f) + 1 /\ DOMAIN f = 1 .. Len(f)
       /\ \A i \in 1 .. Len(f) : g[i] = f[i]
       /\ g[Len(f) + 1] = frame /\ Last(g) = frame
  BY <1>3, <1>11, <1>12, PushFacts
<1>14. Trail(g) = Append(Trail(f), stop)  BY <1>3, <1>11, <1>12, TrailPush, CheckerFrames
<1>15. /\ TrailHolds(Trail(g), None) /\ n \in Ahead(Trail(f), n)
       /\ Ahead(Trail(g), None) = Ahead(Trail(f), n) \ {n}
       /\ Walked(Trail(g), None) = Walked(Trail(f), n)
  BY <1>4, <1>5, <1>9, <1>14, WalkEnters
<1>16. PICK q \in {n.at} : q = p \o ReadFullPrefix(n, from)
  <2>1. IsPrefix(p, n.at) /\ Represents(heap[n].header, DropFirst(n.at, from))
    BY <1>4, <1>5, <1>7, PrefixFacts
  <2>2. from <= Len(n.at) /\ p \o DropFirst(n.at, from) = n.at
    BY <2>1, <1>3, <1>6, <1>7, PrefixAndRest
  <2>3. ReadFullPrefix(n, from) = DropFirst(n.at, from)
    BY <2>1, <2>2, <1>6, ReadFullPrefixIsPath
  <2> QED  BY <2>2, <2>3
<1>17. visit' = CheckerRecord(None, g, q, s, c)
  <2>1. visit' = SetPrefix(SetFrames(SetNode(v, None), Append(v.frames, Frame(v.node, from))),
                           v.current_key_prefix \o ReadFullPrefix(v.node, from))
    BY <1>1, <1>2, <1>7 DEF EnterInner, SetPrefix, SetFrames, SetNode
  <2>2. visit' = SetPrefix(SetFrames(SetNode(CheckerRecord(n, f, p, s, c), None), g), q)
    BY <2>1, <1>2, <1>3, <1>8, <1>12, <1>16
  <2> QED  BY <2>2, CheckerUpdates
<1>18. \A i \in DOMAIN g : FrameHolds(g, None, i)
  <2>1. TAKE i \in DOMAIN g
  <2>2. CASE i = Len(f) + 1
    <3>1. g[i].num_children + Len(g[i].todo) + 0 = Cardinality(ChildBytes(g[i].node))
      BY <2>2, <1>10, <1>11, <1>13
    <3>2. g[i].original_key_prefix_len = IF i = 1 THEN 0 ELSE Len(g[i - 1].node.at) + 1
      <4>1. g[i].original_key_prefix_len = from  BY <2>2, <1>11, <1>13
      <4>2. CASE f = << >>
        <5>1. Len(f) = 0 /\ i = 1  BY <4>2, <2>2
        <5>2. p = << >>  BY <4>2, <1>4, <1>5, PrefixFacts
        <5>3. from = 0  BY <5>2, <1>7
        <5> QED  BY <4>1, <5>1, <5>3
      <4>3. CASE f # << >>
        <5>1. Len(f) >= 1 /\ Last(f) = f[Len(f)]  BY <4>3, <1>3, PopFacts
        <5>2. i # 1 /\ i - 1 = Len(f) /\ g[Len(f)] = f[Len(f)]  BY <5>1, <2>2, <1>13
        <5>3. Len(p) = Len(Last(f).node.at) + 1  BY <4>3, <1>4, <1>5, PrefixFacts
        <5>4. from = Len(g[i - 1].node.at) + 1  BY <5>1, <5>2, <5>3, <1>7
        <5> QED  BY <4>1, <5>2, <5>4
      <4> QED  BY <4>2, <4>3
    <3> QED  BY <3>1, <3>2, <2>2, <1>13 DEF FrameHolds
  <2>3. CASE i # Len(f) + 1
    <3>1. i \in DOMAIN f /\ g[i] = f[i] /\ i # Len(g) /\ (i # 1 => i - 1 \in 1 .. Len(f))
      BY <2>1, <2>3, <1>13
    <3>2. i # 1 => g[i - 1] = f[i - 1]  BY <3>1, <1>13
    <3>3. FrameHolds(f, n, i)  BY <3>1, <1>5
    <3> QED  BY <3>1, <3>2, <3>3, <1>4 DEF FrameHolds
  <2> QED  BY <2>2, <2>3
<1>19. PrefixHolds(g, None, q)  BY <1>11, <1>13, <1>16 DEF PrefixHolds
<1>20. s = {x \in DOMAIN heap : x \in Ahead(Trail(g), None) => x = None}
  <2>1. \A x \in DOMAIN heap : x # None  BY NodeFacts
  <2> QED  BY <2>1, <1>5, <1>15
<1>21. CheckerHolds(visit')
  <2>1. q \in ByteString  BY <1>6, <1>16
  <2> QED  BY <2>1, <1>3, <1>5, <1>12, <1>15, <1>17, <1>18, <1>19, <1>20, CheckerMade
<1> QED  BY <1>17, <1>21, CheckerFields

(* What CheckerHolds says of a record, by its fields. *)
CheckerState(n, f, p, s, c) ==
  /\ n \in DOMAIN heap \cup {None} /\ f \in Seq(CheckerFrame) /\ p \in ByteString /\ c \in Nat
  /\ TrailHolds(Trail(f), n)
  /\ \A i \in DOMAIN f : FrameHolds(f, n, i)
  /\ PrefixHolds(f, n, p)
  /\ s = {x \in DOMAIN heap : x \in Ahead(Trail(f), n) => x = n}
  /\ c = Cardinality(Walked(Trail(f), n))
  /\ \A x \in Walked(Trail(f), n) : IsInner(x) => ~Overfull(x)

LEMMA CheckerParts ==
  ASSUME NEW v, CheckerHolds(v)
  PROVE  \E n, f, p, s, c : v = CheckerRecord(n, f, p, s, c) /\ CheckerState(n, f, p, s, c)
<1>1. v \in CheckerVisit  BY DEF CheckerHolds
<1>2. v = CheckerRecord(v.node, v.frames, v.current_key_prefix, v.seen_nodes, v.count)
  BY <1>1, CheckerIsRecord
<1>3. CheckerState(v.node, v.frames, v.current_key_prefix, v.seen_nodes, v.count)
  BY <1>1, CheckerIsRecord DEF CheckerHolds, CheckerState
<1> QED  BY <1>2, <1>3

LEMMA CheckerStands ==
  ASSUME NEW n, NEW f, NEW p, NEW s, NEW c, CheckerState(n, f, p, s, c),
         NEW v, v = CheckerRecord(n, f, p, s, c)
  PROVE  v.pc = "visiting" /\ v.visitor = "WellFormedChecker" /\ CheckerHolds(v)
BY CheckerMade, CheckerFields DEF CheckerState

LEMMA FrameStays ==
  ASSUME NEW f, NEW node, NEW g, NEW next, NEW i, FrameHolds(f, node, i),
         i # 1 => g[i - 1].node = f[i - 1].node, g[i].node = f[i].node,
         g[i].original_key_prefix_len = f[i].original_key_prefix_len,
         g[i].num_children + Len(g[i].todo) + (IF i = Len(g) /\ next = None THEN 0 ELSE 1)
           = f[i].num_children + Len(f[i].todo) + (IF i = Len(f) /\ node = None THEN 0 ELSE 1)
  PROVE  FrameHolds(g, next, i)
BY DEF FrameHolds

(* The walk is in the loop of the frame on top. *)
LEMMA TopFacts ==
  ASSUME TreeInvariant, NEW f \in Seq(CheckerFrame), TrailHolds(Trail(f), None),
         NEW top, top = Last(f), NEW rest, rest = Front(f), NEW stop, stop = StopOf(top)
  PROVE  /\ f # << >> /\ top \in CheckerFrame /\ rest \in Seq(CheckerFrame)
         /\ Len(f) \in Nat /\ Len(f) >= 1 /\ DOMAIN f = 1 .. Len(f) /\ top = f[Len(f)]
         /\ Len(rest) = Len(f) - 1 /\ \A i \in 1 .. Len(f) - 1 : rest[i] = f[i]
         /\ Trail(f) = Append(Trail(rest), stop) /\ Trail(rest) \in Seq(Stop)
         /\ stop \in Stop /\ stop.node = top.node /\ stop.todo = top.todo /\ StopHolds(stop)
         /\ top.node \in Inners(heap) /\ top.node.at \in ByteString /\ Len(top.node.at) \in Nat
<1>1. f # << >>
  <2>1. Trail(f) # << >>  BY DEF TrailHolds
  <2> QED  BY <2>1, CheckerFrames, TrailFacts
<1>2. /\ top \in CheckerFrame /\ rest \in Seq(CheckerFrame)
      /\ Trail(f) = Append(Trail(rest), stop) /\ Trail(rest) \in Seq(Stop) /\ stop \in Stop
  BY <1>1, CheckerFrames, TrailSplit
<1>3. /\ Len(f) \in Nat /\ Len(f) >= 1 /\ DOMAIN f = 1 .. Len(f) /\ top = f[Len(f)]
      /\ Len(rest) = Len(f) - 1 /\ \A i \in 1 .. Len(f) - 1 : rest[i] = f[i]
  BY <1>1, PopFacts
<1>4. stop.node = top.node /\ stop.todo = top.todo  BY DEF StopOf
<1>5. StopHolds(stop)
  <2>1. TrailHolds(Append(Trail(rest), stop), None)  BY <1>2
  <2> QED  BY <2>1, <1>2, PushedTrail
<1>6. top.node \in Inners(heap) /\ top.node.at \in ByteString /\ Len(top.node.at) \in Nat
  BY <1>2, <1>4, <1>5, StopType
<1> QED  BY <1>1, <1>2, <1>3, <1>4, <1>5, <1>6

LEMMA EnterChildKeeps ==
  ASSUME TreeInvariant, CheckerHolds(visit), EnterChild
  PROVE  visit'.pc = "visiting" /\ visit'.visitor = "WellFormedChecker" /\ CheckerHolds(visit')
<1>1. PICK n, f, p, s, c : visit = CheckerRecord(n, f, p, s, c) /\ CheckerState(n, f, p, s, c)
  BY CheckerParts
<1>2. /\ visit.node = n /\ visit.frames = f /\ visit.current_key_prefix = p
      /\ visit.seen_nodes = s /\ visit.count = c
  BY <1>1, CheckerFields
<1>3. n = None  BY <1>2 DEF EnterChild
<1>4. /\ f \in Seq(CheckerFrame) /\ TrailHolds(Trail(f), None) /\ PrefixHolds(f, None, p)
      /\ s = {x \in DOMAIN heap : x \in Ahead(Trail(f), None) => x = None}
      /\ c = Cardinality(Walked(Trail(f), None)) /\ c \in Nat /\ p \in ByteString
      /\ \A i \in DOMAIN f : FrameHolds(f, None, i)
      /\ \A x \in Walked(Trail(f), None) : IsInner(x) => ~Overfull(x)
  BY <1>1, <1>3 DEF CheckerState
<1>5. PICK top, rest, stop : top = Last(f) /\ rest = Front(f) /\ stop = StopOf(top)  OBVIOUS
<1>6. /\ f # << >> /\ top \in CheckerFrame /\ rest \in Seq(CheckerFrame)
      /\ Len(f) \in Nat /\ Len(f) >= 1 /\ DOMAIN f = 1 .. Len(f) /\ top = f[Len(f)]
      /\ Len(rest) = Len(f) - 1 /\ \A i \in 1 .. Len(f) - 1 : rest[i] = f[i]
      /\ Trail(f) = Append(Trail(rest), stop) /\ Trail(rest) \in Seq(Stop)
      /\ stop \in Stop /\ stop.node = top.node /\ stop.todo = top.todo /\ StopHolds(stop)
      /\ top.node \in Inners(heap) /\ top.node.at \in ByteString /\ Len(top.node.at) \in Nat
  BY <1>4, <1>5, TopFacts
<1>7. PICK b, child, next : /\ b = Head(top.todo) /\ child = Child(top.node, b)
                            /\ next = [node |-> top.node, todo |-> Tail(top.todo)]
  OBVIOUS
<1>8. top.todo # << >>  BY <1>2, <1>5 DEF EnterChild, Top
<1>9. /\ next \in Stop /\ b \in ChildBytes(top.node)
      /\ Len(next.todo) \in Nat /\ Len(top.todo) = Len(next.todo) + 1
      /\ child \in DOMAIN heap /\ IsPrefix(Append(top.node.at, b), child.at)
  <2>1. /\ stop \in Stop /\ StopHolds(stop) /\ stop.todo # << >> /\ b = Head(stop.todo)
        /\ next = [node |-> stop.node, todo |-> Tail(stop.todo)] /\ child = Child(stop.node, b)
    BY <1>6, <1>7, <1>8
  <2>2. /\ next \in Stop /\ b \in ChildBytes(stop.node)
        /\ Len(next.todo) \in Nat /\ Len(stop.todo) = Len(next.todo) + 1
        /\ child \in DOMAIN heap /\ IsPrefix(Append(stop.node.at, b), child.at)
    BY <2>1, NextStop
  <2> QED  BY <2>2, <1>6
<1>10. /\ TrailHolds(Append(Trail(rest), next), child) /\ child \in Ahead(Trail(f), None)
       /\ Ahead(Append(Trail(rest), next), child) = Ahead(Trail(f), None)
       /\ Walked(Append(Trail(rest), next), child) = Walked(Trail(f), None)
  <2>1. TrailHolds(Append(Trail(rest), stop), None)  BY <1>4, <1>6
  <2>2. /\ stop.todo # << >> /\ next = [node |-> stop.node, todo |-> Tail(stop.todo)]
        /\ child = Child(stop.node, Head(stop.todo))
    BY <1>6, <1>7, <1>8
  <2>3. /\ TrailHolds(Append(Trail(rest), next), child)
        /\ child \in Ahead(Append(Trail(rest), stop), None)
        /\ Ahead(Append(Trail(rest), next), child) = Ahead(Append(Trail(rest), stop), None)
        /\ Walked(Append(Trail(rest), next), child) = Walked(Append(Trail(rest), stop), None)
    BY <2>1, <2>2, <1>6, WalkDescends
  <2> QED  BY <2>3, <1>6
<1>11. PICK frame : frame = [top EXCEPT !.todo = Tail(@)]  OBVIOUS
<1>12. /\ frame \in CheckerFrame /\ StopOf(frame) = next /\ frame.node = top.node
       /\ frame.todo = next.todo /\ frame.num_children = top.num_children
       /\ frame.original_key_prefix_len = top.original_key_prefix_len
       /\ top.num_children \in Nat
  <2>1. top = [node |-> top.node, todo |-> top.todo,
               original_key_prefix_len |-> top.original_key_prefix_len,
               num_children |-> top.num_children]
    BY <1>6, CheckerFrames
  <2>2. frame = [node |-> top.node, todo |-> Tail(top.todo),
                 original_key_prefix_len |-> top.original_key_prefix_len,
                 num_children |-> top.num_children]
    BY <2>1, <1>11
  <2>3. Tail(top.todo) \in Seq(Byte)  BY <1>7, <1>9 DEF Stop
  <2>4. /\ top.node \in DOMAIN heap /\ top.original_key_prefix_len \in Nat /\ top.num_children \in Nat
    BY <1>6, CheckerFrames
  <2> QED  BY <2>2, <2>3, <2>4, <1>7 DEF CheckerFrame, StopOf
<1>13. PICK g \in Seq(CheckerFrame) : g = Append(rest, frame)  BY <1>6, <1>12, PushFacts
<1>14. /\ Len(g) = Len(f) /\ DOMAIN g = 1 .. Len(f) /\ g # << >>
       /\ \A i \in 1 .. Len(f) - 1 : g[i] = f[i]
       /\ g[Len(f)] = frame /\ Last(g) = frame
  <2> rest \in Seq(CheckerFrame) /\ frame \in CheckerFrame  BY <1>6, <1>12
  <2>1. /\ Append(rest, frame) # << >> /\ Len(Append(rest, frame)) = Len(rest) + 1
        /\ DOMAIN Append(rest, frame) = 1 .. Len(rest) + 1
        /\ \A i \in 1 .. Len(rest) : Append(rest, frame)[i] = rest[i]
        /\ Append(rest, frame)[Len(rest) + 1] = frame /\ Last(Append(rest, frame)) = frame
    BY PushFacts
  <2> QED  BY <2>1, <1>6, <1>13
<1>15. Trail(g) = Append(Trail(rest), next)  BY <1>6, <1>12, <1>13, TrailPush, CheckerFrames
<1>16. child \notin s /\ child # None
  <2>1. child # None  BY <1>9, NodeFacts
  <2> QED  BY <2>1, <1>4, <1>10
<1>17. PICK q \in ByteString : q = Append(p, b)
  <2>1. b \in Byte  BY <1>6, <1>9, InnerFacts
  <2>2. p \in Seq(Byte)  BY <1>4 DEF ByteString
  <2>3. Append(p, b) \in Seq(Byte)  BY <2>1, <2>2
  <2> QED  BY <2>3 DEF ByteString
<1>18. p = top.node.at  BY <1>4, <1>5 DEF PrefixHolds
<1>19. visit' = CheckerRecord(child, g, q, s \cup {child}, c)
  <2>1. visit' = SetPrefix(SetSeen(SetFrames(SetNode(visit, child), g), s \cup {child}), q)
    BY <1>2, <1>5, <1>7, <1>11, <1>13, <1>16, <1>17
       DEF EnterChild, SetPrefix, SetSeen, SetFrames, SetNode, Top, WithTop
  <2> QED  BY <2>1, <1>1, CheckerUpdates
<1>20. \A i \in DOMAIN g : FrameHolds(g, child, i)
  <2>1. TAKE i \in DOMAIN g
  <2>2. FrameHolds(f, None, i) /\ i \in 1 .. Len(f)  BY <1>4, <1>6, <1>14
  <2>3. i # 1 => i - 1 \in 1 .. Len(f) - 1 /\ g[i - 1] = f[i - 1]  BY <2>2, <1>6, <1>14
  <2>4. CASE i = Len(f)
    <3>1. g[i] = frame /\ f[i] = top  BY <2>4, <1>6, <1>14
    <3>2. top.num_children + Len(next.todo) + 1 = top.num_children + Len(top.todo) + 0
      BY <1>9, <1>12
    <3>3. g[i].num_children + Len(g[i].todo) + (IF i = Len(g) /\ child = None THEN 0 ELSE 1)
           = f[i].num_children + Len(f[i].todo) + (IF i = Len(f) /\ None = None THEN 0 ELSE 1)
      BY <2>4, <3>1, <3>2, <1>12, <1>16
    <3> QED  BY <2>2, <2>3, <3>1, <3>3, <1>12, FrameStays
  <2>5. CASE i # Len(f)
    <3>1. g[i] = f[i]  BY <2>2, <2>5, <1>6, <1>14
    <3>2. g[i].num_children + Len(g[i].todo) + (IF i = Len(g) /\ child = None THEN 0 ELSE 1)
           = f[i].num_children + Len(f[i].todo) + (IF i = Len(f) /\ None = None THEN 0 ELSE 1)
      BY <2>5, <3>1, <1>14
    <3> QED  BY <2>2, <2>3, <3>1, <3>2, FrameStays
  <2> QED  BY <2>4, <2>5
<1>21. PrefixHolds(g, child, q)
  <2>1. IsPrefix(q, child.at)  BY <1>9, <1>17, <1>18
  <2>2. Len(q) = Len(top.node.at) + 1  BY <1>4, <1>17, <1>18 DEF ByteString
  <2>3. IsInner(child) => Represents(heap[child].header, DropFirst(child.at, Len(q)))
    BY <2>2, <1>6, <1>7, <1>9 DEF TreeInvariant, PrefixesAreFaithful
  <2> QED  BY <2>1, <2>2, <2>3, <1>12, <1>14, <1>16 DEF PrefixHolds
<1>22. s \cup {child} = {x \in DOMAIN heap : x \in Ahead(Trail(g), child) => x = child}
  <2>1. \A x \in DOMAIN heap : x # None  BY NodeFacts
  <2>2. Ahead(Trail(g), child) = Ahead(Trail(f), None)  BY <1>10, <1>15
  <2>3. \A x : x \in s <=> x \in DOMAIN heap /\ x \notin Ahead(Trail(f), None)  BY <2>1, <1>4
  <2> QED  BY <2>2, <2>3, <1>9
<1>23. CheckerState(child, g, q, s \cup {child}, c)
  <2>1. Walked(Trail(g), child) = Walked(Trail(f), None) /\ TrailHolds(Trail(g), child)
    BY <1>10, <1>15
  <2> QED  BY <2>1, <1>4, <1>9, <1>13, <1>17, <1>20, <1>21, <1>22 DEF CheckerState
<1> QED  BY <1>19, <1>23, CheckerStands

(* The visit of x has ended: x is in none of the three parts any more but  *)
(* the first.                                                              *)
LEMMA ReturnedKeeps ==
  ASSUME TreeInvariant, NEW n, NEW f \in Seq(CheckerFrame), NEW p \in ByteString, NEW s,
         NEW c \in Nat, NEW x \in DOMAIN heap,
         f # << >> => TrailHolds(Trail(f), None),
         f # << >> => Front(p) = Last(f).node.at,
         f # << >> => Front(p) \in ByteString,
         \A i \in DOMAIN f : FrameHolds(f, x, i),
         s = {y \in DOMAIN heap : y \notin Ahead(Trail(f), None)},
         c = Cardinality(Walked(Trail(f), None)),
         \A y \in Walked(Trail(f), None) : IsInner(y) => ~Overfull(y),
         NEW w, w = Returned(CheckerRecord(n, f, p, s, c))
  PROVE  /\ w.visitor = "WellFormedChecker"
         /\ \/ w.pc = "visiting" /\ CheckerHolds(w)
            \/ w.pc = "done" /\ w.result = CheckerAnswer
<1>r. PICK r : r = CheckerRecord(n, f, p, s, c)  OBVIOUS
<1>a. r.frames = f /\ r.count = c /\ r.current_key_prefix = p /\ w = Returned(r)  BY <1>r, CheckerFields
<1>1. CASE f = << >>
  <2>1. w = [CheckerRecord(n, f, p, s, c) EXCEPT !.pc = "done", !.node = None, !.result = Passed(c)]
    BY <1>r, <1>1, <1>a DEF Returned
  <2>2. w.pc = "done" /\ w.visitor = "WellFormedChecker" /\ w.result = Passed(c)
    BY <2>1 DEF CheckerRecord
  <2>3. Trail(f) = << >>  BY <1>1 DEF Trail
  <2>4. Walked(Trail(f), None) = DOMAIN heap  BY <2>3, WalkEnds
  <2>5. ~SomeOverfull
    <3>1. \A y \in Inners(heap) : y \in DOMAIN heap /\ IsInner(y)  BY DEF Inners
    <3> QED  BY <3>1, <2>4 DEF SomeOverfull
  <2>6. CheckerAnswer = Passed(Cardinality(DOMAIN heap))  BY <2>5 DEF CheckerAnswer
  <2> QED  BY <2>2, <2>4, <2>6
<1>2. CASE f # << >>
  <2>1. PICK top, rest, stop : top = Last(f) /\ rest = Front(f) /\ stop = StopOf(top)  OBVIOUS
  <2>2. /\ top \in CheckerFrame /\ rest \in Seq(CheckerFrame)
        /\ Len(f) \in Nat /\ Len(f) >= 1 /\ DOMAIN f = 1 .. Len(f) /\ top = f[Len(f)]
        /\ Len(rest) = Len(f) - 1 /\ \A i \in 1 .. Len(f) - 1 : rest[i] = f[i]
        /\ Trail(f) = Append(Trail(rest), stop)
    BY <1>2, <2>1, TopFacts
  <2>3. PICK frame : frame = ChildCounted(top)  OBVIOUS
  <2>4. /\ frame \in CheckerFrame /\ StopOf(frame) = stop /\ frame.node = top.node
        /\ frame.todo = top.todo /\ frame.num_children = top.num_children + 1
        /\ frame.original_key_prefix_len = top.original_key_prefix_len
        /\ top.num_children \in Nat /\ Len(top.todo) \in Nat
    <3>1. top = [node |-> top.node, todo |-> top.todo,
                 original_key_prefix_len |-> top.original_key_prefix_len,
                 num_children |-> top.num_children]
      BY <2>2, CheckerFrames
    <3>2. frame = [node |-> top.node, todo |-> top.todo,
                   original_key_prefix_len |-> top.original_key_prefix_len,
                   num_children |-> top.num_children + 1]
      BY <3>1, <2>3 DEF ChildCounted
    <3>3. /\ top.node \in DOMAIN heap /\ top.original_key_prefix_len \in Nat
          /\ top.num_children \in Nat /\ top.todo \in Seq(Byte)
      BY <2>2, CheckerFrames
    <3> QED  BY <3>2, <3>3, <2>1 DEF CheckerFrame, StopOf
  <2>5. PICK g \in Seq(CheckerFrame) : g = Append(rest, frame)  BY <2>2, <2>4, PushFacts
  <2>6. /\ Len(g) = Len(f) /\ DOMAIN g = 1 .. Len(f) /\ g # << >>
        /\ \A i \in 1 .. Len(f) - 1 : g[i] = f[i]
        /\ g[Len(f)] = frame /\ Last(g) = frame
    <3> rest \in Seq(CheckerFrame) /\ frame \in CheckerFrame  BY <2>2, <2>4
    <3>1. /\ Append(rest, frame) # << >> /\ Len(Append(rest, frame)) = Len(rest) + 1
          /\ DOMAIN Append(rest, frame) = 1 .. Len(rest) + 1
          /\ \A i \in 1 .. Len(rest) : Append(rest, frame)[i] = rest[i]
          /\ Append(rest, frame)[Len(rest) + 1] = frame /\ Last(Append(rest, frame)) = frame
      BY PushFacts
    <3> QED  BY <3>1, <2>2, <2>5
  <2>7. Trail(g) = Trail(f)
    <3>1. Trail(g) = Append(Trail(rest), stop)  BY <2>2, <2>4, <2>5, TrailPush, CheckerFrames
    <3> QED  BY <3>1, <2>2
  <2>8. w = CheckerRecord(None, g, Front(p), s, c)
    <3>1. w = [r EXCEPT !.node = None,
                        !.frames = Append(Front(r.frames), ChildCounted(Last(r.frames))),
                        !.current_key_prefix = Front(r.current_key_prefix)]
      BY <1>2, <1>a DEF Returned
    <3>2. w = [r EXCEPT !.node = None, !.frames = g, !.current_key_prefix = Front(p)]
      BY <3>1, <1>a, <2>1, <2>3, <2>5
    <3>3. w = SetPrefix(SetFrames(SetNode(r, None), g), Front(p))
      BY <3>2 DEF SetPrefix, SetFrames, SetNode
    <3> QED  BY <3>3, <1>r, CheckerUpdates
  <2>9. x # None  BY NodeFacts
  <2>10. \A i \in DOMAIN g : FrameHolds(g, None, i)
    <3>1. TAKE i \in DOMAIN g
    <3>2. FrameHolds(f, x, i) /\ i \in 1 .. Len(f)  BY <2>2, <2>6
    <3>3. i # 1 => i - 1 \in 1 .. Len(f) - 1 /\ g[i - 1] = f[i - 1]  BY <3>2, <2>2, <2>6
    <3>4. CASE i = Len(f)
      <4>1. g[i] = frame /\ f[i] = top  BY <3>4, <2>2, <2>6
      <4>2. (top.num_children + 1) + Len(top.todo) + 0 = top.num_children + Len(top.todo) + 1
        BY <2>4
      <4>3. g[i].num_children + Len(g[i].todo) + (IF i = Len(g) /\ None = None THEN 0 ELSE 1)
             = f[i].num_children + Len(f[i].todo) + (IF i = Len(f) /\ x = None THEN 0 ELSE 1)
        BY <3>4, <4>1, <4>2, <2>4, <2>6, <2>9
      <4> QED  BY <3>2, <3>3, <4>1, <4>3, <2>4, FrameStays
    <3>5. CASE i # Len(f)
      <4>1. g[i] = f[i]  BY <3>2, <3>5, <2>2, <2>6
      <4>2. g[i].num_children + Len(g[i].todo) + (IF i = Len(g) /\ None = None THEN 0 ELSE 1)
             = f[i].num_children + Len(f[i].todo) + (IF i = Len(f) /\ x = None THEN 0 ELSE 1)
        BY <3>5, <4>1, <2>6
      <4> QED  BY <3>2, <3>3, <4>1, <4>2, FrameStays
    <3> QED  BY <3>4, <3>5
  <2>11. PrefixHolds(g, None, Front(p))
    <3>1. Front(p) = Last(g).node.at  BY <1>2, <2>1, <2>4, <2>6
    <3> QED  BY <3>1 DEF PrefixHolds
  <2>12. s = {y \in DOMAIN heap : y \in Ahead(Trail(g), None) => y = None}
    <3>1. \A y \in DOMAIN heap : y # None  BY NodeFacts
    <3>2. \A y : y \in s <=> y \in DOMAIN heap /\ y \notin Ahead(Trail(g), None)  BY <2>7
    <3> QED  BY <3>1, <3>2
  <2>13. CheckerState(None, g, Front(p), s, c)
    BY <1>2, <2>5, <2>7, <2>10, <2>11, <2>12 DEF CheckerState
  <2> QED  BY <2>8, <2>13, CheckerStands
<1> QED  BY <1>1, <1>2

(* One more node the walk has done with. *)
LEMMA OneMore ==
  ASSUME TreeInvariant, NEW N \in SUBSET DOMAIN heap, NEW x \in DOMAIN heap, x \notin N
  PROVE  Cardinality(N \cup {x}) = Cardinality(N) + 1 /\ Cardinality(N) \in Nat
<1>1. IsFiniteSet(N)  BY FS_Subset DEF TreeInvariant, HeapIsFinite
<1> QED  BY <1>1, FS_AddElement, FS_CardinalityType

LEMMA VisitLeafKeeps ==
  ASSUME TreeInvariant, CheckerHolds(visit), VisitLeaf
  PROVE  /\ visit'.visitor = "WellFormedChecker"
         /\ \/ visit'.pc = "visiting" /\ CheckerHolds(visit')
            \/ visit'.pc = "done" /\ visit'.result = CheckerAnswer
<1>1. PICK n, f, p, s, c : visit = CheckerRecord(n, f, p, s, c) /\ CheckerState(n, f, p, s, c)
  BY CheckerParts
<1>2. /\ visit.node = n /\ visit.frames = f /\ visit.current_key_prefix = p
      /\ visit.seen_nodes = s /\ visit.count = c
  BY <1>1, CheckerFields
<1>3. n # None /\ IsLeaf(n)  BY <1>2 DEF VisitLeaf
<1>4. /\ f \in Seq(CheckerFrame) /\ TrailHolds(Trail(f), n) /\ PrefixHolds(f, n, p)
      /\ s = {x \in DOMAIN heap : x \in Ahead(Trail(f), n) => x = n}
      /\ c = Cardinality(Walked(Trail(f), n)) /\ c \in Nat /\ p \in ByteString
      /\ \A i \in DOMAIN f : FrameHolds(f, n, i)
      /\ \A x \in Walked(Trail(f), n) : IsInner(x) => ~Overfull(x)
  BY <1>1, <1>3 DEF CheckerState
<1>5. Trail(f) = << >> <=> f = << >>  BY <1>4, CheckerFrames, TrailFacts
<1>6. /\ n \in Leaves(heap) /\ n \in DOMAIN heap
      /\ f # << >> => TrailHolds(Trail(f), None)
      /\ Ahead(Trail(f), None) = Ahead(Trail(f), n) \ {n}
      /\ n \in Ahead(Trail(f), n)
      /\ n \notin Walked(Trail(f), n)
      /\ Walked(Trail(f), None) = Walked(Trail(f), n) \cup {n}
  BY <1>3, <1>4, <1>5, WalkPassesLeaf
<1>7. heap[n].key = n.at /\ ~IsInner(n)  BY <1>6, LeafFacts, NodeFacts
<1>8. IsPrefix(p, n.at)  BY <1>3, <1>4, PrefixFacts
<1>9. visit' = Returned(CheckerRecord(n, f, p, s, c + 1))
  <2>1. visit' = Returned(SetCount(visit, c + 1))
    BY <1>2, <1>7, <1>8 DEF VisitLeaf, SetCount
  <2> QED  BY <2>1, <1>1, CheckerUpdates
<1>10. f # << >> => Front(p) = Last(f).node.at /\ Last(f).node.at \in ByteString
  <2>1. SUFFICES ASSUME f # << >> PROVE Front(p) = Last(f).node.at /\ Last(f).node.at \in ByteString
    OBVIOUS
  <2>2. PICK top, stop : top = Last(f) /\ stop = StopOf(top)  OBVIOUS
  <2>3. /\ top \in CheckerFrame /\ stop \in Stop /\ stop.node = top.node /\ StopHolds(stop)
        /\ Trail(f) = Append(Trail(Front(f)), stop) /\ Trail(Front(f)) \in Seq(Stop)
        /\ top.node.at \in ByteString
    BY <2>1, <2>2, <1>4, <1>6, TopFacts
  <2>4. Passes(stop, n)
    <3>1. TrailHolds(Append(Trail(Front(f)), stop), n)  BY <2>3, <1>4
    <3> QED  BY <3>1, <2>3, <1>3, PushedTrail
  <2>5. IsPrefix(top.node.at, n.at)  BY <2>3, <2>4, <1>6, PassedFacts
  <2>6. Len(p) = Len(top.node.at) + 1  BY <2>1, <2>2, <1>3, <1>4, PrefixFacts
  <2>7. n.at \in ByteString  BY <1>6, NodeFacts
  <2>8. p \in ByteString /\ IsPrefix(p, n.at)  BY <1>4, <1>8
  <2>9. top.node.at \in ByteString  BY <2>3
  <2>10. Front(p) = top.node.at  BY <2>5, <2>6, <2>7, <2>8, <2>9, FrontIs
  <2> QED  BY <2>2, <2>9, <2>10
<1>11. s = {x \in DOMAIN heap : x \notin Ahead(Trail(f), None)}
  <2>1. \A x : x \in s <=> x \in DOMAIN heap /\ (x \in Ahead(Trail(f), n) => x = n)  BY <1>4
  <2>2. \A x : x \in Ahead(Trail(f), None) <=> x \in Ahead(Trail(f), n) /\ x # n  BY <1>6
  <2> QED  BY <2>1, <2>2
<1>12. c + 1 = Cardinality(Walked(Trail(f), None)) /\ c + 1 \in Nat
  <2>1. Walked(Trail(f), n) \in SUBSET DOMAIN heap  BY DEF Walked
  <2> QED  BY <2>1, <1>4, <1>6, OneMore
<1>13. \A x \in Walked(Trail(f), None) : IsInner(x) => ~Overfull(x)  BY <1>4, <1>6, <1>7
<1>14. f # << >> => Front(p) \in ByteString  BY <1>10
<1>15. f # << >> => Front(p) = Last(f).node.at  BY <1>10
<1>16. PICK w : w = visit'  OBVIOUS
<1>17. PICK count \in Nat : count = c + 1  BY <1>12
<1>18. /\ w.visitor = "WellFormedChecker"
       /\ \/ w.pc = "visiting" /\ CheckerHolds(w)
          \/ w.pc = "done" /\ w.result = CheckerAnswer
  <2>1. w = Returned(CheckerRecord(n, f, p, s, count))  BY <1>9, <1>16, <1>17
  <2>2. count = Cardinality(Walked(Trail(f), None))  BY <1>12, <1>17
  <2>3. /\ f \in Seq(CheckerFrame) /\ p \in ByteString
        /\ \A i \in DOMAIN f : FrameHolds(f, n, i)
    BY <1>4
  <2>4. n \in DOMAIN heap /\ (f # << >> => TrailHolds(Trail(f), None))  BY <1>6
  <2> QED  BY <2>1, <2>2, <2>3, <2>4, <1>11, <1>13, <1>14, <1>15, ReturnedKeeps
<1> QED  BY <1>16, <1>18

(* The checker's range leaves out the full Node256, and no other.          *)
LEMMA RangeRefuses ==
  ASSUME TreeInvariant, NEW n \in Inners(heap)
  PROVE  Cardinality(ChildBytes(n)) \in CapacityRange(n.type) <=> ~Overfull(n)
<1>1. PICK k \in Nat : k = Cardinality(ChildBytes(n))
  BY InnerFacts, FS_CardinalityType
<1>2. NumChildren(heap[n]) = k  BY <1>1, InnerFacts
<1>3. k >= 2 /\ k <= UpperCapacity[n.type] /\ ~ShouldShrink(n.type, k)
  BY <1>1, <1>2 DEF TreeInvariant, NodesFitTheirType
<1>4. n.type \in InnerType  BY NodeFacts DEF Inners, IsInner
<1>5. UpperCapacity[n.type] \in Nat /\ UpperCapacity["Node48"] \in Nat
      /\ UpperCapacity["Node4"] \in Nat /\ UpperCapacity["Node16"] \in Nat /\ UpperCapacity["Node256"] \in Nat
  BY <1>4, CapacityAssumption DEF InnerType
<1>6. CASE n.type = "Node256"
  <2>1. CapacityRange(n.type) = UpperCapacity["Node48"] + 1 .. UpperCapacity["Node256"] - 1
    BY <1>6 DEF CapacityRange
  <2>2. k >= UpperCapacity["Node48"] + 1
    BY <1>3, <1>5, <1>6 DEF ShouldShrink, NextSmaller
  <2>3. Overfull(n) <=> k >= UpperCapacity["Node256"]  BY <1>2, <1>6 DEF Overfull, IsFull
  <2> QED  BY <1>1, <1>5, <2>1, <2>2, <2>3
<1>7. CASE n.type # "Node256"
  <2>1. ~Overfull(n)  BY <1>7 DEF Overfull
  <2>2. CASE n.type = "Node4"
    <3>1. CapacityRange(n.type) = 1 .. UpperCapacity["Node4"]  BY <2>2 DEF CapacityRange
    <3> QED  BY <1>1, <1>3, <1>5, <2>1, <2>2, <3>1
  <2>3. CASE n.type # "Node4"
    <3>1. CapacityRange(n.type) = UpperCapacity[NextSmaller[n.type]] + 1 .. UpperCapacity[n.type]
      BY <1>4, <1>7, <2>3 DEF CapacityRange, InnerType
    <3>2. NextSmaller[n.type] \in InnerType  BY <1>4, <2>3 DEF NextSmaller, InnerType
    <3>3. UpperCapacity[NextSmaller[n.type]] \in Nat  BY <3>2, CapacityAssumption
    <3>4. k >= UpperCapacity[NextSmaller[n.type]] + 1
      BY <1>3, <2>3, <3>3 DEF ShouldShrink
    <3> QED  BY <1>1, <1>3, <1>5, <2>1, <3>1, <3>3, <3>4
  <2> QED  BY <2>2, <2>3
<1> QED  BY <1>6, <1>7

(* The frame on top, when all children are visited. *)
LEMMA TopIsCounted ==
  ASSUME TreeInvariant, NEW f \in Seq(CheckerFrame), TrailHolds(Trail(f), None),
         \A i \in DOMAIN f : FrameHolds(f, None, i), Last(f).todo = << >>
  PROVE  /\ Last(f).num_children = Cardinality(ChildBytes(Last(f).node))
         /\ Last(f).original_key_prefix_len =
              IF Len(f) = 1 THEN 0 ELSE Len(f[Len(f) - 1].node.at) + 1
<1>1. /\ Last(f) \in CheckerFrame /\ Len(f) \in Nat /\ Len(f) >= 1 /\ DOMAIN f = 1 .. Len(f)
      /\ Last(f) = f[Len(f)]
  BY TopFacts
<1>2. FrameHolds(f, None, Len(f))  BY <1>1
<1>3. Last(f).num_children \in Nat  BY <1>1, CheckerFrames
<1>4. f[Len(f)].num_children + Len(f[Len(f)].todo) + 0 = Cardinality(ChildBytes(f[Len(f)].node))
  BY <1>2 DEF FrameHolds
<1>5. f[Len(f)].original_key_prefix_len = IF Len(f) = 1 THEN 0 ELSE Len(f[Len(f) - 1].node.at) + 1
  BY <1>2 DEF FrameHolds
<1> QED  BY <1>1, <1>3, <1>4, <1>5

LEMMA LeaveInnerKeeps ==
  ASSUME TreeInvariant, CheckerHolds(visit), LeaveInner
  PROVE  /\ visit'.visitor = "WellFormedChecker"
         /\ \/ visit'.pc = "visiting" /\ CheckerHolds(visit')
            \/ visit'.pc = "done" /\ visit'.result = CheckerAnswer
<1>1. PICK n, f, p, s, c : visit = CheckerRecord(n, f, p, s, c) /\ CheckerState(n, f, p, s, c)
  BY CheckerParts
<1>2. /\ visit.node = n /\ visit.frames = f /\ visit.current_key_prefix = p
      /\ visit.seen_nodes = s /\ visit.count = c
  BY <1>1, CheckerFields
<1>3. n = None  BY <1>2 DEF LeaveInner
<1>4. /\ f \in Seq(CheckerFrame) /\ TrailHolds(Trail(f), None) /\ PrefixHolds(f, None, p)
      /\ s = {x \in DOMAIN heap : x \in Ahead(Trail(f), None) => x = None}
      /\ c = Cardinality(Walked(Trail(f), None)) /\ c \in Nat /\ p \in ByteString
      /\ \A i \in DOMAIN f : FrameHolds(f, None, i)
      /\ \A x \in Walked(Trail(f), None) : IsInner(x) => ~Overfull(x)
  BY <1>1, <1>3 DEF CheckerState
<1>5. PICK top, rest, stop : top = Last(f) /\ rest = Front(f) /\ stop = StopOf(top)  OBVIOUS
<1>6. /\ f # << >> /\ top \in CheckerFrame /\ rest \in Seq(CheckerFrame)
      /\ Len(f) \in Nat /\ Len(f) >= 1 /\ DOMAIN f = 1 .. Len(f) /\ top = f[Len(f)]
      /\ Len(rest) = Len(f) - 1 /\ \A i \in 1 .. Len(f) - 1 : rest[i] = f[i]
      /\ Trail(f) = Append(Trail(rest), stop) /\ Trail(rest) \in Seq(Stop)
      /\ stop \in Stop /\ stop.node = top.node /\ stop.todo = top.todo /\ StopHolds(stop)
      /\ top.node \in Inners(heap) /\ top.node.at \in ByteString /\ Len(top.node.at) \in Nat
  BY <1>4, <1>5, TopFacts
<1>7. top.todo = << >>  BY <1>2, <1>5 DEF LeaveInner, Top
<1>8. PICK from : from = top.original_key_prefix_len  OBVIOUS
<1>9. /\ top.num_children = Cardinality(ChildBytes(top.node))
      /\ from = IF Len(f) = 1 THEN 0 ELSE Len(f[Len(f) - 1].node.at) + 1
  <2>1. /\ Last(f).num_children = Cardinality(ChildBytes(Last(f).node))
        /\ Last(f).original_key_prefix_len =
             IF Len(f) = 1 THEN 0 ELSE Len(f[Len(f) - 1].node.at) + 1
    BY <1>4, <1>5, <1>7, TopIsCounted
  <2> QED  BY <2>1, <1>5, <1>8
<1>10. CASE Overfull(top.node)
  <2>1. top.num_children \notin CapacityRange(top.node.type)  BY <1>6, <1>9, <1>10, RangeRefuses
  <2>2. visit' = Failed(visit, "WrongChildrenCount")  BY <2>1, <1>2, <1>5 DEF LeaveInner, Top
  <2>3. visit'.pc = "done" /\ visit'.visitor = "WellFormedChecker"
        /\ visit'.result = <<"Err", "WrongChildrenCount">>
    BY <2>2, <1>1 DEF Failed, CheckerRecord
  <2>4. CheckerAnswer = <<"Err", "WrongChildrenCount">>
    BY <1>6, <1>10 DEF CheckerAnswer, SomeOverfull
  <2> QED  BY <2>3, <2>4
<1>11. CASE ~Overfull(top.node)
  <2>1. top.num_children \in CapacityRange(top.node.type)  BY <1>6, <1>9, <1>11, RangeRefuses
  <2>2. PICK q : q = TakeFirst(p, from)  OBVIOUS
  <2>3. visit' = Returned(CheckerRecord(None, rest, q, s, c + 1))
    <3>1. visit' = Returned(SetPrefix(SetFrames(SetCount(visit, c + 1), rest), q))
      BY <2>1, <2>2, <1>2, <1>5, <1>8 DEF LeaveInner, Top, SetPrefix, SetFrames, SetCount
    <3> QED  BY <3>1, <1>1, <1>3, CheckerUpdates
  <2>4. /\ top.node \in DOMAIN heap
        /\ Trail(rest) # << >> => TrailHolds(Trail(rest), None)
        /\ Ahead(Trail(rest), None) = Ahead(Trail(f), None)
        /\ top.node \notin Walked(Trail(f), None)
        /\ Walked(Trail(rest), None) = Walked(Trail(f), None) \cup {top.node}
    <3>1. TrailHolds(Append(Trail(rest), stop), None) /\ stop.todo = << >>  BY <1>4, <1>6, <1>7
    <3>2. /\ stop.node \in DOMAIN heap
          /\ Trail(rest) # << >> => TrailHolds(Trail(rest), None)
          /\ Ahead(Trail(rest), None) = Ahead(Append(Trail(rest), stop), None)
          /\ stop.node \notin Walked(Append(Trail(rest), stop), None)
          /\ Walked(Trail(rest), None) = Walked(Append(Trail(rest), stop), None) \cup {stop.node}
      BY <3>1, <1>6, WalkLeaves
    <3> QED  BY <3>2, <1>6
  <2>5. Trail(rest) = << >> <=> rest = << >>  BY <1>6, CheckerFrames, TrailFacts
  <2>6. p = top.node.at  BY <1>4, <1>5 DEF PrefixHolds
  <2>7. q \in ByteString /\ (rest # << >> => Front(q) = Last(rest).node.at /\ Front(q) \in ByteString)
    <3>1. CASE rest = << >>
      <4>1. Len(f) = 1
        <5>1. Len(rest) = 0  BY <3>1
        <5>2. Len(rest) = Len(f) - 1 /\ Len(f) \in Nat  BY <1>6
        <5> QED  BY <5>1, <5>2
      <4>2. from = 0 /\ 0 <= Len(p)  BY <4>1, <1>4, <1>9 DEF ByteString
      <4>3. q \in ByteString  BY <4>2, <2>2, <1>4, TakeFirstFacts
      <4> QED  BY <4>3, <3>1
    <3>2. CASE rest # << >>
      <4>1. PICK prev, above : prev = Last(rest) /\ above = StopOf(prev)  OBVIOUS
      <4>2. TrailHolds(Trail(rest), None)  BY <2>4, <2>5, <3>2
      <4>3. /\ prev \in CheckerFrame /\ above \in Stop /\ above.node = prev.node /\ StopHolds(above)
            /\ Len(rest) \in Nat /\ Len(rest) >= 1 /\ prev = rest[Len(rest)]
            /\ prev.node.at \in ByteString /\ Len(prev.node.at) \in Nat
        BY <4>1, <4>2, <1>6, TopFacts
      <4>4. Passes(above, top.node)
        <5>1. Trail(rest)[Len(rest)] = above /\ Len(rest) \in DOMAIN Trail(rest)
          <6>1. /\ DOMAIN Trail(rest) = DOMAIN rest /\ DOMAIN rest = 1 .. Len(rest)
                /\ \A i \in DOMAIN rest : Trail(rest)[i] = StopOf(rest[i])
            BY <1>6, CheckerFrames, TrailFacts
          <6> QED  BY <6>1, <4>1, <4>3
        <5>2. \A i \in DOMAIN Trail(rest) : Passes(Trail(rest)[i], stop.node)
          <6>1. TrailHolds(Append(Trail(rest), stop), None)  BY <1>4, <1>6
          <6> QED  BY <6>1, <1>6, PushedTrail
        <5> QED  BY <5>1, <5>2, <1>6
      <4>5. IsPrefix(prev.node.at, p) /\ Len(prev.node.at) < Len(p)
        BY <4>3, <4>4, <2>4, <2>6, PassedFacts
      <4>6. from = Len(prev.node.at) + 1 /\ from \in Nat /\ from <= Len(p)
        <5>1. Len(f) # 1 /\ Len(f) - 1 = Len(rest) /\ f[Len(f) - 1] = prev  BY <4>3, <1>6
        <5>2. Len(p) \in Nat  BY <1>4 DEF ByteString
        <5> QED  BY <5>1, <5>2, <1>9, <4>3, <4>5
      <4>7. q \in ByteString /\ Len(q) = from /\ IsPrefix(q, p)
        BY <4>6, <2>2, <1>4, TakeFirstFacts, TakeFirstIsPrefix
      <4>8. Front(q) = prev.node.at  BY <4>3, <4>5, <4>6, <4>7, <1>4, FrontIs
      <4> QED  BY <4>1, <4>3, <4>7, <4>8
    <3> QED  BY <3>1, <3>2
  <2>8. PICK w : w = visit'  OBVIOUS
  <2>9. PICK count \in Nat : count = c + 1  BY <1>4
  <2>10. PICK x \in DOMAIN heap : x = top.node  BY <2>4
  <2>11. count = Cardinality(Walked(Trail(rest), None))
    <3>1. Walked(Trail(f), None) \in SUBSET DOMAIN heap  BY DEF Walked
    <3> QED  BY <3>1, <1>4, <2>4, <2>9, OneMore
  <2>12. \A y \in Walked(Trail(rest), None) : IsInner(y) => ~Overfull(y)
    BY <1>4, <1>11, <2>4
  <2>13. \A i \in DOMAIN rest : FrameHolds(rest, x, i)
    <3>1. TAKE i \in DOMAIN rest
    <3>2. DOMAIN rest = 1 .. Len(f) - 1  BY <1>6, CheckerFrames, TrailFacts
    <3>3. /\ i \in 1 .. Len(f) /\ i # Len(f) /\ rest[i] = f[i]
          /\ i # 1 => rest[i - 1] = f[i - 1]
      BY <3>1, <3>2, <1>6
    <3>4. FrameHolds(f, None, i)  BY <3>3, <1>4, <1>6
    <3>5. x # None  BY NodeFacts
    <3>6. rest[i].num_children + Len(rest[i].todo) + (IF i = Len(rest) /\ x = None THEN 0 ELSE 1)
           = f[i].num_children + Len(f[i].todo) + (IF i = Len(f) /\ None = None THEN 0 ELSE 1)
      BY <3>3, <3>5
    <3> QED  BY <3>3, <3>4, <3>6, FrameStays
  <2>14. s = {y \in DOMAIN heap : y \notin Ahead(Trail(rest), None)}
    <3>1. \A y \in DOMAIN heap : y # None  BY NodeFacts
    <3>2. \A y : y \in s <=> y \in DOMAIN heap /\ y \notin Ahead(Trail(rest), None)
      BY <3>1, <1>4, <2>4
    <3> QED  BY <3>2
  <2>15. /\ w.visitor = "WellFormedChecker"
         /\ \/ w.pc = "visiting" /\ CheckerHolds(w)
            \/ w.pc = "done" /\ w.result = CheckerAnswer
    <3>1. w = Returned(CheckerRecord(None, rest, q, s, count))  BY <2>3, <2>8, <2>9
    <3>2. rest \in Seq(CheckerFrame) /\ (rest # << >> => TrailHolds(Trail(rest), None))
      BY <1>6, <2>4, <2>5
    <3>3. rest # << >> => Front(q) = Last(rest).node.at  BY <2>7
    <3>4. q \in ByteString /\ (rest # << >> => Front(q) \in ByteString)  BY <2>7
    <3> QED  BY <3>1, <3>2, <3>3, <3>4, <2>11, <2>12, <2>13, <2>14, ReturnedKeeps
  <2> QED  BY <2>8, <2>15
<1> QED  BY <1>10, <1>11

-----------------------------------------------------------------------------
(***************************************************************************)
(* The folds that StatsAreExact is stated with.  What a fold over a set    *)
(* gives is defined by elements that CHOOSE takes; it does not depend on   *)
(* them when the steps commute: the fold is then the total, and taking one *)
(* element out takes its step out.                                         *)
(***************************************************************************)

AnyOf(s) == CHOOSE x \in s : TRUE

(* F[x] is the step that takes x in.  Its steps may be taken in any order. *)
Commutes(F, S, V) ==
  /\ F \in [S -> [V -> V]]
  /\ \A x, y \in S : \A v \in V : F[x][F[y][v]] = F[y][F[x][v]]

(* g gives the result for every part of S, whichever element comes last.   *)
Totals(g, F, S, V, base) ==
  /\ g \in [SUBSET S -> V] /\ g[{}] = base
  /\ \A s \in SUBSET S : \A x \in s : g[s] = F[x][g[s \ {x}]]

(* What the folds of the library do: they take the elements as they come.  *)
TakesSome(h, F, S, V, base) ==
  /\ h[{}] = base
  /\ \A s \in SUBSET S : s # {} /\ h[s \ {AnyOf(s)}] \in V => h[s] = F[AnyOf(s)][h[s \ {AnyOf(s)}]]

LEMMA SmallerSet ==
  ASSUME NEW S, IsFiniteSet(S), NEW T \in SUBSET S, NEW x \in T
  PROVE  /\ T \ {x} \in SUBSET S /\ Cardinality(T) \in Nat /\ Cardinality(T \ {x}) \in Nat
         /\ Cardinality(T \ {x}) < Cardinality(T)
<1>1. IsFiniteSet(T)  BY FS_Subset
<1>2. Cardinality(T \ {x}) = Cardinality(T) - 1 /\ IsFiniteSet(T \ {x})  BY <1>1, FS_RemoveElement
<1> QED  BY <1>1, <1>2, FS_CardinalityType

LEMMA TotalsExist ==
  ASSUME NEW S, IsFiniteSet(S), NEW V, NEW base \in V, NEW F, Commutes(F, S, V)
  PROVE  \E g : Totals(g, F, S, V, base)
<1> DEFINE Bad(T) == ~ \E g : Totals(g, F, T, V, base)
<1> DEFINE N == {k \in Nat : \E T \in SUBSET S : Cardinality(T) = k /\ Bad(T)}
<1> SUFFICES ASSUME Bad(S) PROVE FALSE  OBVIOUS
<1>1. Cardinality(S) \in N  BY FS_CardinalityType
<1>2. PICK k \in N : \A m \in N : k <= m
  <2>1. N \in SUBSET Nat /\ N # {}  BY <1>1
  <2> HIDE DEF N
  <2> QED  BY <2>1, LeastExists
<1>3. PICK T \in SUBSET S : Cardinality(T) = k /\ Bad(T)  OBVIOUS
<1>4. CASE T = {}
  <2>1. PICK g : g = [s \in SUBSET T |-> base]  OBVIOUS
  <2>2. Totals(g, F, T, V, base)  BY <2>1, <1>4 DEF Totals
  <2> QED  BY <2>2, <1>3
<1>5. CASE T # {}
  <2>1. PICK y : y \in T  BY <1>5
  <2>2. PICK U : U = T \ {y}  OBVIOUS
  <2>3. U \in SUBSET S /\ Cardinality(U) \in Nat /\ Cardinality(U) < k
    BY <1>3, <2>1, <2>2, SmallerSet
  <2>4. Cardinality(U) \notin N
    <3>1. k \in Nat /\ k \in N  BY <1>2
    <3> HIDE DEF N
    <3> QED  BY <3>1, <2>3, <1>2
  <2>5. PICK g : Totals(g, F, U, V, base)
    <3>1. ~Bad(U)  BY <2>3, <2>4
    <3> QED  BY <3>1
  <2>6. /\ g \in [SUBSET U -> V] /\ g[{}] = base
        /\ \A s \in SUBSET U : \A x \in s : g[s] = F[x][g[s \ {x}]]
    BY <2>5 DEF Totals
  <2>7. PICK h : h = [s \in SUBSET T |-> IF y \in s THEN F[y][g[s \ {y}]] ELSE g[s]]  OBVIOUS
  <2>8. /\ \A s \in SUBSET T : y \in s => h[s] = F[y][g[s \ {y}]]
        /\ \A s \in SUBSET T : y \notin s => h[s] = g[s]
        /\ DOMAIN h = SUBSET T
    BY <2>7
  <2>9. \A s \in SUBSET T : s \ {y} \in SUBSET U /\ (y \notin s => s \in SUBSET U)  BY <2>2
  <2>10. \A x \in S : \A v \in V : F[x][v] \in V  BY DEF Commutes
  <2>11. h \in [SUBSET T -> V]
    <3>1. y \in S  BY <2>1
    <3>2. ASSUME NEW s \in SUBSET T PROVE h[s] \in V
      <4>1. s \ {y} \in SUBSET U /\ (y \notin s => s \in SUBSET U)  BY <2>9
      <4>2. g[s \ {y}] \in V  BY <4>1, <2>6
      <4>3. CASE y \in s
        <5>1. h[s] = F[y][g[s \ {y}]]  BY <4>3, <2>8
        <5> QED  BY <5>1, <4>2, <3>1, <2>10
      <4>4. CASE y \notin s
        <5>1. h[s] = g[s]  BY <4>4, <2>8
        <5> QED  BY <5>1, <4>1, <4>4, <2>6
      <4> QED  BY <4>3, <4>4
    <3>3. h = [s \in SUBSET T |-> h[s]]  BY <2>7
    <3> HIDE DEF N, Bad
    <3> QED  BY <3>2, <3>3
  <2>12. h[{}] = base
    <3>1. {} \in SUBSET T /\ y \notin {}  OBVIOUS
    <3> QED  BY <3>1, <2>6, <2>8
  <2>13. ASSUME NEW s \in SUBSET T, NEW x \in s PROVE h[s] = F[x][h[s \ {x}]]
    <3>1. s \ {x} \in SUBSET T  OBVIOUS
    <3>2. CASE y \notin s
      <4>1. h[s] = g[s] /\ h[s \ {x}] = g[s \ {x}] /\ s \in SUBSET U  BY <3>1, <3>2, <2>8, <2>9
      <4> QED  BY <4>1, <2>6
    <3>3. CASE x = y
      <4>1. h[s] = F[y][g[s \ {y}]] /\ h[s \ {y}] = g[s \ {y}]  BY <3>1, <3>3, <2>8
      <4> QED  BY <4>1, <3>3
    <3>4. CASE y \in s /\ x # y
      <4>1. PICK r : r = (s \ {y}) \ {x}  OBVIOUS
      <4>2. r = (s \ {x}) \ {y} /\ r \in SUBSET U  BY <4>1, <2>2
      <4>3. h[s] = F[y][g[s \ {y}]]  BY <3>4, <2>8
      <4>4. s \ {y} \in SUBSET U /\ x \in s \ {y}  BY <3>4, <2>9
      <4>5. g[s \ {y}] = F[x][g[r]]  BY <4>1, <4>4, <2>6
      <4>6. h[s \ {x}] = F[y][g[r]]  BY <4>2, <3>1, <3>4, <2>8
      <4>7. g[r] \in V /\ x \in S /\ y \in S  BY <4>2, <2>1, <2>6
      <4>8. F[y][F[x][g[r]]] = F[x][F[y][g[r]]]  BY <4>7 DEF Commutes
      <4> QED  BY <4>3, <4>5, <4>6, <4>8
    <3> QED  BY <3>2, <3>3, <3>4
  <2>14. Totals(h, F, T, V, base)  BY <2>11, <2>12, <2>13 DEF Totals
  <2> QED  BY <2>14, <1>3
<1> QED  BY <1>4, <1>5

LEMMA TotalsTaken ==
  ASSUME NEW S, IsFiniteSet(S), NEW V, NEW base, NEW F,
         NEW g, Totals(g, F, S, V, base), NEW h, TakesSome(h, F, S, V, base)
  PROVE  \A s \in SUBSET S : h[s] = g[s]
<1> DEFINE N == {k \in Nat : \E T \in SUBSET S : Cardinality(T) = k /\ h[T] # g[T]}
<1> SUFFICES ASSUME NEW s \in SUBSET S, h[s] # g[s] PROVE FALSE  OBVIOUS
<1>1. Cardinality(s) \in N  BY FS_CardinalityType, FS_Subset
<1>2. PICK k \in N : \A m \in N : k <= m
  <2>1. N \in SUBSET Nat /\ N # {}  BY <1>1
  <2> HIDE DEF N
  <2> QED  BY <2>1, LeastExists
<1>3. PICK T \in SUBSET S : Cardinality(T) = k /\ h[T] # g[T]  OBVIOUS
<1>4. T # {}  BY <1>3 DEF Totals, TakesSome
<1>5. PICK x : x = AnyOf(T) /\ x \in T  BY <1>4 DEF AnyOf
<1>6. T \ {x} \in SUBSET S /\ Cardinality(T \ {x}) \in Nat /\ Cardinality(T \ {x}) < k
  BY <1>3, <1>5, SmallerSet
<1>7. h[T \ {x}] = g[T \ {x}]
  <2>1. Cardinality(T \ {x}) \notin N
    <3>1. k \in Nat /\ k \in N  BY <1>2
    <3> HIDE DEF N
    <3> QED  BY <3>1, <1>2, <1>6
  <2> QED  BY <2>1, <1>6
<1>8. g[T \ {x}] \in V  BY <1>6 DEF Totals
<1>9. h[T] = F[x][h[T \ {x}]]  BY <1>4, <1>5, <1>7, <1>8 DEF TakesSome
<1>10. g[T] = F[x][g[T \ {x}]]  BY <1>5 DEF Totals
<1> QED  BY <1>3, <1>7, <1>9, <1>10

(* The sum of the lengths of the keys in S. *)
SumStep(S) == [key \in S |-> [v \in Nat |-> Len(key) + v]]
SumsUp(h, S) ==
  h = [s \in SUBSET S |-> IF s = {} THEN 0 ELSE Len(AnyOf(s)) + h[s \ {AnyOf(s)}]]

LEMMA SumIsTotal ==
  ASSUME NEW S \in SUBSET ByteString, IsFiniteSet(S),
         NEW g, Totals(g, SumStep(S), S, Nat, 0)
  PROVE  KeyBytes(S) = g[S]
<1>g. PICK F : F = SumStep(S) /\ Totals(g, F, S, Nat, 0)  OBVIOUS
<1>1. KeyBytes(S) = (CHOOSE h : SumsUp(h, S))[S]
  BY DEF KeyBytes, MapThenSumSet, MapThenFoldSet, SumsUp, AnyOf
<1>2. SumsUp(g, S)
  <2>1. /\ g = [s \in SUBSET S |-> g[s]]
        /\ \A s \in SUBSET S : g[s] = IF s = {} THEN 0 ELSE SumStep(S)[AnyOf(s)][g[s \ {AnyOf(s)}]]
    <3>1. Totals(g, F, S, Nat, 0)  BY <1>g
    <3>2. g = [s \in SUBSET S |-> g[s]]  BY <3>1 DEF Totals
    <3>3. \A s \in SUBSET S : g[s] = IF s = {} THEN 0 ELSE F[AnyOf(s)][g[s \ {AnyOf(s)}]]
      <4>1. \A s \in SUBSET S : s # {} => AnyOf(s) \in s  BY DEF AnyOf
      <4> QED  BY <3>1, <4>1 DEF Totals
    <3> QED  BY <3>2, <3>3, <1>g
  <2>2. ASSUME NEW s \in SUBSET S, s # {}
        PROVE  SumStep(S)[AnyOf(s)][g[s \ {AnyOf(s)}]] = Len(AnyOf(s)) + g[s \ {AnyOf(s)}]
    <3>1. AnyOf(s) \in S  BY <2>2 DEF AnyOf
    <3>2. g[s \ {AnyOf(s)}] \in Nat  BY DEF Totals
    <3> QED  BY <3>1, <3>2 DEF SumStep
  <2>3. \A s \in SUBSET S : g[s] = IF s = {} THEN 0 ELSE Len(AnyOf(s)) + g[s \ {AnyOf(s)}]
    BY <2>1, <2>2
  <2> QED  BY <2>1, <2>3 DEF SumsUp
<1>3. PICK h : h = CHOOSE x : SumsUp(x, S)  OBVIOUS
<1>4. SumsUp(h, S)  BY <1>2, <1>3
<1>5. TakesSome(h, SumStep(S), S, Nat, 0)
  <2>1. \A s \in SUBSET S : h[s] = IF s = {} THEN 0 ELSE Len(AnyOf(s)) + h[s \ {AnyOf(s)}]
    BY <1>4 DEF SumsUp
  <2>2. h[{}] = 0  BY <2>1
  <2>3. ASSUME NEW s \in SUBSET S, s # {}, h[s \ {AnyOf(s)}] \in Nat
        PROVE  h[s] = SumStep(S)[AnyOf(s)][h[s \ {AnyOf(s)}]]
    <3>1. AnyOf(s) \in S  BY <2>3 DEF AnyOf
    <3> QED  BY <2>1, <2>3, <3>1 DEF SumStep
  <2> QED  BY <2>2, <2>3 DEF TakesSome
<1>6. h[S] = g[S]  BY <1>5, TotalsTaken
<1> QED  BY <1>1, <1>3, <1>6

LEMMA SumStepCommutes ==
  ASSUME NEW S \in SUBSET ByteString
  PROVE  Commutes(SumStep(S), S, Nat)
<1>1. \A x \in S : Len(x) \in Nat  BY DEF ByteString
<1>2. SumStep(S) \in [S -> [Nat -> Nat]]  BY <1>1 DEF SumStep
<1>3. ASSUME NEW x \in S, NEW y \in S, NEW v \in Nat
      PROVE  SumStep(S)[x][SumStep(S)[y][v]] = SumStep(S)[y][SumStep(S)[x][v]]
  <2>1. SumStep(S)[x][Len(y) + v] = Len(x) + (Len(y) + v)  BY <1>1 DEF SumStep
  <2>2. SumStep(S)[y][Len(x) + v] = Len(y) + (Len(x) + v)  BY <1>1 DEF SumStep
  <2>3. SumStep(S)[x][v] = Len(x) + v /\ SumStep(S)[y][v] = Len(y) + v  BY DEF SumStep
  <2> QED  BY <1>1, <2>1, <2>2, <2>3
<1> QED  BY <1>2, <1>3 DEF Commutes

LEMMA SumOfKeys ==
  ASSUME NEW S \in SUBSET ByteString, IsFiniteSet(S)
  PROVE  /\ KeyBytes(S) \in Nat
         /\ \A key \in S : KeyBytes(S) = KeyBytes(S \ {key}) + Len(key)
<1>1. PICK g : Totals(g, SumStep(S), S, Nat, 0)  BY SumStepCommutes, TotalsExist
<1>2. KeyBytes(S) = g[S]  BY <1>1, SumIsTotal
<1>3. g[S] \in Nat  BY <1>1 DEF Totals
<1>4. ASSUME NEW key \in S
      PROVE  KeyBytes(S) = KeyBytes(S \ {key}) + Len(key)
  <2>1. PICK T : T = S \ {key}  OBVIOUS
  <2>2. T \in SUBSET S /\ T \in SUBSET ByteString /\ IsFiniteSet(T)  BY <2>1, FS_Subset
  <2>3. PICK h : h = [s \in SUBSET T |-> g[s]]  OBVIOUS
  <2>4. \A x \in T : SumStep(T)[x] = SumStep(S)[x]  BY <2>2 DEF SumStep
  <2>5. Totals(h, SumStep(T), T, Nat, 0)
    <3>1. h \in [SUBSET T -> Nat] /\ \A s \in SUBSET T : h[s] = g[s]
      BY <1>1, <2>2, <2>3 DEF Totals
    <3> QED  BY <3>1, <1>1, <2>2, <2>4 DEF Totals
  <2>6. KeyBytes(T) = h[T]  BY <2>2, <2>5, SumIsTotal
  <2>7. h[T] = g[T]  BY <2>3
  <2>8. g[S] = SumStep(S)[key][g[T]] /\ g[T] \in Nat  BY <1>1, <2>1, <2>2 DEF Totals
  <2>9. SumStep(S)[key][g[T]] = Len(key) + g[T]  BY <2>8 DEF SumStep
  <2>10. Len(key) \in Nat  BY DEF ByteString
  <2> QED  BY <1>2, <2>1, <2>6, <2>7, <2>8, <2>9, <2>10
<1> QED  BY <1>2, <1>3, <1>4

LEMMA SumOfNone == KeyBytes({}) = 0
<1>1. {} \in SUBSET ByteString /\ IsFiniteSet({})  BY FS_EmptySet
<1>2. PICK g : Totals(g, SumStep({}), {}, Nat, 0)  BY <1>1, SumStepCommutes, TotalsExist
<1> QED  BY <1>1, <1>2, SumIsTotal DEF Totals
-----------------------------------------------------------------------------
(* The sum of the statistics of the node types. *)
AddStep(types) == [type \in InnerType |-> [v \in StatsType |-> Add(types[type], v)]]
AddsUp(h, types, S) ==
  h = [s \in SUBSET S |-> IF s = {} THEN NoStats ELSE Add(types[AnyOf(s)], h[s \ {AnyOf(s)}])]

Fields == DOMAIN NoStats

LEMMA StatsFields ==
  /\ Fields = {"count", "total_slots", "sum_slots", "total_header_bytes", "sum_prefix_len_bytes",
               "sum_capped_prefix_len_bytes", "max_prefix_len_bytes"}
  /\ NoStats \in StatsType /\ \A field \in Fields : NoStats[field] = 0
BY DEF Fields, NoStats, StatsType

LEMMA AddFacts ==
  ASSUME NEW a \in StatsType, NEW b \in StatsType
  PROVE  /\ Add(a, b) \in StatsType
         /\ \A field \in Fields : Add(a, b)[field] =
              IF field = "max_prefix_len_bytes" THEN Larger(a[field], b[field]) ELSE a[field] + b[field]
<1> DEFINE s == Add(a, b)
<1>1. DOMAIN a = Fields /\ \A field \in Fields : a[field] \in Nat /\ b[field] \in Nat
  BY DEF StatsType, Fields
<1>2. s = [field \in Fields |-> IF field = "max_prefix_len_bytes" THEN Larger(a[field], b[field])
                                ELSE a[field] + b[field]]
  BY <1>1 DEF Add
<1>3. \A field \in Fields : Larger(a[field], b[field]) \in Nat /\ a[field] + b[field] \in Nat
  BY <1>1 DEF Larger
<1> HIDE DEF s
<1>4. \A field \in Fields : s[field] =
        IF field = "max_prefix_len_bytes" THEN Larger(a[field], b[field]) ELSE a[field] + b[field]
  BY <1>2
<1>5. s \in StatsType  BY <1>2, <1>3 DEF StatsType, Fields
<1> QED  BY <1>4, <1>5 DEF s

LEMMA StatsEqual ==
  ASSUME NEW a \in StatsType, NEW b \in StatsType, \A field \in Fields : a[field] = b[field]
  PROVE  a = b
BY DEF StatsType, Fields

LEMMA AddCommutes ==
  ASSUME NEW a \in StatsType, NEW b \in StatsType, NEW c \in StatsType
  PROVE  Add(a, Add(b, c)) = Add(b, Add(a, c))
<1>1. /\ Add(b, c) \in StatsType /\ Add(a, c) \in StatsType
      /\ Add(a, Add(b, c)) \in StatsType /\ Add(b, Add(a, c)) \in StatsType
  BY AddFacts
<1>2. ASSUME NEW field \in Fields
      PROVE  Add(a, Add(b, c))[field] = Add(b, Add(a, c))[field]
  <2>1. a[field] \in Nat /\ b[field] \in Nat /\ c[field] \in Nat  BY DEF StatsType, Fields
  <2>2. CASE field = "max_prefix_len_bytes"
    <3>1. /\ Add(a, Add(b, c))[field] = Larger(a[field], Larger(b[field], c[field]))
          /\ Add(b, Add(a, c))[field] = Larger(b[field], Larger(a[field], c[field]))
      BY <1>1, <2>2, AddFacts
    <3> QED  BY <2>1, <3>1 DEF Larger
  <2>3. CASE field # "max_prefix_len_bytes"
    <3>1. /\ Add(a, Add(b, c))[field] = a[field] + (b[field] + c[field])
          /\ Add(b, Add(a, c))[field] = b[field] + (a[field] + c[field])
      BY <1>1, <2>3, AddFacts
    <3> QED  BY <2>1, <3>1
  <2> QED  BY <2>2, <2>3
<1> QED  BY <1>1, <1>2, StatsEqual

LEMMA AddStepCommutes ==
  ASSUME NEW types \in [InnerType -> StatsType]
  PROVE  Commutes(AddStep(types), InnerType, StatsType)
<1>1. \A t \in InnerType : types[t] \in StatsType  OBVIOUS
<1>2. AddStep(types) \in [InnerType -> [StatsType -> StatsType]]
  BY <1>1, AddFacts DEF AddStep
<1>3. ASSUME NEW x \in InnerType, NEW y \in InnerType, NEW v \in StatsType
      PROVE  AddStep(types)[x][AddStep(types)[y][v]] = AddStep(types)[y][AddStep(types)[x][v]]
  <2>1. Add(types[x], v) \in StatsType /\ Add(types[y], v) \in StatsType  BY AddFacts
  <2>2. /\ AddStep(types)[x][v] = Add(types[x], v) /\ AddStep(types)[y][v] = Add(types[y], v)
        /\ AddStep(types)[x][Add(types[y], v)] = Add(types[x], Add(types[y], v))
        /\ AddStep(types)[y][Add(types[x], v)] = Add(types[y], Add(types[x], v))
    BY <2>1 DEF AddStep
  <2> QED  BY <2>2, <1>1, AddCommutes
<1> QED  BY <1>2, <1>3 DEF Commutes

LEMMA TypesAsUnion ==
  InnerType = ({"Node4"} \cup {"Node16"}) \cup ({"Node48"} \cup {"Node256"})
BY DEF InnerType

LEMMA TreeIsTotal ==
  ASSUME NEW types \in [InnerType -> StatsType], NEW g,
         Totals(g, AddStep(types), InnerType, StatsType, NoStats)
  PROVE  TotalOf(types) = g[InnerType]
<1>g. PICK F : F = AddStep(types) /\ Totals(g, F, InnerType, StatsType, NoStats)  OBVIOUS
<1>1. TotalOf(types) =
        (CHOOSE h : AddsUp(h, types, InnerType))[InnerType]
  BY DEF TotalOf, FoldFunctionOnSet, MapThenFoldSet, AddsUp, AnyOf
<1>2. AddsUp(g, types, InnerType)
  <2>1. /\ g = [s \in SUBSET InnerType |-> g[s]]
        /\ \A s \in SUBSET InnerType :
             g[s] = IF s = {} THEN NoStats ELSE AddStep(types)[AnyOf(s)][g[s \ {AnyOf(s)}]]
    <3>1. Totals(g, F, InnerType, StatsType, NoStats)  BY <1>g
    <3>2. g = [s \in SUBSET InnerType |-> g[s]]  BY <3>1 DEF Totals
    <3>3. \A s \in SUBSET InnerType :
            g[s] = IF s = {} THEN NoStats ELSE F[AnyOf(s)][g[s \ {AnyOf(s)}]]
      <4>1. \A s \in SUBSET InnerType : s # {} => AnyOf(s) \in s  BY DEF AnyOf
      <4> QED  BY <3>1, <4>1 DEF Totals
    <3> QED  BY <3>2, <3>3, <1>g
  <2>2. ASSUME NEW s \in SUBSET InnerType, s # {}
        PROVE  AddStep(types)[AnyOf(s)][g[s \ {AnyOf(s)}]] = Add(types[AnyOf(s)], g[s \ {AnyOf(s)}])
    <3>1. AnyOf(s) \in InnerType  BY <2>2 DEF AnyOf
    <3>2. g[s \ {AnyOf(s)}] \in StatsType  BY DEF Totals
    <3> QED  BY <3>1, <3>2 DEF AddStep
  <2>3. \A s \in SUBSET InnerType :
          g[s] = IF s = {} THEN NoStats ELSE Add(types[AnyOf(s)], g[s \ {AnyOf(s)}])
    BY <2>1, <2>2
  <2> QED  BY <2>1, <2>3 DEF AddsUp
<1>3. PICK h : h = CHOOSE x : AddsUp(x, types, InnerType)  OBVIOUS
<1>4. AddsUp(h, types, InnerType)  BY <1>2, <1>3
<1>5. TakesSome(h, AddStep(types), InnerType, StatsType, NoStats)
  <2>1. \A s \in SUBSET InnerType :
          h[s] = IF s = {} THEN NoStats ELSE Add(types[AnyOf(s)], h[s \ {AnyOf(s)}])
    BY <1>4 DEF AddsUp
  <2>2. h[{}] = NoStats  BY <2>1
  <2>3. ASSUME NEW s \in SUBSET InnerType, s # {}, h[s \ {AnyOf(s)}] \in StatsType
        PROVE  h[s] = AddStep(types)[AnyOf(s)][h[s \ {AnyOf(s)}]]
    <3>1. AnyOf(s) \in InnerType  BY <2>3 DEF AnyOf
    <3> QED  BY <2>1, <2>3, <3>1 DEF AddStep
  <2> QED  BY <2>2, <2>3 DEF TakesSome
<1>6. IsFiniteSet(InnerType)  BY FS_Singleton, FS_Union, TypesAsUnion
<1>7. h[InnerType] = g[InnerType]  BY <1>5, <1>6, TotalsTaken
<1> QED  BY <1>1, <1>3, <1>7

(* One type's statistics are changed, those of the others are kept.        *)
LEMMA TotalOfOneChanged ==
  ASSUME NEW types \in [InnerType -> StatsType], NEW t \in InnerType, NEW a \in StatsType,
         NEW changed \in [InnerType -> StatsType], changed[t] = a,
         \A x \in InnerType \ {t} : changed[x] = types[x]
  PROVE  \E rest \in StatsType :
           TotalOf(types) = Add(types[t], rest) /\ TotalOf(changed) = Add(a, rest)
<1>0. IsFiniteSet(InnerType) /\ NoStats \in StatsType
  BY FS_Singleton, FS_Union, TypesAsUnion, StatsFields
<1>1. /\ changed \in [InnerType -> StatsType] /\ changed[t] = a
      /\ \A x \in InnerType \ {t} : changed[x] = types[x]
  OBVIOUS
<1>2. PICK g : Totals(g, AddStep(types), InnerType, StatsType, NoStats)
  BY <1>0, AddStepCommutes, TotalsExist
<1>3. PICK h : Totals(h, AddStep(changed), InnerType, StatsType, NoStats)
  BY <1>0, <1>1, AddStepCommutes, TotalsExist
<1>4. PICK T \in SUBSET InnerType : T = InnerType \ {t}  OBVIOUS
<1>5. PICK F : F = [x \in T |-> AddStep(types)[x]]  OBVIOUS
<1>6. \A x \in T : F[x] = AddStep(types)[x] /\ F[x] = AddStep(changed)[x]
  BY <1>1, <1>4, <1>5 DEF AddStep
<1>7. PICK gt, ht : gt = [s \in SUBSET T |-> g[s]] /\ ht = [s \in SUBSET T |-> h[s]]  OBVIOUS
<1>8. Totals(gt, F, T, StatsType, NoStats) /\ Totals(ht, F, T, StatsType, NoStats)
  <2>1. /\ gt \in [SUBSET T -> StatsType] /\ \A s \in SUBSET T : gt[s] = g[s]
        /\ ht \in [SUBSET T -> StatsType] /\ \A s \in SUBSET T : ht[s] = h[s]
    BY <1>2, <1>3, <1>7 DEF Totals
  <2>2. Totals(gt, F, T, StatsType, NoStats)
    <3>1. \A x \in T : F[x] = AddStep(types)[x]  BY <1>6
    <3> QED  BY <3>1, <2>1, <1>2 DEF Totals
  <2>3. Totals(ht, F, T, StatsType, NoStats)
    <3>1. \A x \in T : F[x] = AddStep(changed)[x]  BY <1>6
    <3> QED  BY <3>1, <2>1, <1>3 DEF Totals
  <2> QED  BY <2>2, <2>3
<1>9. TakesSome(ht, F, T, StatsType, NoStats)
  <2>1. \A s \in SUBSET T : s # {} => AnyOf(s) \in s  BY DEF AnyOf
  <2> QED  BY <2>1, <1>8 DEF Totals, TakesSome
<1>10. gt[T] = ht[T]
  <2>1. IsFiniteSet(T)  BY <1>0, FS_Subset
  <2> QED  BY <2>1, <1>8, <1>9, TotalsTaken
<1>11. g[T] = h[T] /\ g[T] \in StatsType  BY <1>2, <1>7, <1>10 DEF Totals
<1>12. /\ g[InnerType] = AddStep(types)[t][g[T]] /\ h[InnerType] = AddStep(changed)[t][h[T]]
  BY <1>2, <1>3, <1>4 DEF Totals
<1>13. /\ AddStep(types)[t][g[T]] = Add(types[t], g[T])
       /\ AddStep(changed)[t][g[T]] = Add(a, g[T])
  BY <1>1, <1>11 DEF AddStep
<1>14. TotalOf(types) = g[InnerType] /\ TotalOf(changed) = h[InnerType]
  BY <1>1, <1>2, <1>3, TreeIsTotal
<1> QED  BY <1>11, <1>12, <1>13, <1>14

LEMMA TotalOfNone == TotalOf(TypeStats) = NoStats
<1>1. TypeStats \in [InnerType -> StatsType] /\ NoStats \in StatsType
  BY StatsFields DEF TypeStats
<1>2. PICK g : g = [s \in SUBSET InnerType |-> NoStats]  OBVIOUS
<1>3. Add(NoStats, NoStats) = NoStats
  <2>1. Add(NoStats, NoStats) \in StatsType  BY <1>1, AddFacts
  <2>2. \A field \in Fields : Add(NoStats, NoStats)[field] = NoStats[field]
    BY <1>1, AddFacts, StatsFields DEF Larger
  <2> QED  BY <1>1, <2>1, <2>2, StatsEqual
<1>4. \A x \in InnerType : AddStep(TypeStats)[x][NoStats] = NoStats
  BY <1>1, <1>3 DEF AddStep, TypeStats
<1>5. Totals(g, AddStep(TypeStats), InnerType, StatsType, NoStats)
  BY <1>1, <1>2, <1>4 DEF Totals
<1> QED  BY <1>1, <1>2, <1>5, TreeIsTotal
-----------------------------------------------------------------------------
LEMMA AggregatedFacts ==
  ASSUME TreeInvariant, NEW stats \in StatsType, NEW n \in Inners(heap)
  PROVE  /\ Aggregated(stats, n) \in StatsType
         /\ Aggregated(stats, n)["count"] = stats["count"] + 1
         /\ Aggregated(stats, n)["total_slots"] = stats["total_slots"] + UpperCapacity[n.type]
         /\ Aggregated(stats, n)["sum_slots"] = stats["sum_slots"] + Cardinality(ChildBytes(n))
         /\ Aggregated(stats, n)["total_header_bytes"] = stats["total_header_bytes"] + PREFIX_LEN
         /\ Aggregated(stats, n)["sum_prefix_len_bytes"] =
              stats["sum_prefix_len_bytes"] + heap[n].header.prefix_len
         /\ Aggregated(stats, n)["sum_capped_prefix_len_bytes"] =
              stats["sum_capped_prefix_len_bytes"] + CappedPrefixLen(heap[n].header)
         /\ Aggregated(stats, n)["max_prefix_len_bytes"] =
              Larger(stats["max_prefix_len_bytes"], heap[n].header.prefix_len)
         /\ UpperCapacity[n.type] \in Nat /\ Cardinality(ChildBytes(n)) \in Nat /\ PREFIX_LEN \in Nat
         /\ heap[n].header.prefix_len \in Nat /\ CappedPrefixLen(heap[n].header) \in Nat
         /\ CappedPrefixLen(heap[n].header) <= PREFIX_LEN
         /\ Cardinality(ChildBytes(n)) <= UpperCapacity[n.type]
<1>1. n.type \in InnerType /\ UpperCapacity[n.type] \in Nat /\ PREFIX_LEN \in Nat
  BY InnerFacts, CapacityAssumption, PrefixLenAssumption DEF Inners, IsInner
<1>2. PICK k \in Nat : k = Cardinality(ChildBytes(n))  BY InnerFacts, FS_CardinalityType
<1>3. NumChildren(heap[n]) = k  BY <1>2, InnerFacts
<1>4. k <= UpperCapacity[n.type]  BY <1>1, <1>2, <1>3 DEF TreeInvariant, NodesFitTheirType
<1>5. PICK p \in Nat : p = heap[n].header.prefix_len  BY InnerFacts DEF HeaderType
<1>6. PICK c \in Nat : c = CappedPrefixLen(heap[n].header) /\ c <= PREFIX_LEN
  BY <1>1, <1>5, LesserFacts DEF CappedPrefixLen
<1>7. PICK r : r = Aggregated(stats, n)  OBVIOUS
<1>8. \A field \in Fields : stats[field] \in Nat  BY DEF StatsType, Fields
<1>9. r = [count |-> stats["count"] + 1,
           total_slots |-> stats["total_slots"] + UpperCapacity[n.type],
           sum_slots |-> stats["sum_slots"] + k,
           total_header_bytes |-> stats["total_header_bytes"] + PREFIX_LEN,
           sum_prefix_len_bytes |-> stats["sum_prefix_len_bytes"] + p,
           sum_capped_prefix_len_bytes |-> stats["sum_capped_prefix_len_bytes"] + c,
           max_prefix_len_bytes |-> Larger(stats["max_prefix_len_bytes"], p)]
  BY <1>3, <1>5, <1>6, <1>7 DEF Aggregated
<1>10. DOMAIN r = Fields  BY <1>9, StatsFields
<1>11. /\ r["count"] = stats["count"] + 1
       /\ r["total_slots"] = stats["total_slots"] + UpperCapacity[n.type]
       /\ r["sum_slots"] = stats["sum_slots"] + k
       /\ r["total_header_bytes"] = stats["total_header_bytes"] + PREFIX_LEN
       /\ r["sum_prefix_len_bytes"] = stats["sum_prefix_len_bytes"] + p
       /\ r["sum_capped_prefix_len_bytes"] = stats["sum_capped_prefix_len_bytes"] + c
       /\ r["max_prefix_len_bytes"] = Larger(stats["max_prefix_len_bytes"], p)
  BY <1>9
<1>12. \A field \in Fields : r[field] \in Nat
  BY <1>1, <1>8, <1>11, StatsFields DEF Larger
<1>13. r = [field \in Fields |-> r[field]]  BY <1>9, <1>10
<1>14. r \in StatsType  BY <1>12, <1>13 DEF StatsType, Fields
<1> QED  BY <1>1, <1>2, <1>4, <1>5, <1>6, <1>7, <1>11, <1>14

LEMMA AggregatedInSum ==
  ASSUME TreeInvariant, NEW stats \in StatsType, NEW rest \in StatsType, NEW n \in Inners(heap)
  PROVE  Aggregated(Add(stats, rest), n) = Add(Aggregated(stats, n), rest)
<1>1. PICK sum, one, more, both : /\ sum = Add(stats, rest) /\ one = Aggregated(stats, n)
                                  /\ more = Aggregated(sum, n) /\ both = Add(one, rest)
  OBVIOUS
<1>2. /\ sum \in StatsType
      /\ \A field \in Fields : sum[field] = IF field = "max_prefix_len_bytes"
            THEN Larger(stats[field], rest[field]) ELSE stats[field] + rest[field]
  BY <1>1, AddFacts
<1>3. one \in StatsType /\ more \in StatsType  BY <1>1, <1>2, AggregatedFacts
<1>4. /\ both \in StatsType
      /\ \A field \in Fields : both[field] = IF field = "max_prefix_len_bytes"
            THEN Larger(one[field], rest[field]) ELSE one[field] + rest[field]
  BY <1>1, <1>3, AddFacts
<1>5. \A field \in Fields : stats[field] \in Nat /\ rest[field] \in Nat  BY DEF StatsType, Fields
<1>6. ASSUME NEW field \in Fields PROVE more[field] = both[field]
  <2>1. CASE field = "max_prefix_len_bytes"
    <3>1. PICK p \in Nat : p = heap[n].header.prefix_len  BY AggregatedFacts
    <3>2. one[field] = Larger(stats[field], p) /\ more[field] = Larger(sum[field], p)
      BY <2>1, <3>1, <1>1, <1>2, AggregatedFacts
    <3> QED  BY <2>1, <3>2, <1>2, <1>4, <1>5 DEF Larger
  <2>2. CASE field # "max_prefix_len_bytes"
    <3>1. PICK d \in Nat : one[field] = stats[field] + d /\ more[field] = sum[field] + d
      <4>1. CASE field = "count"  BY <4>1, <1>1, <1>2, AggregatedFacts
      <4>2. CASE field = "total_slots"  BY <4>2, <1>1, <1>2, AggregatedFacts
      <4>3. CASE field = "sum_slots"  BY <4>3, <1>1, <1>2, AggregatedFacts
      <4>4. CASE field = "total_header_bytes"  BY <4>4, <1>1, <1>2, AggregatedFacts
      <4>5. CASE field = "sum_prefix_len_bytes"  BY <4>5, <1>1, <1>2, AggregatedFacts
      <4>6. CASE field = "sum_capped_prefix_len_bytes"  BY <4>6, <1>1, <1>2, AggregatedFacts
      <4> QED  BY <2>2, <4>1, <4>2, <4>3, <4>4, <4>5, <4>6, StatsFields
    <3> QED  BY <2>2, <3>1, <1>2, <1>4, <1>5
  <2> QED  BY <2>1, <2>2
<1> QED  BY <1>1, <1>3, <1>4, <1>6, StatsEqual

(* The whole stays the sum of the node types when a node is added to both. *)
LEMMA TotalAggregated ==
  ASSUME TreeInvariant, NEW types \in [InnerType -> StatsType], NEW n \in Inners(heap),
         NEW changed, changed = [types EXCEPT ![n.type] = Aggregated(@, n)]
  PROVE  /\ changed \in [InnerType -> StatsType]
         /\ TotalOf(changed) = Aggregated(TotalOf(types), n)
<1>1. n.type \in InnerType  BY InnerFacts DEF IsInner
<1>2. PICK a \in StatsType : a = Aggregated(types[n.type], n)  BY <1>1, AggregatedFacts
<1>3. /\ changed \in [InnerType -> StatsType] /\ changed[n.type] = a
      /\ \A x \in InnerType \ {n.type} : changed[x] = types[x]
  BY <1>1, <1>2
<1>4. PICK rest \in StatsType :
        TotalOf(types) = Add(types[n.type], rest) /\ TotalOf(changed) = Add(a, rest)
  <2>1. PICK t \in InnerType : t = n.type  BY <1>1
  <2>2. /\ changed \in [InnerType -> StatsType] /\ changed[t] = a
        /\ \A x \in InnerType \ {t} : changed[x] = types[x]
    BY <1>3, <2>1
  <2>3. \E rest \in StatsType : TotalOf(types) = Add(types[t], rest) /\ TotalOf(changed) = Add(a, rest)
    BY ONLY <2>2, TotalOfOneChanged, types \in [InnerType -> StatsType], t \in InnerType, a \in StatsType
  <2> QED  BY <2>1, <2>3
<1>5. Aggregated(Add(types[n.type], rest), n) = Add(a, rest)  BY <1>1, <1>2, AggregatedInSum
<1> QED  BY <1>1, <1>3, <1>4, <1>5

-----------------------------------------------------------------------------
(***************************************************************************)
(* What the collector has gathered, node by node.                          *)
(***************************************************************************)

(* The children of an inner node. *)
Kids(n) == {Child(n, b) : b \in ChildBytes(n)}

LEMMA KidsCounted ==
  ASSUME TreeInvariant, NEW n \in Inners(heap)
  PROVE  /\ Kids(n) \in SUBSET DOMAIN heap /\ Cardinality(Kids(n)) = Cardinality(ChildBytes(n))
         /\ \A m \in Inners(heap) : m # n => Kids(m) \cap Kids(n) = {}
<1>1. PICK f : f = [b \in ChildBytes(n) |-> Child(n, b)]  OBVIOUS
<1>2. Shape  BY InvariantShape
<1>3. \A b, d \in ChildBytes(n) : f[b] = f[d] => b = d  BY <1>1, <1>2, OneParent
<1>4. f \in [ChildBytes(n) -> Kids(n)] /\ \A x \in Kids(n) : \E b \in ChildBytes(n) : f[b] = x
  BY <1>1 DEF Kids
<1>5. f \in Bijection(ChildBytes(n), Kids(n))
  BY <1>3, <1>4 DEF Bijection, Injection, Surjection, IsInjective
<1>6. ExistsBijection(ChildBytes(n), Kids(n))  BY <1>5 DEF ExistsBijection
<1>7. Cardinality(Kids(n)) = Cardinality(ChildBytes(n))  BY <1>6, InnerFacts, FS_Bijection
<1>8. Kids(n) \in SUBSET DOMAIN heap  BY <1>2, ChildFacts DEF Kids
<1>9. \A m \in Inners(heap) : m # n => Kids(m) \cap Kids(n) = {}  BY <1>2, OneParent DEF Kids
<1> QED  BY <1>7, <1>8, <1>9

LEMMA ChildrenCounted ==
  ASSUME TreeInvariant, NEW N \in SUBSET DOMAIN heap
  PROVE  /\ ChildrenOfAll(N) \in SUBSET DOMAIN heap /\ IsFiniteSet(ChildrenOfAll(N))
         /\ Cardinality(ChildrenOfAll(N)) \in Nat
         /\ \A x \in Leaves(heap) : ChildrenOfAll(N \cup {x}) = ChildrenOfAll(N)
         /\ \A n \in Inners(heap) : n \notin N =>
              Cardinality(ChildrenOfAll(N \cup {n})) =
                Cardinality(ChildrenOfAll(N)) + Cardinality(ChildBytes(n))
<1>1. \A M \in SUBSET DOMAIN heap : ChildrenOfAll(M) = UNION {Kids(n) : n \in {m \in M : IsInner(m)}}
  BY DEF ChildrenOfAll, Kids
<1>2. \A M \in SUBSET DOMAIN heap : \A m \in M : IsInner(m) => m \in Inners(heap)  BY DEF Inners
<1>3. \A x : x \in ChildrenOfAll(N) => \E m \in N : IsInner(m) /\ x \in Kids(m)  BY <1>1
<1>4. ChildrenOfAll(N) \in SUBSET DOMAIN heap  BY <1>2, <1>3, KidsCounted
<1>5. IsFiniteSet(ChildrenOfAll(N)) /\ Cardinality(ChildrenOfAll(N)) \in Nat
  BY <1>4, FS_Subset, FS_CardinalityType DEF TreeInvariant, HeapIsFinite
<1>6. ASSUME NEW x \in Leaves(heap) PROVE ChildrenOfAll(N \cup {x}) = ChildrenOfAll(N)
  <2>1. ~IsInner(x) /\ x \in DOMAIN heap  BY LeafFacts, NodeFacts
  <2>2. {m \in N \cup {x} : IsInner(m)} = {m \in N : IsInner(m)}  BY <2>1
  <2> QED  BY <2>1, <2>2, <1>1
<1>7. ASSUME NEW n \in Inners(heap), n \notin N
      PROVE  Cardinality(ChildrenOfAll(N \cup {n})) =
               Cardinality(ChildrenOfAll(N)) + Cardinality(ChildBytes(n))
  <2>1. IsInner(n) /\ n \in DOMAIN heap  BY InnerFacts
  <2>2. {m \in N \cup {n} : IsInner(m)} = {m \in N : IsInner(m)} \cup {n}  BY <2>1
  <2>3. N \cup {n} \in SUBSET DOMAIN heap  BY <2>1
  <2>4. PICK I : I = {m \in N : IsInner(m)}  OBVIOUS
  <2>a. ChildrenOfAll(N) = UNION {Kids(m) : m \in I}  BY <2>4, <1>1
  <2>b. ChildrenOfAll(N \cup {n}) = UNION {Kids(m) : m \in I \cup {n}}
    BY <2>2, <2>3, <2>4, <1>1
  <2>5. ChildrenOfAll(N \cup {n}) = ChildrenOfAll(N) \cup Kids(n)  BY <2>a, <2>b
  <2>6. ChildrenOfAll(N) \cap Kids(n) = {}  BY <1>2, <1>3, <1>7, KidsCounted
  <2>7. IsFiniteSet(Kids(n)) /\ Cardinality(Kids(n)) = Cardinality(ChildBytes(n))
    BY KidsCounted, FS_Subset DEF TreeInvariant, HeapIsFinite
  <2>8. Cardinality(ChildBytes(n)) \in Nat  BY <2>7, FS_CardinalityType
  <2>9. Cardinality({}) = 0  BY FS_EmptySet
  <2>10. Cardinality(ChildrenOfAll(N) \cup Kids(n)) =
           Cardinality(ChildrenOfAll(N)) + Cardinality(Kids(n)) - Cardinality({})
    BY <2>6, <2>7, <1>5, FS_Union
  <2>11. PICK a \in Nat, k \in Nat : a = Cardinality(ChildrenOfAll(N)) /\ k = Cardinality(ChildBytes(n))
    BY <2>8, <1>5
  <2>12. Cardinality(ChildrenOfAll(N) \cup Kids(n)) = a + k - 0  BY <2>7, <2>9, <2>10, <2>11
  <2>13. Cardinality(ChildrenOfAll(N) \cup Kids(n)) = a + k  BY <2>11, <2>12
  <2> QED  BY <2>5, <2>11, <2>13
<1> QED  BY <1>4, <1>5, <1>6, <1>7

(* Every node but the root is the child of one.                            *)
LEMMA AllAreChildren ==
  ASSUME TreeInvariant, ~TearingDown, root # None
  PROVE  /\ ChildrenOfAll(DOMAIN heap) = DOMAIN heap \ {root}
         /\ Cardinality(ChildrenOfAll(DOMAIN heap)) = Cardinality(DOMAIN heap) - 1
<1>1. root \in DOMAIN heap /\ \A x \in DOMAIN heap : IsPrefix(root.at, x.at)
  BY DEF TreeInvariant, RootIsAboveAll
<1>2. ASSUME NEW x \in DOMAIN heap, x # root PROVE x \in ChildrenOfAll(DOMAIN heap)
  <2>1. PICK n \in Inners(heap) : \E b \in ChildBytes(n) : Child(n, b) = x  BY <1>2, ParentExists
  <2>2. n \in DOMAIN heap /\ IsInner(n)  BY InnerFacts
  <2> QED  BY <2>1, <2>2 DEF ChildrenOfAll
<1>3. root \notin ChildrenOfAll(DOMAIN heap)
  <2>1. SUFFICES ASSUME root \in ChildrenOfAll(DOMAIN heap) PROVE FALSE  OBVIOUS
  <2>2. PICK n \in DOMAIN heap : IsInner(n) /\ \E b \in ChildBytes(n) : Child(n, b) = root
    BY <2>1 DEF ChildrenOfAll
  <2>3. PICK b \in ChildBytes(n) : Child(n, b) = root  BY <2>2
  <2>4. n \in Inners(heap)  BY <2>2 DEF Inners
  <2>5. Below(root, n)  BY <2>3, <2>4, InvariantShape, ChildFacts
  <2>6. IsPrefix(root.at, n.at) /\ root.at \in ByteString /\ n.at \in ByteString
    BY <1>1, <2>2, NodeFacts
  <2>7. Len(root.at) <= Len(n.at)  BY <2>6, PrefixPointwise
  <2> QED  BY <2>5, <2>6, <2>7 DEF Below, ByteString
<1>4. ChildrenOfAll(DOMAIN heap) \in SUBSET DOMAIN heap  BY ChildrenCounted
<1>5. ChildrenOfAll(DOMAIN heap) = DOMAIN heap \ {root}  BY <1>2, <1>3, <1>4
<1> QED  BY <1>1, <1>5, FS_RemoveElement DEF TreeInvariant, HeapIsFinite
-----------------------------------------------------------------------------
LEMMA NoTally ==
  /\ LeavesTallied(LeafStats, {}) /\ NodesTallied(TypeStats, NoStats, {})
  /\ LeafStats \in LeafStatsType /\ NoStats \in StatsType /\ TypeStats \in [InnerType -> StatsType]
<1>1. LeavesTallied(LeafStats, {})
  <2>1. {x \in {} : IsLeaf(x)} = {} /\ {heap[x].key : x \in {}} = {}  OBVIOUS
  <2> QED  BY <2>1, FS_EmptySet, SumOfNone DEF LeavesTallied, LeafStats
<1>2. NodesTallied(TypeStats, NoStats, {})
  <2>1. NoneOverused(NoStats)  BY StatsFields DEF NoneOverused, NoStats
  <2>2. \A type \in InnerType : NoneOverused(TypeStats[type])  BY <2>1 DEF TypeStats
  <2>3. ChildrenOfAll({}) = {}  BY DEF ChildrenOfAll
  <2>4. NoStats["sum_slots"] = Cardinality(ChildrenOfAll({}))  BY <2>3, FS_EmptySet DEF NoStats
  <2>5. IsLongestPath(NoStats["max_prefix_len_bytes"], {n \in {} : IsInner(n)})
    BY DEF IsLongestPath, NoStats
  <2> QED  BY <2>1, <2>2, <2>4, <2>5, TotalOfNone DEF NodesTallied
<1>3. NoStats \in StatsType /\ TypeStats \in [InnerType -> StatsType]
  BY StatsFields DEF TypeStats
<1> QED  BY <1>1, <1>2, <1>3 DEF LeafStats, LeafStatsType

(* The leaf x is counted. *)
LEMMA LeafTallied ==
  ASSUME TreeInvariant, NEW N \in SUBSET DOMAIN heap, NEW x \in Leaves(heap), x \notin N,
         NEW stats, LeavesTallied(stats, N), NEW next,
         next.count = stats.count + 1, next.sum_key_bytes = stats.sum_key_bytes + Len(heap[x].key),
         NEW types, NEW tree, NodesTallied(types, tree, N)
  PROVE  LeavesTallied(next, N \cup {x}) /\ NodesTallied(types, tree, N \cup {x})
<1>1. IsLeaf(x) /\ ~IsInner(x) /\ heap[x].key = x.at /\ x.at \in ByteString
  BY LeafFacts, NodeFacts
<1>2. PICK leaves : leaves = {y \in N : IsLeaf(y)}  OBVIOUS
<1>3. {y \in N \cup {x} : IsLeaf(y)} = leaves \cup {x} /\ x \notin leaves  BY <1>1, <1>2
<1>4. leaves \in SUBSET Leaves(heap) /\ leaves \in SUBSET DOMAIN heap  BY <1>2 DEF Leaves
<1>5. PICK few, all : few = {heap[y].key : y \in leaves} /\ all = {heap[y].key : y \in leaves \cup {x}}
  OBVIOUS
<1>6. \A y \in leaves : heap[y].key = y.at /\ y.at \in ByteString  BY <1>4, LeafFacts, NodeFacts
<1>7. all = few \cup {x.at} /\ all \in SUBSET ByteString  BY <1>1, <1>5, <1>6
<1>8. x.at \notin few
  <2>1. SUFFICES ASSUME NEW y \in leaves, y.at = x.at PROVE FALSE  BY <1>5, <1>6
  <2>2. IsPrefix(x.at, y.at)  BY <2>1, <1>1, PrefixReflexive
  <2>3. y = x  BY <2>2, <1>4, UnderLeaf
  <2> QED  BY <2>3, <1>3
<1>9. IsFiniteSet(all)
  <2>1. IsFiniteSet(leaves)  BY <1>4, FS_Subset DEF TreeInvariant, HeapIsFinite
  <2>2. PICK f : f = [y \in leaves |-> heap[y].key]  OBVIOUS
  <2>3. f \in Surjection(leaves, few)  BY <2>2, <1>5 DEF Surjection
  <2>4. IsFiniteSet(few)  BY <2>1, <2>3, FS_Surjection
  <2> QED  BY <2>4, <1>7, FS_AddElement
<1>10. KeyBytes(all) = KeyBytes(few) + Len(x.at)
  <2>1. all \ {x.at} = few /\ x.at \in all  BY <1>7, <1>8
  <2> QED  BY <2>1, <1>7, <1>9, SumOfKeys
<1>11. Cardinality(leaves \cup {x}) = Cardinality(leaves) + 1
  <2>1. x \in DOMAIN heap  BY LeafFacts
  <2> QED  BY <2>1, <1>3, <1>4, OneMore
<1>12. stats.count = Cardinality(leaves) /\ stats.sum_key_bytes = KeyBytes(few)
  BY <1>2, <1>5 DEF LeavesTallied
<1>13. LeavesTallied(next, N \cup {x})
  BY <1>1, <1>3, <1>5, <1>10, <1>11, <1>12 DEF LeavesTallied
<1>14. ChildrenOfAll(N \cup {x}) = ChildrenOfAll(N)  BY ChildrenCounted
<1>15. {n \in N \cup {x} : IsInner(n)} = {n \in N : IsInner(n)}  BY <1>1
<1>16. NodesTallied(types, tree, N \cup {x})  BY <1>14, <1>15 DEF NodesTallied
<1> QED  BY <1>13, <1>16

Recorded(types, n) == [types EXCEPT ![n.type] = Aggregated(@, n)]

(* The inner node n is added to its type's statistics and to the whole.    *)
LEMMA NodeTallied ==
  ASSUME TreeInvariant, NEW N \in SUBSET DOMAIN heap, NEW n \in Inners(heap), n \notin N,
         NEW stats, LeavesTallied(stats, N),
         NEW types \in [InnerType -> StatsType], NEW tree \in StatsType,
         NodesTallied(types, tree, N),
         NEW changed, changed = Recorded(types, n),
         NEW whole, whole = Aggregated(tree, n)
  PROVE  /\ changed \in [InnerType -> StatsType] /\ whole \in StatsType
         /\ LeavesTallied(stats, N \cup {n}) /\ NodesTallied(changed, whole, N \cup {n})
<1>0. changed = [types EXCEPT ![n.type] = Aggregated(@, n)]  BY DEF Recorded
<1>1. IsInner(n) /\ ~IsLeaf(n) /\ n \in DOMAIN heap /\ n.type \in InnerType
  BY InnerFacts, NodeFacts DEF IsInner
<1>2. LeavesTallied(stats, N \cup {n})
  <2>1. {x \in N \cup {n} : IsLeaf(x)} = {x \in N : IsLeaf(x)}  BY <1>1
  <2> QED  BY <2>1 DEF LeavesTallied
<1>3. whole \in StatsType /\ changed \in [InnerType -> StatsType]
  BY <1>0, AggregatedFacts, TotalAggregated
<1>4. ASSUME NEW s \in StatsType, NoneOverused(s) PROVE NoneOverused(Aggregated(s, n))
  <2>1. PICK r : r = Aggregated(s, n)  OBVIOUS
  <2>2. /\ s["sum_slots"] \in Nat /\ s["total_slots"] \in Nat
        /\ s["sum_capped_prefix_len_bytes"] \in Nat /\ s["total_header_bytes"] \in Nat
    BY StatsFields DEF StatsType, Fields
  <2>3. PICK k \in Nat, cap \in Nat, c \in Nat :
          /\ r["sum_slots"] = s["sum_slots"] + k /\ r["total_slots"] = s["total_slots"] + cap
          /\ r["sum_capped_prefix_len_bytes"] = s["sum_capped_prefix_len_bytes"] + c
          /\ r["total_header_bytes"] = s["total_header_bytes"] + PREFIX_LEN
          /\ k <= cap /\ c <= PREFIX_LEN /\ PREFIX_LEN \in Nat
    BY <2>1, AggregatedFacts
  <2>4. s["sum_slots"] <= s["total_slots"]
        /\ s["sum_capped_prefix_len_bytes"] <= s["total_header_bytes"]
    BY <1>4 DEF NoneOverused
  <2>5. NoneOverused(r)  BY <2>2, <2>3, <2>4 DEF NoneOverused
  <2> QED  BY <2>1, <2>5
<1>5. /\ NoneOverused(tree) /\ tree = TotalOf(types)
      /\ \A type \in InnerType : NoneOverused(types[type])
      /\ tree["sum_slots"] = Cardinality(ChildrenOfAll(N))
      /\ IsLongestPath(tree["max_prefix_len_bytes"], {m \in N : IsInner(m)})
  BY DEF NodesTallied
<1>6. NoneOverused(whole)  BY <1>4, <1>5
<1>7. \A type \in InnerType : NoneOverused(changed[type])
  <2>1. TAKE type \in InnerType
  <2>2. CASE type = n.type
    <3>1. changed[type] = Aggregated(types[type], n)  BY <2>2, <1>0, <1>1
    <3> QED  BY <3>1, <1>4, <1>5
  <2>3. CASE type # n.type
    <3>1. changed[type] = types[type]  BY <2>3, <1>0
    <3> QED  BY <3>1, <1>5
  <2> QED  BY <2>2, <2>3
<1>8. whole = TotalOf(changed)  BY <1>0, <1>5, TotalAggregated
<1>9. whole["sum_slots"] = Cardinality(ChildrenOfAll(N \cup {n}))
  <2>1. whole["sum_slots"] = tree["sum_slots"] + Cardinality(ChildBytes(n))  BY AggregatedFacts
  <2> QED  BY <2>1, <1>5, ChildrenCounted
<1>10. IsLongestPath(whole["max_prefix_len_bytes"], {m \in N \cup {n} : IsInner(m)})
  <2>1. PICK p \in Nat : p = heap[n].header.prefix_len  BY AggregatedFacts
  <2>2. whole["max_prefix_len_bytes"] = Larger(tree["max_prefix_len_bytes"], p)
    BY <2>1, AggregatedFacts
  <2>3. tree["max_prefix_len_bytes"] \in Nat  BY StatsFields DEF StatsType, Fields
  <2>4. ASSUME NEW m \in N, IsInner(m)
        PROVE  heap[m].header.prefix_len <= whole["max_prefix_len_bytes"]
    <3>1. m \in Inners(heap)  BY <2>4 DEF Inners
    <3>2. heap[m].header.prefix_len \in Nat  BY <3>1, AggregatedFacts
    <3>3. heap[m].header.prefix_len <= tree["max_prefix_len_bytes"]
      BY <2>4, <1>5 DEF IsLongestPath
    <3> QED  BY <3>2, <3>3, <2>1, <2>2, <2>3 DEF Larger
  <2>5. p <= whole["max_prefix_len_bytes"]  BY <2>1, <2>2, <2>3 DEF Larger
  <2>6. \A m \in N \cup {n} : IsInner(m) =>
          heap[m].header.prefix_len <= whole["max_prefix_len_bytes"]
    BY <2>1, <2>4, <2>5
  <2>7. \/ whole["max_prefix_len_bytes"] = 0
        \/ \E m \in N \cup {n} : /\ IsInner(m)
                                 /\ heap[m].header.prefix_len = whole["max_prefix_len_bytes"]
    <3>1. CASE whole["max_prefix_len_bytes"] = p  BY <3>1, <2>1, <1>1
    <3>2. CASE whole["max_prefix_len_bytes"] = tree["max_prefix_len_bytes"]
      <4>1. \/ tree["max_prefix_len_bytes"] = 0
            \/ \E m \in N : /\ IsInner(m)
                            /\ heap[m].header.prefix_len = tree["max_prefix_len_bytes"]
        BY <1>5 DEF IsLongestPath
      <4> QED  BY <4>1, <3>2
    <3> QED  BY <3>1, <3>2, <2>2 DEF Larger
  <2> QED  BY <2>6, <2>7 DEF IsLongestPath
<1>11. NodesTallied(changed, whole, N \cup {n})
  BY <1>6, <1>7, <1>8, <1>9, <1>10 DEF NodesTallied
<1> QED  BY <1>2, <1>3, <1>11

-----------------------------------------------------------------------------
(***************************************************************************)
(* The visitors that count: each of their steps keeps CounterHolds, or     *)
(* ends the visit with the numbers of the whole tree.                      *)
(***************************************************************************)

CounterRecord(w, n, f, types, tree, leaf) ==
  [pc |-> "visiting", visitor |-> w, node |-> n, frames |-> f,
   types |-> types, tree |-> tree, leaf |-> leaf, result |-> None]

SetTypes(v, x) == [v EXCEPT !.types = x]
SetTree(v, x) == [v EXCEPT !.tree = x]
SetLeaf(v, x) == [v EXCEPT !.leaf = x]

LEMMA CounterUpdates ==
  ASSUME NEW w, NEW n, NEW f, NEW types, NEW tree, NEW leaf, NEW x
  PROVE  /\ SetNode(CounterRecord(w, n, f, types, tree, leaf), x) = CounterRecord(w, x, f, types, tree, leaf)
         /\ SetFrames(CounterRecord(w, n, f, types, tree, leaf), x) = CounterRecord(w, n, x, types, tree, leaf)
         /\ SetTypes(CounterRecord(w, n, f, types, tree, leaf), x) = CounterRecord(w, n, f, x, tree, leaf)
         /\ SetTree(CounterRecord(w, n, f, types, tree, leaf), x) = CounterRecord(w, n, f, types, x, leaf)
         /\ SetLeaf(CounterRecord(w, n, f, types, tree, leaf), x) = CounterRecord(w, n, f, types, tree, x)
BY DEF SetNode, SetFrames, SetTypes, SetTree, SetLeaf, CounterRecord

LEMMA CounterFields ==
  ASSUME NEW w, NEW n, NEW f, NEW types, NEW tree, NEW leaf, NEW v,
         v = CounterRecord(w, n, f, types, tree, leaf)
  PROVE  /\ v.pc = "visiting" /\ v.visitor = w /\ v.node = n /\ v.frames = f
         /\ v.types = types /\ v.tree = tree /\ v.leaf = leaf /\ v.result = None
BY DEF CounterRecord

LEMMA CounterFrames ==
  /\ \A f \in CounterFrame : f.node \in DOMAIN heap /\ f.todo \in Seq(Byte)
  /\ \A f \in CounterFrame : f = [node |-> f.node, todo |-> f.todo, accum |-> f.accum]
  /\ \A f \in CounterFrame : f.accum \in Nat \cup {None}
BY DEF CounterFrame

(* What CounterHolds says of a record, by its fields. *)
CounterTallies(w, f, n, types, tree, leaf) ==
  /\ w = "LeafNodeCounter" => \A i \in DOMAIN f : AccumHolds(f, n, i)
  /\ w = "TreeStatsCollector" => /\ LeavesTallied(leaf, Walked(Trail(f), n))
                                 /\ NodesTallied(types, tree, Walked(Trail(f), n))
CounterState(w, n, f, types, tree, leaf) ==
  /\ w \in Counters /\ n \in DOMAIN heap \cup {None} /\ f \in Seq(CounterFrame)
  /\ types \in [InnerType -> StatsType] /\ tree \in StatsType /\ leaf \in LeafStatsType
  /\ TrailHolds(Trail(f), n) /\ StartsAtRoot(f, n)
  /\ CounterTallies(w, f, n, types, tree, leaf)

LEMMA CounterParts ==
  ASSUME NEW v, CounterHolds(v)
  PROVE  \E w, n, f, types, tree, leaf : /\ v = CounterRecord(w, n, f, types, tree, leaf)
                                         /\ CounterState(w, n, f, types, tree, leaf)
<1>1. v \in CounterVisit  BY DEF CounterHolds
<1>2. v = CounterRecord(v.visitor, v.node, v.frames, v.types, v.tree, v.leaf)
  BY <1>1 DEF CounterVisit, CounterRecord
<1>3. /\ v.visitor \in Counters /\ v.node \in DOMAIN heap \cup {None} /\ v.frames \in Seq(CounterFrame)
      /\ v.types \in [InnerType -> StatsType] /\ v.tree \in StatsType /\ v.leaf \in LeafStatsType
  BY <1>1 DEF CounterVisit
<1>4. CounterTallies(v.visitor, v.frames, v.node, v.types, v.tree, v.leaf)
  BY DEF CounterHolds, CounterTallies
<1>5. TrailHolds(Trail(v.frames), v.node) /\ StartsAtRoot(v.frames, v.node)  BY DEF CounterHolds
<1>6. CounterState(v.visitor, v.node, v.frames, v.types, v.tree, v.leaf)
  BY <1>3, <1>4, <1>5 DEF CounterState
<1> QED  BY <1>2, <1>6

LEMMA CounterStands ==
  ASSUME NEW w, NEW n, NEW f, NEW types, NEW tree, NEW leaf,
         CounterState(w, n, f, types, tree, leaf),
         NEW v, v = CounterRecord(w, n, f, types, tree, leaf)
  PROVE  v.pc = "visiting" /\ v.visitor = w /\ v.visitor \in Counters /\ CounterHolds(v)
<1>1. /\ v.pc = "visiting" /\ v.visitor = w /\ v.node = n /\ v.frames = f
      /\ v.types = types /\ v.tree = tree /\ v.leaf = leaf
  BY CounterFields
<1>2. /\ w \in Counters /\ n \in DOMAIN heap \cup {None} /\ f \in Seq(CounterFrame)
      /\ types \in [InnerType -> StatsType] /\ tree \in StatsType /\ leaf \in LeafStatsType
  BY DEF CounterState
<1>3. v \in CounterVisit  BY <1>2 DEF CounterVisit, CounterRecord
<1>4. CounterTallies(w, f, n, types, tree, leaf) /\ TrailHolds(Trail(f), n) /\ StartsAtRoot(f, n)
  BY DEF CounterState
<1>5. /\ v.visitor = "LeafNodeCounter" =>
           \A i \in DOMAIN v.frames : AccumHolds(v.frames, v.node, i)
      /\ v.visitor = "TreeStatsCollector" =>
           /\ LeavesTallied(v.leaf, Walked(Trail(v.frames), v.node))
           /\ NodesTallied(v.types, v.tree, Walked(Trail(v.frames), v.node))
  BY <1>1, <1>4 DEF CounterTallies
<1>6. TrailHolds(Trail(v.frames), v.node) /\ StartsAtRoot(v.frames, v.node)  BY <1>1, <1>4
<1> QED  BY <1>1, <1>2, <1>3, <1>5, <1>6 DEF CounterHolds

CounterAnswers(v) ==
  /\ v.visitor = "LeafNodeCounter" => v.result = Cardinality(Leaves(heap))
  /\ v.visitor = "TreeStatsCollector" =>
       /\ v.types \in [InnerType -> StatsType] /\ v.tree \in StatsType
       /\ LeavesTallied(v.leaf, DOMAIN heap) /\ NodesTallied(v.types, v.tree, DOMAIN heap)

LEMMA StartCountingAnswers ==
  ASSUME TreeInvariant, ~TearingDown, NEW w \in Counters, StartCounting(w)
  PROVE  /\ visit'.visitor = w
         /\ \/ visit'.pc = "visiting" /\ CounterHolds(visit')
            \/ visit'.pc = "done" /\ CounterAnswers(visit')
<1>0. /\ LeavesTallied(LeafStats, {}) /\ NodesTallied(TypeStats, NoStats, {})
      /\ LeafStats \in LeafStatsType /\ NoStats \in StatsType /\ TypeStats \in [InnerType -> StatsType]
  BY NoTally
<1>1. Counter(w) = CounterRecord(w, root, << >>, TypeStats, NoStats, LeafStats)
  BY DEF Counter, CounterRecord
<1>2. CASE root # None
  <2>1. visit' = CounterRecord(w, root, << >>, TypeStats, NoStats, LeafStats)
    BY <1>1, <1>2 DEF StartCounting
  <2>2. Trail(<< >>) = << >>  BY DEF Trail
  <2>3. TrailHolds(<< >>, root) /\ Walked(<< >>, root) = {}  BY <1>2, WalkStarts
  <2>4. root \in DOMAIN heap  BY <1>2 DEF TreeInvariant, RootIsAboveAll
  <2>5. CounterTallies(w, << >>, root, TypeStats, NoStats, LeafStats)
    <3>1. \A i \in DOMAIN << >> : AccumHolds(<< >>, root, i)  OBVIOUS
    <3>2. Walked(Trail(<< >>), root) = {}  BY <2>2, <2>3
    <3>3. /\ LeavesTallied(LeafStats, Walked(Trail(<< >>), root))
          /\ NodesTallied(TypeStats, NoStats, Walked(Trail(<< >>), root))
      BY <1>0, <3>2
    <3> QED  BY <3>1, <3>3 DEF CounterTallies
  <2>6. << >> \in Seq(CounterFrame) /\ StartsAtRoot(<< >>, root)  BY DEF StartsAtRoot
  <2>7. CounterState(w, root, << >>, TypeStats, NoStats, LeafStats)
    BY <1>0, <2>2, <2>3, <2>4, <2>5, <2>6 DEF CounterState
  <2> QED  BY <2>1, <2>7, CounterStands
<1>3. CASE root = None
  <2>1. DOMAIN heap = {} /\ Leaves(heap) = {}  BY <1>3 DEF TreeInvariant, RootIsAboveAll, Leaves
  <2>2. PICK r : r = IF w = "LeafNodeCounter" THEN 0 ELSE None  OBVIOUS
  <2>3. visit' = [Counter(w) EXCEPT !.pc = "done", !.result = r]  BY <1>3, <2>2 DEF StartCounting
  <2>4. /\ visit'.pc = "done" /\ visit'.visitor = w /\ visit'.result = r /\ visit'.types = TypeStats
        /\ visit'.tree = NoStats /\ visit'.leaf = LeafStats
    BY <2>3, <1>1 DEF CounterRecord
  <2>5. w = "LeafNodeCounter" => r = Cardinality(Leaves(heap))  BY <2>1, <2>2, FS_EmptySet
  <2> QED  BY <1>0, <2>1, <2>4, <2>5 DEF CounterAnswers
<1> QED  BY <1>2, <1>3

LEMMA CounterTop ==
  ASSUME TreeInvariant, NEW f \in Seq(CounterFrame), TrailHolds(Trail(f), None),
         NEW top, top = Last(f), NEW rest, rest = Front(f), NEW stop, stop = StopOf(top)
  PROVE  /\ f # << >> /\ top \in CounterFrame /\ rest \in Seq(CounterFrame)
         /\ Len(f) \in Nat /\ Len(f) >= 1 /\ DOMAIN f = 1 .. Len(f) /\ top = f[Len(f)]
         /\ Len(rest) = Len(f) - 1 /\ \A i \in 1 .. Len(f) - 1 : rest[i] = f[i]
         /\ Trail(f) = Append(Trail(rest), stop) /\ Trail(rest) \in Seq(Stop)
         /\ stop \in Stop /\ stop.node = top.node /\ stop.todo = top.todo /\ StopHolds(stop)
         /\ top.node \in Inners(heap) /\ top.node.at \in ByteString /\ Len(top.node.at) \in Nat
<1>1. f # << >>
  <2>1. Trail(f) # << >>  BY DEF TrailHolds
  <2> QED  BY <2>1, CounterFrames, TrailFacts
<1>2. /\ top \in CounterFrame /\ rest \in Seq(CounterFrame)
      /\ Trail(f) = Append(Trail(rest), stop) /\ Trail(rest) \in Seq(Stop) /\ stop \in Stop
  BY <1>1, CounterFrames, TrailSplit
<1>3. /\ Len(f) \in Nat /\ Len(f) >= 1 /\ DOMAIN f = 1 .. Len(f) /\ top = f[Len(f)]
      /\ Len(rest) = Len(f) - 1 /\ \A i \in 1 .. Len(f) - 1 : rest[i] = f[i]
  BY <1>1, PopFacts
<1>4. stop.node = top.node /\ stop.todo = top.todo  BY DEF StopOf
<1>5. StopHolds(stop)
  <2>1. TrailHolds(Append(Trail(rest), stop), None)  BY <1>2
  <2> QED  BY <2>1, <1>2, PushedTrail
<1>6. top.node \in Inners(heap) /\ top.node.at \in ByteString /\ Len(top.node.at) \in Nat
  BY <1>2, <1>4, <1>5, StopType
<1> QED  BY <1>1, <1>2, <1>3, <1>4, <1>5, <1>6

(* A frame other than the last one gathers the same leaves in both lists.  *)
LEMMA GatheredStays ==
  ASSUME NEW f, NEW n, NEW g, NEW m, NEW i, i \in Nat, Len(f) \in Nat, Len(g) \in Nat,
         Walked(Trail(g), m) = Walked(Trail(f), n),
         g[i].node = f[i].node, i < Len(f) <=> i < Len(g),
         i < Len(f) => g[i + 1].node = f[i + 1].node
  PROVE  Gathered(g, m, i) = Gathered(f, n, i)
<1>1. \A x : x \in Walked(Trail(g), m) /\ IsLeaf(x) <=> x \in Walked(Trail(f), n) /\ IsLeaf(x)
  OBVIOUS
<1>2. ASSUME NEW x PROVE x \in Gathered(g, m, i) <=> x \in Gathered(f, n, i)
  <2>1. x \in Gathered(g, m, i) <=>
          /\ x \in Walked(Trail(g), m) /\ IsLeaf(x) /\ IsPrefix(g[i].node.at, x.at)
          /\ i < Len(g) => ~IsPrefix(g[i + 1].node.at, x.at)
    BY DEF Gathered
  <2>2. x \in Gathered(f, n, i) <=>
          /\ x \in Walked(Trail(f), n) /\ IsLeaf(x) /\ IsPrefix(f[i].node.at, x.at)
          /\ i < Len(f) => ~IsPrefix(f[i + 1].node.at, x.at)
    BY DEF Gathered
  <2> QED  BY <2>1, <2>2, <1>1
<1> QED  BY <1>2

LEMMA AccumStays ==
  ASSUME NEW f, NEW n, NEW g, NEW m, NEW i, AccumHolds(f, n, i),
         Gathered(g, m, i) = Gathered(f, n, i), g[i].accum = f[i].accum
  PROVE  AccumHolds(g, m, i)
BY DEF AccumHolds

LEMMA EnterNodeKeeps ==
  ASSUME TreeInvariant, CounterHolds(visit), EnterNode
  PROVE  visit'.pc = "visiting" /\ visit'.visitor \in Counters /\ CounterHolds(visit')
<1>1. PICK w, n, f, types, tree, leaf :
        visit = CounterRecord(w, n, f, types, tree, leaf) /\ CounterState(w, n, f, types, tree, leaf)
  BY CounterParts
<1>2. visit.visitor = w /\ visit.node = n /\ visit.frames = f  BY <1>1, CounterFields
<1>3. n # None /\ IsInner(n)  BY <1>2 DEF EnterNode
<1>4. /\ w \in Counters /\ n \in DOMAIN heap \cup {None} /\ f \in Seq(CounterFrame)
      /\ types \in [InnerType -> StatsType] /\ tree \in StatsType /\ leaf \in LeafStatsType
      /\ TrailHolds(Trail(f), n) /\ StartsAtRoot(f, n)
      /\ CounterTallies(w, f, n, types, tree, leaf)
  BY <1>1 DEF CounterState
<1>5. n \in DOMAIN heap /\ n \in Inners(heap) /\ n.at \in ByteString
  <2>1. n \in DOMAIN heap  BY <1>3, <1>4
  <2> QED  BY <2>1, <1>3, NodeFacts
<1>6. PICK stop : stop = [node |-> n, todo |-> BytesInOrder(n)]  OBVIOUS
<1>7. stop \in Stop  BY <1>5, <1>6, InnerStop
<1>8. PICK frame : frame = [node |-> n, todo |-> BytesInOrder(n), accum |-> None]  OBVIOUS
<1>9. frame \in CounterFrame /\ StopOf(frame) = stop /\ frame.node = n /\ frame.accum = None
  <2>1. BytesInOrder(n) \in Seq(Byte)  BY <1>6, <1>7 DEF Stop
  <2> QED  BY <2>1, <1>5, <1>6, <1>8 DEF CounterFrame, StopOf
<1>10. PICK g \in Seq(CounterFrame) : g = Append(f, frame)  BY <1>4, <1>9, PushFacts
<1>11. /\ Len(f) \in Nat /\ Len(g) = Len(f) + 1 /\ DOMAIN g = 1 .. Len(f) + 1 /\ DOMAIN f = 1 .. Len(f)
       /\ \A i \in 1 .. Len(f) : g[i] = f[i]
       /\ g[Len(f) + 1] = frame /\ g # << >>
  BY <1>4, <1>9, <1>10, PushFacts
<1>12. Trail(g) = Append(Trail(f), stop)  BY <1>4, <1>9, <1>10, TrailPush, CounterFrames
<1>13. /\ TrailHolds(Trail(g), None) /\ Walked(Trail(g), None) = Walked(Trail(f), n)
  BY <1>3, <1>4, <1>6, <1>12, WalkEnters
<1>14. visit' = CounterRecord(w, None, g, types, tree, leaf)
  <2>1. visit' = SetFrames(SetNode(visit, None), g)
    BY <1>2, <1>8, <1>10 DEF EnterNode, SetFrames, SetNode
  <2> QED  BY <2>1, <1>1, CounterUpdates
<1>15. StartsAtRoot(g, None)
  <2>1. CASE f = << >>
    <3>1. Len(f) = 0 /\ n = root  BY <2>1, <1>4 DEF StartsAtRoot
    <3>2. g[1] = frame  BY <3>1, <1>11
    <3> QED  BY <3>1, <3>2, <1>9, <1>11 DEF StartsAtRoot
  <2>2. CASE f # << >>
    <3>1. f[1].node = root  BY <2>2, <1>4 DEF StartsAtRoot
    <3>2. Len(f) >= 1  BY <2>2, <1>4, PopFacts
    <3>3. g[1] = f[1]  BY <3>2, <1>11
    <3> QED  BY <3>1, <3>3, <1>11 DEF StartsAtRoot
  <2> QED  BY <2>1, <2>2
<1>16. ASSUME w = "LeafNodeCounter", NEW i \in DOMAIN g PROVE AccumHolds(g, None, i)
  <2>1. \A x \in Walked(Trail(f), n) : ~IsPrefix(n.at, x.at)  BY <1>3 DEF Walked, Ahead
  <2>2. CASE i = Len(f) + 1
    <3>1. g[i].node = n /\ g[i].accum = None  BY <2>2, <1>9, <1>11
    <3>2. Gathered(g, None, i) = {}  BY <3>1, <2>1, <1>13 DEF Gathered
    <3> QED  BY <3>1, <3>2 DEF AccumHolds
  <2>3. CASE i # Len(f) + 1
    <3>1. i \in 1 .. Len(f) /\ g[i] = f[i]  BY <1>16, <2>3, <1>11
    <3>2. AccumHolds(f, n, i)  BY <3>1, <1>4, <1>11, <1>16 DEF CounterTallies
    <3>3. CASE i < Len(f)
      <4>1. g[i + 1] = f[i + 1] /\ i \in Nat /\ i < Len(g)  BY <3>1, <3>3, <1>11
      <4>2. Gathered(g, None, i) = Gathered(f, n, i)
        BY <4>1, <3>1, <3>3, <1>11, <1>13, GatheredStays
      <4> QED  BY <4>2, <3>1, <3>2, AccumStays
    <3>4. CASE ~(i < Len(f))
      <4>1. i = Len(f) /\ i < Len(g) /\ g[i + 1].node = n  BY <3>1, <3>4, <1>9, <1>11
      <4>2. Gathered(g, None, i) = Gathered(f, n, i)
        BY <4>1, <3>1, <3>4, <2>1, <1>13 DEF Gathered
      <4> QED  BY <4>2, <3>1, <3>2, AccumStays
    <3> QED  BY <3>3, <3>4
  <2> QED  BY <2>2, <2>3
<1>17. CounterTallies(w, g, None, types, tree, leaf)
  BY <1>4, <1>13, <1>16 DEF CounterTallies
<1>18. CounterState(w, None, g, types, tree, leaf)
  BY <1>4, <1>10, <1>13, <1>15, <1>17 DEF CounterState
<1> QED  BY <1>4, <1>14, <1>18, CounterStands

LEMMA NextChildKeeps ==
  ASSUME TreeInvariant, CounterHolds(visit), NextChild
  PROVE  visit'.pc = "visiting" /\ visit'.visitor \in Counters /\ CounterHolds(visit')
<1>1. PICK w, n, f, types, tree, leaf :
        visit = CounterRecord(w, n, f, types, tree, leaf) /\ CounterState(w, n, f, types, tree, leaf)
  BY CounterParts
<1>2. visit.visitor = w /\ visit.node = n /\ visit.frames = f  BY <1>1, CounterFields
<1>3. n = None  BY <1>2 DEF NextChild
<1>4. /\ w \in Counters /\ f \in Seq(CounterFrame)
      /\ types \in [InnerType -> StatsType] /\ tree \in StatsType /\ leaf \in LeafStatsType
      /\ TrailHolds(Trail(f), None) /\ StartsAtRoot(f, None)
      /\ CounterTallies(w, f, None, types, tree, leaf)
  BY <1>1, <1>3 DEF CounterState
<1>5. PICK top, rest, stop : top = Last(f) /\ rest = Front(f) /\ stop = StopOf(top)  OBVIOUS
<1>6. /\ f # << >> /\ top \in CounterFrame /\ rest \in Seq(CounterFrame)
      /\ Len(f) \in Nat /\ Len(f) >= 1 /\ DOMAIN f = 1 .. Len(f) /\ top = f[Len(f)]
      /\ Len(rest) = Len(f) - 1 /\ \A i \in 1 .. Len(f) - 1 : rest[i] = f[i]
      /\ Trail(f) = Append(Trail(rest), stop) /\ Trail(rest) \in Seq(Stop)
      /\ stop \in Stop /\ stop.node = top.node /\ stop.todo = top.todo /\ StopHolds(stop)
      /\ top.node \in Inners(heap) /\ top.node.at \in ByteString /\ Len(top.node.at) \in Nat
  BY <1>4, <1>5, CounterTop
<1>7. PICK b, child, next : /\ b = Head(top.todo) /\ child = Child(top.node, b)
                            /\ next = [node |-> top.node, todo |-> Tail(top.todo)]
  OBVIOUS
<1>8. top.todo # << >>  BY <1>2, <1>5 DEF NextChild, Top
<1>9. /\ TrailHolds(Append(Trail(rest), next), child) /\ next \in Stop /\ child \in DOMAIN heap
      /\ Walked(Append(Trail(rest), next), child) = Walked(Trail(f), None)
  <2>1. TrailHolds(Append(Trail(rest), stop), None)  BY <1>4, <1>6
  <2>2. /\ stop.todo # << >> /\ next = [node |-> stop.node, todo |-> Tail(stop.todo)]
        /\ child = Child(stop.node, Head(stop.todo)) /\ b = Head(stop.todo)
        /\ child = Child(stop.node, b) /\ stop \in Stop /\ StopHolds(stop)
    BY <1>6, <1>7, <1>8
  <2>3. /\ TrailHolds(Append(Trail(rest), next), child)
        /\ Walked(Append(Trail(rest), next), child) = Walked(Append(Trail(rest), stop), None)
    BY <2>1, <2>2, <1>6, WalkDescends
  <2>4. next \in Stop /\ child \in DOMAIN heap  BY <2>2, NextStop
  <2> QED  BY <2>3, <2>4, <1>6
<1>10. PICK frame : frame = [top EXCEPT !.todo = Tail(@)]  OBVIOUS
<1>11. /\ frame \in CounterFrame /\ StopOf(frame) = next /\ frame.node = top.node
       /\ frame.accum = top.accum
  <2>1. top = [node |-> top.node, todo |-> top.todo, accum |-> top.accum]  BY <1>6, CounterFrames
  <2>2. frame = [node |-> top.node, todo |-> Tail(top.todo), accum |-> top.accum]
    BY <2>1, <1>10
  <2>3. Tail(top.todo) \in Seq(Byte)  BY <1>7, <1>9 DEF Stop
  <2>4. top.node \in DOMAIN heap /\ top.accum \in Nat \cup {None}  BY <1>6, CounterFrames
  <2> QED  BY <2>2, <2>3, <2>4, <1>7 DEF CounterFrame, StopOf
<1>12. PICK g \in Seq(CounterFrame) : g = Append(rest, frame)  BY <1>6, <1>11, PushFacts
<1>13. /\ Len(g) = Len(f) /\ DOMAIN g = 1 .. Len(f) /\ g # << >>
       /\ \A i \in 1 .. Len(f) - 1 : g[i] = f[i]
       /\ g[Len(f)] = frame /\ Last(g) = frame
  <2> rest \in Seq(CounterFrame) /\ frame \in CounterFrame  BY <1>6, <1>11
  <2>1. /\ Append(rest, frame) # << >> /\ Len(Append(rest, frame)) = Len(rest) + 1
        /\ DOMAIN Append(rest, frame) = 1 .. Len(rest) + 1
        /\ \A i \in 1 .. Len(rest) : Append(rest, frame)[i] = rest[i]
        /\ Append(rest, frame)[Len(rest) + 1] = frame /\ Last(Append(rest, frame)) = frame
    BY PushFacts
  <2> QED  BY <2>1, <1>6, <1>12
<1>14. \A i \in 1 .. Len(f) : g[i].node = f[i].node /\ g[i].accum = f[i].accum
  <2>1. TAKE i \in 1 .. Len(f)
  <2>2. CASE i = Len(f)  BY <2>2, <1>6, <1>11, <1>13
  <2>3. CASE i # Len(f)
    <3>1. Len(f) \in Nat  BY <1>6
    <3>2. i \in 1 .. Len(f) - 1  BY ONLY <3>1, <2>1, <2>3, i \in 1 .. Len(f)
    <3> QED  BY <3>2, <1>13
  <2> QED  BY <2>2, <2>3
<1>15. Trail(g) = Append(Trail(rest), next)  BY <1>6, <1>11, <1>12, TrailPush, CounterFrames
<1>16. Walked(Trail(g), child) = Walked(Trail(f), None) /\ TrailHolds(Trail(g), child)
  BY <1>9, <1>15
<1>17. visit' = CounterRecord(w, child, g, types, tree, leaf)
  <2>1. visit' = SetFrames(SetNode(visit, child), g)
    BY <1>2, <1>5, <1>7, <1>10, <1>12 DEF NextChild, SetFrames, SetNode, Top, WithTop
  <2> QED  BY <2>1, <1>1, CounterUpdates
<1>18. StartsAtRoot(g, child)
  <2>1. g[1].node = f[1].node  BY <1>6, <1>14
  <2> QED  BY <2>1, <1>4, <1>6, <1>13 DEF StartsAtRoot
<1>19. ASSUME w = "LeafNodeCounter", NEW i \in DOMAIN g PROVE AccumHolds(g, child, i)
  <2>1. i \in 1 .. Len(f) /\ i \in Nat /\ Len(g) \in Nat /\ Len(f) \in Nat  BY <1>6, <1>13
  <2>2. i < Len(f) => i + 1 \in 1 .. Len(f)  BY <2>1, <1>6
  <2>3. Gathered(g, child, i) = Gathered(f, None, i)
    <3>1. g[i].node = f[i].node /\ (i < Len(f) <=> i < Len(g))  BY <2>1, <1>13, <1>14
    <3>2. i < Len(f) => g[i + 1].node = f[i + 1].node  BY <2>2, <1>14
    <3>3. Walked(Trail(g), child) = Walked(Trail(f), None)  BY <1>16
    <3> QED  BY ONLY <3>1, <3>2, <3>3, <2>1, GatheredStays
  <2>4. AccumHolds(f, None, i)  BY <2>1, <1>4, <1>6, <1>19 DEF CounterTallies
  <2> QED  BY <2>1, <2>3, <2>4, <1>14, AccumStays
<1>20. CounterTallies(w, g, child, types, tree, leaf)
  BY <1>4, <1>16, <1>19 DEF CounterTallies
<1>21. CounterState(w, child, g, types, tree, leaf)
  BY <1>4, <1>9, <1>12, <1>16, <1>18, <1>20 DEF CounterState
<1> QED  BY <1>4, <1>17, <1>21, CounterStands

LEMMA FramesOnTrail ==
  ASSUME TreeInvariant, NEW f \in Seq(CounterFrame), NEW n, TrailHolds(Trail(f), n)
  PROVE  /\ Len(f) \in Nat /\ DOMAIN f = 1 .. Len(f)
         /\ \A i \in DOMAIN f :
              /\ f[i].node \in Inners(heap) /\ f[i].node \in DOMAIN heap /\ IsInner(f[i].node)
              /\ f[i].node.at \in ByteString
              /\ StopOf(f[i]) \in Stop /\ StopHolds(StopOf(f[i]))
         /\ \A i, j \in DOMAIN f : i < j => Passes(StopOf(f[i]), f[j].node)
         /\ n # None => \A i \in DOMAIN f : Passes(StopOf(f[i]), n)
<1>1. /\ DOMAIN Trail(f) = DOMAIN f /\ DOMAIN f = 1 .. Len(f)
      /\ \A i \in DOMAIN f : Trail(f)[i] = StopOf(f[i]) /\ StopOf(f[i]) \in Stop
  BY CounterFrames, TrailFacts
<1>2. \A i \in DOMAIN f : StopOf(f[i]).node = f[i].node  BY DEF StopOf
<1>3. /\ \A i \in DOMAIN Trail(f) : StopHolds(Trail(f)[i])
      /\ \A i, j \in DOMAIN Trail(f) : i < j => Passes(Trail(f)[i], Trail(f)[j].node)
      /\ n # None => \A i \in DOMAIN Trail(f) : Passes(Trail(f)[i], n)
  BY DEF TrailHolds
<1>4. \A i \in DOMAIN f : StopHolds(StopOf(f[i]))  BY <1>1, <1>3
<1>5. \A i \in DOMAIN f : /\ f[i].node \in Inners(heap) /\ f[i].node \in DOMAIN heap
                          /\ f[i].node.at \in ByteString /\ IsInner(f[i].node)
  BY <1>1, <1>2, <1>4, StopType DEF StopHolds
<1>6. \A i, j \in DOMAIN f : i < j => Passes(StopOf(f[i]), f[j].node)
  BY <1>1, <1>2, <1>3
<1>7. n # None => \A i \in DOMAIN f : Passes(StopOf(f[i]), n)  BY <1>1, <1>3
<1>8. Len(f) \in Nat  OBVIOUS
<1> QED  BY <1>1, <1>4, <1>5, <1>6, <1>7, <1>8

(* Below a node whose children are all visited every leaf is done with.    *)
LEMMA BelowTop ==
  ASSUME TreeInvariant, NEW f \in Seq(CounterFrame), TrailHolds(Trail(f), None),
         NEW top, top = Last(f), top.todo = << >>
  PROVE  /\ Gathered(f, None, Len(f)) = {x \in Leaves(heap) : IsPrefix(top.node.at, x.at)}
         /\ Gathered(f, None, Len(f)) # {}
<1>1. PICK rest, stop : rest = Front(f) /\ stop = StopOf(top)  OBVIOUS
<1>2. /\ Len(f) \in Nat /\ Len(f) >= 1 /\ DOMAIN f = 1 .. Len(f) /\ top = f[Len(f)]
      /\ stop.todo = top.todo /\ top.node \in Inners(heap)
  BY <1>1, CounterTop
<1>3. /\ \A i \in DOMAIN f :
           /\ f[i].node \in DOMAIN heap /\ IsInner(f[i].node)
           /\ StopOf(f[i]) \in Stop /\ StopHolds(StopOf(f[i]))
      /\ \A i, j \in DOMAIN f : i < j => Passes(StopOf(f[i]), f[j].node)
  BY FramesOnTrail
<1>4. /\ DOMAIN Trail(f) = DOMAIN f /\ \A i \in DOMAIN f : Trail(f)[i] = StopOf(f[i])
      /\ \A i \in DOMAIN f : StopOf(f[i]).node = f[i].node
  BY CounterFrames, TrailFacts DEF StopOf
<1>5. ASSUME NEW x \in Leaves(heap), IsPrefix(top.node.at, x.at)
      PROVE  x \in Walked(Trail(f), None)
  <2>1. x \in DOMAIN heap /\ ~IsInner(x)  BY LeafFacts, NodeFacts
  <2>2. ASSUME NEW i \in DOMAIN f PROVE ~AheadOf(StopOf(f[i]), x) /\ x # f[i].node
    <3>1. CASE i = Len(f)
      <4>1. StopOf(f[i]).todo = << >>  BY <3>1, <1>1, <1>2
      <4>2. ToVisit(StopOf(f[i])) = {}  BY <4>1 DEF ToVisit
      <4> QED  BY <4>2, <2>1, <1>3 DEF AheadOf
    <3>2. CASE i # Len(f)
      <4>1. i < Len(f) /\ Len(f) \in DOMAIN f  BY <3>2, <1>2
      <4>2. Passes(StopOf(f[i]), top.node)  BY <4>1, <1>2, <1>3
      <4>3. top.node \in DOMAIN heap  BY <1>2, InnerFacts
      <4>4. Passes(StopOf(f[i]), x)  BY <4>2, <4>3, <2>1, <1>3, <1>5, PassesBelow
      <4> QED  BY <4>4, <2>1, <1>3, PassedFacts
    <3> QED  BY <3>1, <3>2
  <2>3. \A i \in DOMAIN Trail(f) : ~AheadOf(Trail(f)[i], x) /\ x # Trail(f)[i].node
    BY <2>2, <1>4
  <2> QED  BY <2>1, <2>3 DEF Walked, Ahead
<1>6. \A x \in Leaves(heap) : x \in DOMAIN heap /\ IsLeaf(x)  BY LeafFacts
<1>7. \A x \in DOMAIN heap : IsLeaf(x) => x \in Leaves(heap)  BY NodeFacts
<1>8. \A x : x \in Gathered(f, None, Len(f)) <=>
               x \in Walked(Trail(f), None) /\ IsLeaf(x) /\ IsPrefix(top.node.at, x.at)
  BY <1>2 DEF Gathered
<1>9. \A x \in Walked(Trail(f), None) : x \in DOMAIN heap  BY DEF Walked
<1>10. \A x : x \in Gathered(f, None, Len(f)) <=> x \in Leaves(heap) /\ IsPrefix(top.node.at, x.at)
  BY <1>5, <1>6, <1>7, <1>8, <1>9
<1>11. \E x \in Leaves(heap) : IsPrefix(top.node.at, x.at)  BY <1>2, InnerFacts, LeafBelow
<1> QED  BY <1>10, <1>11

LEMMA CombinedFacts ==
  ASSUME NEW accum \in Nat \cup {None}, NEW output \in Nat
  PROVE  /\ Combined(accum, output) \in Nat /\ Combined(accum, output) # None
         /\ accum = None => Combined(accum, output) = output
         /\ accum # None => accum \in Nat /\ Combined(accum, output) = accum + output
BY CountAssumption DEF Combined

(* What the frame on top has counted is about the leaves Old, and output   *)
(* is about the others it has below it.                                    *)
LastGains(f, output) ==
  \E Old, Out \in SUBSET DOMAIN heap :
    /\ Old \cap Out = {} /\ Gathered(f, None, Len(f)) = Old \cup Out
    /\ output = Cardinality(Out)
    /\ IF f[Len(f)].accum = None THEN Old = {} ELSE f[Len(f)].accum = Cardinality(Old)

Gains(f, output) ==
  IF f = << >> THEN output = Cardinality(Leaves(heap))
  ELSE /\ \A i \in DOMAIN f : i # Len(f) => AccumHolds(f, None, i)
       /\ LastGains(f, output)

LEMMA LastCombined ==
  ASSUME TreeInvariant, NEW f, NEW g, NEW output \in Nat, LastGains(f, output),
         f[Len(f)].accum \in Nat \cup {None}, Len(g) = Len(f),
         Gathered(g, None, Len(f)) = Gathered(f, None, Len(f)),
         g[Len(f)].accum = Combined(f[Len(f)].accum, output)
  PROVE  AccumHolds(g, None, Len(f))
<1>1. PICK accum \in Nat \cup {None} : accum = f[Len(f)].accum  OBVIOUS
<1>2. PICK Old \in SUBSET DOMAIN heap, Out \in SUBSET DOMAIN heap :
        /\ Old \cap Out = {} /\ Gathered(f, None, Len(f)) = Old \cup Out
        /\ output = Cardinality(Out)
        /\ IF accum = None THEN Old = {} ELSE accum = Cardinality(Old)
  BY <1>1 DEF LastGains
<1>3. IsFiniteSet(Old) /\ IsFiniteSet(Out)  BY FS_Subset DEF TreeInvariant, HeapIsFinite
<1>4. Cardinality({}) = 0  BY FS_EmptySet
<1>5. Cardinality(Old \cup Out) = Cardinality(Old) + Cardinality(Out) - Cardinality({})
  BY <1>2, <1>3, FS_Union
<1>6. PICK a \in Nat, b \in Nat : a = Cardinality(Old) /\ b = Cardinality(Out)
  BY <1>3, FS_CardinalityType
<1>7. Cardinality(Old \cup Out) = a + b  BY <1>4, <1>5, <1>6
<1>8. Combined(accum, output) = a + b /\ Combined(accum, output) # None
  <2>1. CASE accum = None
    <3>1. a = 0 /\ b = output  BY <2>1, <1>2, <1>4, <1>6
    <3> QED  BY <2>1, <3>1, CombinedFacts
  <2>2. CASE accum # None
    <3>1. a = accum /\ b = output  BY <2>2, <1>2, <1>6
    <3> QED  BY <2>2, <3>1, CombinedFacts
  <2> QED  BY <2>1, <2>2
<1> QED  BY <1>1, <1>2, <1>7, <1>8 DEF AccumHolds

LEMMA OutputKeeps ==
  ASSUME TreeInvariant, NEW w \in Counters, NEW n, NEW f \in Seq(CounterFrame),
         NEW types \in [InnerType -> StatsType], NEW tree \in StatsType, NEW leaf \in LeafStatsType,
         NEW output \in Nat,
         f # << >> => TrailHolds(Trail(f), None),
         f # << >> => StartsAtRoot(f, None),
         w = "LeafNodeCounter" => Gains(f, output),
         w = "TreeStatsCollector" => LeavesTallied(leaf, Walked(Trail(f), None)),
         w = "TreeStatsCollector" => NodesTallied(types, tree, Walked(Trail(f), None)),
         NEW v, v = Output(CounterRecord(w, n, f, types, tree, leaf), output)
  PROVE  /\ v.visitor = w
         /\ \/ v.pc = "visiting" /\ CounterHolds(v)
            \/ v.pc = "done" /\ CounterAnswers(v)
<1>r. PICK r : r = CounterRecord(w, n, f, types, tree, leaf)  OBVIOUS
<1>a. r.frames = f /\ v = Output(r, output)  BY <1>r, CounterFields
<1>1. CASE f = << >>
  <2>1. v = [CounterRecord(w, n, f, types, tree, leaf) EXCEPT !.pc = "done", !.node = None, !.result = output]
    BY <1>r, <1>1, <1>a DEF Output
  <2>2. /\ v.pc = "done" /\ v.visitor = w /\ v.result = output /\ v.leaf = leaf
        /\ v.types = types /\ v.tree = tree
    BY <2>1 DEF CounterRecord
  <2>3. Trail(f) = << >>  BY <1>1 DEF Trail
  <2>4. Walked(Trail(f), None) = DOMAIN heap  BY <2>3, WalkEnds
  <2>5. w = "LeafNodeCounter" => output = Cardinality(Leaves(heap))  BY <1>1 DEF Gains
  <2>6. CounterAnswers(v)  BY <2>2, <2>4, <2>5 DEF CounterAnswers
  <2> QED  BY <2>2, <2>6
<1>2. CASE f # << >>
  <2>1. PICK top, rest, stop : top = Last(f) /\ rest = Front(f) /\ stop = StopOf(top)  OBVIOUS
  <2>2. /\ top \in CounterFrame /\ rest \in Seq(CounterFrame)
        /\ Len(f) \in Nat /\ Len(f) >= 1 /\ DOMAIN f = 1 .. Len(f) /\ top = f[Len(f)]
        /\ Len(rest) = Len(f) - 1 /\ \A i \in 1 .. Len(f) - 1 : rest[i] = f[i]
        /\ Trail(f) = Append(Trail(rest), stop)
    BY <1>2, <2>1, CounterTop
  <2>3. PICK frame : frame = WithOutput(top, output)  OBVIOUS
  <2>4. /\ frame \in CounterFrame /\ StopOf(frame) = stop /\ frame.node = top.node
        /\ frame.accum = Combined(top.accum, output) /\ top.accum \in Nat \cup {None}
    <3>1. top = [node |-> top.node, todo |-> top.todo, accum |-> top.accum]
      BY <2>2, CounterFrames
    <3>2. frame = [node |-> top.node, todo |-> top.todo, accum |-> Combined(top.accum, output)]
      BY <3>1, <2>3 DEF WithOutput
    <3>3. /\ top.node \in DOMAIN heap /\ top.todo \in Seq(Byte) /\ top.accum \in Nat \cup {None}
      BY <2>2, CounterFrames
    <3>4. Combined(top.accum, output) \in Nat  BY <3>3, CombinedFacts
    <3> QED  BY <3>2, <3>3, <3>4, <2>1 DEF CounterFrame, StopOf
  <2>5. PICK g \in Seq(CounterFrame) : g = Append(rest, frame)  BY <2>2, <2>4, PushFacts
  <2>6. /\ Len(g) = Len(f) /\ DOMAIN g = 1 .. Len(f) /\ g # << >>
        /\ \A i \in 1 .. Len(f) - 1 : g[i] = f[i]
        /\ g[Len(f)] = frame /\ Last(g) = frame
    <3> rest \in Seq(CounterFrame) /\ frame \in CounterFrame  BY <2>2, <2>4
    <3>1. /\ Append(rest, frame) # << >> /\ Len(Append(rest, frame)) = Len(rest) + 1
          /\ DOMAIN Append(rest, frame) = 1 .. Len(rest) + 1
          /\ \A i \in 1 .. Len(rest) : Append(rest, frame)[i] = rest[i]
          /\ Append(rest, frame)[Len(rest) + 1] = frame /\ Last(Append(rest, frame)) = frame
      BY PushFacts
    <3> QED  BY <3>1, <2>2, <2>5
  <2>7. \A i \in 1 .. Len(f) : /\ g[i].node = f[i].node
                               /\ i # Len(f) => g[i].accum = f[i].accum
    <3>1. TAKE i \in 1 .. Len(f)
    <3>2. CASE i = Len(f)  BY <3>2, <2>2, <2>4, <2>6
    <3>3. CASE i # Len(f)
      <4>1. Len(f) \in Nat  BY <2>2
      <4>2. i \in 1 .. Len(f) - 1  BY ONLY <4>1, <3>1, <3>3, i \in 1 .. Len(f)
      <4> QED  BY <4>2, <2>6
    <3> QED  BY <3>2, <3>3
  <2>8. Trail(g) = Trail(f)
    <3>1. Trail(g) = Append(Trail(rest), StopOf(frame))
      BY <2>2, <2>4, <2>5, TrailPush, CounterFrames
    <3> QED  BY <3>1, <2>2, <2>4
  <2>9. v = CounterRecord(w, None, g, types, tree, leaf)
    <3>1. v = SetFrames(SetNode(r, None), g)
      BY <1>2, <1>a, <2>1, <2>3, <2>5 DEF Output, SetFrames, SetNode
    <3> QED  BY <3>1, <1>r, CounterUpdates
  <2>10. StartsAtRoot(g, None)
    <3>1. f[1].node = root  BY <1>2 DEF StartsAtRoot
    <3>3. 1 \in 1 .. Len(f)  BY <2>2
    <3>2. g[1].node = f[1].node  BY ONLY <3>3, <2>7
    <3> QED  BY <3>1, <3>2, <2>6 DEF StartsAtRoot
  <2>11. \A i \in 1 .. Len(f) : Gathered(g, None, i) = Gathered(f, None, i)
    <3>1. TAKE i \in 1 .. Len(f)
    <3>2. i \in Nat /\ Len(f) \in Nat /\ Len(g) \in Nat /\ Len(g) = Len(f)  BY <2>2, <2>6
    <3>3. Walked(Trail(g), None) = Walked(Trail(f), None)  BY <2>8
    <3>4. i < Len(f) => i + 1 \in 1 .. Len(f)  BY <3>2
    <3>5. g[i].node = f[i].node /\ (i < Len(f) => g[i + 1].node = f[i + 1].node)
      BY <3>4, <2>7
    <3>6. i < Len(f) <=> i < Len(g)  BY <3>2
    <3> QED  BY ONLY <3>2, <3>3, <3>5, <3>6, GatheredStays
  <2>12. ASSUME w = "LeafNodeCounter", NEW i \in DOMAIN g PROVE AccumHolds(g, None, i)
    <3>1. /\ \A j \in DOMAIN f : j # Len(f) => AccumHolds(f, None, j)
          /\ LastGains(f, output)
      BY <1>2, <2>12 DEF Gains
    <3>2. i \in 1 .. Len(f)  BY <2>6
    <3>3. Gathered(g, None, i) = Gathered(f, None, i)  BY <3>2, <2>11
    <3>4. CASE i = Len(f)
      <4>1. g[Len(f)].accum = Combined(f[Len(f)].accum, output)  BY <2>2, <2>4, <2>6
      <4>2. f[Len(f)].accum \in Nat \cup {None} /\ Len(g) = Len(f)  BY <2>2, <2>4, <2>6
      <4> QED  BY <3>1, <3>3, <3>4, <4>1, <4>2, LastCombined
    <3>5. CASE i # Len(f)
      <4>1. AccumHolds(f, None, i)  BY <3>1, <3>2, <3>5, <2>2
      <4>2. g[i].accum = f[i].accum  BY <3>2, <3>5, <2>7
      <4> QED  BY <4>1, <4>2, <3>3, AccumStays
    <3> QED  BY <3>4, <3>5
  <2>13. CounterTallies(w, g, None, types, tree, leaf)
    BY <2>8, <2>12 DEF CounterTallies
  <2>14. TrailHolds(Trail(g), None)  BY <1>2, <2>8
  <2>15. CounterState(w, None, g, types, tree, leaf)
    BY <2>10, <2>13, <2>14 DEF CounterState
  <2> QED  BY <2>9, <2>15, CounterStands
<1> QED  BY <1>1, <1>2

(* The leaf n is done with: it is the last frame's, or the only node. *)
LEMMA LeafGained ==
  ASSUME TreeInvariant, ~TearingDown, NEW n \in Leaves(heap), NEW f \in Seq(CounterFrame),
         TrailHolds(Trail(f), n), StartsAtRoot(f, n),
         \A i \in DOMAIN f : AccumHolds(f, n, i),
         n \notin Walked(Trail(f), n),
         Walked(Trail(f), None) = Walked(Trail(f), n) \cup {n}
  PROVE  Gains(f, 1)
<1>0. n \in DOMAIN heap /\ IsLeaf(n) /\ n # None  BY LeafFacts, NodeFacts
<1>a. Cardinality({n}) = 1  BY FS_Singleton
<1>1. CASE f = << >>
  <2>1. n = root  BY <1>1 DEF StartsAtRoot
  <2>2. \A x \in DOMAIN heap : IsPrefix(root.at, x.at)  BY <1>0, <2>1 DEF TreeInvariant, RootIsAboveAll
  <2>3. \A x \in Leaves(heap) : x = n  BY <2>1, <2>2, LeafFacts, UnderLeaf
  <2>4. Leaves(heap) = {n}  BY <2>3
  <2> QED  BY <1>1, <1>a, <2>4 DEF Gains
<1>2. CASE f # << >>
  <2>1. /\ Len(f) \in Nat /\ DOMAIN f = 1 .. Len(f) /\ Len(f) >= 1
        /\ \A i \in DOMAIN f : StopOf(f[i]) \in Stop /\ StopHolds(StopOf(f[i]))
        /\ \A i \in DOMAIN f : Passes(StopOf(f[i]), n)
    BY <1>0, <1>2, FramesOnTrail, PopFacts
  <2>2. \A i \in DOMAIN f : IsPrefix(f[i].node.at, n.at)
    <3>1. TAKE i \in DOMAIN f
    <3>2. IsPrefix(StopOf(f[i]).node.at, n.at)  BY <1>0, <2>1, PassedFacts
    <3> QED  BY <3>2 DEF StopOf
  <2>3. ASSUME NEW i \in DOMAIN f, i # Len(f) PROVE AccumHolds(f, None, i)
    <3>1. i + 1 \in DOMAIN f /\ i < Len(f)  BY <2>1, <2>3
    <3>2. IsPrefix(f[i + 1].node.at, n.at)  BY <2>2, <3>1
    <3>3. \A x : x \in Gathered(f, None, i) <=> x \in Gathered(f, n, i)
      BY <3>1, <3>2 DEF Gathered
    <3>4. Gathered(f, None, i) = Gathered(f, n, i)  BY <3>3
    <3> QED  BY <3>4, AccumStays
  <2>4. PICK Old : Old = Gathered(f, n, Len(f))  OBVIOUS
  <2>5. Old \in SUBSET DOMAIN heap /\ n \notin Old  BY <2>4 DEF Gathered, Walked
  <2>6. Gathered(f, None, Len(f)) = Old \cup {n}
    <3>1. IsPrefix(f[Len(f)].node.at, n.at) /\ ~(Len(f) < Len(f))  BY <2>1, <2>2
    <3>2. \A x : x \in Gathered(f, None, Len(f)) <=> x \in Old \/ x = n
      BY <1>0, <2>4, <3>1 DEF Gathered
    <3> QED  BY <3>2
  <2>7. IF f[Len(f)].accum = None THEN Old = {} ELSE f[Len(f)].accum = Cardinality(Old)
    <3>1. AccumHolds(f, n, Len(f))  BY <2>1
    <3> QED  BY <3>1, <2>4 DEF AccumHolds
  <2>8. Old \cap {n} = {} /\ {n} \in SUBSET DOMAIN heap  BY <1>0, <2>5
  <2>9. LastGains(f, 1)  BY <1>a, <2>5, <2>6, <2>7, <2>8 DEF LastGains
  <2> QED  BY <1>2, <2>3, <2>9 DEF Gains
<1> QED  BY <1>1, <1>2

LEMMA CountLeafKeeps ==
  ASSUME TreeInvariant, ~TearingDown, CounterHolds(visit), CountLeaf
  PROVE  /\ visit'.visitor = visit.visitor
         /\ \/ visit'.pc = "visiting" /\ CounterHolds(visit')
            \/ visit'.pc = "done" /\ CounterAnswers(visit')
<1>1. PICK w, n, f, types, tree, leaf :
        visit = CounterRecord(w, n, f, types, tree, leaf) /\ CounterState(w, n, f, types, tree, leaf)
  BY CounterParts
<1>2. visit.visitor = w /\ visit.node = n /\ visit.frames = f /\ visit.leaf = leaf
  BY <1>1, CounterFields
<1>3. n # None /\ IsLeaf(n)  BY <1>2 DEF CountLeaf
<1>4. /\ w \in Counters /\ f \in Seq(CounterFrame)
      /\ types \in [InnerType -> StatsType] /\ tree \in StatsType /\ leaf \in LeafStatsType
      /\ TrailHolds(Trail(f), n) /\ StartsAtRoot(f, n)
      /\ CounterTallies(w, f, n, types, tree, leaf)
  BY <1>1 DEF CounterState
<1>5. Trail(f) = << >> <=> f = << >>  BY <1>4, CounterFrames, TrailFacts
<1>6. /\ n \in Leaves(heap) /\ n \in DOMAIN heap
      /\ f # << >> => TrailHolds(Trail(f), None)
      /\ n \notin Walked(Trail(f), n)
      /\ Walked(Trail(f), None) = Walked(Trail(f), n) \cup {n}
  BY <1>3, <1>4, <1>5, WalkPassesLeaf
<1>7. f # << >> => StartsAtRoot(f, None)  BY <1>4 DEF StartsAtRoot
<1>8. PICK v : v = visit'  OBVIOUS
<1>9. CASE w = "LeafNodeCounter"
  <2>1. v = Output(CounterRecord(w, n, f, types, tree, leaf), 1)
    BY <1>1, <1>2, <1>8, <1>9 DEF CountLeaf
  <2>2. \A i \in DOMAIN f : AccumHolds(f, n, i)  BY <1>4, <1>9 DEF CounterTallies
  <2>3. Gains(f, 1)  BY <1>4, <1>6, <2>2, LeafGained
  <2>4. w # "TreeStatsCollector" /\ 1 \in Nat  BY <1>9
  <2>5. /\ v.visitor = w
        /\ \/ v.pc = "visiting" /\ CounterHolds(v)
           \/ v.pc = "done" /\ CounterAnswers(v)
    BY <1>4, <1>6, <1>7, <2>1, <2>3, <2>4, OutputKeeps
  <2> QED  BY <1>2, <1>8, <2>5
<1>10. CASE w = "TreeStatsCollector"
  <2>1. PICK counted : counted = [leaf EXCEPT !.count = @ + 1,
                                              !.sum_key_bytes = @ + Len(heap[n].key)]
    OBVIOUS
  <2>2. /\ leaf = [count |-> leaf.count, sum_key_bytes |-> leaf.sum_key_bytes]
        /\ leaf.count \in Nat /\ leaf.sum_key_bytes \in Nat
    BY <1>4 DEF LeafStatsType
  <2>3. Len(heap[n].key) \in Nat  BY <1>6, LeafFacts, NodeFacts
  <2>4. counted = [count |-> leaf.count + 1, sum_key_bytes |-> leaf.sum_key_bytes + Len(heap[n].key)]
    BY <2>1, <2>2
  <2>5. /\ counted \in LeafStatsType /\ counted.count = leaf.count + 1
        /\ counted.sum_key_bytes = leaf.sum_key_bytes + Len(heap[n].key)
    BY <2>2, <2>3, <2>4 DEF LeafStatsType
  <2>6. v = Output(CounterRecord(w, n, f, types, tree, counted), 0)
    <3>1. [visit EXCEPT !.leaf.count = @ + 1, !.leaf.sum_key_bytes = @ + Len(heap[n].key)]
            = SetLeaf(visit, counted)
      BY <1>1, <1>2, <2>1 DEF SetLeaf, CounterRecord
    <3>2. SetLeaf(visit, counted) = CounterRecord(w, n, f, types, tree, counted)
      BY <1>1, CounterUpdates
    <3>3. visit.visitor # "LeafNodeCounter"  BY <1>2, <1>10
    <3> QED  BY <1>2, <1>8, <3>1, <3>2, <3>3 DEF CountLeaf
  <2>7. /\ LeavesTallied(leaf, Walked(Trail(f), n)) /\ NodesTallied(types, tree, Walked(Trail(f), n))
        /\ Walked(Trail(f), n) \in SUBSET DOMAIN heap
    BY <1>4, <1>10 DEF CounterTallies, Walked
  <2>8. LeavesTallied(counted, Walked(Trail(f), None)) /\ NodesTallied(types, tree, Walked(Trail(f), None))
    <3>1. PICK N \in SUBSET DOMAIN heap : N = Walked(Trail(f), n)  BY <2>7
    <3>2. LeavesTallied(counted, N \cup {n}) /\ NodesTallied(types, tree, N \cup {n})
      BY <1>6, <2>5, <2>7, <3>1, LeafTallied
    <3> QED  BY <1>6, <3>1, <3>2
  <2>9. w # "LeafNodeCounter" /\ 0 \in Nat  BY <1>10
  <2>10. /\ v.visitor = w
         /\ \/ v.pc = "visiting" /\ CounterHolds(v)
            \/ v.pc = "done" /\ CounterAnswers(v)
    <3>1. PICK zero : zero = 0  OBVIOUS
    <3>2. /\ w \in Counters /\ f \in Seq(CounterFrame) /\ counted \in LeafStatsType
          /\ types \in [InnerType -> StatsType] /\ tree \in StatsType /\ zero \in Nat
      BY <1>4, <2>5, <3>1
    <3>3. /\ f # << >> => TrailHolds(Trail(f), None)
          /\ f # << >> => StartsAtRoot(f, None)
      BY <1>6, <1>7
    <3>4. /\ w = "LeafNodeCounter" => Gains(f, zero)
          /\ w = "TreeStatsCollector" => LeavesTallied(counted, Walked(Trail(f), None))
          /\ w = "TreeStatsCollector" => NodesTallied(types, tree, Walked(Trail(f), None))
      BY <2>8, <2>9
    <3>5. v = Output(CounterRecord(w, n, f, types, tree, counted), zero)  BY <2>6, <3>1
    <3> QED  BY ONLY TreeInvariant, <3>2, <3>3, <3>4, <3>5, OutputKeeps
  <2> QED  BY <1>2, <1>8, <2>10
<1> QED  BY <1>4, <1>9, <1>10 DEF Counters

(* What the last frame has counted goes to the frame below it. *)
LEMMA NodeGained ==
  ASSUME TreeInvariant, ~TearingDown, NEW f \in Seq(CounterFrame),
         TrailHolds(Trail(f), None), StartsAtRoot(f, None),
         \A i \in DOMAIN f : AccumHolds(f, None, i),
         NEW top, top = Last(f), top.todo = << >>,
         NEW rest \in Seq(CounterFrame), rest = Front(f),
         rest # << >> => TrailHolds(Trail(rest), None),
         Walked(Trail(rest), None) = Walked(Trail(f), None) \cup {top.node}
  PROVE  top.accum # None /\ Gains(rest, top.accum)
<1>1. PICK stop : stop = StopOf(top)  OBVIOUS
<1>2. /\ Len(f) \in Nat /\ Len(f) >= 1 /\ DOMAIN f = 1 .. Len(f) /\ top = f[Len(f)] /\ f # << >>
      /\ Len(rest) = Len(f) - 1 /\ \A i \in 1 .. Len(f) - 1 : rest[i] = f[i]
      /\ top.node \in Inners(heap) /\ top.node.at \in ByteString
  BY <1>1, CounterTop
<1>3. top.node \in DOMAIN heap /\ ~IsLeaf(top.node)  BY <1>2, InnerFacts, NodeFacts
<1>4. PICK Out : Out = Gathered(f, None, Len(f))  OBVIOUS
<1>5. Out = {x \in Leaves(heap) : IsPrefix(top.node.at, x.at)} /\ Out # {}
  BY <1>4, BelowTop
<1>6. Out \in SUBSET DOMAIN heap  BY <1>5, LeafFacts
<1>7. top.accum # None /\ top.accum = Cardinality(Out)
  <2>1. AccumHolds(f, None, Len(f))  BY <1>2
  <2> QED  BY <2>1, <1>2, <1>4, <1>5 DEF AccumHolds
<1>8. CASE rest = << >>
  <2>1. Len(f) = 1
    <3>1. Len(rest) = 0  BY <1>8
    <3>2. Len(rest) = Len(f) - 1 /\ Len(f) \in Nat  BY <1>2
    <3> QED  BY <3>1, <3>2
  <2>2. top.node = root  BY <2>1, <1>2 DEF StartsAtRoot
  <2>3. \A x \in DOMAIN heap : IsPrefix(root.at, x.at)
    BY <2>2, <1>3 DEF TreeInvariant, RootIsAboveAll
  <2>4. \A x \in Leaves(heap) : x \in Out  BY <2>2, <2>3, <1>5, LeafFacts
  <2>5. Out = Leaves(heap)  BY <2>4, <1>5
  <2> QED  BY <2>5, <1>7, <1>8 DEF Gains
<1>9. CASE rest # << >>
  <2>1. /\ Len(rest) \in Nat /\ DOMAIN rest = 1 .. Len(rest) /\ Len(rest) >= 1
    BY <1>9, PopFacts
  <2>2. Len(f) = Len(rest) + 1  BY <1>2, <2>1
  <2>3. \A i \in 1 .. Len(rest) : rest[i] = f[i] /\ i \in DOMAIN f
    <3>1. Len(f) - 1 = Len(rest)  BY <1>2
    <3>2. \A i \in 1 .. Len(rest) : rest[i] = f[i]  BY <1>2, <3>1
    <3>3. \A i \in 1 .. Len(rest) : i \in 1 .. Len(f)  BY <2>1, <2>2
    <3> QED  BY <3>2, <3>3, <1>2
  <2>4. \A x : IsLeaf(x) => (x \in Walked(Trail(rest), None) <=> x \in Walked(Trail(f), None))
    BY <1>3
  <2>5. ASSUME NEW i \in DOMAIN rest, i # Len(rest) PROVE AccumHolds(rest, None, i)
    <3>1. i \in Nat /\ i + 1 \in 1 .. Len(rest) /\ i \in 1 .. Len(rest) /\ i < Len(rest)
      BY <2>1, <2>5
    <3>2. i < Len(f)  BY <3>1, <2>1, <2>2
    <3>3. rest[i] = f[i] /\ rest[i + 1] = f[i + 1] /\ i \in DOMAIN f  BY <3>1, <2>3
    <3>4. \A x : x \in Gathered(rest, None, i) <=> x \in Gathered(f, None, i)
      BY <3>1, <3>2, <3>3, <2>4 DEF Gathered
    <3>5. Gathered(rest, None, i) = Gathered(f, None, i)  BY <3>4
    <3>6. AccumHolds(f, None, i)  BY <3>3
    <3> QED  BY <3>3, <3>5, <3>6, AccumStays
  <2>6. PICK k \in DOMAIN f : k = Len(rest)  BY <2>1, <2>3
  <2>7. rest[k] = f[k] /\ k < Len(f) /\ f[k + 1] = top /\ ~(k < Len(rest))
    BY <1>2, <2>1, <2>2, <2>3, <2>6
  <2>8. PICK Old : Old = Gathered(f, None, k)  OBVIOUS
  <2>9. Old \in SUBSET DOMAIN heap  BY <2>8 DEF Gathered, Walked
  <2>10. \A x : x \in Old <=> /\ x \in Walked(Trail(f), None) /\ IsLeaf(x)
                              /\ IsPrefix(f[k].node.at, x.at) /\ ~IsPrefix(top.node.at, x.at)
    BY <2>7, <2>8 DEF Gathered
  <2>11. \A x : x \in Out <=> /\ x \in Walked(Trail(f), None) /\ IsLeaf(x)
                              /\ IsPrefix(top.node.at, x.at)
    BY <1>2, <1>4 DEF Gathered
  <2>12. \A x : x \in Gathered(rest, None, k) <=>
                  x \in Walked(Trail(f), None) /\ IsLeaf(x) /\ IsPrefix(f[k].node.at, x.at)
    BY <2>4, <2>7 DEF Gathered
  <2>13. \A x \in Walked(Trail(f), None) :
           IsPrefix(top.node.at, x.at) => IsPrefix(f[k].node.at, x.at)
    <3>1. /\ StopOf(f[k]) \in Stop /\ StopHolds(StopOf(f[k])) /\ f[k].node.at \in ByteString
          /\ Passes(StopOf(f[k]), f[Len(f)].node)
      BY <1>2, <2>6, <2>7, FramesOnTrail
    <3>2. IsPrefix(StopOf(f[k]).node.at, top.node.at)  BY <3>1, <1>2, <1>3, PassedFacts
    <3>3. IsPrefix(f[k].node.at, top.node.at)  BY <3>2 DEF StopOf
    <3>4. \A x \in Walked(Trail(f), None) : x.at \in ByteString  BY NodeFacts DEF Walked
    <3> QED  BY <3>1, <3>3, <3>4, <1>2, PrefixTransitive
  <2>14. Old \cap Out = {}  BY <2>10, <2>11
  <2>15. Gathered(rest, None, k) = Old \cup Out
    <3>1. \A x : x \in Gathered(rest, None, k) <=> x \in Old \/ x \in Out
      BY <2>10, <2>11, <2>12, <2>13
    <3> QED  BY <3>1
  <2>16. IF rest[k].accum = None THEN Old = {} ELSE rest[k].accum = Cardinality(Old)
    <3>1. AccumHolds(f, None, k)  BY <2>6
    <3> QED  BY <3>1, <2>7, <2>8 DEF AccumHolds
  <2>17. LastGains(rest, top.accum)
    BY <1>6, <1>7, <2>6, <2>9, <2>14, <2>15, <2>16 DEF LastGains
  <2> QED  BY <1>7, <1>9, <2>5, <2>17 DEF Gains
<1> QED  BY <1>8, <1>9

LEMMA LeaveNodeKeeps ==
  ASSUME TreeInvariant, ~TearingDown, CounterHolds(visit), LeaveNode
  PROVE  /\ visit'.visitor = visit.visitor
         /\ \/ visit'.pc = "visiting" /\ CounterHolds(visit')
            \/ visit'.pc = "done" /\ CounterAnswers(visit')
<1>1. PICK w, n, f, types, tree, leaf :
        visit = CounterRecord(w, n, f, types, tree, leaf) /\ CounterState(w, n, f, types, tree, leaf)
  BY CounterParts
<1>2. /\ visit.visitor = w /\ visit.node = n /\ visit.frames = f
      /\ visit.types = types /\ visit.tree = tree
  BY <1>1, CounterFields
<1>3. n = None  BY <1>2 DEF LeaveNode
<1>4. /\ w \in Counters /\ f \in Seq(CounterFrame)
      /\ types \in [InnerType -> StatsType] /\ tree \in StatsType /\ leaf \in LeafStatsType
      /\ TrailHolds(Trail(f), None) /\ StartsAtRoot(f, None)
      /\ CounterTallies(w, f, None, types, tree, leaf)
  BY <1>1, <1>3 DEF CounterState
<1>5. PICK top, rest, stop : top = Last(f) /\ rest = Front(f) /\ stop = StopOf(top)  OBVIOUS
<1>6. /\ f # << >> /\ top \in CounterFrame /\ rest \in Seq(CounterFrame)
      /\ Len(f) \in Nat /\ Len(f) >= 1 /\ DOMAIN f = 1 .. Len(f) /\ top = f[Len(f)]
      /\ Len(rest) = Len(f) - 1 /\ \A i \in 1 .. Len(f) - 1 : rest[i] = f[i]
      /\ Trail(f) = Append(Trail(rest), stop) /\ Trail(rest) \in Seq(Stop)
      /\ stop \in Stop /\ stop.node = top.node /\ stop.todo = top.todo
      /\ top.node \in Inners(heap)
  BY <1>4, <1>5, CounterTop
<1>7. top.todo = << >>  BY <1>2, <1>5 DEF LeaveNode, Top
<1>8. /\ top.node \in DOMAIN heap
      /\ Trail(rest) # << >> => TrailHolds(Trail(rest), None)
      /\ top.node \notin Walked(Trail(f), None)
      /\ Walked(Trail(rest), None) = Walked(Trail(f), None) \cup {top.node}
  <2>1. TrailHolds(Append(Trail(rest), stop), None) /\ stop.todo = << >>  BY <1>4, <1>6, <1>7
  <2>2. /\ stop.node \in DOMAIN heap
        /\ Trail(rest) # << >> => TrailHolds(Trail(rest), None)
        /\ stop.node \notin Walked(Append(Trail(rest), stop), None)
        /\ Walked(Trail(rest), None) = Walked(Append(Trail(rest), stop), None) \cup {stop.node}
    BY <2>1, <1>6, WalkLeaves
  <2> QED  BY <2>2, <1>6
<1>9. Trail(rest) = << >> <=> rest = << >>  BY <1>6, CounterFrames, TrailFacts
<1>10. rest # << >> => TrailHolds(Trail(rest), None)  BY <1>8, <1>9
<1>11. rest # << >> => StartsAtRoot(rest, None)
  <2>1. SUFFICES ASSUME rest # << >> PROVE StartsAtRoot(rest, None)  OBVIOUS
  <2>2. Len(rest) \in Nat /\ Len(rest) >= 1  BY <2>1, <1>6, PopFacts
  <2>3. 1 \in 1 .. Len(f) - 1  BY <2>2, <1>6
  <2>4. rest[1] = f[1]  BY <2>3, <1>6
  <2>5. f[1].node = root  BY <1>4, <1>6 DEF StartsAtRoot
  <2> QED  BY <2>1, <2>4, <2>5 DEF StartsAtRoot
<1>12. PICK left : left = [visit EXCEPT !.frames = Front(@)]  OBVIOUS
<1>13. left = CounterRecord(w, None, rest, types, tree, leaf)
  <2>1. left = SetFrames(visit, rest)  BY <1>2, <1>5, <1>12 DEF SetFrames
  <2> QED  BY <2>1, <1>1, <1>3, CounterUpdates
<1>14. PICK v : v = visit'  OBVIOUS
<1>15. CASE w = "LeafNodeCounter"
  <2>1. \A i \in DOMAIN f : AccumHolds(f, None, i)  BY <1>4, <1>15 DEF CounterTallies
  <2>2. top.accum # None /\ Gains(rest, top.accum)
    <3>1. rest \in Seq(CounterFrame) /\ f \in Seq(CounterFrame)  BY <1>4, <1>6
    <3>2. TrailHolds(Trail(f), None) /\ StartsAtRoot(f, None)  BY <1>4
    <3>3. Walked(Trail(rest), None) = Walked(Trail(f), None) \cup {top.node}  BY <1>8
    <3> QED  BY ONLY TreeInvariant, ~TearingDown, <3>1, <3>2, <3>3, <2>1, <1>5, <1>7, <1>10, NodeGained
  <2>3. PICK output \in Nat : output = top.accum  BY <2>2, <1>6, CounterFrames
  <2>4. v = Output(CounterRecord(w, None, rest, types, tree, leaf), output)
    BY <1>2, <1>5, <1>12, <1>13, <1>14, <1>15, <2>3 DEF LeaveNode, Top
  <2>5. /\ w = "LeafNodeCounter" => Gains(rest, output)
        /\ w # "TreeStatsCollector"
    BY <1>15, <2>2, <2>3
  <2>6. /\ v.visitor = w
        /\ \/ v.pc = "visiting" /\ CounterHolds(v)
           \/ v.pc = "done" /\ CounterAnswers(v)
    <3>1. /\ w \in Counters /\ rest \in Seq(CounterFrame) /\ leaf \in LeafStatsType
          /\ types \in [InnerType -> StatsType] /\ tree \in StatsType /\ output \in Nat
      BY <1>4, <1>6
    <3>2. /\ w = "TreeStatsCollector" => LeavesTallied(leaf, Walked(Trail(rest), None))
          /\ w = "TreeStatsCollector" => NodesTallied(types, tree, Walked(Trail(rest), None))
      BY <2>5
    <3>3. w = "LeafNodeCounter" => Gains(rest, output)  BY <2>5
    <3> QED  BY ONLY TreeInvariant, <3>1, <3>2, <3>3, <2>4, <1>10, <1>11, OutputKeeps
  <2> QED  BY <1>2, <1>14, <2>6
<1>16. CASE w = "TreeStatsCollector"
  <2>1. PICK changed, whole :
          /\ changed = [types EXCEPT ![top.node.type] = Aggregated(@, top.node)]
          /\ whole = Aggregated(tree, top.node)
    OBVIOUS
  <2>2. PICK N \in SUBSET DOMAIN heap : N = Walked(Trail(f), None)  BY DEF Walked
  <2>3. LeavesTallied(leaf, N) /\ NodesTallied(types, tree, N)
    BY <1>4, <1>16, <2>2 DEF CounterTallies
  <2>4. PICK m \in Inners(heap) : m = top.node  BY <1>6
  <2>5. /\ changed \in [InnerType -> StatsType] /\ whole \in StatsType
        /\ LeavesTallied(leaf, N \cup {m}) /\ NodesTallied(changed, whole, N \cup {m})
    <3>1. m \notin N  BY <1>8, <2>2, <2>4
    <3>2. changed = Recorded(types, m) /\ whole = Aggregated(tree, m)
      BY <2>1, <2>4 DEF Recorded
    <3>3. types \in [InnerType -> StatsType] /\ tree \in StatsType  BY <1>4
    <3> QED  BY <3>1, <3>2, <3>3, <2>3, NodeTallied
  <2>6. N \cup {m} = Walked(Trail(rest), None)  BY <1>8, <2>2, <2>4
  <2>7. PICK zero \in Nat : zero = 0  OBVIOUS
  <2>8. v = Output(CounterRecord(w, None, rest, changed, whole, leaf), zero)
    <3>1. [left EXCEPT !.types[top.node.type] = Aggregated(@, top.node),
                       !.tree = Aggregated(@, top.node)]
            = SetTree(SetTypes(left, changed), whole)
      BY <1>13, <2>1 DEF SetTree, SetTypes, CounterRecord
    <3>2. SetTree(SetTypes(left, changed), whole) = CounterRecord(w, None, rest, changed, whole, leaf)
      BY <1>13, CounterUpdates
    <3>3. visit.visitor # "LeafNodeCounter"  BY <1>2, <1>16
    <3> QED  BY <1>2, <1>5, <1>12, <1>14, <2>7, <3>1, <3>2, <3>3 DEF LeaveNode, Top
  <2>9. /\ v.visitor = w
        /\ \/ v.pc = "visiting" /\ CounterHolds(v)
           \/ v.pc = "done" /\ CounterAnswers(v)
    <3>1. /\ w \in Counters /\ rest \in Seq(CounterFrame) /\ leaf \in LeafStatsType
          /\ changed \in [InnerType -> StatsType] /\ whole \in StatsType /\ zero \in Nat
      BY <1>4, <1>6, <2>5
    <3>2. /\ w = "TreeStatsCollector" => LeavesTallied(leaf, Walked(Trail(rest), None))
          /\ w = "TreeStatsCollector" => NodesTallied(changed, whole, Walked(Trail(rest), None))
      BY <2>5, <2>6
    <3>3. w = "LeafNodeCounter" => Gains(rest, zero)  BY <1>16
    <3> QED  BY ONLY TreeInvariant, <3>1, <3>2, <3>3, <2>8, <1>10, <1>11, OutputKeeps
  <2> QED  BY <1>2, <1>14, <2>9
<1> QED  BY <1>4, <1>15, <1>16 DEF Counters

-----------------------------------------------------------------------------
(***************************************************************************)
(* No visitor writes to the tree: what holds of a visitor's state before   *)
(* a step holds of it after the step.                                      *)
(***************************************************************************)

LEMMA OverfullKept ==
  ASSUME heap' = heap
  PROVE  /\ \A n : Overfull(n)' <=> Overfull(n)
         /\ \A n : IsInner(n)' <=> IsInner(n)
         /\ SomeOverfull' <=> SomeOverfull
         /\ CheckerAnswer' = CheckerAnswer
<1>1. \A n : Overfull(n)' <=> Overfull(n)  BY DEF Overfull, IsFull, NumChildren
<1>2. \A n : IsInner(n)' <=> IsInner(n)  BY DEF IsInner
<1>3. Inners(heap)' = Inners(heap)  BY DEF Inners, IsInner
<1>4. SomeOverfull' <=> SomeOverfull  BY <1>1, <1>3 DEF SomeOverfull
<1>5. Passed(Cardinality(DOMAIN heap))' = Passed(Cardinality(DOMAIN heap))  BY DEF Passed
<1>6. CheckerAnswer' = CheckerAnswer  BY <1>4, <1>5 DEF CheckerAnswer
<1> QED  BY <1>1, <1>2, <1>4, <1>6

LEMMA CheckerKept ==
  ASSUME heap' = heap, NEW v, visit' = v, CheckerHolds(v)
  PROVE  CheckerHolds(visit)'
<1>1. CheckerVisit' = CheckerVisit  BY DEF CheckerVisit, CheckerFrame
<1>2. v \in CheckerVisit  BY DEF CheckerHolds
<1>3. TrailHolds(Trail(visit.frames), visit.node)'  BY TrailKept DEF CheckerHolds
<1>4. (\A i \in DOMAIN visit.frames : FrameHolds(visit.frames, visit.node, i))'
  BY FramesKept DEF CheckerHolds
<1>5. PrefixHolds(visit.frames, visit.node, visit.current_key_prefix)'
  BY PrefixKept DEF CheckerHolds
<1>6. PICK A, W : A = Ahead(Trail(v.frames), v.node) /\ W = Walked(Trail(v.frames), v.node)
  OBVIOUS
<1>7. /\ Ahead(Trail(visit.frames), visit.node)' = A
      /\ Walked(Trail(visit.frames), visit.node)' = W
  BY <1>6, AheadKept, WalkedKept
<1>8. /\ v.seen_nodes = {x \in DOMAIN heap : x \in A => x = v.node}
      /\ v.count = Cardinality(W)
      /\ \A n \in W : IsInner(n) => ~Overfull(n)
  BY <1>6 DEF CheckerHolds
<1>9. (visit.seen_nodes = {x \in DOMAIN heap : x \in Ahead(Trail(visit.frames), visit.node)
                                                 => x = visit.node})'
  BY <1>7, <1>8
<1>10. (visit.count = Cardinality(Walked(Trail(visit.frames), visit.node)))'  BY <1>7, <1>8
<1>11. (\A n \in Walked(Trail(visit.frames), visit.node) : IsInner(n) => ~Overfull(n))'
  BY <1>7, <1>8, OverfullKept
<1>12. (visit \in CheckerVisit)'  BY <1>1, <1>2
<1> QED  BY <1>3, <1>4, <1>5, <1>9, <1>10, <1>11, <1>12 DEF CheckerHolds

LEMMA TalliesKept ==
  ASSUME heap' = heap, NEW leaf, NEW types, NEW tree, NEW N
  PROVE  /\ LeavesTallied(leaf, N) => LeavesTallied(leaf, N)'
         /\ NodesTallied(types, tree, N) => NodesTallied(types, tree, N)'
<1>1. LeavesTallied(leaf, N) => LeavesTallied(leaf, N)'
  <2>1. {heap[x].key : x \in {y \in N : IsLeaf(y)}}' = {heap[x].key : x \in {y \in N : IsLeaf(y)}}
    BY DEF IsLeaf
  <2> QED  BY <2>1 DEF LeavesTallied, IsLeaf
<1>2. ChildrenOfAll(N)' = ChildrenOfAll(N)  BY DEF ChildrenOfAll, ChildBytes, Child, IsInner
<1>3. NodesTallied(types, tree, N) => NodesTallied(types, tree, N)'
  <2>1. {n \in N : IsInner(n)}' = {n \in N : IsInner(n)}  BY DEF IsInner
  <2>2. IsLongestPath(tree["max_prefix_len_bytes"], {n \in N : IsInner(n)}) =>
          IsLongestPath(tree["max_prefix_len_bytes"], {n \in N : IsInner(n)})'
    BY <2>1 DEF IsLongestPath
  <2> QED  BY <1>2, <2>2 DEF NodesTallied
<1> QED  BY <1>1, <1>3

LEMMA CounterKept ==
  ASSUME heap' = heap, root' = root, NEW v, visit' = v, CounterHolds(v)
  PROVE  CounterHolds(visit)'
<1>1. CounterVisit' = CounterVisit  BY DEF CounterVisit, CounterFrame
<1>2. v \in CounterVisit  BY DEF CounterHolds
<1>3. TrailHolds(Trail(visit.frames), visit.node)'  BY TrailKept DEF CounterHolds
<1>4. StartsAtRoot(visit.frames, visit.node)'  BY DEF CounterHolds, StartsAtRoot
<1>5. PICK W : W = Walked(Trail(v.frames), v.node)  OBVIOUS
<1>6. Walked(Trail(visit.frames), visit.node)' = W  BY <1>5, WalkedKept
<1>7. \A i : Gathered(visit.frames, visit.node, i)' = Gathered(v.frames, v.node, i)
  BY <1>5, <1>6 DEF Gathered, IsLeaf
<1>8. v.visitor = "LeafNodeCounter" =>
        \A i \in DOMAIN v.frames : AccumHolds(v.frames, v.node, i)
  BY DEF CounterHolds
<1>9. (visit.visitor = "LeafNodeCounter" =>
         \A i \in DOMAIN visit.frames : AccumHolds(visit.frames, visit.node, i))'
  BY <1>7, <1>8 DEF AccumHolds
<1>10. v.visitor = "TreeStatsCollector" =>
         LeavesTallied(v.leaf, W) /\ NodesTallied(v.types, v.tree, W)
  BY <1>5 DEF CounterHolds
<1>11. (visit.visitor = "TreeStatsCollector" =>
          /\ LeavesTallied(visit.leaf, Walked(Trail(visit.frames), visit.node))
          /\ NodesTallied(visit.types, visit.tree, Walked(Trail(visit.frames), visit.node)))'
  <2>1. v.visitor = "TreeStatsCollector" =>
          LeavesTallied(v.leaf, W)' /\ NodesTallied(v.types, v.tree, W)'
    BY <1>10, TalliesKept
  <2> QED  BY <2>1, <1>6 DEF LeavesTallied, NodesTallied
<1>12. (visit \in CounterVisit)'  BY <1>1, <1>2
<1> QED  BY <1>3, <1>4, <1>9, <1>11, <1>12 DEF CounterHolds

LEMMA CounterAnswersKept ==
  ASSUME heap' = heap, NEW v, visit' = v, CounterAnswers(v)
  PROVE  /\ (visit.visitor = "LeafNodeCounter" => visit.result = Cardinality(Leaves(heap)))'
         /\ (visit.visitor = "TreeStatsCollector" =>
               /\ visit.types \in [InnerType -> StatsType] /\ visit.tree \in StatsType
               /\ LeavesTallied(visit.leaf, DOMAIN heap)
               /\ NodesTallied(visit.types, visit.tree, DOMAIN heap))'
<1>1. Leaves(heap)' = Leaves(heap)  BY DEF Leaves, IsLeaf
<1>2. (visit.visitor = "LeafNodeCounter" => visit.result = Cardinality(Leaves(heap)))'
  BY <1>1 DEF CounterAnswers
<1>3. PICK N : N = DOMAIN heap  OBVIOUS
<1>4. v.visitor = "TreeStatsCollector" =>
        /\ v.types \in [InnerType -> StatsType] /\ v.tree \in StatsType
        /\ LeavesTallied(v.leaf, N)' /\ NodesTallied(v.types, v.tree, N)'
  BY <1>3, TalliesKept DEF CounterAnswers
<1>5. (visit.visitor = "TreeStatsCollector" =>
         /\ visit.types \in [InnerType -> StatsType] /\ visit.tree \in StatsType
         /\ LeavesTallied(visit.leaf, DOMAIN heap)
         /\ NodesTallied(visit.types, visit.tree, DOMAIN heap))'
  BY <1>3, <1>4 DEF LeavesTallied, NodesTallied, StatsType
<1> QED  BY <1>2, <1>5

-----------------------------------------------------------------------------
(***************************************************************************)
(* The inductive invariant.                                                *)
(***************************************************************************)

CheckerStatus(v) ==
  /\ v.visitor = "WellFormedChecker"
  /\ \/ v.pc = "visiting" /\ CheckerHolds(v)
     \/ v.pc = "done" /\ v.result = CheckerAnswer

CounterStatus(v) ==
  /\ v.visitor \in Counters
  /\ \/ v.pc = "visiting" /\ CounterHolds(v)
     \/ v.pc = "done" /\ CounterAnswers(v)

LEMMA VisitHolds ==
  ASSUME heap' = heap, root' = root, op'.pc = "idle", NEW v, visit' = v,
         CheckerStatus(v) \/ CounterStatus(v)
  PROVE  VisitorInvariant'
<1>1. /\ v.pc \in {"visiting", "done"} /\ v.visitor \in Counters \cup {"WellFormedChecker"}
      /\ "WellFormedChecker" \notin Counters
  BY DEF CheckerStatus, CounterStatus, Counters
<1>2. v.pc = "visiting" =>
        (IF visit.visitor = "WellFormedChecker" THEN CheckerHolds(visit) ELSE CounterHolds(visit))'
  <2>1. SUFFICES ASSUME v.pc = "visiting"
                 PROVE  (IF visit.visitor = "WellFormedChecker" THEN CheckerHolds(visit)
                         ELSE CounterHolds(visit))'
    OBVIOUS
  <2>2. CASE CheckerStatus(v)
    <3>1. v.visitor = "WellFormedChecker" /\ CheckerHolds(v)  BY <2>1, <2>2 DEF CheckerStatus
    <3>2. CheckerHolds(visit)'  BY <3>1, CheckerKept
    <3> QED  BY <3>1, <3>2
  <2>3. CASE CounterStatus(v)
    <3>1. v.visitor \in Counters /\ CounterHolds(v)  BY <2>1, <2>3 DEF CounterStatus
    <3>2. CounterHolds(visit)'  BY <3>1, CounterKept
    <3>3. visit'.visitor # "WellFormedChecker"  BY <3>1, <1>1
    <3> QED  BY <3>2, <3>3
  <2> QED  BY <2>2, <2>3
<1>3. v.pc = "done" /\ v.visitor = "WellFormedChecker" => v.result = CheckerAnswer'
  BY <1>1, OverfullKept DEF CheckerStatus, CounterStatus
<1>4. v.pc = "done" /\ v.visitor \in Counters =>
        /\ (visit.visitor = "LeafNodeCounter" => visit.result = Cardinality(Leaves(heap)))'
        /\ (visit.visitor = "TreeStatsCollector" =>
               /\ visit.types \in [InnerType -> StatsType] /\ visit.tree \in StatsType
               /\ LeavesTallied(visit.leaf, DOMAIN heap)
               /\ NodesTallied(visit.types, visit.tree, DOMAIN heap))'
  <2>1. v.pc = "done" /\ v.visitor \in Counters => CounterAnswers(v)
    BY <1>1 DEF CheckerStatus, CounterStatus
  <2> QED  BY <2>1, CounterAnswersKept
<1>5. "LeafNodeCounter" \in Counters /\ "TreeStatsCollector" \in Counters  BY DEF Counters
<1>6. Visited("WellFormedChecker")' => (visit.result = CheckerAnswer)'  BY <1>3 DEF Visited
<1>7. Visited("LeafNodeCounter")' => (visit.result = Cardinality(Leaves(heap)))'
  BY <1>4, <1>5 DEF Visited
<1>8. Visited("TreeStatsCollector")' =>
        (/\ visit.types \in [InnerType -> StatsType] /\ visit.tree \in StatsType
         /\ LeavesTallied(visit.leaf, DOMAIN heap)
         /\ NodesTallied(visit.types, visit.tree, DOMAIN heap))'
  BY <1>4, <1>5 DEF Visited
<1> QED  BY <1>1, <1>2, <1>6, <1>7, <1>8 DEF VisitorInvariant

(* No visitor: the caller has the map to itself. *)
LEMMA NoVisitorHolds ==
  ASSUME visit.pc = "none"
  PROVE  VisitorInvariant
BY DEF VisitorInvariant, Visited

LEMMA NoVisitorNext == (visit.pc = "none")' => VisitorInvariant'
<1>1. visit.pc = "none" => VisitorInvariant  BY NoVisitorHolds
<1> QED  BY <1>1, PTL

LEMMA VisitParts ==
  ASSUME VisitorInvariant, visit.pc # "none"
  PROVE  op.pc = "idle" /\ (CheckerStatus(visit) \/ CounterStatus(visit))
<1>1. /\ op.pc = "idle" /\ visit.visitor \in Counters \cup {"WellFormedChecker"}
      /\ visit.pc \in {"visiting", "done"}
  BY DEF VisitorInvariant
<1>2. CASE visit.visitor = "WellFormedChecker"
  BY <1>1, <1>2 DEF VisitorInvariant, Visited, CheckerStatus
<1>3. CASE visit.visitor # "WellFormedChecker"
  <2>1. visit.visitor \in Counters  BY <1>1, <1>3
  <2>2. CASE visit.pc = "visiting"
    <3>1. CounterHolds(visit)  BY <2>2, <1>3 DEF VisitorInvariant
    <3> QED  BY <1>1, <2>1, <2>2, <3>1 DEF CounterStatus
  <2>3. CASE visit.pc = "done"
    <3>1. CounterAnswers(visit)  BY <2>3 DEF VisitorInvariant, Visited, CounterAnswers
    <3> QED  BY <1>1, <2>1, <2>3, <3>1 DEF CounterStatus
  <2> QED  BY <1>1, <2>2, <2>3
<1> QED  BY <1>2, <1>3

LEMMA CheckerStepKeeps ==
  ASSUME TreeInvariant, VisitorInvariant, CheckerStep
  PROVE  VisitorInvariant'
<1>1. UNCHANGED vars
  BY DEF CheckerStep, CheckEmpty, CheckTree, EnterInner, EnterChild, VisitLeaf, LeaveInner
<1>2. heap' = heap /\ root' = root /\ op' = op  BY <1>1 DEF vars
<1>3. op.pc = "idle" /\ ~TearingDown
  <2>1. CASE visit.pc = "none"
    <3>1. op.pc = "idle"
      BY <2>1 DEF CheckerStep, CheckEmpty, CheckTree, CanVisit, EnterInner, EnterChild, VisitLeaf,
                  LeaveInner, Checking, Visiting
    <3> QED  BY <3>1 DEF TearingDown
  <2>2. CASE visit.pc # "none"  BY <2>2, VisitParts DEF TearingDown
  <2> QED  BY <2>1, <2>2
<1>4. CheckerStatus(visit')
  <2>1. CASE CheckEmpty  BY <2>1, <1>3, CheckEmptyAnswers DEF CheckerStatus
  <2>2. CASE CheckTree  BY <2>2, <1>3, CheckTreeStarts DEF CheckerStatus
  <2>3. ASSUME Checking PROVE CheckerHolds(visit)
    BY <2>3 DEF Checking, Visiting, VisitorInvariant
  <2>4. CASE EnterInner
    <3>1. CheckerHolds(visit)  BY <2>3, <2>4 DEF EnterInner
    <3> QED  BY <2>4, <3>1, EnterInnerKeeps DEF CheckerStatus
  <2>5. CASE EnterChild
    <3>1. CheckerHolds(visit)  BY <2>3, <2>5 DEF EnterChild
    <3> QED  BY <2>5, <3>1, EnterChildKeeps DEF CheckerStatus
  <2>6. CASE VisitLeaf
    <3>1. CheckerHolds(visit)  BY <2>3, <2>6 DEF VisitLeaf
    <3> QED  BY <2>6, <3>1, VisitLeafKeeps DEF CheckerStatus
  <2>7. CASE LeaveInner
    <3>1. CheckerHolds(visit)  BY <2>3, <2>7 DEF LeaveInner
    <3> QED  BY <2>7, <3>1, LeaveInnerKeeps DEF CheckerStatus
  <2> QED  BY <2>1, <2>2, <2>4, <2>5, <2>6, <2>7 DEF CheckerStep
<1>5. PICK v : v = visit'  OBVIOUS
<1>6. CheckerStatus(v)  BY <1>4, <1>5
<1> QED  BY <1>2, <1>3, <1>5, <1>6, VisitHolds

LEMMA CountStepKeeps ==
  ASSUME TreeInvariant, VisitorInvariant, CountStep
  PROVE  VisitorInvariant'
<1>1. UNCHANGED vars
  BY DEF CountStep, StartCounting, EnterNode, NextChild, CountLeaf, LeaveNode
<1>2. heap' = heap /\ root' = root /\ op' = op  BY <1>1 DEF vars
<1>3. op.pc = "idle" /\ ~TearingDown
  <2>1. CASE visit.pc = "none"
    <3>1. op.pc = "idle"
      BY <2>1 DEF CountStep, StartCounting, CanVisit, EnterNode, NextChild, CountLeaf, LeaveNode,
                  Counting
    <3> QED  BY <3>1 DEF TearingDown
  <2>2. CASE visit.pc # "none"  BY <2>2, VisitParts DEF TearingDown
  <2> QED  BY <2>1, <2>2
<1>4. CounterStatus(visit')
  <2>1. ASSUME NEW w \in Counters, StartCounting(w) PROVE CounterStatus(visit')
    BY <2>1, <1>3, StartCountingAnswers DEF CounterStatus
  <2>2. ASSUME Counting PROVE CounterHolds(visit) /\ visit.visitor \in Counters
    <3>1. visit.pc = "visiting" /\ visit.visitor \in Counters  BY <2>2 DEF Counting
    <3>2. visit.visitor # "WellFormedChecker"  BY <3>1 DEF Counters
    <3> QED  BY <3>1, <3>2 DEF VisitorInvariant
  <2>4. CASE EnterNode
    <3>1. CounterHolds(visit)  BY <2>2, <2>4 DEF EnterNode
    <3> QED  BY <2>4, <3>1, EnterNodeKeeps DEF CounterStatus
  <2>5. CASE NextChild
    <3>1. CounterHolds(visit)  BY <2>2, <2>5 DEF NextChild
    <3> QED  BY <2>5, <3>1, NextChildKeeps DEF CounterStatus
  <2>6. CASE CountLeaf
    <3>1. CounterHolds(visit) /\ visit.visitor \in Counters  BY <2>2, <2>6 DEF CountLeaf
    <3> QED  BY <2>6, <3>1, <1>3, CountLeafKeeps DEF CounterStatus
  <2>7. CASE LeaveNode
    <3>1. CounterHolds(visit) /\ visit.visitor \in Counters  BY <2>2, <2>7 DEF LeaveNode
    <3> QED  BY <2>7, <3>1, <1>3, LeaveNodeKeeps DEF CounterStatus
  <2> QED  BY <2>1, <2>4, <2>5, <2>6, <2>7 DEF CountStep
<1>5. PICK v : v = visit'  OBVIOUS
<1>6. CounterStatus(v)  BY <1>4, <1>5
<1> QED  BY <1>2, <1>3, <1>5, <1>6, VisitHolds

LEMMA VisitorStutters ==
  ASSUME VisitorInvariant, UNCHANGED visitVars
  PROVE  VisitorInvariant'
<1>1. heap' = heap /\ root' = root /\ op' = op /\ visit' = visit  BY DEF visitVars
<1>2. CASE visit.pc = "none"  BY <1>1, <1>2, NoVisitorNext
<1>3. CASE visit.pc # "none"
  <2>1. op.pc = "idle" /\ (CheckerStatus(visit) \/ CounterStatus(visit))  BY <1>3, VisitParts
  <2>2. PICK v : v = visit  OBVIOUS
  <2>3. CheckerStatus(v) \/ CounterStatus(v)  BY <2>1, <2>2
  <2> QED  BY <1>1, <2>1, <2>2, <2>3, VisitHolds
<1> QED  BY <1>2, <1>3

(* Whatever calls built the tree, a visitor that walks it has done with    *)
(* what it has counted, meets no node twice and reads nothing but live     *)
(* nodes; and it ends with the answer of its kind (visitor.rs).            *)
THEOREM VisitorsHold == VisitSpec => [](Invariant /\ VisitorInvariant)
<1>1. VisitInit => Invariant /\ VisitorInvariant
  <2>1. VisitInit => Init /\ visit.pc = "none"  BY DEF VisitInit, NoVisit
  <2> QED  BY <2>1, InitHolds, NoVisitorHolds
<1>2. Invariant /\ VisitorInvariant /\ [VisitNext]_visitVars => (Invariant /\ VisitorInvariant)'
  <2> SUFFICES ASSUME Invariant, VisitorInvariant, [VisitNext]_visitVars
               PROVE  Invariant' /\ VisitorInvariant'
    OBVIOUS
  <2>1. CASE OtherCall
    <3>1. Next /\ visit'.pc = "none"  BY <2>1 DEF OtherCall
    <3>2. Invariant'
      <4>1. CASE Call  BY <4>1, CallKeeps
      <4>2. CASE Run  BY <4>2, RunKeeps
      <4>3. CASE Return  BY <4>3, ReturnKeeps
      <4> QED  BY <3>1, <4>1, <4>2, <4>3 DEF Next
    <3> QED  BY <3>1, <3>2, NoVisitorNext
  <2>2. ASSUME UNCHANGED vars PROVE Invariant'  BY <2>2, StutterKeeps
  <2>3. TreeInvariant  BY DEF Invariant
  <2>4. CASE CheckerStep
    <3>1. UNCHANGED vars
      BY <2>4 DEF CheckerStep, CheckEmpty, CheckTree, EnterInner, EnterChild, VisitLeaf, LeaveInner
    <3> QED  BY <2>2, <2>3, <2>4, <3>1, CheckerStepKeeps
  <2>5. CASE CountStep
    <3>1. UNCHANGED vars
      BY <2>5 DEF CountStep, StartCounting, EnterNode, NextChild, CountLeaf, LeaveNode
    <3> QED  BY <2>2, <2>3, <2>5, <3>1, CountStepKeeps
  <2>6. CASE Taken
    <3>1. UNCHANGED vars /\ visit'.pc = "none"  BY <2>6 DEF Taken, NoVisit
    <3> QED  BY <2>2, <3>1, NoVisitorNext
  <2>7. CASE UNCHANGED visitVars
    <3>1. UNCHANGED vars  BY <2>7 DEF visitVars, vars
    <3> QED  BY <2>2, <2>7, <3>1, VisitorStutters
  <2> QED  BY <2>1, <2>4, <2>5, <2>6, <2>7 DEF VisitNext
<1> QED  BY <1>1, <1>2, PTL DEF VisitSpec

(* current_key_prefix, extended and cut back by every visit, holds the     *)
(* bytes that lead to the node whenever a visit starts (well_formed.rs).   *)
THEOREM PrefixLeads == VisitSpec => []PrefixLeadsToNode
<1>1. VisitorInvariant => PrefixLeadsToNode
  <2> SUFFICES ASSUME VisitorInvariant, Checking, visit.node # None
               PROVE  /\ IsPrefix(visit.current_key_prefix, visit.node.at)
                      /\ visit.frames # << >> => Len(visit.current_key_prefix) = Len(Top.node.at) + 1
    BY DEF PrefixLeadsToNode
  <2>1. CheckerHolds(visit)  BY DEF VisitorInvariant, Checking, Visiting
  <2>2. PrefixHolds(visit.frames, visit.node, visit.current_key_prefix)  BY <2>1 DEF CheckerHolds
  <2> QED  BY <2>2 DEF PrefixHolds, Top
<1> QED  BY <1>1, VisitorsHold, PTL

(* The checker accepts a tree, and counts each of its nodes once, if and   *)
(* only if no Node256 in it is full: the end that NodeType::capacity_range *)
(* leaves out is the only thing it ever complains of (representation.rs).  *)
THEOREM TreesAccepted ==
  VisitSpec => [](Visited("WellFormedChecker") => (AcceptsEveryTree <=> ~SomeOverfull))
<1>1. VisitorInvariant => (Visited("WellFormedChecker") => (AcceptsEveryTree <=> ~SomeOverfull))
  <2> SUFFICES ASSUME VisitorInvariant, Visited("WellFormedChecker")
               PROVE  AcceptsEveryTree <=> ~SomeOverfull
    OBVIOUS
  <2>1. visit.result = CheckerAnswer  BY DEF VisitorInvariant
  <2>2. <<"Err", "WrongChildrenCount">> # Passed(Cardinality(DOMAIN heap))
    <3>1. <<"Err", "WrongChildrenCount">>[1] = "Err"  OBVIOUS
    <3>2. Passed(Cardinality(DOMAIN heap))[1] = "Ok"  BY DEF Passed
    <3>3. "Ok" # "Err"  OBVIOUS
    <3> QED  BY <3>1, <3>2, <3>3
  <2> QED  BY <2>1, <2>2 DEF AcceptsEveryTree, CheckerAnswer
<1> QED  BY <1>1, VisitorsHold, PTL

(* free_slots and free_header_bytes never go below zero, at any moment of  *)
(* the walk (tree_stats.rs).                                               *)
THEOREM NothingOverused == VisitSpec => []NothingIsOverused
<1>1. VisitorInvariant => NothingIsOverused
  <2> SUFFICES ASSUME VisitorInvariant, visit.pc # "none", visit.visitor = "TreeStatsCollector",
                      NEW stats \in {visit.tree} \cup {visit.types[type] : type \in InnerType}
               PROVE  FreeSlots(stats) >= 0 /\ FreeHeaderBytes(stats) >= 0
    BY DEF NothingIsOverused
  <2>1. /\ visit.types \in [InnerType -> StatsType] /\ visit.tree \in StatsType
        /\ NoneOverused(visit.tree) /\ \A type \in InnerType : NoneOverused(visit.types[type])
    <3>1. CASE visit.pc = "visiting"
      <4>1. CounterHolds(visit)  BY <3>1 DEF VisitorInvariant
      <4> QED  BY <4>1 DEF CounterHolds, CounterVisit, NodesTallied
    <3>2. CASE visit.pc = "done"
      <4>1. /\ visit.types \in [InnerType -> StatsType] /\ visit.tree \in StatsType
            /\ NodesTallied(visit.types, visit.tree, DOMAIN heap)
        BY <3>2 DEF VisitorInvariant, Visited
      <4> QED  BY <4>1 DEF NodesTallied
    <3> QED  BY <3>1, <3>2 DEF VisitorInvariant
  <2>2. PICK s \in StatsType : s = stats /\ NoneOverused(s)  BY <2>1
  <2>3. /\ s["sum_slots"] \in Nat /\ s["total_slots"] \in Nat
        /\ s["sum_capped_prefix_len_bytes"] \in Nat /\ s["total_header_bytes"] \in Nat
    BY StatsFields DEF StatsType, Fields
  <2>4. FreeSlots(s) >= 0 /\ FreeHeaderBytes(s) >= 0
    BY <2>2, <2>3 DEF NoneOverused, FreeSlots, FreeHeaderBytes
  <2> QED  BY <2>2, <2>4
<1> QED  BY <1>1, VisitorsHold, PTL

(* When the collector or the leaf counter is done, what it says of the     *)
(* tree is true of it: entries, key bytes, slots in use, longest path, and *)
(* the whole as the sum of the node types (tree_stats.rs).                 *)
THEOREM StatsExact == VisitSpec => []StatsAreExact
<1>1. Invariant /\ VisitorInvariant => StatsAreExact
  <2> SUFFICES ASSUME Invariant, VisitorInvariant PROVE StatsAreExact  OBVIOUS
  <2>1. TreeInvariant  BY DEF Invariant
  <2>2. ASSUME visit.pc # "none" PROVE num_entries = Cardinality(Leaves(heap)) /\ ~TearingDown
    <3>1. ~TearingDown  BY <2>2 DEF VisitorInvariant, TearingDown
    <3> QED  BY <2>1, <3>1 DEF TreeInvariant, CountIsExact
  <2>3. Visited("LeafNodeCounter") => visit.result = num_entries
    BY <2>2 DEF VisitorInvariant, Visited
  <2>4. ASSUME Collected
        PROVE  /\ visit.leaf.count = num_entries
               /\ visit.leaf.sum_key_bytes = KeyBytes(StoredKeys)
               /\ visit.tree = TotalOf(visit.types)
               /\ visit.tree.sum_slots = Cardinality(DOMAIN heap) - 1
               /\ IsLongestPath(visit.tree.max_prefix_len_bytes, Inners(heap))
    <3>1. Visited("TreeStatsCollector") /\ root # None /\ visit.pc # "none"
      BY <2>4 DEF Collected, Visited
    <3>2. /\ LeavesTallied(visit.leaf, DOMAIN heap)
          /\ NodesTallied(visit.types, visit.tree, DOMAIN heap)
      BY <3>1 DEF VisitorInvariant
    <3>3. {x \in DOMAIN heap : IsLeaf(x)} = Leaves(heap)  BY DEF Leaves
    <3>4. visit.leaf.count = num_entries  BY <2>2, <3>1, <3>2, <3>3 DEF LeavesTallied
    <3>5. visit.leaf.sum_key_bytes = KeyBytes(StoredKeys)
      <4>1. PICK keys : keys = {heap[x].key : x \in {y \in DOMAIN heap : IsLeaf(y)}}  OBVIOUS
      <4>2. keys = StoredKeys  BY <4>1, <3>3 DEF StoredKeys
      <4>3. visit.leaf.sum_key_bytes = KeyBytes(keys)  BY <4>1, <3>2 DEF LeavesTallied
      <4> QED  BY <4>2, <4>3
    <3>6. Cardinality(ChildrenOfAll(DOMAIN heap)) = Cardinality(DOMAIN heap) - 1
      BY <2>1, <2>2, <3>1, AllAreChildren
    <3>7. /\ visit.tree = TotalOf(visit.types)
          /\ visit.tree["sum_slots"] = Cardinality(DOMAIN heap) - 1
      BY <3>2, <3>6 DEF NodesTallied
    <3>8. IsLongestPath(visit.tree["max_prefix_len_bytes"], Inners(heap))
      BY <3>2 DEF NodesTallied, Inners
    <3> QED  BY <3>4, <3>5, <3>7, <3>8
  <2> QED  BY <2>3, <2>4 DEF StatsAreExact
<1> QED  BY <1>1, VisitorsHold, PTL
=============================================================================
