---------------------------- MODULE TreeMapProofs ----------------------------
(***************************************************************************)
(* Every behaviour of TreeMap keeps the inductive invariant, and with it   *)
(* the safety properties of TreeMapProperties, whatever the key bytes, the *)
(* keys, the values, PREFIX_LEN and the capacities of the node types; and  *)
(* it is a behaviour of the dictionary of MapSpec.  At the end are the     *)
(* facts that walks over the tree need.                                    *)
(***************************************************************************)
EXTENDS TreeStepProofs, TreeWalk

LEMMA InitHolds == Init => Invariant
<1> SUFFICES ASSUME Init PROVE Invariant  OBVIOUS
<1>1. /\ DOMAIN heap = {} /\ Leaves(heap) = {} /\ Inners(heap) = {}
      /\ root = None /\ num_entries = 0 /\ op = IdleOp
  BY DEF Init, Leaves, Inners
<1>2. op.pc = "idle" /\ op \in OpType  BY <1>1, IdleType
<1>3. IsFiniteSet({}) /\ Cardinality({}) = 0  BY FS_EmptySet
<1>4. TreeInvariant
  BY <1>1, <1>2, <1>3
  DEF TreeInvariant, TypeOK, HeapIsFinite, AddressesAreFresh, LeavesAreLowest, ChildrenAreLive,
      RoutesToEveryNode, RootIsAboveAll, PrefixesAreFaithful, NodesFitTheirType, CountIsExact
<1>5. CallInvariant
  BY <1>2
  DEF CallInvariant, SearchKeepsItsPath, SearchIsOnPath, NothingIsPassedBy, CursorIsBelow,
      PointFitsNode, TeardownIsExact, TearingDown, Walking
<1> QED  BY <1>4, <1>5 DEF Invariant

LEMMA CallKeeps ==
  ASSUME Invariant, Call
  PROVE  Invariant'
<1>1. CASE \E k \in Keys, v \in Values : CallByKey(k, v) \/ InitTree(k, v) \/ CallOnEmpty(k, v)
  <2>1. PICK k \in Keys, v \in Values : CallByKey(k, v) \/ InitTree(k, v) \/ CallOnEmpty(k, v)
    BY <1>1
  <2> QED  BY <2>1, CallsKeep, InitTreeKeeps
<1>2. CASE \E call \in MinCalls \cup MaxCalls : CallAtEnd(call)
  BY <1>2, EndCallsKeep
<1>3. CASE ClearEmpty  BY <1>3, ClearEmptyKeeps
<1>4. CASE ClearStart  BY <1>4, ClearStartKeeps
<1> QED  BY <1>1, <1>2, <1>3, <1>4 DEF Call

LEMMA SearchKeeps ==
  ASSUME Invariant, Search
  PROVE  Invariant'
<1>1. CASE StepToMinimum  BY <1>1, StepToMinimumKeeps
<1>2. CASE DescendByKey  BY <1>2, DescendByKeyKeeps
<1>3. CASE DescendToEnd  BY <1>3, DescendToEndKeeps
<1>4. CASE InsertKeyTooShort \/ LookupMiss \/ ReadLeaf  BY <1>4, SearchEndsKeep
<1>5. CASE FindMismatch  BY <1>5, FindMismatchKeeps
<1>6. CASE FindVacancy  BY <1>6, FindVacancyKeeps
<1>7. CASE FindExact  BY <1>7, FindExactKeeps
<1>8. CASE FindLeafToSplit  BY <1>8, FindLeafToSplitKeeps
<1>9. CASE FindLeafToDelete  BY <1>9, FindLeafToDeleteKeeps
<1>10. CASE WriteLeafValue  BY <1>10, WriteLeafValueKeeps
<1> QED
  BY <1>1, <1>2, <1>3, <1>4, <1>5, <1>6, <1>7, <1>8, <1>9, <1>10 DEF Search

LEMMA RunKeeps ==
  ASSUME Invariant, Run
  PROVE  Invariant'
<1>1. CASE Search  BY <1>1, SearchKeeps
<1>2. CASE InsertAtMismatch  BY <1>2, InsertAtMismatchKeeps
<1>3. CASE InsertAtLeaf  BY <1>3, InsertAtLeafKeeps
<1>4. CASE InsertIntoNode  BY <1>4, InsertIntoNodeKeeps
<1>5. CASE InsertIntoGrownNode  BY <1>5, InsertIntoGrownNodeKeeps
<1>6. CASE InsertReplace  BY <1>6, InsertReplaceKeeps
<1>7. CASE DeleteRoot  BY <1>7, DeleteRootKeeps
<1>8. CASE DeleteAndMerge  BY <1>8, DeleteAndMergeKeeps
<1>9. CASE DeleteAndShrink  BY <1>9, DeleteAndShrinkKeeps
<1>10. CASE DeleteInPlace  BY <1>10, DeleteInPlaceKeeps
<1>11. CASE ClearPop  BY <1>11, ClearPopKeeps
<1>12. CASE ClearEnd  BY <1>12, ClearEndKeeps
<1> QED
  BY <1>1, <1>2, <1>3, <1>4, <1>5, <1>6, <1>7, <1>8, <1>9, <1>10, <1>11, <1>12
  DEF Run, ApplyInsert, ApplyDelete, Dealloc

LEMMA StutterKeeps ==
  ASSUME Invariant, UNCHANGED vars
  PROVE  Invariant'
<1>1. heap' = heap /\ root' = root /\ num_entries' = num_entries /\ op' = op
  BY DEF vars
<1>2. TreeInvariant'
  BY <1>1
  DEF Invariant, TreeInvariant, TypeOK, LeafOK, InnerOK, HeapIsFinite, AddressesAreFresh,
      LeavesAreLowest, ChildrenAreLive, RoutesToEveryNode, RootIsAboveAll,
      PrefixesAreFaithful, NodesFitTheirType, CountIsExact, Leaves, Inners, Child,
      ChildBytes, TearingDown
<1>3. CallInvariant'
  <2>1. SearchKeepsItsPath'
    BY <1>1 DEF Invariant, CallInvariant, SearchKeepsItsPath, Walking, Child, ChildBytes
  <2>5. SearchIsOnPath'
    BY <1>1 DEF Invariant, CallInvariant, SearchIsOnPath, Walking, CurrentHeader, EntryDepth
  <2>2. NothingIsPassedBy' /\ CursorIsBelow'
    BY <1>1 DEF Invariant, CallInvariant, NothingIsPassedBy, CursorIsBelow, Walking, Applying,
                Child, ChildBytes, Leaves
  <2>3. PointFitsNode'
    BY <1>1 DEF Invariant, CallInvariant, PointFitsNode, EntryDepth, CurrentHeader,
                PrefixIsImplicit, LeafKey, Child, ChildBytes, Leaves
  <2>4. TeardownIsExact'
    BY <1>1 DEF Invariant, CallInvariant, TeardownIsExact, TearingDown, Child, ChildBytes
  <2> QED  BY <2>1, <2>2, <2>3, <2>4, <2>5 DEF CallInvariant
<1> QED  BY <1>2, <1>3 DEF Invariant

(* No step of any call, whatever the interleaving of search steps and      *)
(* splits, merges, grows and shrinks before it, breaks the invariant: the  *)
(* tree stays a faithful tree of its keys (src/nodes/operations/*.rs).     *)
THEOREM InvariantHolds == Spec => []Invariant
<1>1. Init => Invariant  BY InitHolds
<1>2. Invariant /\ [Next]_vars => Invariant'
  <2> SUFFICES ASSUME Invariant, [Next]_vars PROVE Invariant'  OBVIOUS
  <2>1. CASE Call  BY <2>1, CallKeeps
  <2>2. CASE Run  BY <2>2, RunKeeps
  <2>3. CASE Return  BY <2>3, ReturnKeeps
  <2>4. CASE UNCHANGED vars  BY <2>4, StutterKeeps
  <2> QED  BY <2>1, <2>2, <2>3, <2>4 DEF Next
<1> QED  BY <1>1, <1>2, PTL DEF Spec
-----------------------------------------------------------------------------
(* What the invariant says of the tree between two steps.                  *)

(* The lengths of finitely many paths are finitely many.                   *)
LEMMA LengthsAreFinite ==
  ASSUME NEW S, IsFiniteSet(S)
  PROVE  IsFiniteSet({Len(x.at) : x \in S})
<1> DEFINE f == [x \in S |-> Len(x.at)]
           L == {Len(x.at) : x \in S}
<1>1. f \in Surjection(S, L)
  <2>1. f \in [S -> L] /\ \A l \in L : \E x \in S : f[x] = l  OBVIOUS
  <2> QED  BY <2>1 DEF Surjection
<1> QED  BY <1>1, FS_Surjection

(* Some leaf is stored under every node: a path cannot end in the air.     *)
LEMMA LeafBelow ==
  ASSUME TreeInvariant, NEW x \in DOMAIN heap
  PROVE  \E p \in Leaves(heap) : IsPrefix(x.at, p.at)
<1> DEFINE S == {y \in DOMAIN heap : IsPrefix(x.at, y.at)}
           L == {Len(y.at) : y \in S}
<1>1. x \in S /\ S \subseteq DOMAIN heap
  BY NodeFacts, PrefixReflexive
<1>2. IsFiniteSet(S)  BY <1>1, FS_Subset DEF TreeInvariant, HeapIsFinite
<1>3. IsFiniteSet(L)  BY <1>2, LengthsAreFinite
<1>4. L \in SUBSET Nat /\ L # {}  BY <1>1, NodeFacts
<1>5. PICK n \in L : \A m \in L : m <= n
  BY <1>3, <1>4, FiniteIsBounded, GreatestExists
<1>6. PICK y \in S : \A z \in S : Len(z.at) <= Len(y.at)  BY <1>5
<1>7. y \in Leaves(heap)
  <2>1. SUFFICES ASSUME y \in Inners(heap) PROVE FALSE
    BY <1>1, <1>6, NodeFacts
  <2>2. PICK b \in ChildBytes(y) : TRUE  BY <2>1, InnerFacts
  <2> DEFINE z == Child(y, b)
  <2>3. z \in DOMAIN heap /\ Below(z, y)  BY <2>1, <2>2, InvariantShape, ChildFacts
  <2>4. IsPrefix(x.at, z.at)
    BY <1>1, <1>6, <2>3, NodeFacts, PrefixTransitive DEF Below
  <2>5. Len(z.at) <= Len(y.at)  BY <1>6, <2>3, <2>4
  <2> QED  BY <2>3, <2>5, <1>1, <1>6, NodeFacts DEF Below
<1> QED  BY <1>6, <1>7

(* No stored key is a proper prefix of another one. *)
LEMMA LeavesArePrefixFree == TreeInvariant => KeysArePrefixFree
<1> SUFFICES ASSUME TreeInvariant PROVE KeysArePrefixFree  OBVIOUS
<1>1. \A p \in Leaves(heap) : heap[p].key = p.at /\ p \in DOMAIN heap  BY LeafFacts
<1>2. SUFFICES ASSUME NEW p \in Leaves(heap), NEW q \in Leaves(heap), IsPrefix(p.at, q.at)
               PROVE  p.at = q.at
  BY <1>1 DEF KeysArePrefixFree, PrefixFree, StoredKeys
<1> QED  BY <1>1, <1>2 DEF TreeInvariant, LeavesAreLowest

(* What two strings share ends where they part.                            *)
LEMMA CommonPrefixIs ==
  ASSUME NEW r \in ByteString, NEW s \in ByteString, NEW t \in ByteString,
         IsPrefix(r, s), IsPrefix(r, t), Len(r) < Len(s), Len(r) < Len(t),
         s[Len(r) + 1] # t[Len(r) + 1]
  PROVE  CommonPrefix(s, t) = r
<1> DEFINE m == MatchedBytes(s, t)
<1>1. Len(r) \in Nat /\ Len(s) \in Nat /\ Len(t) \in Nat  BY DEF ByteString
<1>2. \A i \in 1 .. Len(r) : s[i] = r[i] /\ t[i] = r[i]  BY PrefixPointwise
<1>3. IsMatchedBytes(m, s, t)  BY MatchedBytesFacts
<1> HIDE DEF m
<1>4. m = Len(r)  BY <1>1, <1>2, <1>3 DEF IsMatchedBytes, Lesser
<1>5. /\ TakeFirst(s, m) \in ByteString /\ Len(TakeFirst(s, m)) = Len(r)
      /\ \A i \in 1 .. Len(r) : TakeFirst(s, m)[i] = s[i]
  BY <1>1, <1>4, TakeFirstFacts
<1>6. TakeFirst(s, m) = r  BY <1>5, <1>2, SameBytes
<1> QED  BY <1>6 DEF CommonPrefix, m

(* Two leaves part at an inner node that stands for the bytes they share.  *)
LEMMA LeavesPartAtNode ==
  ASSUME TreeInvariant, ~TearingDown, NEW p \in Leaves(heap), NEW q \in Leaves(heap), p # q
  PROVE  \E n \in Inners(heap) : n.at = CommonPrefix(p.at, q.at)
<1>1. /\ p \in DOMAIN heap /\ q \in DOMAIN heap
      /\ p.at \in ByteString /\ Len(p.at) \in Nat /\ q.at \in ByteString /\ Len(q.at) \in Nat
  BY LeafFacts, NodeFacts
<1> DEFINE S == {n \in DOMAIN heap : IsPrefix(n.at, p.at) /\ IsPrefix(n.at, q.at)}
           L == {Len(n.at) : n \in S}
<1>2. root \in S  BY <1>1 DEF TreeInvariant, RootIsAboveAll
<1>3. IsFiniteSet(L)
  <2>1. IsFiniteSet(S)  BY FS_Subset DEF TreeInvariant, HeapIsFinite
  <2> QED  BY <2>1, LengthsAreFinite
<1>4. L \in SUBSET Nat /\ L # {}  BY <1>2, NodeFacts
<1>5. PICK l \in L : \A k \in L : k <= l
  BY <1>3, <1>4, FiniteIsBounded, GreatestExists
<1>6. PICK n \in S : \A z \in S : Len(z.at) <= Len(n.at)  BY <1>5
<1>7. /\ n \in DOMAIN heap /\ n.at \in ByteString /\ Len(n.at) \in Nat
      /\ IsPrefix(n.at, p.at) /\ IsPrefix(n.at, q.at)
  BY <1>6, NodeFacts
<1>8. n \in Inners(heap)
  BY <1>1, <1>7, NodeFacts DEF TreeInvariant, LeavesAreLowest
<1>9. n # p /\ n # q  BY <1>7, <1>1 DEF TreeInvariant, LeavesAreLowest
<1>10. Len(n.at) < Len(p.at) /\ Len(n.at) < Len(q.at)
  <2>1. \A x \in {p, q} : Len(x.at) <= Len(n.at) => n.at = x.at
    BY <1>1, <1>7, PrefixSameLength
  <2> QED  BY <2>1, <1>1, <1>7, <1>9 DEF TreeInvariant, AddressesAreFresh
<1>11. p.at[Len(n.at) + 1] # q.at[Len(n.at) + 1]
  <2>1. SUFFICES ASSUME p.at[Len(n.at) + 1] = q.at[Len(n.at) + 1] PROVE FALSE  OBVIOUS
  <2>2. Below(p, n) /\ Below(q, n) /\ ByteTowards(p, n) = ByteTowards(q, n)
    BY <2>1, <1>7, <1>10 DEF Below, ByteTowards
  <2> DEFINE c == Child(n, ByteTowards(p, n))
  <2>3. ByteTowards(p, n) \in ChildBytes(n) /\ IsPrefix(c.at, p.at) /\ IsPrefix(c.at, q.at)
    BY <1>1, <1>8, <2>2 DEF TreeInvariant, RoutesToEveryNode
  <2>4. c \in DOMAIN heap /\ Below(c, n)  BY <1>8, <2>3, InvariantShape, ChildFacts
  <2>5. Len(c.at) <= Len(n.at)  BY <1>6, <2>3, <2>4
  <2> QED  BY <2>4, <2>5, <1>7, NodeFacts DEF Below
<1>12. CommonPrefix(p.at, q.at) = n.at  BY <1>1, <1>7, <1>10, <1>11, CommonPrefixIs
<1> QED  BY <1>8, <1>12

LEMMA TreeIsCanonical == TreeInvariant => ShapeIsCanonical
<1> SUFFICES ASSUME TreeInvariant, ~TearingDown
             PROVE  {n.at : n \in Inners(heap)} =
                      {CommonPrefix(heap[e[1]].key, heap[e[2]].key) :
                         e \in {pair \in Leaves(heap) \X Leaves(heap) : pair[1] # pair[2]}}
  BY DEF ShapeIsCanonical
<1>1. \A p \in Leaves(heap) : heap[p].key = p.at /\ p \in DOMAIN heap  BY LeafFacts
<1>2. ASSUME NEW n \in Inners(heap)
      PROVE  \E p, q \in Leaves(heap) : p # q /\ CommonPrefix(p.at, q.at) = n.at
  <2>1. NumChildren(heap[n]) >= 2 /\ NumChildren(heap[n]) = Cardinality(ChildBytes(n))
        /\ IsFiniteSet(ChildBytes(n))
    BY InnerFacts, CapacityAssumption DEF TreeInvariant, NodesFitTheirType
  <2>2. PICK b \in ChildBytes(n), c \in ChildBytes(n) : b # c
    <3>1. PICK b \in ChildBytes(n) : TRUE  BY InnerFacts
    <3>2. \E c \in ChildBytes(n) : c # b
      <4>1. SUFFICES ASSUME ChildBytes(n) = {b} PROVE FALSE  BY <3>1
      <4> QED  BY <2>1, <4>1, FS_Singleton
    <3> QED  BY <3>1, <3>2
  <2>3. /\ Child(n, b) \in DOMAIN heap /\ Below(Child(n, b), n)
        /\ ByteTowards(Child(n, b), n) = b
        /\ Child(n, c) \in DOMAIN heap /\ Below(Child(n, c), n)
        /\ ByteTowards(Child(n, c), n) = c
    BY InvariantShape, ChildFacts
  <2>4. PICK p \in Leaves(heap) : IsPrefix(Child(n, b).at, p.at)  BY <2>3, LeafBelow
  <2>5. PICK q \in Leaves(heap) : IsPrefix(Child(n, c).at, q.at)  BY <2>3, LeafBelow
  <2>6. n \in PointerType /\ Child(n, b) \in PointerType /\ Child(n, c) \in PointerType
        /\ p \in PointerType /\ q \in PointerType
    BY <1>1, <2>3, NodeFacts DEF Inners
  <2>7. Below(p, n) /\ ByteTowards(p, n) = b
    BY <2>3, <2>4, <2>6, SameDirection
  <2>8. Below(q, n) /\ ByteTowards(q, n) = c
    BY <2>3, <2>5, <2>6, SameDirection
  <2>9. CommonPrefix(p.at, q.at) = n.at
    BY <2>2, <2>6, <2>7, <2>8, PointerFacts, CommonPrefixIs DEF Below, ByteTowards
  <2> QED  BY <2>2, <2>7, <2>8, <2>9
<1>3. ASSUME NEW p \in Leaves(heap), NEW q \in Leaves(heap), p # q
      PROVE  \E n \in Inners(heap) : n.at = CommonPrefix(p.at, q.at)
  BY <1>3, LeavesPartAtNode
<1>4. ASSUME NEW n \in Inners(heap)
      PROVE  \E e \in {pair \in Leaves(heap) \X Leaves(heap) : pair[1] # pair[2]} :
               n.at = CommonPrefix(heap[e[1]].key, heap[e[2]].key)
  <2>1. PICK p \in Leaves(heap), q \in Leaves(heap) :
          p # q /\ CommonPrefix(p.at, q.at) = n.at
    BY <1>2
  <2>2. <<p, q>> \in {pair \in Leaves(heap) \X Leaves(heap) : pair[1] # pair[2]}  BY <2>1
  <2> QED  BY <1>1, <2>1, <2>2
<1>5. ASSUME NEW e \in {pair \in Leaves(heap) \X Leaves(heap) : pair[1] # pair[2]}
      PROVE  \E n \in Inners(heap) : n.at = CommonPrefix(heap[e[1]].key, heap[e[2]].key)
  BY <1>1, <1>3
<1> QED  BY <1>4, <1>5

(* Every node but the root hangs below some node.                          *)
LEMMA ParentExists ==
  ASSUME TreeInvariant, ~TearingDown, NEW x \in DOMAIN heap, x # root
  PROVE  \E n \in Inners(heap) : \E b \in ChildBytes(n) : Child(n, b) = x
<1>1. x \in PointerType /\ x.at \in ByteString /\ Len(x.at) \in Nat  BY NodeFacts
<1> DEFINE S == {n \in DOMAIN heap : Below(x, n)}
           L == {Len(n.at) : n \in S}
<1>2. root \in DOMAIN heap /\ root.at \in ByteString /\ IsPrefix(root.at, x.at)
  BY NodeFacts DEF TreeInvariant, RootIsAboveAll
<1>3. root \in S
  <2>1. ~(Len(x.at) <= Len(root.at))
    BY <1>1, <1>2, PrefixSameLength DEF TreeInvariant, AddressesAreFresh
  <2> QED  BY <2>1, <1>1, <1>2, NodeFacts DEF Below
<1>4. IsFiniteSet(L)
  <2>1. IsFiniteSet(S)  BY FS_Subset DEF TreeInvariant, HeapIsFinite
  <2> QED  BY <2>1, LengthsAreFinite
<1>5. L \in SUBSET Nat /\ L # {}  BY <1>3, NodeFacts
<1>6. PICK l \in L : \A k \in L : k <= l
  BY <1>4, <1>5, FiniteIsBounded, GreatestExists
<1>7. PICK n \in S : \A z \in S : Len(z.at) <= Len(n.at)  BY <1>6
<1>8. n \in DOMAIN heap /\ Below(x, n) /\ n.at \in ByteString /\ Len(n.at) \in Nat
  BY <1>7, NodeFacts
<1>9. n \in Inners(heap)
  BY <1>1, <1>8, NodeFacts DEF TreeInvariant, LeavesAreLowest, Below
<1> DEFINE b == ByteTowards(x, n)
           c == Child(n, b)
<1>10. b \in ChildBytes(n) /\ IsPrefix(c.at, x.at)
  BY <1>8, <1>9 DEF TreeInvariant, RoutesToEveryNode
<1>11. c \in DOMAIN heap /\ Below(c, n)  BY <1>9, <1>10, InvariantShape, ChildFacts
<1>12. Len(x.at) <= Len(c.at)
  <2>1. ~Below(x, c)  BY <1>7, <1>8, <1>11, NodeFacts DEF Below
  <2> QED  BY <2>1, <1>1, <1>10, <1>11, NodeFacts DEF Below
<1>13. c = x
  BY <1>1, <1>10, <1>11, <1>12, NodeFacts, PrefixSameLength DEF TreeInvariant, AddressesAreFresh
<1> QED  BY <1>9, <1>10, <1>13

LEMMA NodesAreReferencedOnce == TreeInvariant => EveryNodeIsReferencedOnce
<1> DEFINE E == UNION {{<<n, b>> : b \in ChildBytes(n)} : n \in Inners(heap)}
<1> SUFFICES ASSUME TreeInvariant, ~TearingDown
             PROVE  /\ root = None <=> DOMAIN heap = {}
                    /\ \A x \in DOMAIN heap :
                         Cardinality({e \in E : Child(e[1], e[2]) = x}) =
                           (IF x = root THEN 0 ELSE 1)
  BY DEF EveryNodeIsReferencedOnce
<1>1. root = None <=> DOMAIN heap = {}  BY DEF TreeInvariant, RootIsAboveAll
<1>2. ASSUME NEW x \in DOMAIN heap
      PROVE  Cardinality({e \in E : Child(e[1], e[2]) = x}) = (IF x = root THEN 0 ELSE 1)
  <2> DEFINE R == {e \in E : Child(e[1], e[2]) = x}
  <2>1. \A e \in R : e[1] \in Inners(heap) /\ e[2] \in ChildBytes(e[1]) /\ e = <<e[1], e[2]>>
                     /\ Child(e[1], e[2]) = x
    OBVIOUS
  <2>2. CASE x = root
    <3>1. ASSUME NEW e \in R PROVE FALSE
      <4>1. Below(x, e[1]) /\ e[1] \in DOMAIN heap
        BY <2>1, <3>1, InvariantShape, ChildFacts DEF Inners
      <4>2. IsPrefix(x.at, e[1].at)  BY <2>2, <4>1 DEF TreeInvariant, RootIsAboveAll
      <4> QED  BY <4>1, <4>2, NodeFacts, PrefixPointwise DEF Below
    <3>2. R = {}  BY <3>1
    <3> QED  BY <2>2, <3>2, FS_EmptySet
  <2>3. CASE x # root
    <3>0. PICK n \in Inners(heap) : \E b \in ChildBytes(n) : Child(n, b) = x
      BY <2>3, ParentExists
    <3>1. PICK b \in ChildBytes(n) : Child(n, b) = x  BY <3>0
    <3>2. <<n, b>> \in R  BY <3>1
    <3>3. ASSUME NEW e \in R PROVE e = <<n, b>>
      <4>1. e[1] \in Inners(heap) /\ e[2] \in ChildBytes(e[1]) /\ e = <<e[1], e[2]>>
            /\ Child(e[1], e[2]) = x
        BY <2>1, <3>3
      <4>2. e[1] = n /\ e[2] = b  BY <3>1, <4>1, InvariantShape, OneParent
      <4> QED  BY <4>1, <4>2
    <3>4. R = {<<n, b>>}  BY <3>2, <3>3
    <3> QED  BY <2>3, <3>4, FS_Singleton
  <2> QED  BY <2>2, <2>3
<1> QED  BY <1>1, <1>2

LEMMA BoundsAreKept == Invariant => DepthStaysInBounds
<1> SUFFICES ASSUME Invariant, op.pc = "search", op.call \in KeyCalls
             PROVE  /\ op.depth <= Len(op.key)
                    /\ IsLeaf(op.node) => op.depth <= Len(LeafKey)
                    /\ (IsInner(op.node) /\ PrefixIsImplicit /\ CursorAtLeaf) =>
                         op.depth + CurrentHeader.prefix_len <= Len(heap[op.cursor].key)
  BY DEF DepthStaysInBounds
<1>1. TreeInvariant /\ op.node \in DOMAIN heap  BY DEF Invariant, CallInvariant, SearchKeepsItsPath
<1>2. AgreeOn(op.key, op.node.at, op.depth)
  BY DEF Invariant, CallInvariant, SearchIsOnPath, Walking
<1>3. ASSUME IsLeaf(op.node) PROVE op.depth <= Len(LeafKey)
  BY <1>1, <1>2, <1>3, LeafFacts DEF LeafKey, AgreeOn, Leaves
<1>4. ASSUME IsInner(op.node), CursorAtLeaf
      PROVE  op.depth + CurrentHeader.prefix_len <= Len(heap[op.cursor].key)
  <2>1. /\ op.node.at \in ByteString /\ Len(op.node.at) \in Nat /\ op.depth \in Nat
        /\ CurrentHeader.prefix_len = Len(op.node.at) - op.depth
    BY <1>4, SearchFacts DEF AtInner
  <2>2. op.cursor \in Leaves(heap) /\ IsPrefix(op.node.at, op.cursor.at)
    BY <1>4 DEF CursorAtLeaf, Leaves, Invariant, CallInvariant, CursorIsBelow
  <2>3. heap[op.cursor].key = op.cursor.at /\ op.cursor.at \in ByteString
    BY <1>1, <2>2, LeafFacts, NodeFacts
  <2>4. Len(op.node.at) <= Len(op.cursor.at)  BY <2>1, <2>2, <2>3, PrefixPointwise
  <2> QED  BY <2>1, <2>3, <2>4
<1> QED  BY <1>2, <1>3, <1>4 DEF AgreeOn

LEMMA PointsApply == Invariant => PointsAreApplicable
<1> SUFFICES ASSUME Invariant PROVE PointsAreApplicable  OBVIOUS
<1>1. TreeInvariant /\ PointFitsNode  BY DEF Invariant, CallInvariant
<1>2. ASSUME Applying("MismatchPrefix")
      PROVE  /\ op.depth + op.point.matched_bytes < Len(op.key)
             /\ op.point.matched_bytes + 1 <= CurrentHeader.prefix_len
             /\ op.point.prefix_byte # op.key[op.depth + op.point.matched_bytes + 1]
             /\ IF op.point.leaf_ptr = None
                THEN CurrentHeader.prefix_len <= PREFIX_LEN
                ELSE op.depth + CurrentHeader.prefix_len <= Len(heap[op.point.leaf_ptr].key)
  <2>1. op.pc = "apply" /\ op.point.kind = "MismatchPrefix"  BY <1>2 DEF Applying
  <2>2. /\ op.depth + op.point.matched_bytes < Len(op.key)
        /\ op.depth + op.point.matched_bytes < Len(op.node.at)
        /\ op.point.prefix_byte # op.key[op.depth + op.point.matched_bytes + 1]
        /\ op.point.matched_bytes \in Nat
        /\ AgreeOn(op.key, op.node.at, op.depth + op.point.matched_bytes)
        /\ Represents(CurrentHeader, DropFirst(op.node.at, op.depth))
        /\ IF op.point.leaf_ptr = None THEN ~PrefixIsImplicit
           ELSE /\ op.point.leaf_ptr \in Leaves(heap)
                /\ IsPrefix(op.node.at, op.point.leaf_ptr.at)
    BY <1>1, <2>1 DEF PointFitsNode, PointType
  <2>3. op.node.at \in ByteString /\ Len(op.node.at) \in Nat /\ op.depth \in Nat
        /\ op.node \in Inners(heap)
    <3>1. IsInner(op.node)  BY <1>1, <2>1 DEF PointFitsNode
    <3> QED  BY <2>1, <3>1, InsertFacts DEF Inners
  <2>4. CurrentHeader.prefix_len = Len(op.node.at) - op.depth
    <3>1. PICK at \in ByteString : at = op.node.at  BY <2>3
    <3>2. PICK depth \in Nat : depth = op.depth  BY <2>3
    <3>3. depth <= Len(at)
      <4>1. Len(at) \in Nat /\ op.point.matched_bytes \in Nat
            /\ depth + op.point.matched_bytes < Len(at)
        BY <2>2, <2>3, <3>1, <3>2
      <4> QED  BY <4>1
    <3>4. Len(DropFirst(at, depth)) = Len(at) - depth  BY <3>3, DropFirstFacts
    <3>5. CurrentHeader.prefix_len = Len(DropFirst(at, depth))
      BY <2>2, <3>1, <3>2 DEF Represents
    <3> QED  BY <3>1, <3>2, <3>4, <3>5
  <2>5. CASE op.point.leaf_ptr = None
    <3>1. CurrentHeader.prefix_len <= PREFIX_LEN
      BY <2>2, <2>3, <2>4, <2>5, PrefixLenAssumption DEF PrefixIsImplicit
    <3> QED  BY <2>2, <2>3, <2>4, <2>5, <3>1
  <2>6. CASE op.point.leaf_ptr # None
    <3>1. op.point.leaf_ptr \in Leaves(heap) /\ IsPrefix(op.node.at, op.point.leaf_ptr.at)
      BY <2>2, <2>6
    <3>2. /\ heap[op.point.leaf_ptr].key = op.point.leaf_ptr.at
          /\ op.point.leaf_ptr.at \in ByteString
      BY <1>1, <3>1, LeafFacts, NodeFacts
    <3>3. Len(op.node.at) <= Len(op.point.leaf_ptr.at)  BY <2>3, <3>1, <3>2, PrefixPointwise
    <3> QED  BY <2>2, <2>3, <2>4, <2>6, <3>2, <3>3
  <2> QED  BY <2>5, <2>6
<1>3. ASSUME Applying("SplitLeaf")
      PROVE  LET used == op.point.new_key_bytes_used
             IN  /\ op.depth <= used /\ used < Len(op.key) /\ used < Len(LeafKey)
                 /\ LeafKey[used + 1] # op.key[used + 1]
  BY <1>1, <1>3 DEF Applying, PointFitsNode
<1>4. ASSUME Applying("IntoExisting")
      PROVE  /\ op.depth < Len(op.key)
             /\ op.key[op.depth + 1] \notin ChildBytes(op.node)
             /\ IsFull(op.node.type, heap[op.node]) => op.node.type # "Node256"
  <2>1. op.pc = "apply" /\ op.point.kind = "IntoExisting"  BY <1>4 DEF Applying
  <2>2. /\ IsInner(op.node) /\ op.depth < Len(op.key)
        /\ op.key[op.depth + 1] \notin ChildBytes(op.node)
    BY <1>1, <2>1 DEF PointFitsNode
  <2>3. op.key \in ByteString /\ op.depth \in Nat /\ op.node \in Inners(heap)
        /\ Len(op.key) \in Nat
    BY <2>1, <2>2, InsertFacts DEF Inners
  <2>4. op.key[op.depth + 1] \in Byte
    <3>1. op.depth + 1 \in 1 .. Len(op.key)  BY <2>2, <2>3
    <3> QED  BY <2>3, <3>1 DEF ByteString
  <2>5. NumChildren(heap[op.node]) = Cardinality(ChildBytes(op.node))
        /\ ChildBytes(op.node) \subseteq Byte /\ IsFiniteSet(ChildBytes(op.node))
    BY <1>1, <2>3, InnerFacts
  <2>6. Cardinality(ChildBytes(op.node)) < Cardinality(Byte)
    BY <2>2, <2>4, <2>5, CapacityAssumption, FS_Subset, FS_CardinalityType
  <2> QED
    BY <2>2, <2>5, <2>6, CapacityAssumption, FS_CardinalityType DEF IsFull, InnerType
<1>5. ASSUME Applying("Delete"), op.parent # None
      PROVE  op.parent.byte \in ChildBytes(op.parent.node)
  <2>1. op.pc = "apply" /\ TracksParents(op.call)
    BY <1>1, <1>5 DEF Applying, PointFitsNode
  <2> QED  BY <1>5, <2>1 DEF Invariant, CallInvariant, SearchKeepsItsPath
<1> QED  BY <1>2, <1>3, <1>4, <1>5 DEF PointsAreApplicable
-----------------------------------------------------------------------------
(* The theorems: each property of TreeMapProperties but the temporal ones. *)

(* Every variable keeps to what the fields and locals of the code can      *)
(* hold, through every call.                                               *)
THEOREM TypeCorrect == Spec => []TypeOK
<1>1. Invariant => TypeOK  BY DEF Invariant, TreeInvariant
<1> QED  BY <1>1, InvariantHolds, PTL

(* No split, merge, grow or shrink leaks a node, shares it or leaves it    *)
(* reachable twice (the write-backs of InsertPoint::apply and              *)
(* DeletePoint::apply).                                                    *)
THEOREM NodesReferencedOnce == Spec => []EveryNodeIsReferencedOnce
<1>1. Invariant => EveryNodeIsReferencedOnce  BY NodesAreReferencedOnce DEF Invariant
<1> QED  BY <1>1, InvariantHolds, PTL

(* No child pointer outlives the node it points to: a node that is         *)
(* replaced by a larger, a smaller or a merged one is replaced in its      *)
(* parent too.                                                             *)
THEOREM ChildrenLive == Spec => []ChildrenAreLive
<1>1. Invariant => ChildrenAreLive  BY DEF Invariant, TreeInvariant
<1> QED  BY <1>1, InvariantHolds, PTL

(* From every inner node the next byte of a stored key leads towards that  *)
(* key, whatever splits and merges came before: search_unchecked misses    *)
(* nothing that is stored.                                                 *)
THEOREM RoutesComplete == Spec => []RoutesToEveryNode
<1>1. Invariant => RoutesToEveryNode  BY DEF Invariant, TreeInvariant
<1> QED  BY <1>1, InvariantHolds, PTL

(* root is set exactly when the tree has nodes, and is above all of them.  *)
THEOREM RootAboveAll == Spec => []RootIsAboveAll
<1>1. Invariant => RootIsAboveAll  BY DEF Invariant, TreeInvariant
<1> QED  BY <1>1, InvariantHolds, PTL

(* Every header stands for the path to its node, also where the path is    *)
(* longer than PREFIX_LEN and its bytes were read back from a leaf         *)
(* (Header::ltrim_by_with_leaf) or came together from three pieces         *)
(* (push_prefix in remove_child_from_inner_node_and_compress).             *)
THEOREM PrefixesFaithful == Spec => []PrefixesAreFaithful
<1>1. Invariant => PrefixesAreFaithful  BY DEF Invariant, TreeInvariant
<1> QED  BY <1>1, InvariantHolds, PTL

(* A node never holds fewer than two children, more than its type has room *)
(* for, or few enough for the next smaller type.                           *)
THEOREM NodesFit == Spec => []NodesFitTheirType
<1>1. Invariant => NodesFitTheirType  BY DEF Invariant, TreeInvariant
<1> QED  BY <1>1, InvariantHolds, PTL

(* TreeMap::num_entries is the number of leaves after any sequence of      *)
(* calls.                                                                  *)
THEOREM CountExact == Spec => []CountIsExact
<1>1. Invariant => CountIsExact  BY DEF Invariant, TreeInvariant
<1> QED  BY <1>1, InvariantHolds, PTL

(* The inner nodes are exactly the places where two stored keys part: the  *)
(* tree has no chain of single children and forgets the order of the calls *)
(* that built it.                                                          *)
THEOREM ShapeCanonical == Spec => []ShapeIsCanonical
<1>1. Invariant => ShapeIsCanonical  BY TreeIsCanonical DEF Invariant
<1> QED  BY <1>1, InvariantHolds, PTL

(* The conflicts that search_for_insert_point reports are all there are:   *)
(* no stored key becomes a proper prefix of another.                       *)
THEOREM StoredKeysPrefixFree == Spec => []KeysArePrefixFree
<1>1. Invariant => KeysArePrefixFree  BY LeavesArePrefixFree DEF Invariant
<1> QED  BY <1>1, InvariantHolds, PTL

(* Two live nodes never stand for the same path, so that a node's path can *)
(* serve as its address.                                                   *)
THEOREM AddressesFresh == Spec => []AddressesAreFresh
<1>1. Invariant => AddressesAreFresh  BY DEF Invariant, TreeInvariant
<1> QED  BY <1>1, InvariantHolds, PTL

(* Whatever a search has remembered of its way back (parent and            *)
(* grandparent of an insert or delete point) are the edges that lead to    *)
(* its node.                                                               *)
THEOREM PathsKept == Spec => []SearchKeepsItsPath
<1>1. Invariant => SearchKeepsItsPath  BY DEF Invariant, CallInvariant
<1> QED  BY <1>1, InvariantHolds, PTL

(* No search slices a key past its end, nor the leaf it reads an implicit  *)
(* prefix from (match_prefix, inner_read_full_prefix).                     *)
THEOREM DepthInBounds == Spec => []DepthStaysInBounds
<1>1. Invariant => DepthStaysInBounds  BY BoundsAreKept
<1> QED  BY <1>1, InvariantHolds, PTL

(* An insert or delete point can be applied: no split past the prefix or a *)
(* key, no underflow in ltrim_by, no write to a full node, and Node256 is  *)
(* never asked to grow (its grow panics).                                  *)
THEOREM PointsApplicable == Spec => []PointsAreApplicable
<1>1. Invariant => PointsAreApplicable  BY PointsApply
<1> QED  BY <1>1, InvariantHolds, PTL

(* deallocate_tree frees every allocation, each once.                      *)
THEOREM TeardownExact == Spec => []TeardownIsExact
<1>1. Invariant => TeardownIsExact  BY DEF Invariant, CallInvariant
<1> QED  BY <1>1, InvariantHolds, PTL
-----------------------------------------------------------------------------
(***************************************************************************)
(* The dictionary.  A tree of leaves is a function from keys to values     *)
(* because no two leaves have the same address (AbstractMap); what a step  *)
(* does to the leaves it does to that function (LeafPut, LeafTaken), and   *)
(* no other step does anything to it (UntouchedKeepsMap).  What the answer *)
(* says is known from the place the search has come to, with the two       *)
(* invariants: Invariant for the calls by key, AnswerInvariant for those   *)
(* that walk to one end.                                                   *)
(***************************************************************************)

(* MapSpec has the operators of ByteStrings too, under its own name.       *)
LEMMA SameOrder ==
  ASSUME NEW s, NEW t
  PROVE  Dictionary!LexLess(s, t) <=> LexLess(s, t)
BY DEF Dictionary!LexLess, LexLess, Dictionary!MatchedBytes, MatchedBytes,
       Dictionary!IsMatchedBytes, IsMatchedBytes, Dictionary!Lesser, Lesser

LEMMA SameRelation ==
  ASSUME NEW s, NEW t
  PROVE  Dictionary!PrefixRelated(s, t) <=> PrefixRelated(s, t)
BY DEF Dictionary!PrefixRelated, PrefixRelated, Dictionary!IsPrefix, IsPrefix

(* LexLess is decided at the first byte in which two keys differ.          *)
LEMMA Precedence ==
  ASSUME NEW s \in ByteString, NEW t \in ByteString, Precedes(s, t)
  PROVE  LexLess(s, t) /\ ~LexLess(t, s)
<1>1. Len(s) \in Nat /\ Len(t) \in Nat  BY DEF ByteString
<1>2. PICK i \in 1 .. Lesser(Len(s), Len(t)) : (\A j \in 1 .. i - 1 : s[j] = t[j]) /\ s[i] < t[i]
  BY DEF Precedes
<1>3. i \in Nat /\ 1 <= i /\ i <= Len(s) /\ i <= Len(t)  BY <1>1, <1>2 DEF Lesser
<1>4. s[i] \in Nat /\ t[i] \in Nat /\ s[i] # t[i]
  <2>1. i \in 1 .. Len(s) /\ i \in 1 .. Len(t)  BY <1>1, <1>3
  <2>2. s[i] \in Byte /\ t[i] \in Byte  BY <2>1 DEF ByteString
  <2>3. s[i] \in Nat /\ t[i] \in Nat  BY <2>2, ByteAssumption
  <2> QED  BY <2>3, <1>2
<1>5. ASSUME NEW n, IsMatchedBytes(n, s, t) \/ IsMatchedBytes(n, t, s)  PROVE n = i - 1
  BY <1>1, <1>2, <1>3, <1>4, <1>5 DEF IsMatchedBytes, Lesser
<1>6. MatchedBytes(s, t) = i - 1 /\ MatchedBytes(t, s) = i - 1
  BY <1>5, MatchedBytesFacts
<1>7. i - 1 # Lesser(Len(s), Len(t)) /\ i - 1 # Lesser(Len(t), Len(s)) /\ (i - 1) + 1 = i
  BY <1>1, <1>3 DEF Lesser
<1> QED  BY <1>2, <1>4, <1>6, <1>7 DEF LexLess

-----------------------------------------------------------------------------
(* AnswerInvariant is kept.                                                *)

(* min and max of a node are the ends of its bytes.                        *)
LEMMA EndBytes ==
  ASSUME TreeInvariant, NEW n \in Inners(heap), NEW b \in ChildBytes(n)
  PROVE  MinByte(heap[n]) <= b /\ b <= MaxByte(heap[n])
<1>1. ChildBytes(n) \in SUBSET Nat /\ IsFiniteSet(ChildBytes(n)) /\ ChildBytes(n) # {}
  BY InnerFacts
<1>2. \E m \in ChildBytes(n) : \A c \in ChildBytes(n) : m <= c  BY <1>1, LeastExists
<1>3. \E m \in ChildBytes(n) : \A c \in ChildBytes(n) : c <= m
  BY <1>1, FiniteIsBounded, GreatestExists
<1>4. \A c \in ChildBytes(n) : MinByte(heap[n]) <= c  BY <1>2 DEF MinByte, ChildBytes
<1>5. \A c \in ChildBytes(n) : c <= MaxByte(heap[n])  BY <1>3 DEF MaxByte, ChildBytes
<1> QED  BY <1>4, <1>5

(* A call walks in one way only.                                           *)
LEMMA CallKinds ==
  /\ \A call \in KeyCalls : call \notin MinCalls /\ call \notin MaxCalls
  /\ \A call \in MinCalls : call \notin KeyCalls /\ call \notin MaxCalls
  /\ \A call \in MaxCalls : call \notin KeyCalls /\ call \notin MinCalls
BY DEF KeyCalls, MinCalls, MaxCalls

(* A call that has been answered remembers what it was called with.        *)
LEMMA AnsweredKeepsAnswers ==
  ASSUME op'.pc \in {"done", "idle"},
         op'.call \in {"remove_entry", "get"} => op'.value = None,
         op'.call \in MinCalls \cup MaxCalls => op'.key = << >> /\ op'.value = None
  PROVE  AnswerInvariant'
BY DEF AnswerInvariant, EndIsAhead, CallIsKept, Walking, TearingDown, Applying

LEMMA FinishKeepsAnswers ==
  ASSUME AnswerInvariant, NEW out, Finish(out)
  PROVE  AnswerInvariant'
<1>1. op'.pc = "done" /\ op'.call = op.call /\ op'.key = op.key /\ op'.value = op.value
  BY DEF Finish, Done, IdleOp
<1> QED  BY <1>1, AnsweredKeepsAnswers DEF AnswerInvariant, CallIsKept

LEMMA ReturnKeepsAnswers ==
  ASSUME Return
  PROVE  AnswerInvariant'
BY AnsweredKeepsAnswers DEF Return, IdleOp

(* At the root everything is ahead.                                        *)
LEMMA StartKeepsAnswers ==
  ASSUME Invariant, ~TearingDown, root # None, UNCHANGED <<heap, root, num_entries>>,
         NEW call \in KeyCalls \cup MinCalls \cup MaxCalls, NEW key, NEW value,
         call \in {"remove_entry", "get"} => value = None,
         call \in MinCalls \cup MaxCalls => key = << >> /\ value = None,
         op' = Start(call, key, value)
  PROVE  AnswerInvariant'
<1>1. \A x \in DOMAIN heap : IsPrefix(root.at, x.at)
  BY DEF Invariant, TreeInvariant, RootIsAboveAll
<1>2. op'.pc = "search" /\ op'.call = call /\ op'.key = key /\ op'.value = value
      /\ op'.node = root
  BY DEF Start, IdleOp
<1>3. EndIsAhead'  BY <1>1, <1>2 DEF EndIsAhead, Leaves
<1>4. CallIsKept'  BY <1>2 DEF CallIsKept, TearingDown, Applying
<1> QED  BY <1>3, <1>4 DEF AnswerInvariant

LEMMA CallKeepsAnswers ==
  ASSUME Invariant, Call
  PROVE  AnswerInvariant'
<1>1. ASSUME NEW k \in Keys, NEW v \in Values, CallByKey(k, v)  PROVE AnswerInvariant'
  <2>1. PICK call \in {"try_insert", "get_mut", "remove_entry", "get"}, value \in {v, None} :
          /\ op' = Start(call, k, value)
          /\ call \in {"remove_entry", "get"} => value = None
    BY <1>1 DEF CallByKey
  <2>2. call \in KeyCalls  BY DEF KeyCalls
  <2> QED
    BY <1>1, <2>1, <2>2, CallKinds, StartKeepsAnswers DEF CallByKey, TearingDown
<1>2. ASSUME NEW k \in Keys, NEW v \in Values, InitTree(k, v)  PROVE AnswerInvariant'
  <2>1. op'.pc = "done" /\ op'.call = "try_insert"  BY <1>2 DEF InitTree, Done, IdleOp
  <2> QED  BY <2>1, AnsweredKeepsAnswers DEF MinCalls, MaxCalls
<1>3. ASSUME NEW k \in Keys, NEW v \in Values, CallOnEmpty(k, v)  PROVE AnswerInvariant'
  <2>1. PICK call \in {"get_mut", "remove_entry", "get"} \cup MinCalls \cup MaxCalls,
             key \in {k, << >>}, value \in {v, None} :
          /\ op' = Done(call, key, value, None)
          /\ call \in {"remove_entry", "get"} => value = None
          /\ call \in MinCalls \cup MaxCalls => key = << >> /\ value = None
    <3>1. CASE op' = Done("get_mut", k, v, None)  BY <3>1 DEF MinCalls, MaxCalls
    <3>2. CASE \E call \in {"remove_entry", "get"} : op' = Done(call, k, None, None)
      BY <3>2 DEF MinCalls, MaxCalls
    <3>3. CASE \E call \in MinCalls \cup MaxCalls : op' = Done(call, << >>, None, None)
      BY <3>3 DEF MinCalls, MaxCalls
    <3> QED  BY <1>3, <3>1, <3>2, <3>3 DEF CallOnEmpty
  <2>2. op'.pc = "done" /\ op'.call = call /\ op'.key = key /\ op'.value = value
    BY <2>1 DEF Done, IdleOp
  <2> QED  BY <2>1, <2>2, AnsweredKeepsAnswers
<1>4. ASSUME NEW call \in MinCalls \cup MaxCalls, CallAtEnd(call)  PROVE AnswerInvariant'
  BY <1>4, StartKeepsAnswers DEF CallAtEnd, TearingDown
<1>5. ASSUME ClearEmpty  PROVE AnswerInvariant'
  <2>1. op'.pc = "done" /\ op'.call = "clear"  BY <1>5 DEF ClearEmpty, Done, IdleOp
  <2> QED  BY <2>1, AnsweredKeepsAnswers DEF MinCalls, MaxCalls
<1>6. ASSUME ClearStart  PROVE AnswerInvariant'
  <2>1. /\ op'.pc = "dealloc" /\ op'.call = "clear" /\ op'.key = << >>
        /\ op'.value = None /\ op'.out = None
    BY <1>6 DEF ClearStart, IdleOp
  <2> QED
    BY <2>1 DEF AnswerInvariant, EndIsAhead, CallIsKept, Walking, TearingDown, Applying,
                MinCalls, MaxCalls
<1> QED  BY <1>1, <1>2, <1>3, <1>4, <1>5, <1>6 DEF Call

(* A walk to the first leaf takes the child under the smallest byte: what  *)
(* hangs under the others comes later.                                     *)
LEMMA BesideTheChild ==
  ASSUME TreeInvariant, NEW n \in Inners(heap), NEW b \in ChildBytes(n),
         NEW p \in Leaves(heap), IsPrefix(n.at, p.at)
  PROVE  \/ IsPrefix(Child(n, b).at, p.at)
         \/ \E d \in ChildBytes(n) \ {b} :
              /\ b < d => Precedes(Child(n, b).at, p.at)
              /\ d < b => Precedes(p.at, Child(n, b).at)
<1> DEFINE c == Child(n, b)
<1>1. /\ n \in DOMAIN heap /\ p \in DOMAIN heap /\ n # p
      /\ n.at \in ByteString /\ Len(n.at) \in Nat
      /\ p.at \in ByteString /\ Len(p.at) \in Nat
  BY NodeFacts, InnerFacts, LeafFacts
<1>2. Len(n.at) < Len(p.at)
  BY <1>1, PrefixSameLength DEF TreeInvariant, AddressesAreFresh
<1>3. Below(p, n)  BY <1>2 DEF Below
<1>4. /\ ByteTowards(p, n) \in ChildBytes(n)
      /\ IsPrefix(Child(n, ByteTowards(p, n)).at, p.at)
  BY <1>1, <1>3 DEF TreeInvariant, RoutesToEveryNode
<1>5. c \in DOMAIN heap /\ Below(c, n) /\ ByteTowards(c, n) = b
  BY InvariantShape, ChildFacts
<1>6. c.at \in ByteString /\ Len(c.at) \in Nat /\ Len(n.at) < Len(c.at)
      /\ IsPrefix(n.at, c.at)
  BY <1>5, NodeFacts DEF Below
<1> DEFINE i == Len(n.at) + 1
<1>7. i \in 1 .. Lesser(Len(c.at), Len(p.at)) /\ i \in 1 .. Lesser(Len(p.at), Len(c.at))
  BY <1>1, <1>2, <1>6 DEF Lesser
<1>8. \A j \in 1 .. i - 1 : c.at[j] = p.at[j]
  <2>1. i - 1 = Len(n.at)  BY <1>1
  <2>2. \A j \in 1 .. Len(n.at) : n.at[j] = p.at[j] /\ n.at[j] = c.at[j]
    BY <1>1, <1>6, PrefixPointwise
  <2> QED  BY <2>1, <2>2
<1>9. c.at[i] = b /\ p.at[i] = ByteTowards(p, n)  BY <1>5 DEF ByteTowards
<1>10. CASE ByteTowards(p, n) = b  BY <1>4, <1>10
<1>11. CASE ByteTowards(p, n) # b
  <2>1. b < ByteTowards(p, n) => Precedes(c.at, p.at)
    BY <1>7, <1>8, <1>9 DEF Precedes
  <2>2. ByteTowards(p, n) < b => Precedes(p.at, c.at)
    BY <1>7, <1>8, <1>9 DEF Precedes
  <2> QED  BY <1>4, <1>11, <2>1, <2>2
<1> QED  BY <1>10, <1>11

(* Strings that part stay parted when they are extended.                   *)
LEMMA PrecedenceExtends ==
  ASSUME NEW s \in ByteString, NEW t \in ByteString, NEW u \in ByteString, IsPrefix(s, u)
  PROVE  /\ Precedes(s, t) => Precedes(u, t)
         /\ Precedes(t, s) => Precedes(t, u)
<1>1. Len(s) \in Nat /\ Len(t) \in Nat /\ Len(u) \in Nat  BY DEF ByteString
<1>2. Len(s) <= Len(u) /\ \A i \in 1 .. Len(s) : s[i] = u[i]  BY PrefixPointwise
<1>3. ASSUME Precedes(s, t)  PROVE Precedes(u, t)
  <2>1. PICK i \in 1 .. Lesser(Len(s), Len(t)) : (\A j \in 1 .. i - 1 : s[j] = t[j]) /\ s[i] < t[i]
    BY <1>3 DEF Precedes
  <2>2. i \in 1 .. Len(s) /\ i \in 1 .. Lesser(Len(u), Len(t))  BY <1>1, <1>2 DEF Lesser
  <2>3. \A j \in 1 .. i - 1 : j \in 1 .. Len(s)  BY <1>1, <2>2
  <2> QED  BY <1>2, <2>1, <2>2, <2>3 DEF Precedes
<1>4. ASSUME Precedes(t, s)  PROVE Precedes(t, u)
  <2>1. PICK i \in 1 .. Lesser(Len(t), Len(s)) : (\A j \in 1 .. i - 1 : t[j] = s[j]) /\ t[i] < s[i]
    BY <1>4 DEF Precedes
  <2>2. i \in 1 .. Len(s) /\ i \in 1 .. Lesser(Len(t), Len(u))  BY <1>1, <1>2 DEF Lesser
  <2>3. \A j \in 1 .. i - 1 : j \in 1 .. Len(s)  BY <1>1, <2>2
  <2> QED  BY <1>2, <2>1, <2>2, <2>3 DEF Precedes
<1> QED  BY <1>3, <1>4

LEMMA OpIsRecord ==
  ASSUME TreeInvariant
  PROVE  op \in OpType
BY DEF TreeInvariant, TypeOK

(* What is ahead of a node, and of the child with the end byte, is ahead   *)
(* of the child.                                                           *)
LEMMA DescendToEndKeepsAnswers ==
  ASSUME Invariant, AnswerInvariant, DescendToEnd
  PROVE  AnswerInvariant'
<1> DEFINE n == op.node
<1>1. n \in Inners(heap) /\ TreeInvariant /\ op.pc = "search" /\ EndIsAhead /\ CallIsKept
  BY NodeFacts DEF DescendToEnd, AtInner, Invariant, CallInvariant, SearchKeepsItsPath,
                   AnswerInvariant
<1>2. PICK b \in ChildBytes(n) :
        /\ op'.node = Child(n, b) /\ op'.pc = "search"
        /\ op'.call = op.call /\ op'.key = op.key /\ op'.value = op.value
        /\ op.call \in MinCalls => b = MinByte(heap[n])
        /\ op.call \in MaxCalls => b = MaxByte(heap[n])
        /\ op.call \in MinCalls \cup MaxCalls
  <2>1. CASE op.call \in MinCalls /\ MoveTo(MinByte(heap[n]), 0)
    <3>1. MinByte(heap[n]) \in ChildBytes(n)  BY <1>1, InnerFacts
    <3>2. /\ op'.node = Child(n, MinByte(heap[n])) /\ op'.pc = "search"
          /\ op'.call = op.call /\ op'.key = op.key /\ op'.value = op.value
      BY <1>1, <2>1, OpIsRecord DEF OpType, MoveTo, Child
    <3> QED  BY <2>1, <3>1, <3>2, CallKinds
  <2>2. CASE op.call \in MaxCalls /\ MoveTo(MaxByte(heap[n]), 0)
    <3>1. MaxByte(heap[n]) \in ChildBytes(n)  BY <1>1, InnerFacts
    <3>2. /\ op'.node = Child(n, MaxByte(heap[n])) /\ op'.pc = "search"
          /\ op'.call = op.call /\ op'.key = op.key /\ op'.value = op.value
      BY <1>1, <2>2, OpIsRecord DEF OpType, MoveTo, Child
    <3> QED  BY <2>2, <3>1, <3>2, CallKinds
  <2> QED  BY <2>1, <2>2 DEF DescendToEnd
<1> HIDE DEF n
<1>3. heap' = heap /\ Leaves(heap)' = Leaves(heap)  BY DEF DescendToEnd, Leaves
<1>4. n = op.node  BY DEF n
<1>5. ASSUME NEW p \in Leaves(heap)
      PROVE  /\ op.call \in MinCalls => IsPrefix(op'.node.at, p.at) \/ Precedes(op'.node.at, p.at)
             /\ op.call \in MaxCalls => IsPrefix(op'.node.at, p.at) \/ Precedes(p.at, op'.node.at)
  <2>1. /\ n.at \in ByteString /\ p.at \in ByteString
        /\ op'.node.at \in ByteString /\ IsPrefix(n.at, op'.node.at)
    BY <1>1, <1>2, InvariantShape, ChildFacts, NodeFacts, InnerFacts, LeafFacts DEF Below
  <2>2. CASE IsPrefix(n.at, p.at)
    <3>1. \/ IsPrefix(op'.node.at, p.at)
          \/ \E d \in ChildBytes(n) \ {b} :
               /\ b < d => Precedes(op'.node.at, p.at)
               /\ d < b => Precedes(p.at, op'.node.at)
      BY <1>1, <1>2, <2>2, BesideTheChild
    <3>2. ASSUME NEW d \in ChildBytes(n) \ {b},
                 b < d => Precedes(op'.node.at, p.at), d < b => Precedes(p.at, op'.node.at)
          PROVE  /\ op.call \in MinCalls => Precedes(op'.node.at, p.at)
                 /\ op.call \in MaxCalls => Precedes(p.at, op'.node.at)
      <4>1. b \in Nat /\ d \in Nat /\ b # d  BY <1>1, InnerFacts
      <4>2. op.call \in MinCalls => b <= d  BY <1>1, <1>2, EndBytes
      <4>3. op.call \in MaxCalls => d <= b  BY <1>1, <1>2, EndBytes
      <4> QED  BY <3>2, <4>1, <4>2, <4>3
    <3> QED  BY <3>1, <3>2
  <2>3. CASE ~IsPrefix(n.at, p.at)
    <3>1. /\ op.call \in MinCalls => Precedes(n.at, p.at)
          /\ op.call \in MaxCalls => Precedes(p.at, n.at)
      BY <1>1, <1>4, <2>3 DEF EndIsAhead, Walking
    <3> QED  BY <2>1, <3>1, PrecedenceExtends
  <2> QED  BY <2>2, <2>3
<1>6. EndIsAhead'  BY <1>2, <1>3, <1>5 DEF EndIsAhead
<1>7. CallIsKept'  BY <1>1, <1>2 DEF CallIsKept, Walking, TearingDown, Applying
<1> QED  BY <1>6, <1>7 DEF AnswerInvariant

(* Other steps of a walk.                                                  *)
LEMMA WalkKeepsAnswers ==
  ASSUME AnswerInvariant, op.pc = "search", op.call \in KeyCalls, op'.pc = "search",
         op'.call = op.call, op'.key = op.key, op'.value = op.value
  PROVE  AnswerInvariant'
<1>1. op.call \notin MinCalls /\ op.call \notin MaxCalls  BY CallKinds
<1>2. EndIsAhead'  BY <1>1 DEF EndIsAhead
<1>3. CallIsKept'  BY DEF AnswerInvariant, CallIsKept, Walking, TearingDown, Applying
<1> QED  BY <1>2, <1>3 DEF AnswerInvariant

LEMMA StopKeepsAnswers ==
  ASSUME Invariant, AnswerInvariant, op.pc = "search",
         NEW point, NEW depth, StopAt(point, depth), heap' = heap,
         point.kind = "Delete" =>
           /\ op.call # "try_insert"
           /\ op.call = "remove_entry" => LeafKey = op.key
  PROVE  AnswerInvariant'
<1>1. /\ op'.pc = "apply" /\ op'.point = point /\ op'.node = op.node
      /\ op'.call = op.call /\ op'.key = op.key /\ op'.value = op.value
  BY OpIsRecord DEF Invariant, OpType, StopAt
<1>2. EndIsAhead'  BY <1>1 DEF AnswerInvariant, EndIsAhead, Walking, Leaves
<1>3. CallIsKept'
  BY <1>1 DEF AnswerInvariant, CallIsKept, Walking, TearingDown, Applying, LeafKey
<1> QED  BY <1>2, <1>3 DEF AnswerInvariant

LEMMA SearchKeepsAnswers ==
  ASSUME Invariant, AnswerInvariant, Search
  PROVE  AnswerInvariant'
<1>1. CASE StepToMinimum
  <2>1. /\ op.pc = "search" /\ op'.pc = "search" /\ op.call \in KeyCalls
        /\ op'.call = op.call /\ op'.key = op.key /\ op'.value = op.value
    BY <1>1, OpIsRecord DEF StepToMinimum, AtInner, Invariant, OpType
  <2> QED  BY <2>1, WalkKeepsAnswers
<1>2. CASE DescendByKey
  <2>1. /\ op.pc = "search" /\ op'.pc = "search" /\ op.call \in KeyCalls
        /\ op'.call = op.call /\ op'.key = op.key /\ op'.value = op.value
    BY <1>2, OpIsRecord DEF DescendByKey, MoveTo, AtInner, Invariant, OpType
  <2> QED  BY <2>1, WalkKeepsAnswers
<1>3. CASE DescendToEnd  BY <1>3, DescendToEndKeepsAnswers
<1>4. CASE InsertKeyTooShort  BY <1>4, FinishKeepsAnswers DEF InsertKeyTooShort
<1>5. CASE FindMismatch
  <2>1. PICK point, depth : StopAt(point, depth) /\ point.kind = "MismatchPrefix"
    BY <1>5 DEF FindMismatch
  <2> QED  BY <1>5, <2>1, StopKeepsAnswers DEF FindMismatch, AtInner
<1>6. CASE FindVacancy
  <2>1. PICK point, depth : StopAt(point, depth) /\ point.kind = "IntoExisting"
    BY <1>6 DEF FindVacancy
  <2> QED  BY <1>6, <2>1, StopKeepsAnswers DEF FindVacancy, AtInner
<1>7. CASE FindExact
  <2>1. PICK point, depth : StopAt(point, depth) /\ point.kind = "Exact"
    BY <1>7 DEF FindExact
  <2> QED  BY <1>7, <2>1, StopKeepsAnswers DEF FindExact, AtLeaf
<1>8. CASE FindLeafToSplit
  <2>1. CASE Finish(InsertPrefixError)  BY <2>1, FinishKeepsAnswers
  <2>2. CASE ~Finish(InsertPrefixError)
    <3>1. PICK point, depth : StopAt(point, depth) /\ point.kind = "SplitLeaf"
      BY <1>8, <2>2 DEF FindLeafToSplit
    <3> QED  BY <1>8, <3>1, StopKeepsAnswers DEF FindLeafToSplit, AtLeaf
  <2> QED  BY <2>1, <2>2
<1>9. CASE LookupMiss  BY <1>9, FinishKeepsAnswers DEF LookupMiss
<1>10. CASE FindLeafToDelete
  <2>1. PICK point, depth : StopAt(point, depth) /\ point.kind = "Delete"
    BY <1>10 DEF FindLeafToDelete
  <2> QED  BY <1>10, <2>1, StopKeepsAnswers DEF FindLeafToDelete, AtLeaf
<1>11. CASE ReadLeaf  BY <1>11, FinishKeepsAnswers DEF ReadLeaf
<1>12. CASE WriteLeafValue  BY <1>12, FinishKeepsAnswers DEF WriteLeafValue
<1> QED
  BY <1>1, <1>2, <1>3, <1>4, <1>5, <1>6, <1>7, <1>8, <1>9, <1>10, <1>11, <1>12 DEF Search

LEMMA RunKeepsAnswers ==
  ASSUME Invariant, AnswerInvariant, Run
  PROVE  AnswerInvariant'
<1>1. CASE Search  BY <1>1, SearchKeepsAnswers
<1>2. CASE ApplyInsert
  <2>1. \E out : Finish(out)
    BY <1>2 DEF ApplyInsert, InsertAtMismatch, InsertAtLeaf, InsertIntoNode,
                InsertIntoGrownNode, InsertReplace, Inserted
  <2> QED  BY <2>1, FinishKeepsAnswers
<1>3. CASE ApplyDelete
  <2>1. \E out : Finish(out)
    BY <1>3 DEF ApplyDelete, DeleteRoot, DeleteAndMerge, DeleteAndShrink, DeleteInPlace,
                ReplaceParent, Deleted
  <2> QED  BY <2>1, FinishKeepsAnswers
<1>4. CASE ClearPop
  <2>1. /\ op.pc = "dealloc" /\ op'.pc = "dealloc" /\ op'.call = op.call
        /\ op'.key = op.key /\ op'.value = op.value /\ op'.out = op.out
    BY <1>4, OpIsRecord DEF ClearPop, Invariant, OpType
  <2> QED
    BY <2>1 DEF AnswerInvariant, EndIsAhead, CallIsKept, Walking, TearingDown, Applying
<1>5. CASE ClearEnd  BY <1>5, FinishKeepsAnswers DEF ClearEnd
<1> QED  BY <1>1, <1>2, <1>3, <1>4, <1>5 DEF Run, Dealloc

LEMMA AnswersInit == Init => AnswerInvariant
BY AnsweredKeepsAnswers DEF Init, IdleOp, AnswerInvariant, EndIsAhead, CallIsKept, Walking,
   TearingDown, Applying

LEMMA StutterKeepsAnswers ==
  ASSUME AnswerInvariant, UNCHANGED vars
  PROVE  AnswerInvariant'
BY DEF vars, AnswerInvariant, EndIsAhead, CallIsKept, Walking, TearingDown, Applying,
       LeafKey, Leaves

(* A walk to an end has only later, or only earlier, leaves beside it, and *)
(* a removal has the leaf that was asked for: what the answers of          *)
(* pop_first, pop_last, first_key_value, last_key_value and remove_entry   *)
(* rest on (minmax.rs, delete.rs).                                         *)
THEOREM AnswersKept == Spec => []AnswerInvariant
<1>1. Init => AnswerInvariant  BY AnswersInit
<1>2. Invariant /\ AnswerInvariant /\ [Next]_vars => AnswerInvariant'
  <2> SUFFICES ASSUME Invariant, AnswerInvariant, [Next]_vars PROVE AnswerInvariant'  OBVIOUS
  <2>1. CASE Call  BY <2>1, CallKeepsAnswers
  <2>2. CASE Run  BY <2>2, RunKeepsAnswers
  <2>3. CASE Return  BY <2>3, ReturnKeepsAnswers
  <2>4. CASE UNCHANGED vars  BY <2>4, StutterKeepsAnswers
  <2> QED  BY <2>1, <2>2, <2>3, <2>4 DEF Next
<1> QED  BY <1>1, <1>2, InvariantHolds, PTL DEF Spec
-----------------------------------------------------------------------------
(* The dictionary the tree stands for.                                     *)

(* The dictionary holds the value of every leaf under the leaf's key, and  *)
(* nothing else.                                                           *)
TableOfLeaves ==
  /\ StoredKeys = {p.at : p \in Leaves(heap)}
  /\ DOMAIN AbstractMap = StoredKeys
  /\ AbstractMap = [k \in StoredKeys |-> AbstractMap[k]]
  /\ \A p \in Leaves(heap) : AbstractMap[p.at] = heap[p].value

LEMMA MapFacts == TreeInvariant /\ ~TearingDown => TableOfLeaves
<1> SUFFICES ASSUME TreeInvariant, ~TearingDown PROVE TableOfLeaves  OBVIOUS
<1>1. \A p \in Leaves(heap) : heap[p].key = p.at /\ p \in DOMAIN heap  BY LeafFacts
<1>2. \A p, q \in Leaves(heap) : p.at = q.at => p = q
  BY <1>1 DEF TreeInvariant, AddressesAreFresh
<1>3. AbstractMap = [k \in StoredKeys |-> heap[CHOOSE p \in Leaves(heap) : heap[p].key = k].value]
  BY DEF AbstractMap
<1>4. StoredKeys = {p.at : p \in Leaves(heap)}  BY <1>1 DEF StoredKeys
<1>5. ASSUME NEW p \in Leaves(heap)  PROVE AbstractMap[p.at] = heap[p].value
  <2>1. (CHOOSE q \in Leaves(heap) : heap[q].key = p.at) = p  BY <1>1, <1>2
  <2>2. p.at \in StoredKeys  BY <1>4
  <2> QED  BY <1>3, <2>1, <2>2
<1>6. DOMAIN AbstractMap = StoredKeys /\ AbstractMap = [k \in StoredKeys |-> AbstractMap[k]]
  BY <1>3
<1> QED  BY <1>4, <1>5, <1>6 DEF TableOfLeaves

(* The same after a step.                                                  *)
LEMMA MapFactsNext == TreeInvariant' /\ ~TearingDown' => TableOfLeaves'
BY MapFacts, PTL

(* What a step does to the dictionary, told by what it does to the leaves. *)
LEMMA LeafPut ==
  ASSUME TreeInvariant, TreeInvariant', ~TearingDown, ~TearingDown',
         NEW leaf, Leaves(heap)' = Leaves(heap) \cup {leaf},
         \A p \in Leaves(heap) \ {leaf} : heap'[p].value = heap[p].value
  PROVE  AbstractMap' = Dictionary!Put(AbstractMap, leaf.at, heap'[leaf].value)
<1>1. StoredKeys' = StoredKeys \cup {leaf.at}  BY MapFacts, MapFactsNext DEF TableOfLeaves
<1>2. AbstractMap'[leaf.at] = heap'[leaf].value  BY MapFactsNext DEF TableOfLeaves
<1>3. ASSUME NEW k \in StoredKeys, k # leaf.at  PROVE AbstractMap'[k] = AbstractMap[k]
  <2>1. PICK p \in Leaves(heap) : p.at = k  BY MapFacts DEF TableOfLeaves
  <2> QED  BY <1>3, <2>1, MapFacts, MapFactsNext DEF TableOfLeaves
<1>4. AbstractMap' = [k \in StoredKeys \cup {leaf.at} |->
                        IF k = leaf.at THEN heap'[leaf].value ELSE AbstractMap[k]]
  <2> DEFINE f == [k \in StoredKeys \cup {leaf.at} |->
                        IF k = leaf.at THEN heap'[leaf].value ELSE AbstractMap[k]]
  <2>1. \A k \in StoredKeys' : AbstractMap'[k] = f[k]  BY <1>1, <1>2, <1>3
  <2> QED  BY <1>1, <2>1, MapFactsNext DEF TableOfLeaves
<1> QED  BY <1>4, MapFacts DEF TableOfLeaves, Dictionary!Put

LEMMA LeafTaken ==
  ASSUME TreeInvariant, TreeInvariant', ~TearingDown, ~TearingDown',
         NEW leaf \in Leaves(heap), Leaves(heap)' = Leaves(heap) \ {leaf},
         \A p \in Leaves(heap) \ {leaf} : heap'[p].value = heap[p].value
  PROVE  AbstractMap' = Dictionary!Without(AbstractMap, leaf.at)
<1>1. StoredKeys' = StoredKeys \ {leaf.at}
  <2>1. \A p \in Leaves(heap) : p.at = leaf.at => p = leaf
    BY LeafFacts DEF TreeInvariant, AddressesAreFresh
  <2> QED  BY <2>1, MapFacts, MapFactsNext DEF TableOfLeaves
<1>2. ASSUME NEW k \in StoredKeys \ {leaf.at}  PROVE AbstractMap'[k] = AbstractMap[k]
  <2>1. PICK p \in Leaves(heap) : p.at = k  BY MapFacts DEF TableOfLeaves
  <2> QED  BY <1>2, <2>1, MapFacts, MapFactsNext DEF TableOfLeaves
<1>3. AbstractMap' = [k \in StoredKeys \ {leaf.at} |-> AbstractMap[k]]
  BY <1>1, <1>2, MapFactsNext DEF TableOfLeaves
<1> QED  BY <1>3, MapFacts DEF TableOfLeaves, Dictionary!Without

(* The answer of a call that ends with this step.                          *)
LEMMA Answers ==
  ASSUME op.pc \notin {"done", "dealloc"}, NEW call, NEW key, NEW value, NEW out,
         op' = Done(call, key, value, out)
  PROVE  /\ AbstractRet = None /\ ~TearingDown /\ ~TearingDown'
         /\ AbstractRet' = Dictionary!Answer(call, key, value, out)
BY DEF Done, IdleOp, AbstractRet, TearingDown, Dictionary!Answer

(* There is no answer before the call ends.                                *)
LEMMA NoAnswer ==
  ASSUME op.pc \notin {"done", "dealloc"}, op'.pc \notin {"done", "dealloc"}
  PROVE  AbstractRet = None /\ AbstractRet' = None /\ ~TearingDown /\ ~TearingDown'
BY DEF AbstractRet, TearingDown

(* A step that leaves the heap alone leaves the dictionary alone.          *)
LEMMA UntouchedKeepsMap ==
  ASSUME heap' = heap, ~TearingDown, ~TearingDown'
  PROVE  AbstractMap' = AbstractMap
BY DEF AbstractMap, StoredKeys, Leaves

(* The steps of a walk change nothing that a caller could see.             *)
LEMMA SilentStep ==
  ASSUME heap' = heap, op.pc \notin {"done", "dealloc"}, op'.pc \notin {"done", "dealloc"}
  PROVE  UNCHANGED <<AbstractMap, AbstractRet>>
BY NoAnswer, UntouchedKeepsMap

-----------------------------------------------------------------------------
(* Insertions.                                                             *)

(* No stored key is in conflict with a key that is stored in the end.      *)
LEMMA NoConflict ==
  ASSUME TreeInvariant, TreeInvariant', ~TearingDown, ~TearingDown',
         NEW leaf \in Leaves(heap)', Leaves(heap) \subseteq Leaves(heap)'
  PROVE  ~Dictionary!Conflicts(AbstractMap, leaf.at)
<1>1. KeysArePrefixFree'  BY LeavesArePrefixFree, PTL
<1>2. leaf.at \in StoredKeys' /\ StoredKeys \subseteq StoredKeys'
  BY MapFacts, MapFactsNext DEF TableOfLeaves
<1>3. \A j \in StoredKeys : PrefixRelated(j, leaf.at) => j = leaf.at
  BY <1>1, <1>2 DEF KeysArePrefixFree, PrefixFree, PrefixRelated
<1>4. DOMAIN AbstractMap = StoredKeys  BY MapFacts DEF TableOfLeaves
<1> QED  BY <1>3, <1>4, SameRelation DEF Dictionary!Conflicts

(* An insertion that stores a leaf and answers with what was there before. *)
LEMMA StoredIsInserted ==
  ASSUME Invariant, TreeInvariant', op.pc \notin {"done", "dealloc"},
         NEW k, NEW v, NEW old, op' = Done("try_insert", k, v, Ok(old)),
         NEW leaf, leaf.at = k, Leaves(heap)' = Leaves(heap) \cup {leaf},
         \A p \in Leaves(heap) \ {leaf} : heap'[p].value = heap[p].value,
         heap'[leaf].value = v,
         old = IF leaf \in Leaves(heap) THEN Some(heap[leaf].value) ELSE None
  PROVE  Dictionary!TryInsert(k, v)
<1>1. /\ AbstractRet = None /\ ~TearingDown /\ ~TearingDown'
      /\ AbstractRet' = Dictionary!Answer("try_insert", k, v, Ok(old))
  BY Answers
<1>2. TreeInvariant  BY DEF Invariant
<1>3. AbstractMap' = Dictionary!Put(AbstractMap, k, v)  BY <1>1, <1>2, LeafPut
<1>4. ~Dictionary!Conflicts(AbstractMap, k)  BY <1>1, <1>2, NoConflict
<1>5. k \in DOMAIN AbstractMap <=> leaf \in Leaves(heap)
  <2>1. \A p \in Leaves(heap) : p.at = leaf.at => p = leaf
    <3>1. \A p \in Leaves(heap)' : p \in DOMAIN heap'  BY DEF Leaves
    <3> QED  BY <3>1 DEF TreeInvariant, AddressesAreFresh
  <2> QED  BY <1>1, <1>2, <2>1, MapFacts DEF TableOfLeaves
<1>6. Ok(old) = Dictionary!Ok(IF k \in DOMAIN AbstractMap
                              THEN Dictionary!Some(AbstractMap[k]) ELSE None)
  BY <1>1, <1>2, <1>5, MapFacts DEF TableOfLeaves, Ok, Some, Dictionary!Ok, Dictionary!Some
<1> QED  BY <1>1, <1>3, <1>4, <1>6 DEF Dictionary!TryInsert

(* The first entry.                                                        *)
LEMMA InitTreeInserts ==
  ASSUME Invariant, NEW k \in Keys, NEW v \in Values, InitTree(k, v)
  PROVE  Dictionary!TryInsert(k, v)
<1> DEFINE leaf == Pointer("Leaf", k)
<1>1. TreeInvariant'  BY InitTreeKeeps DEF Invariant
<1>2. op.pc = "idle" /\ op' = Done("try_insert", k, v, Ok(None))  BY DEF InitTree
<1>3. DOMAIN heap = {} /\ Leaves(heap) = {}
  BY <1>2 DEF InitTree, Invariant, TreeInvariant, RootIsAboveAll, TearingDown, Leaves
<1>4. leaf.at = k /\ IsLeaf(leaf)  BY DEF Pointer, IsLeaf
<1> HIDE DEF leaf
<1>5. heap' = With(heap, leaf, Leaf(k, v))  BY DEF InitTree, Allocate, leaf
<1>6. DOMAIN heap' = {leaf} /\ heap'[leaf].value = v  BY <1>3, <1>5 DEF With, Leaf
<1>7. Leaves(heap)' = Leaves(heap) \cup {leaf}  BY <1>3, <1>4, <1>6 DEF Leaves
<1> QED  BY <1>1, <1>2, <1>3, <1>4, <1>6, <1>7, StoredIsInserted

(* The leaf of the key is there already: its value is replaced.            *)
LEMMA OverwrittenLeaf ==
  ASSUME TreeInvariant, NEW leaf \in Leaves(heap), NEW v,
         heap' = [heap EXCEPT ![leaf] = Leaf(leaf.at, v)]
  PROVE  /\ Leaves(heap)' = Leaves(heap) /\ heap'[leaf].value = v
         /\ \A p \in Leaves(heap) \ {leaf} : heap'[p].value = heap[p].value
BY DEF Leaves, Leaf

LEMMA InsertReplaceInserts ==
  ASSUME Invariant, InsertReplace
  PROVE  Dictionary!TryInsert(op.key, op.value)
<1>1. op.pc = "apply" /\ op.point.kind = "Exact"  BY DEF InsertReplace, Applying
<1>2. /\ TreeInvariant /\ op.node \in Leaves(heap) /\ op.node.at = op.key /\ op.call = "try_insert"
  <2>1. IsLeaf(op.node) /\ LeafKey = op.key
    BY <1>1 DEF Invariant, CallInvariant, PointFitsNode
  <2>2. op.node \in DOMAIN heap /\ op.call = "try_insert"  BY <1>1, InsertFacts
  <2>3. op.node \in Leaves(heap)  BY <2>1, <2>2 DEF Leaves
  <2> QED  BY <2>1, <2>2, <2>3, LeafFacts DEF Invariant, LeafKey
<1>3. TreeInvariant'  BY InsertReplaceKeeps DEF Invariant
<1>4. heap' = [heap EXCEPT ![op.node] = Leaf(op.node.at, op.value)]
  BY <1>2 DEF InsertReplace
<1>5. op' = Done("try_insert", op.key, op.value, Ok(Some(heap[op.node].value)))
  BY <1>2 DEF InsertReplace, Finish
<1>6. /\ Leaves(heap)' = Leaves(heap) /\ heap'[op.node].value = op.value
      /\ \A p \in Leaves(heap) \ {op.node} : heap'[p].value = heap[p].value
  BY <1>2, <1>4, OverwrittenLeaf
<1> QED  BY <1>1, <1>2, <1>3, <1>5, <1>6, StoredIsInserted

(* Inserted adds the leaf of the key to whatever leaves there are.         *)
LEMMA InsertedLeaf ==
  ASSUME Invariant, Invariant', op.pc = "apply", op.point.kind # "Delete",
         NEW h, NEW new, Inserted(h, new), Leaves(h) = Leaves(heap),
         \A p \in Leaves(heap) : h[p] = heap[p]
  PROVE  Dictionary!TryInsert(op.key, op.value)
<1>1. /\ op.call = "try_insert" /\ ~TearingDown /\ IsLeaf(NewLeaf) /\ NewLeaf.at = op.key
      /\ op.parent # None => op.parent.node \in Inners(heap)
  BY InsertFacts
<1>2. PICK leaf \in {NewLeaf} : TRUE  OBVIOUS
<1> DEFINE g == With(h, leaf, Leaf(op.key, op.value))
<1>3. heap' = WriteBack(g, new) /\ num_entries' = num_entries + 1
      /\ op' = Done("try_insert", op.key, op.value, Ok(None))
  BY <1>1, <1>2 DEF Inserted, Finish, Allocate
<1>4. DOMAIN g = DOMAIN h \cup {leaf} /\ g[leaf] = Leaf(op.key, op.value)
      /\ \A p \in DOMAIN h \ {leaf} : g[p] = h[p]
  BY DEF With
<1> HIDE DEF g
<1>5. DOMAIN heap' = DOMAIN g /\ \A p \in DOMAIN g : IsLeaf(p) => heap'[p] = g[p]
  <2>1. op.parent # None => ~IsLeaf(op.parent.node)  BY <1>1 DEF Inners, IsLeaf, IsInner, InnerType
  <2> QED  BY <1>3, <2>1 DEF WriteBack
<1>6. Leaves(heap)' = Leaves(heap) \cup {leaf}
  BY <1>1, <1>2, <1>4, <1>5 DEF Leaves
<1>7. leaf \notin Leaves(heap)
  <2>1. num_entries = Cardinality(Leaves(heap)) /\ num_entries \in Nat
    BY <1>1 DEF Invariant, TreeInvariant, CountIsExact, TypeOK
  <2>2. ~TearingDown'  BY <1>3 DEF Done, IdleOp, TearingDown
  <2>3. num_entries' = Cardinality(Leaves(heap)')
    BY <2>2 DEF Invariant, TreeInvariant, CountIsExact
  <2>4. leaf \in Leaves(heap) => Leaves(heap)' = Leaves(heap)  BY <1>6
  <2>5. num_entries' # num_entries  BY <1>3, <2>1
  <2> QED  BY <2>1, <2>3, <2>4, <2>5
<1>8. \A p \in Leaves(heap) : heap'[p] = heap[p]
  BY <1>4, <1>5, <1>7 DEF Leaves
<1>9. heap'[leaf].value = op.value  BY <1>1, <1>2, <1>4, <1>5 DEF Leaf
<1> QED
  BY <1>1, <1>2, <1>3, <1>6, <1>7, <1>8, <1>9, StoredIsInserted DEF Invariant

LEMMA ApplyInsertInserts ==
  ASSUME Invariant, ApplyInsert
  PROVE  Dictionary!TryInsert(op.key, op.value)
<1>1. Invariant'  BY RunKeeps DEF Run
<1>2. CASE InsertReplace  BY <1>2, InsertReplaceInserts
<1>3. CASE InsertAtMismatch
  <2> DEFINE matched == op.point.matched_bytes
             header  == CurrentHeader
             n4      == Pointer("Node4", TakeFirst(op.key, op.depth + matched))
             shared  == TakeFirst(ReadPrefix(header), Lesser(CappedPrefixLen(header), matched))
             trimmed == IF op.point.leaf_ptr # None
                        THEN LTrimByWithLeaf(header, matched + 1, op.depth,
                                             heap[op.point.leaf_ptr].key)
                        ELSE LTrimBy(header, matched + 1)
             node    == TwoChildren(NewHeader(shared, matched), op.point.prefix_byte,
                                    op.node, op.key[op.depth + matched + 1])
             g == [heap EXCEPT ![op.node].header = trimmed]
             h == With(g, n4, node)
  <2>1. op.pc = "apply" /\ op.point.kind = "MismatchPrefix" /\ Inserted(h, n4)
    BY <1>3 DEF InsertAtMismatch, Applying, Allocate
  <2>2. IsInner(op.node)  BY <2>1 DEF Invariant, CallInvariant, PointFitsNode
  <2>3. ~IsLeaf(n4) /\ ~IsLeaf(op.node)
    BY <2>2 DEF Pointer, IsLeaf, IsInner, InnerType
  <2>4. DOMAIN g = DOMAIN heap /\ \A p \in DOMAIN heap \ {op.node} : g[p] = heap[p]
    OBVIOUS
  <2> HIDE DEF g, n4, node
  <2>5. DOMAIN h = DOMAIN g \cup {n4} /\ \A p \in DOMAIN g \ {n4} : h[p] = g[p]
    BY DEF With
  <2> HIDE DEF h
  <2>6. Leaves(h) = Leaves(heap) /\ \A p \in Leaves(heap) : h[p] = heap[p]
    BY <2>3, <2>4, <2>5 DEF Leaves
  <2> QED  BY <1>1, <2>1, <2>6, InsertedLeaf
<1>4. CASE InsertAtLeaf
  <2> DEFINE used == op.point.new_key_bytes_used
             n4   == Pointer("Node4", TakeFirst(op.key, used))
             node == TwoChildren(NewHeader(SubSeq(op.key, op.depth + 1, used), used - op.depth),
                                 LeafKey[used + 1], op.node, op.key[used + 1])
             h == With(heap, n4, node)
  <2>1. op.pc = "apply" /\ op.point.kind = "SplitLeaf" /\ Inserted(h, n4)
    BY <1>4 DEF InsertAtLeaf, Applying, Allocate
  <2>2. ~IsLeaf(n4)  BY DEF Pointer, IsLeaf
  <2> HIDE DEF n4, node
  <2>3. DOMAIN h = DOMAIN heap \cup {n4} /\ \A p \in DOMAIN heap \ {n4} : h[p] = heap[p]
    BY DEF With
  <2> HIDE DEF h
  <2>4. Leaves(h) = Leaves(heap) /\ \A p \in Leaves(heap) : h[p] = heap[p]
    BY <2>2, <2>3 DEF Leaves
  <2> QED  BY <1>1, <2>1, <2>4, InsertedLeaf
<1>5. CASE InsertIntoNode
  <2> DEFINE node == WriteChild(heap[op.node], op.key[op.depth + 1], NewLeaf)
             h == [heap EXCEPT ![op.node] = node]
  <2>1. op.pc = "apply" /\ op.point.kind = "IntoExisting" /\ Inserted(h, op.node)
    BY <1>5 DEF InsertIntoNode, Applying
  <2>2. IsInner(op.node)  BY <2>1 DEF Invariant, CallInvariant, PointFitsNode
  <2>3. ~IsLeaf(op.node)  BY <2>2 DEF IsLeaf, IsInner, InnerType
  <2> HIDE DEF node
  <2>4. Leaves(h) = Leaves(heap) /\ \A p \in Leaves(heap) : h[p] = heap[p]
    BY <2>3 DEF Leaves
  <2> QED  BY <1>1, <2>1, <2>4, InsertedLeaf
<1>6. CASE InsertIntoGrownNode
  <2> DEFINE node  == WriteChild(heap[op.node], op.key[op.depth + 1], NewLeaf)
             grown == Pointer(NextLarger[op.node.type], op.node.at)
             g == Without(heap, op.node)
             h == With(g, grown, node)
  <2>1. op.pc = "apply" /\ op.point.kind = "IntoExisting" /\ Inserted(h, grown)
    BY <1>6 DEF InsertIntoGrownNode, Applying, Allocate, Deallocate
  <2>2. IsInner(op.node) /\ IsFull(op.node.type, heap[op.node])
    BY <1>6, <2>1 DEF Invariant, CallInvariant, PointFitsNode, InsertIntoGrownNode
  <2>3. op.node.type # "Node256"
    BY <2>1, <2>2, PointsApply DEF PointsAreApplicable, Applying
  <2>4. ~IsLeaf(op.node) /\ ~IsLeaf(grown)
    <3>1. op.node.type \in {"Node4", "Node16", "Node48"}
      BY <2>2, <2>3 DEF IsInner, InnerType
    <3>2. NextLarger[op.node.type] # "Leaf"  BY <3>1 DEF NextLarger
    <3> QED  BY <3>1, <3>2 DEF IsLeaf, Pointer
  <2> HIDE DEF grown, node
  <2>5. DOMAIN g = DOMAIN heap \ {op.node} /\ \A p \in DOMAIN g : g[p] = heap[p]
    BY DEF Without
  <2> HIDE DEF g
  <2>6. DOMAIN h = DOMAIN g \cup {grown} /\ \A p \in DOMAIN g \ {grown} : h[p] = g[p]
    BY DEF With
  <2> HIDE DEF h
  <2>7. Leaves(h) = Leaves(heap) /\ \A p \in Leaves(heap) : h[p] = heap[p]
    BY <2>4, <2>5, <2>6 DEF Leaves
  <2> QED  BY <1>1, <2>1, <2>7, InsertedLeaf
<1> QED  BY <1>2, <1>3, <1>4, <1>5, <1>6 DEF ApplyInsert

(* The keys with no place among those that are stored.                     *)
LEMMA RefusedInsert ==
  ASSUME Invariant, op.pc = "search", op.call = "try_insert", Finish(InsertPrefixError),
         heap' = heap, NEW p \in Leaves(heap), p.at # op.key, PrefixRelated(p.at, op.key)
  PROVE  Dictionary!TryInsert(op.key, op.value)
<1>1. /\ AbstractRet = None /\ ~TearingDown /\ ~TearingDown'
      /\ AbstractRet' = Dictionary!Answer("try_insert", op.key, op.value, InsertPrefixError)
  BY Answers DEF Finish
<1>2. AbstractMap' = AbstractMap  BY <1>1, UntouchedKeepsMap
<1>3. p.at \in DOMAIN AbstractMap  BY <1>1, MapFacts DEF TableOfLeaves, Invariant
<1>4. Dictionary!Conflicts(AbstractMap, op.key)
  BY <1>3, SameRelation DEF Dictionary!Conflicts
<1> QED
  BY <1>1, <1>2, <1>4 DEF Dictionary!TryInsert, InsertPrefixError, Dictionary!InsertPrefixError

(* The key ends inside the path of a node: the keys below extend it.       *)
LEMMA KeyTooShortConflicts ==
  ASSUME Invariant, InsertKeyTooShort
  PROVE  Dictionary!TryInsert(op.key, op.value)
<1>1. /\ AtInner /\ op.pc = "search" /\ op.call = "try_insert" /\ op.call \in KeyCalls
      /\ PrefixIsRead /\ ~KeyGoesOn /\ Finish(InsertPrefixError) /\ heap' = heap
  BY DEF InsertKeyTooShort, AtInner, KeyCalls
<1>2. /\ op.node \in Inners(heap) /\ op.node \in DOMAIN heap
      /\ op.node.at \in ByteString /\ Len(op.node.at) \in Nat
      /\ op.key \in ByteString /\ Len(op.key) \in Nat /\ op.depth \in Nat
  BY <1>1, SearchFacts
<1>3. /\ Matched \in Nat /\ op.depth + Matched <= Len(op.key)
      /\ op.depth + Matched <= Len(op.node.at)
      /\ \A i \in 1 .. op.depth + Matched : op.key[i] = op.node.at[i]
  BY <1>1, MatchFacts
<1>4. op.depth + Matched = Len(op.key)
  <2>1. ~(op.depth + Matched < Len(op.key))  BY <1>1 DEF KeyGoesOn
  <2>2. op.depth + Matched \in Nat  BY <1>2, <1>3
  <2> QED  BY <1>2, <1>3, <2>1, <2>2
<1>5. IsPrefix(op.key, op.node.at)  BY <1>2, <1>3, <1>4, PrefixPointwise
<1>6. PICK p \in Leaves(heap) : IsPrefix(op.node.at, p.at)
  BY <1>2, LeafBelow DEF Invariant
<1>7. p \in DOMAIN heap /\ p.at \in ByteString /\ Len(p.at) \in Nat /\ p # op.node
  BY <1>2, LeafFacts, InnerFacts, NodeFacts DEF Invariant
<1>8. IsPrefix(op.key, p.at)  BY <1>2, <1>5, <1>6, <1>7, PrefixTransitive
<1>9. p.at # op.key
  <2>1. SUFFICES ASSUME p.at = op.key PROVE FALSE  OBVIOUS
  <2>2. Len(op.key) <= Len(op.node.at) /\ Len(op.node.at) <= Len(op.key)
    BY <1>2, <1>3, <1>4, <1>6, <2>1, PrefixPointwise
  <2>3. op.node.at = p.at  BY <1>2, <1>5, <2>1, <2>2, PrefixSameLength
  <2> QED  BY <1>2, <1>7, <2>3 DEF Invariant, TreeInvariant, AddressesAreFresh
<1> QED  BY <1>1, <1>8, <1>9, RefusedInsert DEF PrefixRelated

(* The key and the key of the leaf agree to the end of one of them.        *)
LEMMA SharedAllConflicts ==
  ASSUME Invariant, FindLeafToSplit, Finish(InsertPrefixError)
  PROVE  Dictionary!TryInsert(op.key, op.value)
<1>1. /\ AtLeaf /\ op.pc = "search" /\ op.call = "try_insert" /\ op.call \in KeyCalls
      /\ LeafKey # op.key /\ heap' = heap
      /\ op'.pc = "apply" \/ SharedBytes >= Len(op.key) \/ SharedBytes >= Len(LeafKey)
  BY OpIsRecord DEF FindLeafToSplit, AtLeaf, KeyCalls, StopAt, Invariant, OpType
<1>2. op'.pc = "done"  BY DEF Finish, Done, IdleOp
<1>3. /\ op.node \in Leaves(heap) /\ LeafKey = op.node.at
      /\ LeafKey \in ByteString /\ Len(LeafKey) \in Nat
      /\ op.key \in ByteString /\ Len(op.key) \in Nat
  BY <1>1, AtLeafFacts
<1>4. /\ SharedBytes \in Nat /\ SharedBytes <= Len(op.key) /\ SharedBytes <= Len(LeafKey)
      /\ \A i \in 1 .. SharedBytes : op.key[i] = LeafKey[i]
  BY <1>1, SharedBytesFacts DEF AgreeOn
<1>5. SharedBytes = Len(op.key) \/ SharedBytes = Len(LeafKey)
  BY <1>1, <1>2, <1>3, <1>4
<1>6. PrefixRelated(op.node.at, op.key)
  BY <1>3, <1>4, <1>5, PrefixPointwise DEF PrefixRelated
<1> QED  BY <1>1, <1>3, <1>6, RefusedInsert

-----------------------------------------------------------------------------
(* The lookups.                                                            *)

(* A leaf that is stored under the searched key is below the node.         *)
LEMMA MissedKey ==
  ASSUME Invariant, LookupMiss
  PROVE  op.key \notin StoredKeys
<1>1. op.call \in KeyCalls /\ op.pc = "search" /\ (AtInner \/ AtLeaf)
  BY DEF LookupMiss, KeyCalls, AtInner, AtLeaf
<1>2. TreeInvariant  BY DEF Invariant
<1> SUFFICES ASSUME NEW q \in Leaves(heap), q.at = op.key PROVE FALSE
  BY <1>2, LeafFacts DEF StoredKeys
<1>3. /\ q \in DOMAIN heap /\ IsLeaf(q) /\ q.at \in ByteString /\ Len(q.at) \in Nat
      /\ heap[q].key = q.at
  BY <1>2, LeafFacts, NodeFacts
<1>4. AgreeOn(op.key, op.node.at, op.depth)
  BY <1>1 DEF Invariant, CallInvariant, SearchIsOnPath, Walking
<1>5. AgreeOn(op.key, q.at, op.depth)  BY <1>4 DEF AgreeOn
<1>6. IsPrefix(op.node.at, q.at)
  BY <1>1, <1>3, <1>5 DEF Invariant, CallInvariant, NothingIsPassedBy, Walking, Applying
<1>7. CASE AtLeaf
  <2>1. op.node \in Leaves(heap) /\ LeafKey = op.node.at  BY <1>7, AtLeafFacts
  <2>2. q = op.node  BY <1>2, <1>3, <1>6, <2>1 DEF TreeInvariant, LeavesAreLowest
  <2>3. LeafKey # op.key
    BY <1>7 DEF LookupMiss, AtLeaf, AtInner, IsLeaf, IsInner, InnerType
  <2> QED  BY <2>1, <2>2, <2>3
<1>8. CASE AtInner
  <2>1. PrefixIsRead /\ ~(PrefixMatches /\ KeyGoesOn /\ HasNextChild)
    BY <1>8 DEF LookupMiss, AtLeaf, AtInner, IsLeaf, IsInner, InnerType
  <2>2. /\ op.node \in Inners(heap) /\ op.node \in DOMAIN heap
        /\ op.node.at \in ByteString /\ Len(op.node.at) \in Nat
        /\ op.key \in ByteString /\ Len(op.key) \in Nat /\ op.depth \in Nat
    BY <1>1, <1>8, SearchFacts
  <2>3. /\ Matched \in Nat /\ op.depth + Matched <= Len(op.key)
        /\ op.depth + Matched <= Len(op.node.at)
        /\ PrefixMatches => op.depth + Matched = Len(op.node.at)
        /\ (~PrefixMatches /\ KeyGoesOn) =>
             /\ op.depth + Matched < Len(op.node.at)
             /\ op.key[op.depth + Matched + 1] # op.node.at[op.depth + Matched + 1]
    BY <1>1, <1>8, <2>1, MatchFacts
  <2>4. q # op.node /\ Len(op.node.at) < Len(op.key)
    <3>1. q # op.node  BY <2>2, InnerFacts, LeafFacts, NodeFacts, <1>2
    <3>2. Len(op.key) <= Len(op.node.at) => op.node.at = q.at
      BY <1>6, <2>2, PrefixSameLength
    <3>3. op.node.at # q.at  BY <3>1, <1>2, <1>3, <2>2 DEF TreeInvariant, AddressesAreFresh
    <3> QED  BY <3>1, <3>2, <3>3, <2>2
  <2>5. \A i \in 1 .. Len(op.node.at) : op.key[i] = op.node.at[i]
    BY <1>6, <2>2, PrefixPointwise
  <2>6. PICK m \in Nat : m = op.depth + Matched  BY <2>2, <2>3
  <2>7. KeyGoesOn
    <3>1. m <= Len(op.node.at)  BY <2>3, <2>6
    <3>2. m < Len(op.key)  BY <2>2, <2>4, <3>1
    <3> QED  BY <2>6, <3>2 DEF KeyGoesOn
  <2>8. PrefixMatches
    <3>1. SUFFICES ASSUME ~PrefixMatches PROVE FALSE  OBVIOUS
    <3>2. m < Len(op.node.at) /\ op.key[m + 1] # op.node.at[m + 1]
      BY <2>3, <2>6, <2>7, <3>1
    <3>3. m + 1 \in 1 .. Len(op.node.at)  BY <2>2, <3>2
    <3> QED  BY <2>5, <3>2, <3>3
  <2>9. m = Len(op.node.at)  BY <2>3, <2>6, <2>8
  <2>10. Below(q, op.node)  BY <1>6, <2>4 DEF Below
  <2>11. ByteTowards(q, op.node) \in ChildBytes(op.node)
    BY <1>2, <1>3, <2>2, <2>10 DEF TreeInvariant, RoutesToEveryNode
  <2>12. NextByte = ByteTowards(q, op.node)
    BY <2>6, <2>9 DEF NextByte, ByteTowards
  <2>13. HasNextChild  BY <2>11, <2>12 DEF HasNextChild, ChildBytes
  <2> QED  BY <2>1, <2>7, <2>8, <2>13
<1> QED  BY <1>1, <1>7, <1>8

(* A lookup that ends without a leaf answers None, and rightly.            *)
LEMMA MissAnswers ==
  ASSUME Invariant, CallIsKept, LookupMiss
  PROVE  \/ Dictionary!Get(op.key)
         \/ Dictionary!RemoveEntry(op.key)
         \/ Dictionary!GetMut(op.key, op.value) /\ op.value \in Values
<1>1. /\ op.pc = "search" /\ op.call \in {"get", "get_mut", "remove_entry"}
      /\ op' = Done(op.call, op.key, op.value, None) /\ heap' = heap
  BY DEF LookupMiss, AtInner, AtLeaf, Finish
<1>2. /\ AbstractRet = None /\ ~TearingDown /\ ~TearingDown'
      /\ AbstractRet' = Dictionary!Answer(op.call, op.key, op.value, None)
  BY <1>1, Answers
<1>3. AbstractMap' = AbstractMap  BY <1>1, <1>2, UntouchedKeepsMap
<1>4. DOMAIN AbstractMap = StoredKeys /\ AbstractMap = [k \in StoredKeys |-> AbstractMap[k]]
  BY <1>2, MapFacts DEF TableOfLeaves, Invariant
<1>5. op.key \notin DOMAIN AbstractMap  BY <1>4, MissedKey
<1>6. CASE op.call = "get"
  <2>1. op.value = None  BY <1>6 DEF CallIsKept
  <2> QED  BY <1>2, <1>3, <1>5, <1>6, <2>1 DEF Dictionary!Get
<1>7. CASE op.call = "remove_entry"
  <2>1. op.value = None  BY <1>7 DEF CallIsKept
  <2>2. Dictionary!Without(AbstractMap, op.key) = AbstractMap
    <3>1. StoredKeys \ {op.key} = StoredKeys  BY <1>4, <1>5
    <3> QED  BY <1>4, <3>1 DEF Dictionary!Without
  <2> QED  BY <1>2, <1>3, <1>5, <1>7, <2>1, <2>2 DEF Dictionary!RemoveEntry
<1>8. CASE op.call = "get_mut"
  <2>1. op.value \in Values
    BY <1>1, <1>8 DEF Invariant, CallInvariant, SearchIsOnPath, Walking, KeyCalls
  <2> QED  BY <1>2, <1>3, <1>5, <1>8, <2>1 DEF Dictionary!GetMut
<1> QED  BY <1>1, <1>6, <1>7, <1>8

(* The leaf a walk to one end arrives at has all other keys beside it.     *)
LEMMA EndIsBeside ==
  ASSUME Invariant, EndIsAhead, Walking, op.node \in Leaves(heap)
  PROVE  \A j \in StoredKeys \ {op.node.at} :
           /\ op.call \in MinCalls => Precedes(op.node.at, j)
           /\ op.call \in MaxCalls => Precedes(j, op.node.at)
<1>1. TreeInvariant /\ ~TearingDown  BY DEF Invariant, Walking, TearingDown
<1>2. TAKE j \in StoredKeys \ {op.node.at}
<1>3. PICK p \in Leaves(heap) : p.at = j  BY <1>1, MapFacts DEF TableOfLeaves
<1>4. ~IsPrefix(op.node.at, j)
  BY <1>1, <1>3, LeafFacts DEF TreeInvariant, LeavesAreLowest
<1> QED  BY <1>3, <1>4 DEF EndIsAhead

(* A leaf with nothing smaller, or nothing greater, beside it is the first,*)
(* or the last, entry.                                                     *)
LEMMA EndIsFirst ==
  ASSUME Invariant, EndIsAhead, Walking, op.node \in Leaves(heap)
  PROVE  /\ op.call \in MinCalls => Dictionary!FirstKey(AbstractMap) = op.node.at
         /\ op.call \in MaxCalls => Dictionary!LastKey(AbstractMap) = op.node.at
<1> DEFINE D == DOMAIN AbstractMap
           k == op.node.at
<1>1. TreeInvariant /\ ~TearingDown  BY DEF Invariant, Walking, TearingDown
<1>2. D = StoredKeys /\ D = {p.at : p \in Leaves(heap)} /\ k \in D
  BY <1>1, MapFacts DEF TableOfLeaves
<1>3. \A j \in D : j \in ByteString  BY <1>1, <1>2, LeafFacts, NodeFacts
<1>4. \A j \in D \ {k} : /\ op.call \in MinCalls => Precedes(k, j)
                         /\ op.call \in MaxCalls => Precedes(j, k)
  BY <1>2, EndIsBeside
<1> HIDE DEF k
<1>5. ASSUME op.call \in MinCalls  PROVE Dictionary!FirstKey(AbstractMap) = k
  <2>1. \A j \in D \ {k} : LexLess(k, j) /\ ~LexLess(j, k)
    BY <1>2, <1>3, <1>4, <1>5, Precedence
  <2>2. \A j \in D \ {k} : Dictionary!LexLess(k, j) /\ ~Dictionary!LexLess(j, k)
    BY <2>1, SameOrder
  <2> QED  BY <1>2, <2>2 DEF Dictionary!FirstKey
<1>6. ASSUME op.call \in MaxCalls  PROVE Dictionary!LastKey(AbstractMap) = k
  <2>1. \A j \in D \ {k} : LexLess(j, k) /\ ~LexLess(k, j)
    BY <1>2, <1>3, <1>4, <1>6, Precedence
  <2>2. \A j \in D \ {k} : Dictionary!LexLess(j, k) /\ ~Dictionary!LexLess(k, j)
    BY <2>1, SameOrder
  <2> QED  BY <1>2, <2>2 DEF Dictionary!LastKey
<1> QED  BY <1>5, <1>6 DEF k

LEMMA ReadLeafAnswers ==
  ASSUME Invariant, AnswerInvariant, ReadLeaf
  PROVE  \/ Dictionary!Get(op.key) /\ op.key \in Keys
         \/ Dictionary!AtFirst("first_key_value")
         \/ Dictionary!AtLast("last_key_value")
<1>1. AtLeaf /\ op.pc = "search" /\ heap' = heap  BY DEF ReadLeaf, AtLeaf
<1>2. TreeInvariant /\ op.node \in Leaves(heap) /\ LeafKey = op.node.at
  BY <1>1, AtLeafFacts DEF Invariant
<1>3. PICK out \in {Some(heap[op.node].value), Some(<<LeafKey, heap[op.node].value>>)} :
        /\ op' = Done(op.call, op.key, op.value, out)
        /\ \/ /\ op.call = "get" /\ LeafKey = op.key
              /\ out = Some(heap[op.node].value)
           \/ /\ op.call \in {"first_key_value", "last_key_value"}
              /\ out = Some(<<LeafKey, heap[op.node].value>>)
  BY DEF ReadLeaf, Finish
<1>4. /\ AbstractRet = None /\ ~TearingDown /\ ~TearingDown'
      /\ AbstractRet' = Dictionary!Answer(op.call, op.key, op.value, out)
  BY <1>1, <1>3, Answers
<1>5. AbstractMap' = AbstractMap  BY <1>1, <1>4, UntouchedKeepsMap
<1>6. LeafKey \in DOMAIN AbstractMap /\ AbstractMap[LeafKey] = heap[op.node].value
  BY <1>2, <1>4, MapFacts DEF TableOfLeaves
<1>7. CASE op.call = "get"
  <2>1. op.value = None  BY <1>7 DEF AnswerInvariant, CallIsKept
  <2>2. op.key \in Keys
    BY <1>1, <1>7 DEF Invariant, CallInvariant, SearchIsOnPath, Walking, KeyCalls
  <2> QED  BY <1>3, <1>4, <1>5, <1>6, <1>7, <2>1, <2>2 DEF Dictionary!Get, Some, Dictionary!Some
<1>8. CASE op.call \in {"first_key_value", "last_key_value"}
  <2>1. op.call \in MinCalls \cup MaxCalls  BY <1>8 DEF MinCalls, MaxCalls
  <2>2. op.key = << >> /\ op.value = None  BY <2>1 DEF AnswerInvariant, CallIsKept
  <2>3. DOMAIN AbstractMap # {} /\ op.call \notin {"pop_first", "pop_last"}  BY <1>6, <1>8
  <2>4. Dictionary!End(op.call, LeafKey)
    BY <1>3, <1>4, <1>5, <1>6, <1>8, <2>2, <2>3 DEF Dictionary!End, Some, Dictionary!Some
  <2>5. CASE op.call = "first_key_value"
    <3>1. Dictionary!FirstKey(AbstractMap) = LeafKey
      BY <1>1, <1>2, <2>5, EndIsFirst DEF AnswerInvariant, Walking, MinCalls
    <3> QED  BY <2>4, <2>5, <3>1 DEF Dictionary!AtFirst
  <2>6. CASE op.call = "last_key_value"
    <3>1. Dictionary!LastKey(AbstractMap) = LeafKey
      BY <1>1, <1>2, <2>6, EndIsFirst DEF AnswerInvariant, Walking, MaxCalls
    <3> QED  BY <2>4, <2>6, <3>1 DEF Dictionary!AtLast
  <2> QED  BY <1>8, <2>5, <2>6
<1> QED  BY <1>3, <1>7, <1>8

(* A value written through a reference to a leaf's value.                  *)
LEMMA WrittenLeaf ==
  ASSUME Invariant, TreeInvariant', op.pc \notin {"done", "dealloc"},
         NEW leaf \in Leaves(heap), NEW v \in Values,
         heap' = [heap EXCEPT ![leaf].value = v],
         op' = Done("get_mut", leaf.at, v, Some(heap[leaf].value))
  PROVE  Dictionary!GetMut(leaf.at, v)
<1>1. TreeInvariant /\ leaf \in DOMAIN heap /\ heap[leaf] = Leaf(leaf.at, heap[leaf].value)
  BY LeafFacts DEF Invariant
<1>2. /\ AbstractRet = None /\ ~TearingDown /\ ~TearingDown'
      /\ AbstractRet' = Dictionary!Answer("get_mut", leaf.at, v, Some(heap[leaf].value))
  BY Answers
<1>3. heap' = [heap EXCEPT ![leaf] = Leaf(leaf.at, v)]
  <2>1. [heap[leaf] EXCEPT !.value = v] = Leaf(leaf.at, v)  BY <1>1 DEF Leaf
  <2>2. heap' = [heap EXCEPT ![leaf] = [heap[leaf] EXCEPT !.value = v]]  OBVIOUS
  <2> QED  BY <2>1, <2>2
<1>4. /\ Leaves(heap)' = Leaves(heap) /\ heap'[leaf].value = v
      /\ \A p \in Leaves(heap) \ {leaf} : heap'[p].value = heap[p].value
  BY <1>1, <1>3, OverwrittenLeaf
<1>5. leaf.at \in DOMAIN AbstractMap /\ AbstractMap[leaf.at] = heap[leaf].value
      /\ AbstractMap = [k \in DOMAIN AbstractMap |-> AbstractMap[k]]
  BY <1>1, <1>2, MapFacts DEF TableOfLeaves
<1>6. AbstractMap' = Dictionary!Put(AbstractMap, leaf.at, v)  BY <1>1, <1>2, <1>4, LeafPut
<1>7. Dictionary!Put(AbstractMap, leaf.at, v) = [AbstractMap EXCEPT ![leaf.at] = v]
  BY <1>5 DEF Dictionary!Put
<1> QED  BY <1>2, <1>5, <1>6, <1>7 DEF Dictionary!GetMut, Some, Dictionary!Some

LEMMA WriteLeafValueWrites ==
  ASSUME Invariant, WriteLeafValue
  PROVE  Dictionary!GetMut(op.key, op.value) /\ op.key \in Keys /\ op.value \in Values
<1>1. AtLeaf /\ op.pc = "search" /\ op.call = "get_mut" /\ LeafKey = op.key
  BY DEF WriteLeafValue, AtLeaf
<1>2. op.node \in Leaves(heap) /\ op.node.at = op.key  BY <1>1, AtLeafFacts
<1>3. op.key \in Keys /\ op.value \in Values
  BY <1>1 DEF Invariant, CallInvariant, SearchIsOnPath, Walking, KeyCalls
<1>4. TreeInvariant'  BY WriteLeafValueKeeps DEF Invariant
<1>5. /\ heap' = [heap EXCEPT ![op.node].value = op.value]
      /\ op' = Done("get_mut", op.node.at, op.value, Some(heap[op.node].value))
  BY <1>1, <1>2 DEF WriteLeafValue, Finish
<1> QED  BY <1>1, <1>2, <1>3, <1>4, <1>5, WrittenLeaf

-----------------------------------------------------------------------------
(* Removals, clear and the whole.                                         *)

(* A removal takes the leaf in hand out of the dictionary.                 *)
LEMMA DeletedLeaf ==
  ASSUME Invariant, AnswerInvariant, TreeInvariant', Applying("Delete"), Finish(DeletedEntry),
         Leaves(heap)' = Leaves(heap) \ {op.node},
         \A p \in Leaves(heap) \ {op.node} : heap'[p].value = heap[p].value
  PROVE  \/ Dictionary!RemoveEntry(op.key) /\ op.key \in Keys
         \/ Dictionary!AtFirst("pop_first")
         \/ Dictionary!AtLast("pop_last")
<1>1. op.pc = "apply" /\ op.point.kind = "Delete" /\ Walking  BY DEF Applying, Walking
<1>2. /\ op.node \in Leaves(heap) /\ TreeInvariant /\ LeafKey = op.node.at
      /\ op.node.at \in Keys
  BY <1>1, DeleteFacts, LeafFacts DEF Invariant, LeafKey
<1>3. /\ AbstractRet = None /\ ~TearingDown /\ ~TearingDown'
      /\ AbstractRet' = Dictionary!Answer(op.call, op.key, op.value, DeletedEntry)
  BY <1>1, Answers DEF Finish
<1>4. AbstractMap' = Dictionary!Without(AbstractMap, op.node.at)
  BY <1>2, <1>3, LeafTaken
<1>5. op.node.at \in DOMAIN AbstractMap
      /\ DeletedEntry = Dictionary!Some(<<op.node.at, AbstractMap[op.node.at]>>)
  BY <1>2, <1>3, MapFacts DEF TableOfLeaves, DeletedEntry, Some, Dictionary!Some
<1>6. op.call \in {"remove_entry", "pop_first", "pop_last"}
  BY <1>1 DEF AnswerInvariant, CallIsKept, Invariant, CallInvariant, PointFitsNode, TracksParents
<1>7. CASE op.call = "remove_entry"
  <2>1. op.value = None /\ op.key = op.node.at
    BY <1>2, <1>7 DEF AnswerInvariant, CallIsKept
  <2> QED  BY <1>2, <1>3, <1>4, <1>5, <1>7, <2>1 DEF Dictionary!RemoveEntry
<1>8. CASE op.call \in {"pop_first", "pop_last"}
  <2>1. op.key = << >> /\ op.value = None
    BY <1>8 DEF AnswerInvariant, CallIsKept, MinCalls, MaxCalls
  <2>2. Dictionary!End(op.call, op.node.at)
    BY <1>3, <1>4, <1>5, <1>8, <2>1 DEF Dictionary!End
  <2>3. CASE op.call = "pop_first"
    <3>1. Dictionary!FirstKey(AbstractMap) = op.node.at
      BY <1>1, <1>2, <2>3, EndIsFirst DEF AnswerInvariant, MinCalls
    <3> QED  BY <2>2, <2>3, <3>1 DEF Dictionary!AtFirst
  <2>4. CASE op.call = "pop_last"
    <3>1. Dictionary!LastKey(AbstractMap) = op.node.at
      BY <1>1, <1>2, <2>4, EndIsFirst DEF AnswerInvariant, MaxCalls
    <3> QED  BY <2>2, <2>4, <3>1 DEF Dictionary!AtLast
  <2> QED  BY <1>8, <2>3, <2>4
<1> QED  BY <1>6, <1>7, <1>8

LEMMA ApplyDeleteDeletes ==
  ASSUME Invariant, ApplyDelete
  PROVE  /\ Applying("Delete") /\ Finish(DeletedEntry)
         /\ Leaves(heap)' = Leaves(heap) \ {op.node}
         /\ \A p \in Leaves(heap) \ {op.node} : heap'[p].value = heap[p].value
<1>1. op.pc = "apply" /\ op.point.kind = "Delete" /\ Applying("Delete")
  BY DEF ApplyDelete, DeleteRoot, DeleteAndMerge, DeleteAndShrink, DeleteInPlace, Applying
<1>2. PICK leaf \in {op.node}, edge \in {op.grandparent}, par \in {op.parent.node} : TRUE
  OBVIOUS
<1>3. Finish(DeletedEntry)
  BY DEF ApplyDelete, DeleteRoot, DeleteAndMerge, DeleteAndShrink, DeleteInPlace,
         ReplaceParent, Deleted
(* The heap that the leaf is freed in has the leaves of the tree.          *)
<1>4. ASSUME NEW h, NEW new_root, Deleted(h, new_root), Leaves(h) = Leaves(heap),
             \A p \in Leaves(heap) : h[p] = heap[p]
      PROVE  /\ Leaves(heap)' = Leaves(heap) \ {leaf}
             /\ \A p \in Leaves(heap) \ {leaf} : heap'[p] = heap[p]
  <2>1. heap' = Without(h, leaf)  BY <1>2, <1>4 DEF Deleted, Deallocate
  <2>2. DOMAIN heap' = DOMAIN h \ {leaf} /\ \A p \in DOMAIN heap' : heap'[p] = h[p]
    BY <2>1 DEF Without
  <2> QED  BY <1>4, <2>2 DEF Leaves
<1>5. ASSUME op.parent # None, NEW h, NEW new, ReplaceParent(h, new),
             Leaves(h) = Leaves(heap), \A p \in Leaves(heap) : h[p] = heap[p],
             \A p \in Inners(heap) : p \in DOMAIN h
      PROVE  /\ Leaves(heap)' = Leaves(heap) \ {leaf}
             /\ \A p \in Leaves(heap) \ {leaf} : heap'[p] = heap[p]
  <2>1. /\ ~IsLeaf(par)
        /\ edge # None => edge.node \in Inners(heap) /\ edge.node # par /\ edge.node # leaf
    BY <1>1, <1>2, <1>5, ParentFacts
  <2>2. edge # None => edge.node \in DOMAIN h \ {par, leaf}  BY <1>5, <2>1
  <2>3. /\ DOMAIN heap' = DOMAIN h \ {par, leaf}
        /\ \A n \in DOMAIN h \ {par, leaf} :
             heap'[n] = IF edge # None /\ n = edge.node
                        THEN WriteChild(h[n], edge.byte, new) ELSE h[n]
    BY <1>1, <1>2, <1>5, <2>2, ReplaceParentFacts
  <2>4. edge # None => ~IsLeaf(edge.node)  BY <2>1 DEF Inners, IsLeaf, IsInner, InnerType
  <2>5. Leaves(heap)' = Leaves(heap) \ {leaf}  BY <1>5, <2>1, <2>3 DEF Leaves
  <2>6. ASSUME NEW p \in Leaves(heap) \ {leaf}  PROVE heap'[p] = heap[p]
    <3>1. p \in DOMAIN h \ {par, leaf} /\ IsLeaf(p)  BY <1>5, <2>1 DEF Leaves
    <3> QED  BY <1>5, <2>3, <2>4, <3>1
  <2> QED  BY <2>5, <2>6
<1>6. ASSUME NEW n, ~IsLeaf(n), NEW node, NEW h, h = With(heap, n, node)
      PROVE  /\ Leaves(h) = Leaves(heap) /\ \A p \in Leaves(heap) : h[p] = heap[p]
             /\ \A p \in Inners(heap) : p \in DOMAIN h
  BY <1>6 DEF With, Leaves, Inners
<1>7. CASE DeleteRoot  BY <1>2, <1>3, <1>1, <1>4, <1>7 DEF DeleteRoot
<1>8. CASE DeleteInPlace
  <2>1. PICK node : Deleted([heap EXCEPT ![par] = node], root)
    BY <1>2, <1>8 DEF DeleteInPlace
  <2>2. ~IsLeaf(par)  BY <1>1, <1>2, <1>8, ParentFacts DEF DeleteInPlace
  <2>3. PICK h : h = [heap EXCEPT ![par] = node]  OBVIOUS
  <2>4. Leaves(h) = Leaves(heap) /\ \A p \in Leaves(heap) : h[p] = heap[p]
    BY <2>2, <2>3 DEF Leaves
  <2> QED  BY <1>1, <1>2, <1>3, <1>4, <2>1, <2>3, <2>4
<1>9. CASE DeleteAndShrink
  <2>1. op.parent # None /\ ShouldShrink(ParentType, NumChildren(Bereft))
    BY <1>9 DEF DeleteAndShrink
  <2>2. PICK shrunk : /\ shrunk = Pointer(NextSmaller[ParentType], par.at)
                      /\ ReplaceParent(With(heap, shrunk, Bereft), shrunk)
    BY <1>2, <1>9 DEF DeleteAndShrink, Allocate
  <2>3. ~IsLeaf(shrunk)
    <3>1. ParentType \in InnerType /\ ParentType # "Node4"
      BY <1>1, <1>2, <2>1, ParentFacts DEF ParentType, ShouldShrink
    <3>2. NextSmaller[ParentType] # "Leaf"  BY <3>1 DEF InnerType, NextSmaller
    <3> QED  BY <2>2, <3>2 DEF Pointer, IsLeaf
  <2>4. PICK h : h = With(heap, shrunk, Bereft)  OBVIOUS
  <2>5. /\ Leaves(h) = Leaves(heap) /\ \A p \in Leaves(heap) : h[p] = heap[p]
        /\ \A p \in Inners(heap) : p \in DOMAIN h
    BY <1>6, <2>3, <2>4
  <2> QED  BY <1>1, <1>2, <1>3, <1>5, <2>1, <2>2, <2>4, <2>5
<1>10. CASE DeleteAndMerge
  <2>1. PICK child, h :
          /\ op.parent # None
          /\ h = IF IsLeaf(child) THEN heap
                 ELSE [heap EXCEPT ![child].header =
                                     MergedHeader(Bereft.header, MinByte(Bereft), @)]
          /\ ReplaceParent(h, child)
    BY <1>10 DEF DeleteAndMerge
  <2>2. /\ Leaves(h) = Leaves(heap) /\ \A p \in Leaves(heap) : h[p] = heap[p]
        /\ \A p \in Inners(heap) : p \in DOMAIN h
    BY <2>1 DEF Leaves, Inners
  <2> QED  BY <1>1, <1>2, <1>3, <1>5, <2>1, <2>2
<1> QED  BY <1>7, <1>8, <1>9, <1>10 DEF ApplyDelete

(* clear takes effect when it starts; the teardown that follows is silent. *)
LEMMA ClearStartClears ==
  ASSUME ClearStart
  PROVE  Dictionary!Clear
<1>1. op.pc = "idle" /\ op'.pc = "dealloc" /\ op'.call = "clear" /\ op'.key = << >>
      /\ op'.value = None /\ op'.out = None
  BY DEF ClearStart, IdleOp
<1> QED
  BY <1>1 DEF Dictionary!Clear, AbstractRet, AbstractMap, TearingDown, Dictionary!Answer,
              Dictionary!EmptyMap

(* A map without a root is the empty dictionary.                           *)
LEMMA EmptyTree ==
  ASSUME TreeInvariant, ~TearingDown, root = None
  PROVE  AbstractMap = Dictionary!EmptyMap
<1>1. StoredKeys = {}
  BY DEF StoredKeys, Leaves, TreeInvariant, RootIsAboveAll
<1> QED  BY <1>1 DEF AbstractMap, Dictionary!EmptyMap

LEMMA EmptyAnswers ==
  ASSUME Invariant, NEW k \in Keys, NEW v \in Values, CallOnEmpty(k, v)
  PROVE  \/ Dictionary!GetMut(k, v) \/ Dictionary!RemoveEntry(k) \/ Dictionary!Get(k)
         \/ Dictionary!AtFirst("pop_first") \/ Dictionary!AtFirst("first_key_value")
         \/ Dictionary!AtLast("pop_last") \/ Dictionary!AtLast("last_key_value")
<1>1. op.pc = "idle" /\ root = None /\ heap' = heap  BY DEF CallOnEmpty
<1>2. ASSUME NEW call, NEW key, NEW value, op' = Done(call, key, value, None)
      PROVE  /\ AbstractRet = None /\ AbstractRet' = Dictionary!Answer(call, key, value, None)
             /\ AbstractMap' = AbstractMap /\ DOMAIN AbstractMap = {}
             /\ Dictionary!Without(AbstractMap, key) = AbstractMap
  <2>1. /\ AbstractRet = None /\ ~TearingDown /\ ~TearingDown'
        /\ AbstractRet' = Dictionary!Answer(call, key, value, None)
    BY <1>1, <1>2, Answers
  <2>2. AbstractMap = Dictionary!EmptyMap  BY <1>1, <2>1, EmptyTree DEF Invariant
  <2>3. AbstractMap' = AbstractMap  BY <1>1, <2>1, UntouchedKeepsMap
  <2> QED  BY <2>1, <2>2, <2>3 DEF Dictionary!EmptyMap, Dictionary!Without
<1>3. CASE op' = Done("get_mut", k, v, None)
  BY <1>2, <1>3 DEF Dictionary!GetMut
<1>4. ASSUME NEW call \in {"remove_entry", "get"}, op' = Done(call, k, None, None)
      PROVE  Dictionary!RemoveEntry(k) \/ Dictionary!Get(k)
  BY <1>2, <1>4 DEF Dictionary!RemoveEntry, Dictionary!Get
<1>5. ASSUME NEW call \in MinCalls \cup MaxCalls, op' = Done(call, << >>, None, None)
      PROVE  \/ Dictionary!AtFirst("pop_first") \/ Dictionary!AtFirst("first_key_value")
             \/ Dictionary!AtLast("pop_last") \/ Dictionary!AtLast("last_key_value")
  <2>1. \A key : Dictionary!End(call, key)  BY <1>2, <1>5 DEF Dictionary!End
  <2> QED  BY <2>1 DEF MinCalls, MaxCalls, Dictionary!AtFirst, Dictionary!AtLast
<1> QED  BY <1>3, <1>4, <1>5 DEF CallOnEmpty

LEMMA ClearEmptyClears ==
  ASSUME Invariant, ClearEmpty
  PROVE  Dictionary!Clear
<1>1. op.pc = "idle" /\ root = None /\ heap' = heap /\ op' = Done("clear", << >>, None, None)
  BY DEF ClearEmpty
<1>2. /\ AbstractRet = None /\ ~TearingDown /\ ~TearingDown'
      /\ AbstractRet' = Dictionary!Answer("clear", << >>, None, None)
  BY <1>1, Answers
<1>3. AbstractMap = Dictionary!EmptyMap  BY <1>1, <1>2, EmptyTree DEF Invariant
<1>4. AbstractMap' = AbstractMap  BY <1>1, <1>2, UntouchedKeepsMap
<1> QED  BY <1>2, <1>3, <1>4 DEF Dictionary!Clear

LEMMA ClearPopIsSilent ==
  ASSUME Invariant, ClearPop
  PROVE  UNCHANGED <<AbstractMap, AbstractRet>>
<1>1. /\ op.pc = "dealloc" /\ op'.pc = "dealloc" /\ op'.call = op.call
      /\ op'.key = op.key /\ op'.value = op.value /\ op'.out = op.out
  BY OpIsRecord DEF ClearPop, Invariant, OpType
<1> QED  BY <1>1 DEF AbstractMap, AbstractRet, TearingDown

LEMMA ClearEndIsSilent ==
  ASSUME Invariant, AnswerInvariant, ClearEnd
  PROVE  UNCHANGED <<AbstractMap, AbstractRet>>
<1>1. /\ TearingDown /\ op.stack = {} /\ heap' = heap /\ op.pc = "dealloc"
      /\ op' = Done(op.call, op.key, op.value, None) /\ op.out = None
  BY DEF ClearEnd, Finish, TearingDown, AnswerInvariant, CallIsKept
<1>2. op'.pc = "done" /\ ~TearingDown' /\ op'.call = op.call /\ op'.key = op.key
      /\ op'.value = op.value /\ op'.out = None
  BY <1>1 DEF Done, IdleOp, TearingDown
<1>3. DOMAIN heap = {}  BY <1>1 DEF Invariant, CallInvariant, TeardownIsExact
<1>4. StoredKeys' = {}  BY <1>1, <1>3 DEF StoredKeys, Leaves
<1>5. AbstractMap' = AbstractMap  BY <1>1, <1>2, <1>4 DEF AbstractMap
<1> QED  BY <1>1, <1>2, <1>5 DEF AbstractRet

LEMMA ReturnReturns ==
  ASSUME Invariant, Return
  PROVE  Dictionary!Return
<1>1. op.pc = "done" /\ op' = IdleOp /\ heap' = heap  BY DEF Return
<1>2. ~TearingDown /\ ~TearingDown' /\ AbstractRet' = None
  BY <1>1 DEF TearingDown, IdleOp, AbstractRet
<1>3. AbstractMap' = AbstractMap  BY <1>1, <1>2, UntouchedKeepsMap
<1>4. AbstractRet # None
  <2>1. op \in OpType  BY OpIsRecord DEF Invariant
  <2>2. AbstractRet \in [call : Calls \cup {None}, key : Keys \cup {<< >>},
                         value : Values \cup {None}, out : OutType]
    BY <1>1, <2>1 DEF OpType, AbstractRet
  <2> QED  BY <2>2, AnswerAssumption
<1> QED  BY <1>2, <1>3, <1>4 DEF Dictionary!Return

(* Every step of the tree is a step of the dictionary, or none at all.     *)
LEMMA CallIsAnswered ==
  ASSUME Invariant, Call
  PROVE  [Dictionary!Next]_<<AbstractMap, AbstractRet>>
<1>1. ASSUME NEW k \in Keys, NEW v \in Values, CallByKey(k, v)
      PROVE  UNCHANGED <<AbstractMap, AbstractRet>>
  <2>1. op.pc = "idle" /\ op'.pc = "search" /\ heap' = heap
    BY <1>1 DEF CallByKey, Start, IdleOp
  <2> QED  BY <2>1, SilentStep
<1>2. ASSUME NEW k \in Keys, NEW v \in Values, InitTree(k, v)  PROVE Dictionary!Next
  BY <1>2, InitTreeInserts DEF Dictionary!Next
<1>3. ASSUME NEW k \in Keys, NEW v \in Values, CallOnEmpty(k, v)  PROVE Dictionary!Next
  BY <1>3, EmptyAnswers DEF Dictionary!Next
<1>4. ASSUME NEW call \in MinCalls \cup MaxCalls, CallAtEnd(call)
      PROVE  UNCHANGED <<AbstractMap, AbstractRet>>
  <2>1. op.pc = "idle" /\ op'.pc = "search" /\ heap' = heap
    BY <1>4 DEF CallAtEnd, Start, IdleOp
  <2> QED  BY <2>1, SilentStep
<1>5. CASE ClearEmpty  BY <1>5, ClearEmptyClears DEF Dictionary!Next
<1>6. CASE ClearStart  BY <1>6, ClearStartClears DEF Dictionary!Next
<1> QED  BY <1>1, <1>2, <1>3, <1>4, <1>5, <1>6 DEF Call

LEMMA SearchIsAnswered ==
  ASSUME Invariant, AnswerInvariant, Search
  PROVE  [Dictionary!Next]_<<AbstractMap, AbstractRet>>
<1>0. op.pc = "search" /\ op \in OpType
  BY OpIsRecord
  DEF Search, StepToMinimum, DescendByKey, DescendToEnd, InsertKeyTooShort, FindMismatch,
      FindVacancy, FindExact, FindLeafToSplit, LookupMiss, FindLeafToDelete, ReadLeaf,
      WriteLeafValue, AtInner, AtLeaf, Invariant
<1>1. op.call \in KeyCalls =>
        /\ op.key \in Keys
        /\ op.call \in {"try_insert", "get_mut"} => op.value \in Values
  BY <1>0 DEF Invariant, CallInvariant, SearchIsOnPath, Walking
<1>2. ASSUME NEW point, NEW depth, StopAt(point, depth), heap' = heap
      PROVE  UNCHANGED <<AbstractMap, AbstractRet>>
  <2>1. op'.pc = "apply"  BY <1>0, <1>2 DEF StopAt, OpType
  <2> QED  BY <1>0, <1>2, <2>1, SilentStep
<1>3. CASE StepToMinimum \/ DescendByKey \/ DescendToEnd
  <2>1. op'.pc = "search" /\ heap' = heap
    BY <1>0, <1>3 DEF StepToMinimum, DescendByKey, DescendToEnd, MoveTo, OpType
  <2> QED  BY <1>0, <2>1, SilentStep
<1>4. CASE InsertKeyTooShort
  <2>1. op.call = "try_insert"  BY <1>4 DEF InsertKeyTooShort
  <2> QED
    BY <1>1, <1>4, <2>1, KeyTooShortConflicts DEF Dictionary!Next, KeyCalls
<1>5. CASE FindMismatch  BY <1>2, <1>5 DEF FindMismatch
<1>6. CASE FindVacancy  BY <1>2, <1>6 DEF FindVacancy
<1>7. CASE FindExact  BY <1>2, <1>7 DEF FindExact
<1>8. CASE FindLeafToSplit
  <2>1. op.call = "try_insert" /\ heap' = heap  BY <1>8 DEF FindLeafToSplit
  <2>2. CASE Finish(InsertPrefixError)
    BY <1>1, <1>8, <2>1, <2>2, SharedAllConflicts DEF Dictionary!Next, KeyCalls
  <2>3. CASE ~Finish(InsertPrefixError)  BY <1>2, <1>8, <2>1, <2>3 DEF FindLeafToSplit
  <2> QED  BY <2>2, <2>3
<1>9. CASE LookupMiss
  <2>1. op.call \in KeyCalls  BY <1>9 DEF LookupMiss, KeyCalls
  <2> QED  BY <1>1, <1>9, <2>1, MissAnswers DEF Dictionary!Next, AnswerInvariant
<1>10. CASE FindLeafToDelete  BY <1>2, <1>10 DEF FindLeafToDelete
<1>11. CASE ReadLeaf  BY <1>11, ReadLeafAnswers DEF Dictionary!Next
<1>12. CASE WriteLeafValue  BY <1>12, WriteLeafValueWrites DEF Dictionary!Next
<1> QED
  BY <1>3, <1>4, <1>5, <1>6, <1>7, <1>8, <1>9, <1>10, <1>11, <1>12 DEF Search

LEMMA RunIsAnswered ==
  ASSUME Invariant, AnswerInvariant, Run
  PROVE  [Dictionary!Next]_<<AbstractMap, AbstractRet>>
<1>1. CASE Search  BY <1>1, SearchIsAnswered
<1>2. CASE ApplyInsert
  <2>1. op.pc = "apply" /\ op.point.kind # "Delete"
    BY <1>2 DEF ApplyInsert, InsertAtMismatch, InsertAtLeaf, InsertIntoNode,
                InsertIntoGrownNode, InsertReplace, Applying
  <2>2. op.key \in Keys /\ op.value \in Values  BY <2>1, InsertFacts
  <2> QED  BY <1>2, <2>2, ApplyInsertInserts DEF Dictionary!Next
<1>3. CASE ApplyDelete
  <2>1. Invariant'  BY <1>3, RunKeeps DEF Run
  <2> QED  BY <1>3, <2>1, ApplyDeleteDeletes, DeletedLeaf DEF Dictionary!Next, Invariant
<1>4. CASE ClearPop  BY <1>4, ClearPopIsSilent
<1>5. CASE ClearEnd  BY <1>5, ClearEndIsSilent
<1> QED  BY <1>1, <1>2, <1>3, <1>4, <1>5 DEF Run, Dealloc

LEMMA DictionaryInit == Init => Dictionary!Init
<1> SUFFICES ASSUME Init PROVE Dictionary!Init  OBVIOUS
<1>1. op.pc = "idle" /\ Leaves(heap) = {}  BY DEF Init, IdleOp, Leaves
<1>2. StoredKeys = {}  BY <1>1 DEF StoredKeys
<1> QED
  BY <1>1, <1>2 DEF Dictionary!Init, AbstractMap, AbstractRet, TearingDown, Dictionary!EmptyMap

(* Whatever a tree of compressed paths and changing node types does, its   *)
(* callers see an ordered dictionary: every call of map.rs changes the     *)
(* entries and answers as MapSpec says, and changes nothing before.        *)
THEOREM DictionaryImplemented == Spec => ImplementsDictionary
<1>1. Init => Dictionary!Init  BY DictionaryInit
<1>2. Invariant /\ AnswerInvariant /\ [Next]_vars =>
        [Dictionary!Next]_<<AbstractMap, AbstractRet>>
  <2> SUFFICES ASSUME Invariant, AnswerInvariant, [Next]_vars
               PROVE  [Dictionary!Next]_<<AbstractMap, AbstractRet>>
    OBVIOUS
  <2>1. CASE Call  BY <2>1, CallIsAnswered
  <2>2. CASE Run  BY <2>2, RunIsAnswered
  <2>3. CASE Return  BY <2>3, ReturnReturns DEF Dictionary!Next
  <2>4. CASE UNCHANGED vars
    BY <2>4 DEF vars, AbstractMap, AbstractRet, TearingDown, StoredKeys, Leaves
  <2> QED  BY <2>1, <2>2, <2>3, <2>4 DEF Next
<1>3. [Dictionary!Next]_<<AbstractMap, AbstractRet>> <=> [Dictionary!Next]_(Dictionary!mapVars)
  BY DEF Dictionary!mapVars
<1> QED
  BY <1>1, <1>2, <1>3, InvariantHolds, AnswersKept, PTL
  DEF Spec, ImplementsDictionary, Dictionary!Spec
-----------------------------------------------------------------------------
(* What every walk over the tree reads: the children of a node in order,   *)
(* and a leaf below a node with the node's whole path.                     *)

LEMMA BytesInOrderFacts ==
  ASSUME TreeInvariant, NEW n \in Inners(heap)
  PROVE  /\ Cardinality(ChildBytes(n)) \in Nat /\ Cardinality(ChildBytes(n)) > 0
         /\ BytesInOrder(n) \in [1 .. Cardinality(ChildBytes(n)) -> ChildBytes(n)]
         /\ DOMAIN BytesInOrder(n) = 1 .. Cardinality(ChildBytes(n))
         /\ \A i, j \in 1 .. Cardinality(ChildBytes(n)) :
              i < j => BytesInOrder(n)[i] < BytesInOrder(n)[j]
         /\ \A b \in ChildBytes(n) :
              \E i \in 1 .. Cardinality(ChildBytes(n)) : BytesInOrder(n)[i] = b
<1>1. PICK S \in SUBSET Nat : S = ChildBytes(n) /\ IsFiniteSet(S) /\ MinByte(heap[n]) \in S
  BY InnerFacts
<1>2. /\ Cardinality(S) \in Nat
      /\ Ascending(S) \in [1 .. Cardinality(S) -> S]
      /\ \A i, j \in 1 .. Cardinality(S) : i < j => Ascending(S)[i] < Ascending(S)[j]
      /\ \A b \in S : \E i \in 1 .. Cardinality(S) : Ascending(S)[i] = b
  BY <1>1, AscendingFacts
<1>3. Cardinality(S) > 0  BY <1>1, <1>2
<1>4. BytesInOrder(n) = Ascending(S)  BY <1>1 DEF BytesInOrder
<1>5. DOMAIN Ascending(S) = 1 .. Cardinality(S)  BY <1>2
<1> HIDE DEF BytesInOrder
<1> QED  BY <1>1, <1>2, <1>3, <1>4, <1>5

(* The leaf l that a walk to the first child ends at, from p downwards.    *)
FirstBelow(p) ==
  {l \in Leaves(heap) :
     /\ IsPrefix(p.at, l.at)
     /\ \A m \in Inners(heap) :
          (IsPrefix(p.at, m.at) /\ Below(l, m)) => ByteTowards(l, m) = MinByte(heap[m])}
FirstChild(p) == Child(p, MinByte(heap[p]))

LEMMA FirstBelowLeaf ==
  ASSUME TreeInvariant, NEW p \in Leaves(heap)
  PROVE  FirstBelow(p) = {p}
<1>1. p \in DOMAIN heap /\ IsLeaf(p)  BY LeafFacts
<1>2. \A l \in Leaves(heap) : IsPrefix(p.at, l.at) => l = p
  BY LeafFacts DEF TreeInvariant, LeavesAreLowest
<1>3. \A m \in Inners(heap) : ~IsPrefix(p.at, m.at)
  <2>1. SUFFICES ASSUME NEW m \in Inners(heap), IsPrefix(p.at, m.at) PROVE FALSE
    OBVIOUS
  <2>2. m \in DOMAIN heap /\ IsInner(m)  BY InnerFacts
  <2>3. m = p  BY <2>1, <2>2 DEF TreeInvariant, LeavesAreLowest
  <2> QED  BY <1>1, <2>2, <2>3, NodeFacts
<1>4. IsPrefix(p.at, p.at)  BY <1>1, NodeFacts, PrefixReflexive
<1> QED  BY <1>2, <1>3, <1>4 DEF FirstBelow

LEMMA FirstBelowInner ==
  ASSUME TreeInvariant, NEW p \in Inners(heap)
  PROVE  /\ FirstChild(p) \in DOMAIN heap /\ Below(FirstChild(p), p)
         /\ FirstBelow(p) = FirstBelow(FirstChild(p))
<1> DEFINE c == FirstChild(p)
           b == MinByte(heap[p])
<1>1. b \in ChildBytes(p) /\ p \in DOMAIN heap /\ IsInner(p)  BY InnerFacts
<1>2. Shape  BY InvariantShape
<1>3. c \in DOMAIN heap /\ Below(c, p) /\ ByteTowards(c, p) = b
  BY <1>1, <1>2, ChildFacts DEF FirstChild
<1>4. p \in PointerType /\ c \in PointerType /\ c.at \in ByteString /\ p.at \in ByteString
  BY <1>1, <1>3, NodeFacts
<1>5. c = Child(p, b)  BY DEF FirstChild
<1> HIDE DEF c, b
<1>6. ASSUME NEW l \in FirstBelow(p) PROVE l \in FirstBelow(c)
  <2>1. l \in Leaves(heap) /\ IsPrefix(p.at, l.at)
        /\ \A m \in Inners(heap) :
             (IsPrefix(p.at, m.at) /\ Below(l, m)) => ByteTowards(l, m) = MinByte(heap[m])
    BY <1>6 DEF FirstBelow
  <2>2. l \in DOMAIN heap /\ IsLeaf(l) /\ l \in PointerType /\ l.at \in ByteString
    BY <2>1, LeafFacts, NodeFacts
  <2>3. Below(l, p)
    <3>1. ~(Len(l.at) <= Len(p.at))
      <4>1. SUFFICES ASSUME Len(l.at) <= Len(p.at) PROVE FALSE  OBVIOUS
      <4>2. p.at = l.at  BY <2>1, <2>2, <1>4, <4>1, PrefixSameLength
      <4>3. p = l  BY <4>2, <1>1, <2>2 DEF TreeInvariant, AddressesAreFresh
      <4> QED  BY <4>3, <1>1, <2>2, NodeFacts
    <3> QED  BY <3>1, <2>1, <2>2, <1>4, PointerFacts DEF Below
  <2>4. ByteTowards(l, p) = b  BY <2>1, <2>3, <1>4, PrefixReflexive DEF b
  <2>5. IsPrefix(c.at, l.at)
    BY <2>2, <2>3, <2>4, <1>5 DEF TreeInvariant, RoutesToEveryNode
  <2>6. \A m \in Inners(heap) : IsPrefix(c.at, m.at) => IsPrefix(p.at, m.at)
    BY <1>3, <1>4, InnerFacts, NodeFacts, PrefixTransitive DEF Below
  <2> QED  BY <2>1, <2>5, <2>6 DEF FirstBelow
<1>7. ASSUME NEW l \in FirstBelow(c) PROVE l \in FirstBelow(p)
  <2>1. l \in Leaves(heap) /\ IsPrefix(c.at, l.at)
        /\ \A m \in Inners(heap) :
             (IsPrefix(c.at, m.at) /\ Below(l, m)) => ByteTowards(l, m) = MinByte(heap[m])
    BY <1>7 DEF FirstBelow
  <2>2. l \in DOMAIN heap /\ IsLeaf(l) /\ l \in PointerType /\ l.at \in ByteString
    BY <2>1, LeafFacts, NodeFacts
  <2>3. Below(l, p) /\ ByteTowards(l, p) = b  BY <1>3, <1>4, <2>1, <2>2, SameDirection
  <2>4. ASSUME NEW m \in Inners(heap), IsPrefix(p.at, m.at), Below(l, m)
        PROVE  ByteTowards(l, m) = MinByte(heap[m])
    <3>1. m \in DOMAIN heap /\ m \in PointerType /\ m.at \in ByteString
      BY InnerFacts, NodeFacts
    <3>2. CASE m = p  BY <3>2, <2>3 DEF b
    <3>3. CASE m # p
      <4>1. Below(m, p)
        <5>1. ~(Len(m.at) <= Len(p.at))
          BY <3>1, <3>3, <1>1, <1>4, <2>4, PrefixSameLength DEF TreeInvariant, AddressesAreFresh
        <5> QED  BY <5>1, <2>4, <3>1, <1>4, PointerFacts DEF Below
      <4>2. IsPrefix(m.at, l.at)  BY <2>4 DEF Below
      <4>3. ByteTowards(m, p) = b  BY <4>1, <4>2, <3>1, <2>2, <2>3, <1>4, SameDirection
      <4>4. IsPrefix(c.at, m.at)
        BY <4>1, <4>3, <3>1, <1>5 DEF TreeInvariant, RoutesToEveryNode
      <4> QED  BY <4>4, <2>1, <2>4
    <3> QED  BY <3>2, <3>3
  <2> QED  BY <2>1, <2>3, <2>4 DEF FirstBelow, Below
<1> QED  BY <1>3, <1>6, <1>7 DEF c

(* minimum_unchecked ends at a leaf below the node it starts from. *)
LEMMA MinimumLeafIsBelow ==
  ASSUME TreeInvariant, NEW n \in DOMAIN heap
  PROVE  MinimumLeaf(n) \in Leaves(heap) /\ IsPrefix(n.at, MinimumLeaf(n).at)
<1> DEFINE Unfolds(g) == g = [p \in DOMAIN heap |-> IF IsLeaf(p) THEN p ELSE g[Child(p, MinByte(heap[p]))]]
           Some1(S) == CHOOSE l : l \in S
           f == [p \in DOMAIN heap |-> Some1(FirstBelow(p))]
           min == CHOOSE g : Unfolds(g)
<1>1. MinimumLeaf(n) = min[n]  BY DEF MinimumLeaf
<1>2. \A p \in DOMAIN heap : f[p] = IF IsLeaf(p) THEN p ELSE f[Child(p, MinByte(heap[p]))]
  <2>1. TAKE p \in DOMAIN heap
  <2>2. CASE IsLeaf(p)
    <3>1. FirstBelow(p) = {p}  BY <2>2, NodeFacts, FirstBelowLeaf
    <3>2. Some1({p}) = p  OBVIOUS
    <3> HIDE DEF Some1
    <3> QED  BY <2>2, <3>1, <3>2
  <2>3. CASE ~IsLeaf(p)
    <3>1. FirstChild(p) \in DOMAIN heap /\ FirstBelow(p) = FirstBelow(FirstChild(p))
      BY <2>3, NodeFacts, FirstBelowInner
    <3> HIDE DEF Some1
    <3>2. f[p] = Some1(FirstBelow(p)) /\ f[FirstChild(p)] = Some1(FirstBelow(FirstChild(p)))
      BY <3>1
    <3> HIDE DEF f
    <3> QED  BY <2>3, <3>1, <3>2 DEF FirstChild
  <2> QED  BY <2>2, <2>3
<1>3. \E g : Unfolds(g)
  <2>1. f = [p \in DOMAIN heap |-> f[p]]  OBVIOUS
  <2> HIDE DEF f
  <2>2. Unfolds(f)  BY <1>2, <2>1
  <2> HIDE DEF Unfolds
  <2> QED  BY <2>2
<1>4. Unfolds(min)
  <2> HIDE DEF Unfolds
  <2> QED  BY <1>3
<1> HIDE DEF min
<1>5. \A p \in DOMAIN heap : min[p] = IF IsLeaf(p) THEN p ELSE min[Child(p, MinByte(heap[p]))]
  BY <1>4
<1> DEFINE Good(p) == min[p] \in Leaves(heap) /\ IsPrefix(p.at, min[p].at)
           Bad == {p \in DOMAIN heap : ~Good(p)}
           L == {Len(p.at) : p \in Bad}
<1>6. Bad = {}
  <2>1. SUFFICES ASSUME Bad # {} PROVE FALSE  OBVIOUS
  <2>2. Bad \subseteq DOMAIN heap  OBVIOUS
  <2>3. IsFiniteSet(Bad)  BY <2>2, FS_Subset DEF TreeInvariant, HeapIsFinite
  <2> HIDE DEF Bad
  <2>4. IsFiniteSet(L)  BY <2>3, LengthsAreFinite
  <2>5. L \in SUBSET Nat /\ L # {}  BY <2>1, <2>2, NodeFacts
  <2>6. PICK k \in L : \A l \in L : l <= k  BY <2>4, <2>5, FiniteIsBounded, GreatestExists
  <2>7. PICK p \in Bad : \A q \in Bad : Len(q.at) <= Len(p.at)  BY <2>6
  <2>8. p \in DOMAIN heap /\ ~Good(p)  BY <2>7 DEF Bad
  <2>9. CASE IsLeaf(p)
    <3>1. min[p] = p /\ p \in Leaves(heap)  BY <1>5, <2>8, <2>9, NodeFacts
    <3> QED  BY <2>8, <3>1, NodeFacts, PrefixReflexive
  <2>10. CASE ~IsLeaf(p)
    <3> DEFINE c == FirstChild(p)
    <3>1. c \in DOMAIN heap /\ Below(c, p)  BY <2>8, <2>10, NodeFacts, FirstBelowInner
    <3>2. min[p] = min[c]  BY <1>5, <2>8, <2>10 DEF FirstChild
    <3> HIDE DEF c
    <3>3. ~(Len(c.at) <= Len(p.at))  BY <3>1, <2>8, NodeFacts DEF Below
    <3>4. Good(c)  BY <3>1, <3>3, <2>7 DEF Bad
    <3>5. c.at \in ByteString /\ p.at \in ByteString /\ min[c].at \in ByteString
      BY <3>1, <2>8, <3>4, NodeFacts, LeafFacts
    <3>6. Good(p)  BY <3>2, <3>4, <3>5, <3>1, PrefixTransitive DEF Below
    <3> QED  BY <3>6, <2>8
  <2> QED  BY <2>9, <2>10
<1>7. Good(n)  BY <1>6
<1> QED  BY <1>1, <1>7

(* read_full_prefix answers with the path to the node from the depth its   *)
(* header starts at, whether it is read from the header or from a leaf.    *)
LEMMA ReadFullPrefixIsPath ==
  ASSUME TreeInvariant, NEW n \in Inners(heap), NEW depth \in Nat, depth <= Len(n.at),
         Represents(heap[n].header, DropFirst(n.at, depth))
  PROVE  ReadFullPrefix(n, depth) = DropFirst(n.at, depth)
<1>1. n \in DOMAIN heap /\ heap[n].header \in HeaderType  BY InnerFacts
<1>2. PICK at \in ByteString : at = n.at  BY <1>1, NodeFacts
<1>3. PICK h \in HeaderType : h = heap[n].header  BY <1>1
<1> DEFINE path == DropFirst(at, depth)
<1>4. path \in ByteString /\ Len(path) = Len(at) - depth /\ Len(at) \in Nat
      /\ \A i \in 1 .. Len(at) - depth : path[i] = at[depth + i]
  <2>1. depth <= Len(at) /\ Len(at) \in Nat  BY <1>2 DEF ByteString
  <2> QED  BY <2>1, DropFirstFacts
<1>5. Represents(h, path)  BY <1>2, <1>3
<1>6. path = DropFirst(n.at, depth)  BY <1>2
<1> HIDE DEF path
<1>7. h.prefix_len = Len(path) /\ Len(path) \in Nat  BY <1>5, <1>4, <1>2 DEF Represents
<1>8. CASE ~(h.prefix_len > PREFIX_LEN)
  <2>1. Lesser(Len(path), PREFIX_LEN) = Len(path)
    BY <1>7, <1>8, PrefixLenAssumption, LesserFacts
  <2>2. ReadPrefix(h) \in ByteString /\ Len(ReadPrefix(h)) = Len(path)
        /\ \A i \in 1 .. Len(path) : ReadPrefix(h)[i] = path[i]
    BY <1>4, <1>5, <2>1, ReadPrefixFacts
  <2>3. ReadPrefix(h) = path  BY <1>4, <2>2, SameBytes
  <2> QED  BY <1>3, <1>6, <1>8, <2>3 DEF ReadFullPrefix
<1>9. CASE h.prefix_len > PREFIX_LEN
  <2>1. PICK leaf \in Leaves(heap) : leaf = MinimumLeaf(n) /\ IsPrefix(n.at, leaf.at)
    BY <1>1, MinimumLeafIsBelow
  <2>2. PICK key \in ByteString : key = heap[leaf].key /\ key = leaf.at
    BY LeafFacts, NodeFacts
  <2>3. Len(at) <= Len(key) /\ \A i \in 1 .. Len(at) : key[i] = at[i]
    BY <1>2, <2>1, <2>2, PrefixPointwise
  <2>4. depth + h.prefix_len = Len(at)  BY <1>2, <1>4, <1>7
  <2>5. depth <= Len(at) /\ Len(key) \in Nat  BY <1>2 DEF ByteString
  <2> DEFINE read == SubSeq(key, depth + 1, Len(at))
  <2>6. /\ read \in ByteString /\ Len(read) = Len(at) - depth
        /\ \A i \in 1 .. Len(at) - depth : read[i] = key[depth + i]
    BY <2>3, <2>5, <1>4, SliceFacts
  <2> HIDE DEF read
  <2>7. \A i \in 1 .. Len(path) : read[i] = path[i]
    <3>1. TAKE i \in 1 .. Len(path)
    <3>2. depth + i \in 1 .. Len(at)  BY <1>4, <2>5
    <3> QED  BY <3>2, <1>4, <2>3, <2>6
  <2>8. read = path  BY <1>4, <2>6, <2>7, SameBytes
  <2>9. ReadFullPrefix(n, depth) = read
    BY <1>3, <1>9, <2>1, <2>2, <2>4 DEF ReadFullPrefix, read
  <2> QED  BY <1>6, <2>8, <2>9
<1> QED  BY <1>8, <1>9
=============================================================================
