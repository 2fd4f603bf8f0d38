--------------------------- MODULE EntryApiProofs ---------------------------
(***************************************************************************)
(* The entry API keeps the invariants of the tree and is a dictionary, as  *)
(* long as nobody removes through the entry that VacantEntry::insert_entry *)
(* returns: that entry's edges are not those of the tree any more, and the *)
(* run of EntryInserted.cfg shows what comes of it.                        *)
(*                                                                         *)
(* A vacant entry is an insert point that waits, an occupied one a delete  *)
(* point that may be applied later: the proof carries what the search knew *)
(* of them from one call to the next.                                      *)
(***************************************************************************)
EXTENDS EntryApi, TreeMapProofs

EntryType ==
  entry \in [state : {"none", "searching", "vacant", "vacant_root", "occupied"},
             key : Keys \cup {<< >>}, value : Values \cup {None},
             leaf : LeafPointer \cup {None},
             parent : EdgeType \cup {None}, grandparent : EdgeType \cup {None},
             inserted : BOOLEAN]

(* The running call is the insertion the entry was asked for. *)
AsksForEntry == op.call = "try_insert" /\ op.key = entry.key /\ op.value = entry.value

(* What an entry is, between the calls on it.                              *)
EntryInvariant ==
  /\ EntryType
  /\ Held("searching") => op.pc \in {"search", "apply"} /\ AsksForEntry
  /\ Held("vacant") => op.pc = "apply" /\ ~Applying("Exact") /\ AsksForEntry
  /\ Held("vacant_root") =>
       op.pc = "idle" /\ root = None /\ entry.key \in Keys /\ entry.value \in Values
  /\ Held("occupied") =>
       /\ op.pc \in {"idle", "done"} /\ root # None
       /\ entry.leaf \in Leaves(heap) /\ entry.leaf.at = entry.key
       /\ ~entry.inserted => EdgesLeadTo(entry.leaf, entry.parent, entry.grandparent)

EntriesInvariant == Invariant /\ AnswerInvariant /\ EntryInvariant
-----------------------------------------------------------------------------
(* Steps of the map itself.                                                *)

(* The call is over, or given up, before it has changed anything.          *)
LEMMA GivingUpKeeps ==
  ASSUME Invariant, ~TearingDown, UNCHANGED <<heap, root, num_entries>>, op' = IdleOp
  PROVE  Invariant' /\ AnswerInvariant'
<1>1. op' \in OpType /\ op'.pc = "idle" /\ op'.call = None /\ op'.value = None
      /\ op'.key = << >>
  BY IdleType DEF IdleOp
<1>2. Invariant'  BY <1>1, AnsweredKeepsCall, UntouchedKeepsTree DEF Invariant
<1> QED  BY <1>1, <1>2, AnsweredKeepsAnswers

(* A step of a call keeps both invariants.                                 *)
LEMMA NextKeeps ==
  ASSUME Invariant, AnswerInvariant, Next
  PROVE  Invariant' /\ AnswerInvariant'
<1>1. CASE Call  BY <1>1, CallKeeps, CallKeepsAnswers
<1>2. CASE Run  BY <1>2, RunKeeps, RunKeepsAnswers
<1>3. CASE Return  BY <1>3, ReturnKeeps, ReturnKeepsAnswers
<1> QED  BY <1>1, <1>2, <1>3 DEF Next

(* The key of an insert point that is not for its leaf is not stored.      *)
LEMMA VacantKeyIsNew ==
  ASSUME Invariant, op.pc = "apply", op.point.kind \notin {"Delete", "Exact"}
  PROVE  op.key \notin StoredKeys
<1>1. TreeInvariant  BY DEF Invariant
<1> SUFFICES ASSUME NEW q \in Leaves(heap), q.at = op.key PROVE FALSE
  BY <1>1, LeafFacts DEF StoredKeys
<1>2. /\ q \in DOMAIN heap /\ op.node \in DOMAIN heap
      /\ op.key \in ByteString /\ Len(op.key) \in Nat /\ op.depth \in Nat
      /\ op.node.at \in ByteString /\ Len(op.node.at) \in Nat
      /\ AgreeOn(op.key, op.node.at, op.depth)
      /\ \A x \in DOMAIN heap : AgreeOn(op.key, x.at, op.depth) => IsPrefix(op.node.at, x.at)
  BY <1>1, InsertFacts, LeafFacts
<1>3. IsPrefix(op.node.at, op.key)
  <2>1. AgreeOn(op.key, q.at, op.depth)  BY <1>2 DEF AgreeOn
  <2> QED  BY <1>2, <2>1
<1>4. op.point.kind \in {"IntoExisting", "SplitLeaf", "MismatchPrefix"}
  BY DEF Invariant, CallInvariant, PointFitsNode, PointType
<1>5. CASE op.point.kind = "SplitLeaf"
  <2>1. PICK used : used = op.point.new_key_bytes_used  OBVIOUS
  <2>2. IsLeaf(op.node) /\ op.key[used + 1] # LeafKey[used + 1]
    BY <1>5, <2>1 DEF Invariant, CallInvariant, PointFitsNode
  <2>3. op.node \in Leaves(heap)  BY <1>2, <2>2 DEF Leaves
  <2>4. q = op.node  BY <1>1, <1>2, <1>3, <2>3 DEF TreeInvariant, LeavesAreLowest
  <2>5. LeafKey = op.key  BY <1>1, <2>3, <2>4, LeafFacts DEF LeafKey
  <2> QED  BY <2>2, <2>5
<1>6. CASE op.point.kind = "IntoExisting"
  <2>1. /\ IsInner(op.node) /\ op.depth = Len(op.node.at) /\ op.depth < Len(op.key)
        /\ op.key[op.depth + 1] \notin ChildBytes(op.node)
    BY <1>6 DEF Invariant, CallInvariant, PointFitsNode
  <2>2. op.node \in Inners(heap)  BY <1>2, <2>1 DEF Inners
  <2>3. Below(q, op.node)  BY <1>3, <2>1 DEF Below
  <2>4. ByteTowards(q, op.node) \in ChildBytes(op.node)
    BY <1>1, <1>2, <2>2, <2>3 DEF TreeInvariant, RoutesToEveryNode
  <2> QED  BY <2>1, <2>4 DEF ByteTowards
<1>7. CASE op.point.kind = "MismatchPrefix"
  <2>1. PICK used : used = op.depth + op.point.matched_bytes  OBVIOUS
  <2>2. op.point.matched_bytes \in Nat
    BY <1>7 DEF Invariant, CallInvariant, PointFitsNode, PointType
  <2>3. /\ used < Len(op.node.at) /\ op.point.prefix_byte = op.node.at[used + 1]
        /\ op.point.prefix_byte # op.key[used + 1]
    BY <1>7, <2>1 DEF Invariant, CallInvariant, PointFitsNode
  <2>4. used + 1 \in 1 .. Len(op.node.at)  BY <1>2, <2>1, <2>2, <2>3
  <2>5. op.node.at[used + 1] = op.key[used + 1]  BY <1>2, <1>3, <2>4, PrefixPointwise
  <2> QED  BY <2>3, <2>5
<1> QED  BY <1>4, <1>5, <1>6, <1>7

(* A step of a search stays with its call.                                 *)
LEMMA SearchKeepsCall ==
  ASSUME Invariant, Search
  PROVE  /\ op'.pc \in {"search", "apply", "done"} /\ op.pc = "search"
         /\ op'.call = op.call /\ op'.key = op.key /\ op'.value = op.value
<1>1. op \in OpType  BY OpIsRecord DEF Invariant
<1>2. op.pc = "search"
  BY DEF Search, StepToMinimum, DescendByKey, DescendToEnd, InsertKeyTooShort, FindMismatch,
         FindVacancy, FindExact, FindLeafToSplit, LookupMiss, FindLeafToDelete, ReadLeaf,
         WriteLeafValue, AtInner, AtLeaf
<1>3. ASSUME NEW out, Finish(out)
      PROVE  /\ op'.pc = "done" /\ op'.call = op.call /\ op'.key = op.key
             /\ op'.value = op.value
  BY <1>3 DEF Finish, Done, IdleOp
<1>4. ASSUME NEW point, NEW depth, StopAt(point, depth)
      PROVE  /\ op'.pc = "apply" /\ op'.call = op.call /\ op'.key = op.key
             /\ op'.value = op.value
  BY <1>1, <1>4 DEF StopAt, OpType
<1>5. CASE StepToMinimum \/ DescendByKey \/ DescendToEnd
  BY <1>1, <1>2, <1>5 DEF StepToMinimum, DescendByKey, DescendToEnd, MoveTo, OpType
<1>6. CASE InsertKeyTooShort \/ LookupMiss \/ ReadLeaf \/ WriteLeafValue
  BY <1>2, <1>3, <1>6 DEF InsertKeyTooShort, LookupMiss, ReadLeaf, WriteLeafValue
<1>7. CASE FindMismatch \/ FindVacancy \/ FindExact \/ FindLeafToDelete
  BY <1>2, <1>4, <1>7 DEF FindMismatch, FindVacancy, FindExact, FindLeafToDelete
<1>8. CASE FindLeafToSplit
  BY <1>2, <1>3, <1>4, <1>8 DEF FindLeafToSplit
<1> QED  BY <1>2, <1>5, <1>6, <1>7, <1>8 DEF Search
-----------------------------------------------------------------------------
(* Asking for an entry.                                                    *)

LEMMA EntryInitHolds == EntryInit => EntriesInvariant
<1> SUFFICES ASSUME EntryInit PROVE EntriesInvariant  OBVIOUS
<1>1. Invariant /\ AnswerInvariant  BY InitHolds, AnswersInit DEF EntryInit
<1>2. EntryType /\ entry.state = "none"  BY DEF EntryInit, NoEntry, EntryType
<1> QED  BY <1>1, <1>2 DEF EntriesInvariant, EntryInvariant, Held

LEMMA NoEntryKeeps ==
  ASSUME EntryType', entry'.state = "none", Invariant', AnswerInvariant'
  PROVE  EntriesInvariant'
BY DEF EntriesInvariant, EntryInvariant, Held

LEMMA OtherCallKeeps ==
  ASSUME EntriesInvariant, OtherCall
  PROVE  EntriesInvariant'
<1>1. EntryType' /\ entry'.state = "none"
  BY DEF EntriesInvariant, EntryInvariant, EntryType, OtherCall, Held
<1> QED  BY <1>1, NextKeeps, NoEntryKeeps DEF EntriesInvariant, OtherCall

LEMMA EntryStutterKeeps ==
  ASSUME EntriesInvariant, UNCHANGED entryVars
  PROVE  EntriesInvariant'
<1>1. UNCHANGED vars /\ heap' = heap /\ root' = root /\ op' = op /\ entry' = entry
  BY DEF entryVars, vars
<1>2. Invariant' /\ AnswerInvariant'
  BY <1>1, StutterKeeps, StutterKeepsAnswers DEF EntriesInvariant
<1>3. EntryInvariant'
  BY <1>1 DEF EntriesInvariant, EntryInvariant, EntryType, Held, AsksForEntry, Applying,
              EdgesLeadTo, Leaves, Child, ChildBytes
<1> QED  BY <1>2, <1>3 DEF EntriesInvariant

LEMMA AskedType ==
  ASSUME NEW state \in {"searching", "vacant_root"}, NEW k \in Keys, NEW v \in Values,
         entry' = Asked(state, k, v)
  PROVE  EntryType' /\ entry'.state = state /\ entry'.key = k /\ entry'.value = v
BY DEF Asked, NoEntry, EntryType

LEMMA TryEntryKeeps ==
  ASSUME EntriesInvariant, NEW k \in Keys, NEW v \in Values, TryEntry(k, v)
  PROVE  EntriesInvariant'
<1>1. /\ op.pc = "idle" /\ root # None /\ ~TearingDown
      /\ op' = Start("try_insert", k, v)
      /\ UNCHANGED <<heap, root, num_entries>> /\ entry' = Asked("searching", k, v)
  BY DEF TryEntry, TearingDown
<1>2. "try_insert" \in Calls /\ "try_insert" \in KeyCalls
      /\ "try_insert" \notin MinCalls \cup MaxCalls
  BY DEF Calls, KeyCalls, MinCalls, MaxCalls
<1>3. Invariant'  BY <1>1, <1>2, StartKeeps DEF EntriesInvariant
<1>4. AnswerInvariant'  BY <1>1, <1>2, StartKeepsAnswers DEF EntriesInvariant
<1>5. op'.pc = "search" /\ op'.call = "try_insert" /\ op'.key = k /\ op'.value = v
  BY <1>1 DEF Start, IdleOp
<1>6. EntryType' /\ entry'.state = "searching" /\ entry'.key = k /\ entry'.value = v
  BY <1>1, AskedType
<1> QED  BY <1>3, <1>4, <1>5, <1>6 DEF EntriesInvariant, EntryInvariant, Held, AsksForEntry

LEMMA TryEntryOnEmptyKeeps ==
  ASSUME EntriesInvariant, NEW k \in Keys, NEW v \in Values, TryEntryOnEmpty(k, v)
  PROVE  EntriesInvariant'
<1>1. /\ op.pc = "idle" /\ root = None /\ UNCHANGED vars /\ op' = op /\ root' = root
      /\ entry' = Asked("vacant_root", k, v)
  BY DEF TryEntryOnEmpty, vars
<1>2. Invariant' /\ AnswerInvariant'
  BY <1>1, StutterKeeps, StutterKeepsAnswers DEF EntriesInvariant
<1>3. EntryType' /\ entry'.state = "vacant_root" /\ entry'.key = k /\ entry'.value = v
  BY <1>1, AskedType
<1> QED  BY <1>1, <1>2, <1>3 DEF EntriesInvariant, EntryInvariant, Held

LEMMA SearchEntryKeeps ==
  ASSUME EntriesInvariant, SearchEntry
  PROVE  EntriesInvariant'
<1>1. Search /\ entry.state = "searching" /\ AsksForEntry /\ EntryType
  BY DEF SearchEntry, EntriesInvariant, EntryInvariant, Held
<1>2. Invariant' /\ AnswerInvariant'
  BY <1>1, SearchKeeps, SearchKeepsAnswers DEF EntriesInvariant
<1>3. CASE op'.pc = "done"
  <2>1. EntryType' /\ entry'.state = "none"
    BY <1>3 DEF SearchEntry, NoEntry, EntryType
  <2> QED  BY <1>2, <2>1, NoEntryKeeps
<1>4. CASE op'.pc # "done"
  <2>1. entry' = entry  BY <1>4 DEF SearchEntry
  <2>2. op'.pc \in {"search", "apply"} /\ AsksForEntry'
    BY <1>1, <1>4, <2>1, SearchKeepsCall DEF AsksForEntry, EntriesInvariant
  <2> QED
    BY <1>1, <1>2, <2>1, <2>2 DEF EntriesInvariant, EntryInvariant, EntryType, Held
<1> QED  BY <1>3, <1>4
-----------------------------------------------------------------------------
(* Entries.                                                                *)

LEMMA OccupiedType ==
  ASSUME NEW leaf \in LeafPointer, leaf.at \in Keys,
         NEW parent \in EdgeType \cup {None}, NEW grandparent \in EdgeType \cup {None},
         NEW inserted \in BOOLEAN, entry' = Occupied(leaf, parent, grandparent, inserted)
  PROVE  /\ EntryType' /\ entry'.state = "occupied" /\ entry'.key = leaf.at
         /\ entry'.leaf = leaf /\ entry'.parent = parent /\ entry'.grandparent = grandparent
         /\ entry'.inserted = inserted
BY DEF Occupied, NoEntry, EntryType

(* The edges a search for an insert point has come by.                     *)
LEMMA FoundEdges ==
  ASSUME Invariant, op.pc = "apply", op.call = "try_insert"
  PROVE  /\ EdgesLeadTo(op.node, op.parent, op.grandparent)
         /\ op.parent \in EdgeType \cup {None} /\ op.grandparent \in EdgeType \cup {None}
         /\ op.node \in DOMAIN heap /\ root # None
<1>1. op.parent \in EdgeType \cup {None} /\ op.grandparent \in EdgeType \cup {None}
  BY OpIsRecord DEF Invariant, OpType
<1>2. SearchKeepsItsPath /\ TracksParents(op.call)
  BY DEF Invariant, CallInvariant, TracksParents
<1>3. op.node \in DOMAIN heap  BY <1>2 DEF SearchKeepsItsPath
<1>4. root # None
  BY <1>3 DEF Invariant, TreeInvariant, RootIsAboveAll, TearingDown
<1> QED  BY <1>1, <1>2, <1>3, <1>4 DEF SearchKeepsItsPath, EdgesLeadTo

LEMMA GotOccupiedKeeps ==
  ASSUME EntriesInvariant, GotOccupied
  PROVE  EntriesInvariant'
<1>1. /\ op.pc = "apply" /\ op.point.kind = "Exact" /\ op' = IdleOp
      /\ UNCHANGED <<heap, root, num_entries>> /\ ~TearingDown
      /\ entry' = Occupied(op.node, op.parent, op.grandparent, FALSE)
  BY DEF GotOccupied, Applying, TearingDown, FoundEntry
<1>2. Invariant /\ op.call = "try_insert"
  BY DEF GotOccupied, EntriesInvariant, EntryInvariant, AsksForEntry
<1>3. Invariant' /\ AnswerInvariant'  BY <1>1, <1>2, GivingUpKeeps
<1>4. /\ EdgesLeadTo(op.node, op.parent, op.grandparent)
      /\ op.parent \in EdgeType \cup {None} /\ op.grandparent \in EdgeType \cup {None}
      /\ op.node \in DOMAIN heap /\ root # None
  BY <1>1, <1>2, FoundEdges
<1>5. IsLeaf(op.node)  BY <1>1, <1>2 DEF Invariant, CallInvariant, PointFitsNode
<1>6. op.node \in Leaves(heap) /\ op.node \in LeafPointer /\ op.node.at \in Keys
  <2>1. op.node \in Leaves(heap)  BY <1>4, <1>5 DEF Leaves
  <2>2. op.node \in PointerType  BY <1>2, <1>4 DEF Invariant, TreeInvariant, TypeOK
  <2>3. op.node \in LeafPointer
    BY <1>5, <2>2 DEF PointerType, LeafPointer, InnerPointer, InnerType, IsLeaf
  <2> QED  BY <1>2, <2>1, <2>3, LeafFacts DEF Invariant
<1>7. /\ EntryType' /\ entry'.state = "occupied" /\ entry'.key = op.node.at
      /\ entry'.leaf = op.node /\ entry'.parent = op.parent
      /\ entry'.grandparent = op.grandparent
  BY <1>1, <1>4, <1>6, OccupiedType
<1>8. EdgesLeadTo(entry.leaf, entry.parent, entry.grandparent)'
  BY <1>1, <1>4, <1>7 DEF EdgesLeadTo, Child, ChildBytes
<1>9. op'.pc = "idle"  BY <1>1 DEF IdleOp
<1>10. entry'.leaf \in Leaves(heap)'  BY <1>1, <1>6, <1>7 DEF Leaves
<1> QED
  BY <1>1, <1>3, <1>4, <1>7, <1>8, <1>9, <1>10 DEF EntriesInvariant, EntryInvariant, Held

LEMMA GotVacantKeeps ==
  ASSUME EntriesInvariant, GotVacant
  PROVE  EntriesInvariant'
<1>1. /\ op.pc = "apply" /\ ~Applying("Exact") /\ UNCHANGED vars /\ op' = op
      /\ entry' = [entry EXCEPT !.state = "vacant"] /\ EntryType /\ AsksForEntry
  BY DEF GotVacant, EntriesInvariant, EntryInvariant, vars
<1>2. Invariant' /\ AnswerInvariant'
  BY <1>1, StutterKeeps, StutterKeepsAnswers DEF EntriesInvariant
<1>3. /\ EntryType' /\ entry'.state = "vacant"
      /\ entry'.key = entry.key /\ entry'.value = entry.value
  BY <1>1 DEF EntryType
<1>4. ~Applying("Exact")' /\ AsksForEntry'
  BY <1>1, <1>3 DEF Applying, AsksForEntry
<1> QED  BY <1>1, <1>2, <1>3, <1>4 DEF EntriesInvariant, EntryInvariant, Held

LEMMA VacantInsertKeeps ==
  ASSUME EntriesInvariant, VacantInsert
  PROVE  EntriesInvariant'
<1>1. /\ op.pc = "apply" /\ ~Applying("Exact") /\ op.call = "try_insert" /\ ApplyInsert
      /\ entry' = Occupied(NewLeaf, op.parent, op.grandparent, TRUE)
  BY DEF VacantInsert, EntriesInvariant, EntryInvariant, AsksForEntry
<1>2. op.point.kind # "Delete" /\ op.point.kind # "Exact"
  BY <1>1 DEF EntriesInvariant, AnswerInvariant, CallIsKept, Applying
<1>3. Invariant' /\ AnswerInvariant'
  BY <1>1, RunKeeps, RunKeepsAnswers DEF EntriesInvariant, Run
<1>4. /\ NewLeaf \in LeafPointer /\ NewLeaf.at \in Keys /\ IsLeaf(NewLeaf)
      /\ op.parent \in EdgeType \cup {None} /\ op.grandparent \in EdgeType \cup {None}
  BY <1>1, <1>2, InsertFacts, FoundEdges DEF EntriesInvariant
<1>5. PICK h, new : Inserted(h, new)
  BY <1>1, <1>2 DEF ApplyInsert, InsertAtMismatch, InsertAtLeaf, InsertIntoNode,
                    InsertIntoGrownNode, InsertReplace, Applying
<1>6. NewLeaf \in DOMAIN heap'
  <2>1. PICK leaf \in {NewLeaf} : TRUE  OBVIOUS
  <2>2. heap' = WriteBack(With(h, leaf, Leaf(op.key, op.value)), new)
    BY <1>5, <2>1 DEF Inserted, Allocate
  <2>3. leaf \in DOMAIN With(h, leaf, Leaf(op.key, op.value))  BY DEF With
  <2>4. leaf \in DOMAIN heap'  BY <2>2, <2>3 DEF WriteBack
  <2> QED  BY <2>1, <2>4
<1>7. op'.pc = "done"  BY <1>5 DEF Inserted, Finish, Done, IdleOp
<1>8. root' # None
  BY <1>3, <1>6, <1>7
  DEF Invariant, TreeInvariant, RootIsAboveAll, TearingDown
<1>9. /\ EntryType' /\ entry'.state = "occupied" /\ entry'.key = NewLeaf.at
      /\ entry'.leaf = NewLeaf /\ entry'.inserted = TRUE
  BY <1>1, <1>4, OccupiedType
<1>10. entry'.leaf \in Leaves(heap)'  BY <1>4, <1>6, <1>9 DEF Leaves
<1> QED
  BY <1>3, <1>7, <1>8, <1>9, <1>10 DEF EntriesInvariant, EntryInvariant, Held

LEMMA VacantInsertRootKeeps ==
  ASSUME EntriesInvariant, VacantInsertRoot
  PROVE  EntriesInvariant'
<1>1. entry.key \in Keys /\ entry.value \in Values /\ InitTree(entry.key, entry.value)
  BY DEF VacantInsertRoot, EntriesInvariant, EntryInvariant
<1>2. Next  BY <1>1 DEF Next, Call
<1>3. Invariant' /\ AnswerInvariant'  BY <1>2, NextKeeps DEF EntriesInvariant
<1>4. PICK leaf : leaf = Pointer("Leaf", entry.key)  OBVIOUS
<1>5. /\ leaf \in LeafPointer /\ leaf.at = entry.key /\ IsLeaf(leaf)
  BY <1>1, <1>4, KeysAssumption DEF Pointer, LeafPointer, IsLeaf
<1>6. heap' = With(heap, leaf, Leaf(entry.key, entry.value)) /\ root' = leaf
      /\ op' = Done("try_insert", entry.key, entry.value, Ok(None))
  BY <1>1, <1>4 DEF InitTree, Allocate
<1>7. leaf \in Leaves(heap)'  BY <1>5, <1>6 DEF With, Leaves
<1>8. op'.pc = "done" /\ root' # None
  BY <1>5, <1>6, NoneAssumption DEF Done, IdleOp
<1>9. entry' = Occupied(leaf, None, None, FALSE)  BY <1>4 DEF VacantInsertRoot
<1>10. /\ EntryType' /\ entry'.state = "occupied" /\ entry'.key = leaf.at
       /\ entry'.leaf = leaf /\ entry'.parent = None /\ entry'.grandparent = None
  BY <1>1, <1>5, <1>9, OccupiedType
<1>11. EdgesLeadTo(entry.leaf, entry.parent, entry.grandparent)'
  BY <1>6, <1>10 DEF EdgesLeadTo
<1> QED
  BY <1>3, <1>7, <1>8, <1>10, <1>11 DEF EntriesInvariant, EntryInvariant, Held

LEMMA EntryReturnKeeps ==
  ASSUME EntriesInvariant, EntryReturn
  PROVE  EntriesInvariant'
<1>1. entry' = entry /\ op' = IdleOp /\ heap' = heap /\ root' = root /\ Return
  BY DEF EntryReturn, Return
<1>2. Invariant' /\ AnswerInvariant'
  BY <1>1, ReturnKeeps, ReturnKeepsAnswers DEF EntriesInvariant
<1>3. op'.pc = "idle" /\ entry'.state = "occupied"
  BY <1>1 DEF IdleOp, EntryReturn, Held
<1>4. EntryType' /\ (EdgesLeadTo(entry.leaf, entry.parent, entry.grandparent) =>
                       EdgesLeadTo(entry.leaf, entry.parent, entry.grandparent)')
  BY <1>1 DEF EntriesInvariant, EntryInvariant, EntryType, EdgesLeadTo, Child, ChildBytes
<1> QED
  BY <1>1, <1>2, <1>3, <1>4 DEF EntriesInvariant, EntryInvariant, Held, Leaves

(* An occupied entry between two calls on it.                              *)
LEMMA OccupiedFacts ==
  ASSUME EntriesInvariant, Held("occupied")
  PROVE  /\ Invariant /\ TreeInvariant /\ ~TearingDown /\ root # None
         /\ entry.leaf \in Leaves(heap) /\ entry.leaf \in DOMAIN heap
         /\ entry.leaf.at = entry.key /\ entry.key \in Keys
         /\ heap[entry.leaf].value \in Values
         /\ heap[entry.leaf] = Leaf(entry.key, heap[entry.leaf].value)
         /\ entry.leaf \in LeafPointer
         /\ entry.parent \in EdgeType \cup {None} /\ entry.grandparent \in EdgeType \cup {None}
         /\ ~entry.inserted => EdgesLeadTo(entry.leaf, entry.parent, entry.grandparent)
<1>1. Invariant /\ TreeInvariant /\ ~TearingDown
  BY DEF EntriesInvariant, EntryInvariant, Invariant, TearingDown
<1>2. entry.leaf \in Leaves(heap) /\ entry.leaf.at = entry.key /\ EntryType /\ root # None
      /\ (~entry.inserted => EdgesLeadTo(entry.leaf, entry.parent, entry.grandparent))
  BY DEF EntriesInvariant, EntryInvariant
<1>3. entry.leaf \in DOMAIN heap /\ entry.key \in Keys /\ heap[entry.leaf].value \in Values
      /\ heap[entry.leaf] = Leaf(entry.key, heap[entry.leaf].value)
  BY <1>1, <1>2, LeafFacts
<1>4. entry.leaf # None
  BY <1>1, <1>3, NoneAssumption DEF TreeInvariant, TypeOK, PointerType
<1> QED  BY <1>1, <1>2, <1>3, <1>4 DEF EntryType

(* A call on an occupied entry that leaves the inner nodes alone.          *)
LEMMA OccupiedKeeps ==
  ASSUME EntriesInvariant, Held("occupied"), Invariant', AnswerInvariant', op'.pc = "done",
         UNCHANGED <<root, entry>>, DOMAIN heap' = DOMAIN heap,
         \A n \in Inners(heap) : heap'[n] = heap[n]
  PROVE  EntriesInvariant'
<1>1. /\ EntryType /\ entry.state = "occupied" /\ root # None
      /\ entry.leaf \in Leaves(heap) /\ entry.leaf.at = entry.key
      /\ ~entry.inserted => EdgesLeadTo(entry.leaf, entry.parent, entry.grandparent)
  BY DEF EntriesInvariant, EntryInvariant, Held
<1>2. entry.leaf \in Leaves(heap)'  BY <1>1 DEF Leaves
<1>3. ASSUME EdgesLeadTo(entry.leaf, entry.parent, entry.grandparent)
      PROVE  EdgesLeadTo(entry.leaf, entry.parent, entry.grandparent)'
  <2>1. ASSUME NEW e \in EdgeType, e.node \in DOMAIN heap
        PROVE  heap'[e.node] = heap[e.node] /\ e.node \in DOMAIN heap'
    BY <2>1 DEF EdgeType, InnerPointer, Inners, IsInner
  <2>2. entry.parent # None => entry.parent \in EdgeType  BY <1>1 DEF EntryType
  <2>3. entry.grandparent # None => entry.grandparent \in EdgeType  BY <1>1 DEF EntryType
  <2> QED  BY <1>3, <2>1, <2>2, <2>3 DEF EdgesLeadTo, Child, ChildBytes
<1>4. EntryType'  BY <1>1 DEF EntryType
<1> QED
  BY <1>1, <1>2, <1>3, <1>4 DEF EntriesInvariant, EntryInvariant, Held

LEMMA OccupiedGetKeeps ==
  ASSUME EntriesInvariant, OccupiedGet
  PROVE  EntriesInvariant'
<1>1. /\ op' = Done("get", entry.key, None, Some(heap[entry.leaf].value))
      /\ UNCHANGED <<heap, root, num_entries, entry>> /\ Held("occupied")
  BY DEF OccupiedGet
<1>2. /\ Invariant /\ ~TearingDown /\ entry.key \in Keys /\ heap[entry.leaf].value \in Values
  BY <1>1, OccupiedFacts
<1>3. "get" \in Calls /\ Some(heap[entry.leaf].value) \in OutType
  BY <1>2 DEF Calls, OutType
<1>4. Invariant'  BY <1>1, <1>2, <1>3, FinishKeeps
<1>5. op'.pc = "done" /\ op'.call = "get" /\ op'.value = None
  BY <1>1 DEF Done, IdleOp
<1>6. AnswerInvariant'  BY <1>5, AnsweredKeepsAnswers DEF MinCalls, MaxCalls
<1> QED  BY <1>1, <1>4, <1>5, <1>6, OccupiedKeeps

LEMMA OccupiedInsertKeeps ==
  ASSUME EntriesInvariant, NEW v \in Values, OccupiedInsert(v)
  PROVE  EntriesInvariant' /\ Invariant'
<1>1. /\ op' = Done("get_mut", entry.key, v, Some(heap[entry.leaf].value))
      /\ heap' = [heap EXCEPT ![entry.leaf].value = v]
      /\ UNCHANGED <<root, num_entries, entry>> /\ Held("occupied")
  BY DEF OccupiedInsert
<1>2. /\ Invariant /\ ~TearingDown /\ entry.key \in Keys /\ heap[entry.leaf].value \in Values
      /\ entry.leaf \in Leaves(heap) /\ entry.leaf.at = entry.key
      /\ heap[entry.leaf] = Leaf(entry.key, heap[entry.leaf].value)
  BY <1>1, OccupiedFacts
<1>3. heap' = [heap EXCEPT ![entry.leaf] = Leaf(entry.leaf.at, v)]
  <2>1. [heap[entry.leaf] EXCEPT !.value = v] = Leaf(entry.leaf.at, v)  BY <1>2 DEF Leaf
  <2>2. heap' = [heap EXCEPT ![entry.leaf] = [heap[entry.leaf] EXCEPT !.value = v]]
    BY <1>1
  <2> QED  BY <2>1, <2>2
<1>4. op' \in OpType /\ op'.pc = "done"
  <2>1. Some(heap[entry.leaf].value) \in OutType /\ "get_mut" \in Calls
    BY <1>2 DEF OutType, Calls
  <2> QED  BY <1>1, <1>2, <2>1, DoneType
<1>5. Invariant'  BY <1>1, <1>2, <1>3, <1>4, OverwriteKeeps
<1>6. op'.call = "get_mut"  BY <1>1 DEF Done, IdleOp
<1>7. AnswerInvariant'  BY <1>4, <1>6, AnsweredKeepsAnswers DEF MinCalls, MaxCalls
<1>8. DOMAIN heap' = DOMAIN heap /\ \A n \in Inners(heap) : heap'[n] = heap[n]
  BY <1>2, <1>3 DEF Inners, Leaves, IsInner, IsLeaf, InnerType
<1> QED  BY <1>1, <1>4, <1>5, <1>7, <1>8, OccupiedKeeps

(* The entry's edges make a delete point.                                  *)
LEMMA OccupiedRemoveKeeps ==
  ASSUME EntriesInvariant, ~RemovesInserted, OccupiedRemove
  PROVE  EntriesInvariant'
<1>1. /\ op' = EntryDeletePoint /\ entry' = NoEntry /\ UNCHANGED <<heap, root, num_entries>>
      /\ Held("occupied") /\ ~entry.inserted
  BY DEF OccupiedRemove
<1>2. PICK leaf \in {entry.leaf}, parent \in {entry.parent}, above \in {entry.grandparent},
           key \in {entry.key} : TRUE
  OBVIOUS
<1>3. /\ Invariant /\ TreeInvariant /\ ~TearingDown
      /\ leaf \in DOMAIN heap /\ leaf \in LeafPointer /\ leaf.at = key /\ key \in Keys
      /\ heap[leaf].key = key
      /\ parent \in EdgeType \cup {None} /\ above \in EdgeType \cup {None}
      /\ EdgesLeadTo(leaf, parent, above)
  BY <1>1, <1>2, OccupiedFacts DEF Leaf
<1>4. /\ op' \in OpType
      /\ op'.pc = "apply" /\ op'.call = "remove_entry" /\ op'.key = key /\ op'.value = None
      /\ op'.node = leaf /\ op'.depth = 0 /\ op'.parent = parent /\ op'.grandparent = above
      /\ op'.point = [kind |-> "Delete"] /\ op'.cursor = None
  <2>1. op' = [pc |-> "apply", call |-> "remove_entry", key |-> key, value |-> None,
               node |-> leaf, depth |-> 0, parent |-> parent, grandparent |-> above,
               cursor |-> None, point |-> [kind |-> "Delete"], stack |-> {}, out |-> None]
    BY <1>1, <1>2 DEF EntryDeletePoint, IdleOp
  <2>2. [kind |-> "Delete"] \in PointType  BY DEF PointType
  <2> QED  BY <1>3, <2>1, <2>2 DEF OpType, Calls, PointerType, OutType
<1>5. TreeInvariant'  BY <1>1, <1>3, <1>4, UntouchedKeepsTree
<1>6. SearchKeepsItsPath'
  BY <1>1, <1>3, <1>4, NoneAssumption
  DEF SearchKeepsItsPath, EdgesLeadTo, TracksParents, Child, ChildBytes
<1>7. SearchIsOnPath'
  <2>1. key \in ByteString /\ Len(key) \in Nat  BY <1>3, KeysAssumption DEF ByteString
  <2>2. AgreeOn(key, leaf.at, 0)  BY <1>3, <2>1 DEF AgreeOn
  <2>3. parent # None => AgreeOn(key, leaf.at, Len(parent.node.at) + 1)
    <3>1. SUFFICES ASSUME parent # None PROVE AgreeOn(key, leaf.at, Len(parent.node.at) + 1)
      OBVIOUS
    <3>2. parent.node \in Inners(heap) /\ parent.byte \in ChildBytes(parent.node)
          /\ Child(parent.node, parent.byte) = leaf
      BY <1>3, <3>1 DEF EdgesLeadTo, EdgeType, InnerPointer, Inners, IsInner
    <3>3. Below(leaf, parent.node)  BY <1>3, <3>2, InvariantShape, ChildFacts
    <3>4. Len(parent.node.at) \in Nat  BY <1>3, <3>2, InnerFacts, NodeFacts
    <3> QED  BY <1>3, <2>1, <3>3, <3>4 DEF Below, AgreeOn
  <2> QED
    BY <1>3, <1>4, <2>2, <2>3 DEF SearchIsOnPath
<1>8. NothingIsPassedBy' /\ CursorIsBelow' /\ TeardownIsExact'
  BY <1>4 DEF NothingIsPassedBy, Applying, CursorIsBelow, TeardownIsExact, TearingDown
<1>9. PointFitsNode'
  BY <1>3, <1>4 DEF PointFitsNode, PointType, IsLeaf, LeafPointer, TracksParents
<1>10. AnswerInvariant'
  BY <1>1, <1>3, <1>4
  DEF AnswerInvariant, EndIsAhead, CallIsKept, Walking, TearingDown, Applying, LeafKey,
      KeyCalls, MinCalls, MaxCalls
<1>11. EntryType' /\ entry'.state = "none"  BY <1>1 DEF NoEntry, EntryType
<1> QED
  BY <1>5, <1>6, <1>7, <1>8, <1>9, <1>10, <1>11, NoEntryKeeps DEF Invariant, CallInvariant

LEMMA ReleaseKeeps ==
  ASSUME EntriesInvariant, Release
  PROVE  EntriesInvariant'
<1>1. ~TearingDown
  BY DEF Release, EntriesInvariant, EntryInvariant, Held, TearingDown
<1>2. Invariant' /\ AnswerInvariant'
  BY <1>1, GivingUpKeeps DEF Release, EntriesInvariant
<1>3. EntryType' /\ entry'.state = "none"  BY DEF Release, NoEntry, EntryType
<1> QED  BY <1>2, <1>3, NoEntryKeeps
-----------------------------------------------------------------------------
LEMMA EntryNextKeeps ==
  ASSUME EntriesInvariant, ~RemovesInserted, [EntryNext]_entryVars
  PROVE  EntriesInvariant'
<1>1. CASE OtherCall  BY <1>1, OtherCallKeeps
<1>2. CASE \E k \in Keys, v \in Values : TryEntry(k, v) \/ TryEntryOnEmpty(k, v)
  BY <1>2, TryEntryKeeps, TryEntryOnEmptyKeeps
<1>3. CASE SearchEntry  BY <1>3, SearchEntryKeeps
<1>4. CASE GotOccupied  BY <1>4, GotOccupiedKeeps
<1>5. CASE GotVacant  BY <1>5, GotVacantKeeps
<1>6. CASE VacantInsert  BY <1>6, VacantInsertKeeps
<1>7. CASE VacantInsertRoot  BY <1>7, VacantInsertRootKeeps
<1>8. CASE EntryReturn  BY <1>8, EntryReturnKeeps
<1>9. CASE OccupiedGet  BY <1>9, OccupiedGetKeeps
<1>10. CASE OccupiedRemove  BY <1>10, OccupiedRemoveKeeps
<1>11. CASE Release  BY <1>11, ReleaseKeeps
<1>12. CASE \E v \in Values : OccupiedInsert(v)  BY <1>12, OccupiedInsertKeeps
<1>13. CASE UNCHANGED entryVars  BY <1>13, EntryStutterKeeps
<1> QED
  BY <1>1, <1>2, <1>3, <1>4, <1>5, <1>6, <1>7, <1>8, <1>9, <1>10, <1>11, <1>12, <1>13
  DEF EntryNext

LEMMA EntriesHold ==
  ASSUME ~RemovesInserted
  PROVE  EntrySpec => []EntriesInvariant
<1>1. EntryInit => EntriesInvariant  BY EntryInitHolds
<1>2. EntriesInvariant /\ [EntryNext]_entryVars => EntriesInvariant'
  BY EntryNextKeeps
<1> QED  BY <1>1, <1>2, PTL DEF EntrySpec

LEMMA EntryIsAsItShouldBe == EntriesInvariant => EntryIsCurrent
<1> SUFFICES ASSUME EntriesInvariant PROVE EntryIsCurrent  OBVIOUS
<1>1. CASE Held("occupied")
  <2>1. heap[entry.leaf].key = entry.key  BY <1>1, OccupiedFacts DEF Leaf
  <2> QED  BY <1>1, <2>1, OccupiedFacts DEF EntryIsCurrent, Held
<1>2. CASE Held("vacant")
  <2>1. /\ Invariant /\ op.pc = "apply" /\ ~Applying("Exact") /\ op.call = "try_insert"
        /\ op.key = entry.key /\ AnswerInvariant
    BY <1>2 DEF EntriesInvariant, EntryInvariant, AsksForEntry
  <2>2. op.point.kind \notin {"Delete", "Exact"}
    BY <2>1 DEF AnswerInvariant, CallIsKept, Applying
  <2>3. entry.key \notin StoredKeys  BY <2>1, <2>2, VacantKeyIsNew
  <2>4. PointsAreApplicable /\ SearchKeepsItsPath
    BY <2>1, PointsApply DEF Invariant, CallInvariant
  <2> QED  BY <1>2, <2>3, <2>4 DEF EntryIsCurrent, Held
<1>3. CASE Held("vacant_root")
  BY <1>3 DEF EntriesInvariant, EntryInvariant, EntryIsCurrent, Held
<1> QED  BY <1>1, <1>2, <1>3 DEF EntryIsCurrent

(* An occupied entry refers to the leaf of its key and to the edges above  *)
(* it, a vacant one to an insert point that fits the tree, for as long as  *)
(* the caller holds it (map/entry.rs, map/entry_ref.rs).  The entry of     *)
(* VacantEntry::insert_entry is excepted from removals: its edges are      *)
(* those of the insert point.                                              *)
THEOREM EntriesCurrent == ~RemovesInserted => (EntrySpec => []EntryIsCurrent)
<1>1. SUFFICES ASSUME ~RemovesInserted PROVE EntrySpec => []EntryIsCurrent  OBVIOUS
<1>2. EntriesInvariant => EntryIsCurrent  BY EntryIsAsItShouldBe
<1> QED  BY <1>1, <1>2, EntriesHold, PTL
-----------------------------------------------------------------------------
(* What a step on an entry does to the dictionary.                         *)

LEMMA EntryStepIsAnswered ==
  ASSUME EntriesInvariant, ~RemovesInserted, [EntryNext]_entryVars
  PROVE  [Dictionary!Next]_<<AbstractMap, AbstractRet>>
<1>1. Invariant /\ AnswerInvariant  BY DEF EntriesInvariant
<1>2. CASE OtherCall
  <2>1. CASE Call  BY <1>1, <2>1, CallIsAnswered
  <2>2. CASE Run  BY <1>1, <2>2, RunIsAnswered
  <2>3. CASE Return  BY <1>1, <2>3, ReturnReturns DEF Dictionary!Next
  <2> QED  BY <1>2, <2>1, <2>2, <2>3 DEF OtherCall, Next
<1>3. CASE UNCHANGED vars
  BY <1>3 DEF vars, AbstractMap, AbstractRet, TearingDown, StoredKeys, Leaves
<1>4. ASSUME NEW k \in Keys, NEW v \in Values, TryEntry(k, v)
      PROVE  UNCHANGED <<AbstractMap, AbstractRet>>
  <2>1. op.pc = "idle" /\ op'.pc = "search" /\ heap' = heap
    BY <1>4 DEF TryEntry, Start, IdleOp
  <2> QED  BY <2>1, SilentStep
<1>5. ASSUME NEW k \in Keys, NEW v \in Values, TryEntryOnEmpty(k, v)
      PROVE  UNCHANGED vars
  BY <1>5 DEF TryEntryOnEmpty
<1>6. CASE SearchEntry  BY <1>1, <1>6, SearchIsAnswered DEF SearchEntry
<1>7. CASE GotOccupied
  <2>1. op.pc = "apply" /\ op'.pc = "idle" /\ heap' = heap
    BY <1>7 DEF GotOccupied, Applying, IdleOp
  <2> QED  BY <2>1, SilentStep
<1>8. CASE VacantInsert
  <2>1. Run /\ ApplyInsert  BY <1>8 DEF VacantInsert, Run
  <2> QED  BY <1>1, <2>1, RunIsAnswered
<1>9. CASE VacantInsertRoot
  <2>1. entry.key \in Keys /\ entry.value \in Values /\ InitTree(entry.key, entry.value)
    BY <1>9 DEF VacantInsertRoot, EntriesInvariant, EntryInvariant
  <2> QED  BY <1>1, <2>1, InitTreeInserts DEF Dictionary!Next
<1>10. CASE EntryReturn  BY <1>1, <1>10, ReturnReturns DEF EntryReturn, Dictionary!Next
<1>11. CASE OccupiedGet
  <2>1. /\ op.pc = "idle" /\ heap' = heap
        /\ op' = Done("get", entry.key, None, Some(heap[entry.leaf].value))
        /\ Held("occupied")
    BY <1>11 DEF OccupiedGet
  <2>2. /\ TreeInvariant /\ entry.leaf \in Leaves(heap) /\ entry.leaf.at = entry.key
        /\ entry.key \in Keys
    BY <2>1, OccupiedFacts
  <2>3. /\ AbstractRet = None /\ ~TearingDown /\ ~TearingDown'
        /\ AbstractRet' = Dictionary!Answer("get", entry.key, None, Some(heap[entry.leaf].value))
    BY <2>1, Answers
  <2>4. AbstractMap' = AbstractMap  BY <2>1, <2>3, UntouchedKeepsMap
  <2>5. entry.key \in DOMAIN AbstractMap /\ AbstractMap[entry.key] = heap[entry.leaf].value
    BY <2>2, <2>3, MapFacts DEF TableOfLeaves
  <2>6. Dictionary!Get(entry.key)
    BY <2>3, <2>4, <2>5 DEF Dictionary!Get, Some, Dictionary!Some
  <2> QED  BY <2>2, <2>6 DEF Dictionary!Next
<1>12. ASSUME NEW v \in Values, OccupiedInsert(v)  PROVE Dictionary!Next
  <2>1. /\ op.pc = "idle" /\ Held("occupied")
        /\ heap' = [heap EXCEPT ![entry.leaf].value = v]
        /\ op' = Done("get_mut", entry.key, v, Some(heap[entry.leaf].value))
    BY <1>12 DEF OccupiedInsert
  <2>2. /\ entry.leaf \in Leaves(heap) /\ entry.leaf.at = entry.key /\ entry.key \in Keys
    BY <2>1, OccupiedFacts
  <2>3. TreeInvariant'  BY <1>12, OccupiedInsertKeeps DEF Invariant
  <2>4. Dictionary!GetMut(entry.key, v)  BY <1>1, <2>1, <2>2, <2>3, WrittenLeaf
  <2> QED  BY <2>2, <2>4 DEF Dictionary!Next
<1>13. CASE OccupiedRemove
  <2>1. op.pc = "idle" /\ op'.pc = "apply" /\ heap' = heap
    BY <1>13 DEF OccupiedRemove, EntryDeletePoint, IdleOp
  <2> QED  BY <2>1, SilentStep
<1>14. CASE Release
  <2>1. op.pc \notin {"done", "dealloc"} /\ op'.pc = "idle" /\ heap' = heap
    BY <1>14 DEF Release, IdleOp, EntriesInvariant, EntryInvariant, Held
  <2> QED  BY <2>1, SilentStep
<1>15. CASE GotVacant  BY <1>3, <1>15 DEF GotVacant
<1>16. CASE UNCHANGED entryVars  BY <1>3, <1>16 DEF entryVars, vars
<1> QED
  BY <1>2, <1>3, <1>4, <1>5, <1>6, <1>7, <1>8, <1>9, <1>10, <1>11, <1>12, <1>13, <1>14,
     <1>15, <1>16
  DEF EntryNext

(* Through its entries the map is the same dictionary: what is inserted,   *)
(* read, written and removed through an entry is what try_insert, get,     *)
(* get_mut and remove_entry would have done for its key.                   *)
THEOREM EntriesImplementDictionary == ~RemovesInserted => (EntrySpec => ImplementsDictionary)
<1>1. SUFFICES ASSUME ~RemovesInserted PROVE EntrySpec => ImplementsDictionary  OBVIOUS
<1>2. EntryInit => Dictionary!Init  BY DictionaryInit DEF EntryInit
<1>3. EntriesInvariant /\ [EntryNext]_entryVars =>
        [Dictionary!Next]_<<AbstractMap, AbstractRet>>
  BY <1>1, EntryStepIsAnswered
<1>4. [Dictionary!Next]_<<AbstractMap, AbstractRet>> <=> [Dictionary!Next]_(Dictionary!mapVars)
  BY DEF Dictionary!mapVars
<1> QED
  BY <1>1, <1>2, <1>3, <1>4, EntriesHold, PTL
  DEF EntrySpec, ImplementsDictionary, Dictionary!Spec
=============================================================================
