------------------------------ MODULE EntryApi ------------------------------
(***************************************************************************)
(* The entry API of TreeMap: try_entry and try_entry_ref (map.rs), Entry,  *)
(* OccupiedEntry and VacantEntry (map/entry.rs), and their twins for       *)
(* borrowed keys (map/entry_ref.rs).                                       *)
(*                                                                         *)
(* try_entry is the search of try_insert, cut in two: what the search has  *)
(* found is handed to the caller and used later.  The map stays borrowed,  *)
(* so nothing changes the tree between the two halves, except the entry    *)
(* itself.  The value the caller might insert is chosen when it asks for   *)
(* the entry; nothing depends on it before it is used.                     *)
(***************************************************************************)
EXTENDS TreeMapProperties

(* Callers remove, through the entry that VacantEntry::insert_entry        *)
(* returns, what they have just inserted.                                  *)
CONSTANT RemovesInserted

ASSUME RemovesInsertedAssumption == RemovesInserted \in BOOLEAN

VARIABLE entry  (* the entry the caller holds, or asks for *)

entryVars == <<heap, root, num_entries, op, entry>>

(***************************************************************************)
(* state: "none"; "searching" in search_for_insert_point; "vacant" with    *)
(* the insert point in op; "vacant_root" without one, on an empty map;     *)
(* "occupied" with the leaf and the edges above it.  `inserted' is TRUE of *)
(* an occupied entry that was made of an insert point.                     *)
(***************************************************************************)
NoEntry ==
  [state |-> "none", key |-> << >>, value |-> None, leaf |-> None,
   parent |-> None, grandparent |-> None, inserted |-> FALSE]

Held(state) == entry.state = state

Asked(state, k, v) == [NoEntry EXCEPT !.state = state, !.key = k, !.value = v]

(* OccupiedEntry *)
Occupied(leaf, parent, grandparent, inserted) ==
  [NoEntry EXCEPT !.state = "occupied", !.key = leaf.at, !.leaf = leaf,
                  !.parent = parent, !.grandparent = grandparent, !.inserted = inserted]
-----------------------------------------------------------------------------
EntryInit == Init /\ entry = NoEntry

(* The other calls of the map, when no entry is held. *)
OtherCall == Held("none") /\ Next /\ UNCHANGED entry

(* try_entry *)
TryEntry(k, v) ==
  /\ Held("none") /\ op.pc = "idle" /\ root # None
  /\ op' = Start("try_insert", k, v)
  /\ entry' = Asked("searching", k, v)
  /\ UNCHANGED <<heap, root, num_entries>>

TryEntryOnEmpty(k, v) ==
  /\ Held("none") /\ op.pc = "idle" /\ root = None
  /\ entry' = Asked("vacant_root", k, v)
  /\ UNCHANGED vars

(* One step of search_for_insert_point; an error ends try_entry. *)
SearchEntry ==
  /\ Held("searching") /\ Search
  /\ entry' = IF op'.pc = "done" THEN NoEntry ELSE entry

(* Mutant of FoundEntry: the two edges are swapped.                        *)
FoundEntrySwapped == Occupied(op.node, op.grandparent, op.parent, FALSE)

FoundEntry == Occupied(op.node, op.parent, op.grandparent, FALSE)

(* The match on insert_type: Exact gives an occupied entry, all others a   *)
(* vacant one that keeps the insert point.                                 *)
GotOccupied ==
  /\ Held("searching") /\ Applying("Exact")
  /\ entry' = FoundEntry
  /\ op' = IdleOp
  /\ UNCHANGED <<heap, root, num_entries>>

GotVacant ==
  /\ Held("searching") /\ op.pc = "apply" /\ ~Applying("Exact")
  /\ entry' = [entry EXCEPT !.state = "vacant"]
  /\ UNCHANGED vars

(* VacantEntry::insert_entry, insert and the or_* methods: the edges of    *)
(* the insert point become those of the occupied entry.                    *)
VacantInsert ==
  /\ Held("vacant") /\ ApplyInsert
  /\ entry' = Occupied(NewLeaf, op.parent, op.grandparent, TRUE)

VacantInsertRoot ==
  /\ Held("vacant_root") /\ InitTree(entry.key, entry.value)
  /\ entry' = Occupied(Pointer("Leaf", entry.key), None, None, FALSE)

(* The answer of an insertion or of a write reaches the caller. *)
EntryReturn == Held("occupied") /\ Return /\ UNCHANGED entry

(* OccupiedEntry::get and key *)
OccupiedGet ==
  /\ Held("occupied") /\ op.pc = "idle"
  /\ op' = Done("get", entry.key, None, Some(heap[entry.leaf].value))
  /\ UNCHANGED <<heap, root, num_entries, entry>>

(* OccupiedEntry::insert, and writes through get_mut, into_mut and         *)
(* and_modify.                                                             *)
OccupiedInsert(v) ==
  /\ Held("occupied") /\ op.pc = "idle"
  /\ heap' = [heap EXCEPT ![entry.leaf].value = v]
  /\ op' = Done("get_mut", entry.key, v, Some(heap[entry.leaf].value))
  /\ UNCHANGED <<root, num_entries, entry>>

(* Mutant of EntryDeletePoint: the leaf is taken for the root.             *)
EntryDeletePointOfRoot ==
  [IdleOp EXCEPT !.pc = "apply", !.call = "remove_entry", !.key = entry.key,
                 !.node = entry.leaf, !.point = [kind |-> "Delete"]]

EntryDeletePoint ==
  [IdleOp EXCEPT !.pc = "apply", !.call = "remove_entry", !.key = entry.key,
                 !.node = entry.leaf, !.point = [kind |-> "Delete"],
                 !.parent = entry.parent, !.grandparent = entry.grandparent]

(* OccupiedEntry::remove_entry and remove: a delete point is made of the   *)
(* pointers the entry was created with, and applied.                       *)
OccupiedRemove ==
  /\ Held("occupied") /\ op.pc = "idle"
  /\ entry.inserted => RemovesInserted
  /\ op' = EntryDeletePoint
  /\ entry' = NoEntry
  /\ UNCHANGED <<heap, root, num_entries>>

(* The entry is dropped, or turned into its key. *)
Release ==
  /\ entry.state \in {"vacant", "vacant_root", "occupied"} /\ op.pc # "done"
  /\ entry' = NoEntry
  /\ op' = IdleOp
  /\ UNCHANGED <<heap, root, num_entries>>

EntryNext ==
  \/ OtherCall
  \/ \E k \in Keys, v \in Values : TryEntry(k, v) \/ TryEntryOnEmpty(k, v)
  \/ SearchEntry \/ GotOccupied \/ GotVacant
  \/ VacantInsert \/ VacantInsertRoot \/ EntryReturn
  \/ OccupiedGet \/ OccupiedRemove \/ Release
  \/ \E v \in Values : OccupiedInsert(v)

EntrySpec == EntryInit /\ [][EntryNext]_entryVars
-----------------------------------------------------------------------------
(* The edges lead from the root's side to the leaf. *)
EdgesLeadTo(leaf, parent, grandparent) ==
  /\ parent = None => leaf = root /\ grandparent = None
  /\ parent # None =>
       /\ parent.node \in DOMAIN heap /\ parent.byte \in ChildBytes(parent.node)
       /\ Child(parent.node, parent.byte) = leaf
       /\ grandparent = None => parent.node = root
       /\ grandparent # None =>
            /\ grandparent.node \in DOMAIN heap
            /\ grandparent.byte \in ChildBytes(grandparent.node)
            /\ Child(grandparent.node, grandparent.byte) = parent.node

(* An occupied entry refers to the live leaf of its key, and one that was  *)
(* found by a search still has the edges above it, whatever was written    *)
(* through it; a vacant entry's insert point still fits the tree.          *)
EntryIsCurrent ==
  /\ Held("occupied") =>
       /\ entry.leaf \in DOMAIN heap /\ heap[entry.leaf].key = entry.key
       /\ ~entry.inserted => EdgesLeadTo(entry.leaf, entry.parent, entry.grandparent)
  /\ Held("vacant") => PointsAreApplicable /\ SearchKeepsItsPath /\ entry.key \notin StoredKeys
  /\ Held("vacant_root") => root = None

(* DeletePoint says of its parent: "If the leaf node to delete is also the *)
(* root, then this value is `None`", and of both that they are the parent  *)
(* and grandparent "of the leaf that will be deleted" (delete.rs:203).     *)
DeletePointIsCurrent ==
  Applying("Delete") => EdgesLeadTo(op.node, op.parent, op.grandparent)
=============================================================================
