---------------------------- MODULE MapIterators ----------------------------
(***************************************************************************)
(* A map and its iterators: the calls of the map build a tree, an iterator *)
(* of any kind is opened on it, and when the iterator is gone the calls of *)
(* the map go on.                                                          *)
(***************************************************************************)
EXTENDS Iterators, Fuzzy, IntoIter

Queries == WalkQueries \cup FuzzyQueries \cup {Owned}

MapIterNext ==
  \/ OtherCall
  \/ \E query \in WalkQueries : OpenWalk(query)
  \/ \E query \in FuzzyQueries : OpenFuzzy(query)
  \/ OpenOwned
  \/ \E end \in {"next", "next_back"} : Advance(end) \/ AdvanceOwned(end)
  \/ WalkStep \/ FuzzyStep \/ OwnedStep
  \/ Taken \/ Drop

(* None is no iterator, no answer, and not what Some wraps.                *)
ASSUME IteratorAssumption ==
  /\ None \notin Queries
  /\ None \notin [end : {"next", "next_back"}, out : Keys \cup {None}]
  /\ \A entry \in Keys \X Values : None # Some(entry)

MapIterSpec == IterInit /\ [][MapIterNext]_iterVars
-----------------------------------------------------------------------------
(* The keys each query selects, and those the open iterator has not passed.*)
Matching ==
  [q \in Queries |-> IF q = Owned THEN Keys
                     ELSE IF q \in WalkQueries THEN WalkMatching[q] ELSE FuzzyMatching[q]]

(* A map that is being torn down has no entries any more. *)
MapKeys == IF TearingDown THEN {} ELSE StoredKeys

KeysLeft ==
  IF iter.pc = "none" THEN {}
  ELSE Matching[iter.query] \cap (IF Owning THEN MapKeys
                                  ELSE IF iter.query.kind = "fuzzy" THEN KeysToSearch
                                  ELSE KeysToWalk)

Answer ==
  IF iter.pc = "answered" THEN [end |-> iter.end, out |-> iter.out]
  ELSE IF iter.pc = "walking" /\ Owning /\ op.pc = "done"
  THEN [end |-> iter.end, out |-> IF op.out = None THEN None ELSE op.out[2][1]]
  ELSE None

Abstract ==
  INSTANCE IterSpec WITH
    Upward <- WalkQueries \cup {Owned}, BothEnds <- WalkQueries \cup {Owned},
    Owning <- {Owned},
    keys <- MapKeys, query <- iter.query, left <- KeysLeft, ret <- Answer

(* Whatever mixture of next and next_back the caller makes, the two ends   *)
(* yield the matching keys in order, none twice and none left out, also    *)
(* when whole subtrees are skipped because their path differs; a fuzzy     *)
(* iterator yields every key within the edit distance, and from the last   *)
(* to the first (as the examples of TreeMap::fuzzy in map.rs show); an     *)
(* iterator that owns the map takes each key it yields out of it.          *)
ImplementsIterator == Abstract!Spec

(* What size_hint answers from. *)
SizeLeft == IF Owning THEN num_entries ELSE iter.size

(* len of TreeIterator and of IntoIter is the number of entries still to   *)
(* come; the upper bound of the others' size_hint is never too small       *)
(* (prefix.rs counts down the leaves it sees from the size of the whole    *)
(* map); nothing underflows.                                               *)
SizeIsRight ==
  iter.pc # "none" =>
    /\ iter.query.kind \in {"all", "owned"} => SizeLeft = Cardinality(KeysLeft)
    /\ SizeLeft >= Cardinality(KeysLeft)
=============================================================================
