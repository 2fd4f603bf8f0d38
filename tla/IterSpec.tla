------------------------------ MODULE IterSpec ------------------------------
(***************************************************************************)
(* What the iterators of TreeMap promise (src/collections/map/iterators):  *)
(* an iterator opened with a query yields the matching keys of the map,    *)
(* each once, in order, from either end; once nothing is left it answers   *)
(* None again and again (FusedIterator).  While it is open it borrows the  *)
(* map, so the keys cannot change, or owns it: then a key that is yielded  *)
(* is gone, and the others are gone with the iterator.                     *)
(***************************************************************************)
EXTENDS ByteStrings

CONSTANTS
  Queries,   (* what an iterator can be opened with                       *)
  Matching,  (* the keys each of them selects                             *)
  Upward,    (* the queries whose next goes from the smallest key up      *)
  BothEnds,  (* the queries that have a next_back                         *)
  Owning,    (* the queries that take the map: it ends with the iterator  *)
  None

VARIABLES
  keys,   (* the keys of the map                                          *)
  query,  (* what the open iterator was opened with, or None              *)
  left,   (* the keys it has still to yield                               *)
  ret     (* the answer of next or next_back, until the caller takes it   *)

iterVars == <<keys, query, left, ret>>

FirstOf(S) == CHOOSE k \in S : \A j \in S \ {k} : LexLess(k, j)
LastOf(S)  == CHOOSE k \in S : \A j \in S \ {k} : LexLess(j, k)
-----------------------------------------------------------------------------
Init == keys = {} /\ query = None /\ left = {} /\ ret = None

(* The map is used in other ways. *)
OtherCall == query = None /\ UNCHANGED <<query, left, ret>>

Open(q) ==
  /\ query = None
  /\ query' = q
  /\ left' = keys \cap Matching[q]
  /\ UNCHANGED <<keys, ret>>

Yield(end, k) ==
  /\ ret' = [end |-> end, out |-> k]
  /\ left' = left \ {k}
  /\ keys' = IF query \in Owning THEN keys \ {k} ELSE keys

Advance(end, takesFirst) ==
  /\ query # None /\ ret = None
  /\ IF left = {} THEN Yield(end, None)
     ELSE Yield(end, IF takesFirst THEN FirstOf(left) ELSE LastOf(left))
  /\ UNCHANGED query

Taken == ret # None /\ ret' = None /\ UNCHANGED <<keys, query, left>>

Drop ==
  /\ query # None /\ ret = None
  /\ query' = None /\ left' = {}
  /\ keys' = IF query \in Owning THEN {} ELSE keys
  /\ UNCHANGED ret

Next ==
  \/ OtherCall
  \/ \E q \in Queries : Open(q)
  \/ Advance("next", query \in Upward)
  \/ query \in BothEnds /\ Advance("next_back", query \notin Upward)
  \/ Taken \/ Drop

Spec == Init /\ [][Next]_iterVars
=============================================================================
