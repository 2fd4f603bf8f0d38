------------------------------- MODULE Fuzzy -------------------------------
(***************************************************************************)
(* Fuzzy and its twins: the iterators over the keys within a given edit    *)
(* distance of a searched key (iterators/fuzzy.rs).                        *)
(*                                                                         *)
(* The walk keeps a stack of subtrees and, in an arena of its own, a stack *)
(* of rows of the table that dynamic programming fills for the distance:   *)
(* entry j of the row of a subtree is the distance of the bytes that lead  *)
(* to it and the first j bytes of the searched key, so entry 0 is the      *)
(* number of those bytes.  Row entry j of the code is row[j + 1] here.     *)
(* The buffers old_row and new_row hold rows of the running step only.     *)
(*                                                                         *)
(* A step is one turn of the loop of next.                                 *)
(***************************************************************************)
EXTENDS IterCall, EditDistance

CONSTANTS
  SearchKeys,  (* the keys that are searched for           *)
  MaxEdits     (* the bounds on the distance, max_edit_dist *)
ASSUME FuzzyAssumption == SearchKeys \subseteq ByteString /\ MaxEdits \subseteq Nat

Within(key, max) == [kind |-> "fuzzy", key |-> key, max |-> max]
FuzzyQueries == {Within(key, max) : key \in SearchKeys, max \in MaxEdits}

(* Fuzzy::new: one row is pushed, whether or not there is a root. *)
OpenFuzzy(query) ==
  /\ CanOpen
  /\ iter' = Opened(query, root, << [j \in 1 .. Len(query.key) + 1 |-> j - 1] >>)
  /\ UNCHANGED vars
-----------------------------------------------------------------------------
(* Mutant of NextRow: a byte can be inserted or removed, not replaced.     *)
NextRowWithoutReplacing(old, c) ==
  LET key == iter.query.key
      new[j \in DOMAIN old] ==
        IF j = 1 THEN old[1] + 1
        ELSE IF key[j - 1] = c THEN old[j - 1]
        ELSE Lesser(old[j], new[j - 1]) + 1
  IN  new

(* edit_dist: the row after one more byte c. *)
NextRow(old, c) ==
  LET key == iter.query.key
      new[j \in DOMAIN old] ==
        IF j = 1 THEN old[1] + 1
        ELSE IF key[j - 1] = c THEN old[j - 1]
        ELSE Lesser(Lesser(old[j - 1], old[j]), new[j - 1]) + 1
  IN  new

(* The answer of edit_dist: some continuation may still be near enough.    *)
Keep(row) == \E j \in DOMAIN row : row[j] <= iter.query.max

(* The row after the bytes of path, one after the other. *)
RowAfter(row, path) == FoldLeft(NextRow, row, path)

Searching == iter.pc = "walking" /\ iter.query.kind = "fuzzy"

(* fuzzy_search of the inner nodes: the bytes of the prefix, then the      *)
(* children whose row is worth keeping, each with its row.                 *)
FuzzyInner ==
  LET node == Last(iter.nodes)
      old  == Last(iter.arena)
      path == ReadFullPrefix(node, old[1])
      row  == RowAfter(old, path)
      near == Ascending({b \in ChildBytes(node) : Keep(NextRow(row, b))})
      keep == \A i \in DOMAIN path : Keep(RowAfter(old, TakeFirst(path, i)))
  IN  /\ Searching /\ iter.nodes # << >> /\ IsInner(node)
      /\ iter' =
           [iter EXCEPT
              !.nodes =
                Front(@) \o IF keep THEN [i \in DOMAIN near |-> Child(node, near[i])] ELSE << >>,
              !.arena =
                Front(@) \o IF keep THEN [i \in DOMAIN near |-> NextRow(row, near[i])] ELSE << >>]
      /\ UNCHANGED vars

(* fuzzy_search of the leaf: the row after the rest of its key. *)
LeafRow(leaf, old) == RowAfter(old, DropFirst(heap[leaf].key, old[1]))

FuzzyLeaf ==
  LET leaf   == Last(iter.nodes)
      popped == [iter EXCEPT !.nodes = Front(@), !.arena = Front(@), !.size = @ - 1]
  IN  /\ Searching /\ iter.nodes # << >> /\ IsLeaf(leaf)
      /\ iter' = IF Last(LeafRow(leaf, Last(iter.arena))) <= iter.query.max
                  THEN [popped EXCEPT !.pc = "answered", !.out = heap[leaf].key]
                  ELSE popped
      /\ UNCHANGED vars

(* The loop pops both stacks before it looks at either. *)
FuzzyExhausted ==
  /\ Searching /\ iter.nodes = << >>
  /\ iter' = [iter EXCEPT !.pc = "answered",
                            !.arena = IF @ = << >> THEN @ ELSE Front(@)]
  /\ UNCHANGED vars

FuzzyStep == FuzzyInner \/ FuzzyLeaf \/ FuzzyExhausted
-----------------------------------------------------------------------------
FuzzyMatching == [q \in FuzzyQueries |-> {k \in Keys : Distance(q.key, k) <= q.max}]

KeysToSearch ==
  {k \in StoredKeys : \E i \in DOMAIN iter.nodes : IsPrefix(iter.nodes[i].at, k)}

(* The distances the rows stand for, worked out once.                      *)
Heads(S) == UNION {{TakeFirst(s, n) : n \in 0 .. Len(s)} : s \in S}
Distances == [s \in Heads(Keys), t \in Heads(SearchKeys) |-> Distance(s, t)]

(* The arena and the stack of subtrees stay in step (pop_copy is told so   *)
(* by assume!), and each row is the row of its own subtree: its first      *)
(* entry is the number of bytes that lead to the subtree, which the prefix *)
(* and the key of a leaf are sliced with, the others are distances.        *)
RowsBelongToNodes ==
  (iter.nodes # << >> /\ iter.query.kind = "fuzzy") =>
    /\ Len(iter.arena) = Len(iter.nodes)
    /\ \A i \in DOMAIN iter.arena :
         LET node == iter.nodes[i]
             row  == iter.arena[i]
         IN  /\ IF node = root THEN row[1] = 0
                ELSE \E n \in Inners(heap) : row[1] = Len(n.at) + 1 /\ node \in ChildrenOf(n)
             /\ \A j \in DOMAIN row :
                  row[j] = Distances[TakeFirst(node.at, row[1]), TakeFirst(iter.query.key, j - 1)]
=============================================================================
