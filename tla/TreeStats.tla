----------------------------- MODULE TreeStats -----------------------------
(***************************************************************************)
(* The two visitors that count (src/nodes/visitor/tree_stats.rs):          *)
(* TreeStatsCollector gathers how many nodes of each type there are, how   *)
(* full they are and how long their paths; LeafNodeCounter only counts the *)
(* leaves.  Both leave the walk to super_visit_with, which visits the      *)
(* children of a node in order and combines their outputs.  Bytes of       *)
(* memory (mem_usage) are left out.                                        *)
(***************************************************************************)
EXTENDS VisitCall

(* A frame has no output yet: an Option. *)
ASSUME CountAssumption == None \notin Nat

NoStats ==
  [count |-> 0, total_slots |-> 0, sum_slots |-> 0, total_header_bytes |-> 0,
   sum_prefix_len_bytes |-> 0, sum_capped_prefix_len_bytes |-> 0, max_prefix_len_bytes |-> 0]

TypeStats == [type \in InnerType |-> NoStats]
LeafStats == [count |-> 0, sum_key_bytes |-> 0]

Larger(a, b) == IF a < b THEN b ELSE a

(* Mutant of Aggregated: the length of the path is not capped.             *)
AggregatedUncapped(stats, n) ==
  LET header == heap[n].header
  IN  [count |-> stats.count + 1,
       total_slots |-> stats.total_slots + UpperCapacity[n.type],
       sum_slots |-> stats.sum_slots + NumChildren(heap[n]),
       total_header_bytes |-> stats.total_header_bytes + PREFIX_LEN,
       sum_prefix_len_bytes |-> stats.sum_prefix_len_bytes + header.prefix_len,
       sum_capped_prefix_len_bytes |-> stats.sum_capped_prefix_len_bytes + header.prefix_len,
       max_prefix_len_bytes |-> Larger(stats.max_prefix_len_bytes, header.prefix_len)]

(* InnerNodeStats::aggregate_data *)
Aggregated(stats, n) ==
  LET header == heap[n].header
  IN  [count |-> stats.count + 1,
       total_slots |-> stats.total_slots + UpperCapacity[n.type],
       sum_slots |-> stats.sum_slots + NumChildren(heap[n]),
       total_header_bytes |-> stats.total_header_bytes + PREFIX_LEN,
       sum_prefix_len_bytes |-> stats.sum_prefix_len_bytes + header.prefix_len,
       sum_capped_prefix_len_bytes |->
         stats.sum_capped_prefix_len_bytes + CappedPrefixLen(header),
       max_prefix_len_bytes |-> Larger(stats.max_prefix_len_bytes, header.prefix_len)]

(* The sum of two InnerNodeStats. *)
Add(a, b) ==
  [field \in DOMAIN a |-> IF field = "max_prefix_len_bytes" THEN Larger(a[field], b[field])
                          ELSE a[field] + b[field]]

FreeSlots(stats) == stats.total_slots - stats.sum_slots
FreeHeaderBytes(stats) == stats.total_header_bytes - stats.sum_capped_prefix_len_bytes
-----------------------------------------------------------------------------
Counters == {"TreeStatsCollector", "LeafNodeCounter"}
Counting == visit.pc = "visiting" /\ visit.visitor \in Counters

Counter(visitor) ==
  [pc |-> "visiting", visitor |-> visitor, node |-> root, frames |-> << >>,
   types |-> TypeStats, tree |-> NoStats, leaf |-> LeafStats, result |-> None]

(* TreeStatsCollector::collect and count_leaf_nodes *)
StartCounting(visitor) ==
  /\ CanVisit
  /\ visit' = IF root # None THEN Counter(visitor)
              ELSE [Counter(visitor) EXCEPT
                      !.pc = "done", !.result = IF visitor = "LeafNodeCounter" THEN 0 ELSE None]
  /\ UNCHANGED vars

(* visit_node4 and the others, up to the visit of the first child; accum   *)
(* is the combined output of the children visited so far.                  *)
EnterNode ==
  /\ Counting /\ visit.node # None /\ IsInner(visit.node)
  /\ visit' = [visit EXCEPT
                 !.node = None,
                 !.frames = Append(@, [node |-> visit.node, todo |-> BytesInOrder(visit.node),
                                       accum |-> None])]
  /\ UNCHANGED vars

NextChild ==
  /\ Counting /\ visit.node = None /\ Top.todo # << >>
  /\ visit' = [visit EXCEPT !.node = Child(Top.node, Head(Top.todo)),
                            !.frames = WithTop([Top EXCEPT !.todo = Tail(@)])]
  /\ UNCHANGED vars

(* Mutant of Combined: the output of the last child is taken for all.      *)
CombinedLast(accum, output) == output

(* The first output is taken, later ones are combined with it: added up by *)
(* LeafNodeCounter, while TreeStatsCollector has none.                     *)
Combined(accum, output) == IF accum = None THEN output ELSE accum + output

WithOutput(frame, output) == [frame EXCEPT !.accum = Combined(@, output)]

(* A visit has ended with an output. *)
Output(v, output) ==
  IF v.frames = << >> THEN [v EXCEPT !.pc = "done", !.node = None, !.result = output]
  ELSE [v EXCEPT !.node = None,
                 !.frames = Append(Front(@), WithOutput(Last(@), output))]

CountLeaf ==
  /\ Counting /\ visit.node # None /\ IsLeaf(visit.node)
  /\ visit' = IF visit.visitor = "LeafNodeCounter" THEN Output(visit, 1)
              ELSE Output([visit EXCEPT !.leaf.count = @ + 1,
                                        !.leaf.sum_key_bytes = @ + Len(heap[visit.node].key)],
                          0)
  /\ UNCHANGED vars

LeaveNode ==
  LET n == Top.node
      left == [visit EXCEPT !.frames = Front(@)]
  IN  /\ Counting /\ visit.node = None /\ Top.todo = << >>
      /\ visit' = IF visit.visitor = "LeafNodeCounter" THEN Output(left, Top.accum)
                  ELSE Output([left EXCEPT !.types[n.type] = Aggregated(@, n),
                                           !.tree = Aggregated(@, n)],
                              0)
      /\ UNCHANGED vars

CountStep ==
  \/ \E visitor \in Counters : StartCounting(visitor)
  \/ EnterNode \/ NextChild \/ CountLeaf \/ LeaveNode
-----------------------------------------------------------------------------
KeyBytes(keys) == MapThenSumSet(Len, keys)
TotalOf(types) == FoldFunctionOnSet(Add, NoStats, types, InnerType)

(* No path to one of the nodes is longer; 0 also when there is no node. *)
IsLongestPath(len, nodes) ==
  /\ \A n \in nodes : heap[n].header.prefix_len <= len
  /\ len = 0 \/ \E n \in nodes : heap[n].header.prefix_len = len

Collected == Visited("TreeStatsCollector") /\ root # None

(* What the two visitors say of a tree is true of it, whatever calls built *)
(* it: the entries are counted, the whole is the sum of the node types (as *)
(* the tests of tree_stats.rs have it), and every node but the root fills  *)
(* one slot of another.  The longest path is that of some node.            *)
StatsAreExact ==
  /\ Visited("LeafNodeCounter") => visit.result = num_entries
  /\ Collected =>
       /\ visit.leaf.count = num_entries
       /\ visit.leaf.sum_key_bytes = KeyBytes(StoredKeys)
       /\ visit.tree = TotalOf(visit.types)
       /\ visit.tree.sum_slots = Cardinality(DOMAIN heap) - 1
       /\ IsLongestPath(visit.tree.max_prefix_len_bytes, Inners(heap))

(* free_slots and free_header_bytes subtract unsigned numbers: at no point *)
(* of the walk is there more in use than there is.                         *)
NothingIsOverused ==
  visit.pc # "none" /\ visit.visitor = "TreeStatsCollector" =>
    \A stats \in {visit.tree} \cup {visit.types[type] : type \in InnerType} :
      FreeSlots(stats) >= 0 /\ FreeHeaderBytes(stats) >= 0
=============================================================================
