-------------------------- MODULE VisitorInvariant --------------------------
(***************************************************************************)
(* The inductive invariant of the visitors.  A walk over the tree divides  *)
(* its nodes in three: those it has done with, those on the way from the   *)
(* root to where it is, and those that are ahead.  What a visitor has      *)
(* counted is what it has done with.                                       *)
(***************************************************************************)
EXTENDS Visitors, TreeMapInvariant

(* The frames as the walk sees them: the nodes on the way, each with the   *)
(* bytes of the children that are still to be visited.                     *)
Trail(frames) == [i \in DOMAIN frames |-> [node |-> frames[i].node, todo |-> frames[i].todo]]

Stop == [node : DOMAIN heap, todo : Seq(Byte)]

ToVisit(stop) == {stop.todo[i] : i \in DOMAIN stop.todo}

(* x is below a child of the stop that is not to be visited any more.      *)
Passes(stop, x) ==
  \E b \in ChildBytes(stop.node) \ ToVisit(stop) : IsPrefix(Append(stop.node.at, b), x.at)

StopHolds(stop) ==
  /\ IsInner(stop.node)
  /\ ToVisit(stop) \subseteq ChildBytes(stop.node)
  /\ \A i, j \in DOMAIN stop.todo : stop.todo[i] = stop.todo[j] => i = j

TrailHolds(trail, node) ==
  /\ trail \in Seq(Stop)
  /\ \A i \in DOMAIN trail : StopHolds(trail[i])
  /\ \A i, j \in DOMAIN trail : i < j => Passes(trail[i], trail[j].node)
  /\ node \in DOMAIN heap \cup {None}
  /\ node # None => \A i \in DOMAIN trail : Passes(trail[i], node)
  /\ node = None => trail # << >>

(* What is left to visit, and what the walk has done with.                 *)
AheadOf(stop, x) == \E b \in ToVisit(stop) : IsPrefix(Append(stop.node.at, b), x.at)
Ahead(trail, node) ==
  {x \in DOMAIN heap : \/ node # None /\ IsPrefix(node.at, x.at)
                       \/ \E i \in DOMAIN trail : AheadOf(trail[i], x)}
Walked(trail, node) ==
  {x \in DOMAIN heap : x \notin Ahead(trail, node) /\ \A i \in DOMAIN trail : x # trail[i].node}
-----------------------------------------------------------------------------
(* The one node the well-formedness checker refuses.                       *)
Overfull(n) == n.type = "Node256" /\ IsFull(n.type, heap[n])
SomeOverfull == \E n \in Inners(heap) : Overfull(n)

CheckerFrame ==
  [node : DOMAIN heap, todo : Seq(Byte), original_key_prefix_len : Nat, num_children : Nat]
CheckerVisit ==
  [pc : {"visiting"}, visitor : {"WellFormedChecker"}, node : DOMAIN heap \cup {None},
   frames : Seq(CheckerFrame), current_key_prefix : ByteString,
   seen_nodes : SUBSET DOMAIN heap, count : Nat, result : {None}]

(* The depth a frame was entered with, and the children counted in it: all *)
(* but those to be visited and the one that is being visited.              *)
FrameHolds(frames, node, i) ==
  /\ frames[i].original_key_prefix_len = IF i = 1 THEN 0 ELSE Len(frames[i - 1].node.at) + 1
  /\ frames[i].num_children + Len(frames[i].todo)
       + (IF i = Len(frames) /\ node = None THEN 0 ELSE 1) = Cardinality(ChildBytes(frames[i].node))

PrefixHolds(frames, node, prefix) ==
  /\ node = None => prefix = Last(frames).node.at
  /\ node # None =>
       /\ IsPrefix(prefix, node.at)
       /\ IF frames = << >> THEN prefix = << >> ELSE Len(prefix) = Len(Last(frames).node.at) + 1
       /\ IsInner(node) => Represents(heap[node].header, DropFirst(node.at, Len(prefix)))

CheckerHolds(v) ==
  /\ v \in CheckerVisit
  /\ TrailHolds(Trail(v.frames), v.node)
  /\ \A i \in DOMAIN v.frames : FrameHolds(v.frames, v.node, i)
  /\ PrefixHolds(v.frames, v.node, v.current_key_prefix)
  /\ v.seen_nodes = {x \in DOMAIN heap : x \in Ahead(Trail(v.frames), v.node) => x = v.node}
  /\ v.count = Cardinality(Walked(Trail(v.frames), v.node))
  /\ \A n \in Walked(Trail(v.frames), v.node) : IsInner(n) => ~Overfull(n)

CheckerAnswer ==
  IF SomeOverfull THEN <<"Err", "WrongChildrenCount">> ELSE Passed(Cardinality(DOMAIN heap))
-----------------------------------------------------------------------------
StatsType == [DOMAIN NoStats -> Nat]
LeafStatsType == [count : Nat, sum_key_bytes : Nat]

CounterFrame == [node : DOMAIN heap, todo : Seq(Byte), accum : Nat \cup {None}]
CounterVisit ==
  [pc : {"visiting"}, visitor : Counters, node : DOMAIN heap \cup {None},
   frames : Seq(CounterFrame), types : [InnerType -> StatsType], tree : StatsType,
   leaf : LeafStatsType, result : {None}]

StartsAtRoot(frames, node) ==
  (IF frames = << >> THEN node ELSE frames[1].node) = root

(* The leaves a frame has the sum of: those the walk has done with below   *)
(* its node, without those of the frames above it on the stack.            *)
Gathered(frames, node, i) ==
  {x \in Walked(Trail(frames), node) :
     /\ IsLeaf(x) /\ IsPrefix(frames[i].node.at, x.at)
     /\ i < Len(frames) => ~IsPrefix(frames[i + 1].node.at, x.at)}

AccumHolds(frames, node, i) ==
  LET accum == frames[i].accum
  IN  IF accum = None THEN Gathered(frames, node, i) = {}
      ELSE accum = Cardinality(Gathered(frames, node, i))

NoneOverused(stats) ==
  /\ stats["sum_slots"] <= stats["total_slots"]
  /\ stats["sum_capped_prefix_len_bytes"] <= stats["total_header_bytes"]

ChildrenOfAll(N) == UNION {{Child(n, b) : b \in ChildBytes(n)} : n \in {m \in N : IsInner(m)}}

LeavesTallied(stats, N) ==
  LET leaves == {x \in N : IsLeaf(x)}
  IN  /\ stats.count = Cardinality(leaves)
      /\ stats.sum_key_bytes = KeyBytes({heap[x].key : x \in leaves})

NodesTallied(types, tree, N) ==
  /\ NoneOverused(tree) /\ \A type \in InnerType : NoneOverused(types[type])
  /\ tree = TotalOf(types)
  /\ tree["sum_slots"] = Cardinality(ChildrenOfAll(N))
  /\ IsLongestPath(tree["max_prefix_len_bytes"], {n \in N : IsInner(n)})

CounterHolds(v) ==
  /\ v \in CounterVisit
  /\ TrailHolds(Trail(v.frames), v.node)
  /\ StartsAtRoot(v.frames, v.node)
  /\ v.visitor = "LeafNodeCounter" =>
       \A i \in DOMAIN v.frames : AccumHolds(v.frames, v.node, i)
  /\ v.visitor = "TreeStatsCollector" =>
       /\ LeavesTallied(v.leaf, Walked(Trail(v.frames), v.node))
       /\ NodesTallied(v.types, v.tree, Walked(Trail(v.frames), v.node))

VisitorInvariant ==
  /\ visit.pc \in {"none", "visiting", "done"}
  /\ visit.pc # "none" =>
       /\ op.pc = "idle"
       /\ visit.visitor \in Counters \cup {"WellFormedChecker"}
  /\ visit.pc = "visiting" =>
       IF visit.visitor = "WellFormedChecker" THEN CheckerHolds(visit) ELSE CounterHolds(visit)
  /\ Visited("WellFormedChecker") => visit.result = CheckerAnswer
  /\ Visited("LeafNodeCounter") => visit.result = Cardinality(Leaves(heap))
  /\ Visited("TreeStatsCollector") =>
       /\ visit.types \in [InnerType -> StatsType] /\ visit.tree \in StatsType
       /\ LeavesTallied(visit.leaf, DOMAIN heap)
       /\ NodesTallied(visit.types, visit.tree, DOMAIN heap)
=============================================================================
