----------------------------- MODULE NodeRange -----------------------------
(***************************************************************************)
(* InnerNode::range: the children under the key bytes within a pair of     *)
(* bounds.  A compressed node translates the bounds to positions of its    *)
(* sorted keys with find_write_point, the others use the bytes as indices. *)
(***************************************************************************)
EXTENDS NodeLayout

(* Arrays that are indexed by bytes have one slot for each.                *)
ASSUME RangeAssumption == Byte = 0 .. Cardinality(Byte) - 1

Unbounded == [kind |-> "Unbounded"]
Bounds == [kind : {"Included", "Excluded"}, byte : Byte] \cup {Unbounded}

(* A slice with the given bounds that starts behind its end, or ends       *)
(* behind the array, panics.                                               *)
Panic == None

(* The position a bound stands for, in an array that is indexed by bytes   *)
(* or, in inner_range_iter, by the write point of the byte.                *)
Position(nd, bound) ==
  IF IsCompressed(nd) THEN FindWritePoint(nd, bound.byte).at ELSE bound.byte

Length(nd) == IF IsCompressed(nd) THEN nd.num_children ELSE Cardinality(Byte)

SliceStart(nd, start) ==
  CASE start.kind = "Included"  -> Position(nd, start)
    [] start.kind = "Excluded"  -> Position(nd, start) + 1
    [] start.kind = "Unbounded" -> 0
SliceEnd(nd, end) ==
  CASE end.kind = "Included"  -> Position(nd, end) + 1
    [] end.kind = "Excluded"  -> Position(nd, end)
    [] end.kind = "Unbounded" -> Length(nd)

(* Mutant of KeyOffset: the excluded byte itself is the first.             *)
KeyOffsetIncluded(start) == IF start.kind = "Unbounded" THEN 0 ELSE start.byte

(* key_offset of the ranges that are indexed by bytes; the byte is a u8    *)
(* and saturates.                                                          *)
KeyOffset(start) ==
  CASE start.kind = "Included"  -> start.byte
    [] start.kind = "Excluded"  -> Lesser(start.byte + 1, Cardinality(Byte) - 1)
    [] start.kind = "Unbounded" -> 0

RangeIter(nd, start, end) ==
  LET from  == SliceStart(nd, start)
      to    == SliceEnd(nd, end)
      slots == Ascending(Occupied(nd) \cap (from .. to - 1))
  IN  IF from > to \/ to > Length(nd) THEN Panic
      ELSE IF IsCompressed(nd) THEN SubSeq(Iter(nd), from + 1, to)
      ELSE [i \in DOMAIN slots |->
              <<Lesser(KeyOffset(start) + (slots[i] - from), Cardinality(Byte) - 1),
                LookupChild(nd, slots[i])>>]
-----------------------------------------------------------------------------
(* The bytes within the bounds, and the bounds for which a range is        *)
(* defined: as for a BTreeMap, the start is not behind the end, and they   *)
(* do not exclude one and the same byte.                                   *)
Within(byte, start, end) ==
  /\ start.kind = "Included" => start.byte <= byte
  /\ start.kind = "Excluded" => start.byte < byte
  /\ end.kind = "Included" => byte <= end.byte
  /\ end.kind = "Excluded" => byte < end.byte

Ordered(start, end) ==
  (start # Unbounded /\ end # Unbounded) =>
    /\ start.byte <= end.byte
    /\ start.kind = "Excluded" /\ end.kind = "Excluded" => start.byte < end.byte

(* The children under the bytes within the bounds, in order. *)
Restriction(nd, start, end) ==
  PairsAt({b \in Byte : LookupChild(nd, b) # None /\ Within(b, start, end)}, nd)

RangeIsRestriction(start, end) == RangeIter(node, start, end) = Restriction(node, start, end)

(* An excluded start is at a child, and so is an included end.             *)
MeetsChildren(nd, start, end) ==
  /\ start.kind = "Excluded" => LookupChild(nd, start.byte) # None
  /\ end.kind = "Included" => LookupChild(nd, end.byte) # None

(* A range is the part of the iteration within its bounds, for a node that *)
(* is indexed by bytes, and for a compressed node when the bounds it takes *)
(* for positions are at children.                                          *)
RangesAreExact ==
  node # None =>
    \A start, end \in Bounds :
      (Ordered(start, end) /\ (IsCompressed(node) => MeetsChildren(node, start, end)))
        => RangeIsRestriction(start, end)

(* The trait says of range: "an iterator over a subset of (key bytes,      *)
(* child pointers), using the given bound as a restriction on the set of   *)
(* key bytes" (representation.rs:689), of every node and every bound.      *)
RangeRespectsBounds ==
  node # None =>
    \A start, end \in Bounds : Ordered(start, end) => RangeIsRestriction(start, end)
=============================================================================
