----------------------------- MODULE MCVisitors -----------------------------
(* The instances of MCTreeMap, with the visitors.                          *)
EXTENDS MCTreeMap, VisitorInvariant

(* As SmallCapacity, with a Node256 that the bytes cannot fill.            *)
RoomyCapacity == [SmallCapacity EXCEPT !["Node256"] = 7]
=============================================================================
