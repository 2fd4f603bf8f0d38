-------------------------- MODULE Representations --------------------------
(***************************************************************************)
(* The two representations a tree is built on, side by side: keys as bytes *)
(* (BytesMapping) and nodes as tagged words (NodePointers).  Neither knows *)
(* of the other; a behaviour is about one of them at a time.               *)
(***************************************************************************)
EXTENDS BytesMapping, NodePointers

RepresentationsInit == BytesInit /\ PointersInit

RepresentationsNext ==
  \/ entryAlign = Absent /\ BytesNext /\ UNCHANGED pointerVars
  \/ type = None /\ PointersNext /\ UNCHANGED bytesVars

RepresentationsSpec ==
  RepresentationsInit /\ [][RepresentationsNext]_<<bytesVars, pointerVars>>
=============================================================================
