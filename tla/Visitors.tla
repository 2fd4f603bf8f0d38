------------------------------ MODULE Visitors ------------------------------
(***************************************************************************)
(* A map and its visitors: the calls of the map build a tree, a visitor    *)
(* walks it, and when it is done the calls of the map go on.               *)
(***************************************************************************)
EXTENDS WellFormed, TreeStats

VisitNext == OtherCall \/ CheckerStep \/ CountStep \/ Taken

VisitSpec == VisitInit /\ [][VisitNext]_visitVars
=============================================================================
