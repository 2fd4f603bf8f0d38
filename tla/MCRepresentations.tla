------------------------- MODULE MCRepresentations -------------------------
(***************************************************************************)
(* Every form of key, with integers of one to three bytes of four values;  *)
(* and three nodes in a memory of 64 bytes, in maps whose keys and values  *)
(* need less, as much and more alignment than a node.                      *)
(***************************************************************************)
EXTENDS Representations

FourBytes == 0 .. 3

KeyTypes ==
  {Scalar(Unsigned(3)), Scalar(Signed(3)), Scalar(NonZero(Signed(2))), Scalar(NonZero(Unsigned(2))),
   Array(Signed(1), 2), Array(NonZero(Signed(1)), 3), Octets(2),
   Tuple(<<Signed(2), Unsigned(1)>>), Tuple(<<Unsigned(1), NonZero(Signed(1)), Unsigned(2)>>),
   Vector(Unsigned(1)), Vector(Signed(2)), Str, CStr, Native(Signed(2), 1), Native(Unsigned(1), 2)}

PathTypes == {Path}
=============================================================================
