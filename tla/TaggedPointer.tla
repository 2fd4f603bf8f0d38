--------------------------- MODULE TaggedPointer ---------------------------
(***************************************************************************)
(* TaggedPointer<P, MIN_BITS> (src/tagged_pointer.rs): an address with     *)
(* data in the bits that the alignment of P leaves zero.  A word is the    *)
(* number of the address with its data; an alignment is a power of two, so *)
(* that the bits of DATA_MASK are the remainder and those of POINTER_MASK  *)
(* the rest.  P is represented by its alignment.                           *)
(***************************************************************************)
EXTENDS Naturals

CONSTANTS
  MIN_BITS,  (* the bits of data every pointed-to type has to leave        *)
  Panic      (* the outcome of a failed assertion                          *)

ASSUME MinBitsAssumption == MIN_BITS \in Nat /\ Panic \notin Nat
-----------------------------------------------------------------------------
(* NUM_BITS exists for a type whose alignment leaves enough bits.          *)
HasBits(align) == 2 ^ MIN_BITS <= align

ToData(word, align) == word % align

(* Mutant of ToPtr: the data stays in the pointer. *)
ToPtrTagged(word, align) == word

ToPtr(word, align) == word - (word % align)

NewUnchecked(ptr, align) == IF ToData(ptr, align) = 0 THEN ptr ELSE Panic

SetData(word, data, align) ==
  IF ToPtr(data, align) # 0 THEN Panic ELSE ToPtr(word, align) + data

(* cast::<Q>: from the alignment of P to that of Q. *)
Cast(word, from, to) ==
  LET new == NewUnchecked(ToPtr(word, from), to)
  IN  IF new = Panic THEN Panic ELSE SetData(new, ToData(word, from), to)
=============================================================================
