---------------------------- MODULE ByteStrings ----------------------------
(***************************************************************************)
(* Keys of the tree are read through AsBytes::as_bytes: finite strings of  *)
(* bytes, compared byte by byte.  This module names what the algorithms of *)
(* src/nodes/operations do with them.  A sequence of TLA+ is indexed from  *)
(* 1, a slice of the code from 0: byte `i' of the code is s[i + 1] here.   *)
(***************************************************************************)
EXTENDS Integers, FiniteSets, SequencesExt

CONSTANT Byte  (* the values of one byte; 0 .. 255 in the code *)

ASSUME ByteAssumption == Byte \subseteq Nat /\ 0 \in Byte

ByteString == Seq(Byte)

Lesser(m, n) == IF m <= n THEN m ELSE n

(* The slices s[n..] and s[..n]. *)
DropFirst(s, n) == SubSeq(s, n + 1, Len(s))
TakeFirst(s, n) == SubSeq(s, 1, n)

(***************************************************************************)
(* The number of leading bytes that s and t share:                         *)
(*   s.iter().zip(t).take_while(|(a, b)| a == b).count()                   *)
(***************************************************************************)
IsMatchedBytes(n, s, t) ==
  /\ n \in 0 .. Lesser(Len(s), Len(t))
  /\ \A i \in 1 .. n : s[i] = t[i]
  /\ n < Lesser(Len(s), Len(t)) => s[n + 1] # t[n + 1]

MatchedBytes(s, t) ==
  CHOOSE n \in 0 .. Lesser(Len(s), Len(t)) : IsMatchedBytes(n, s, t)

CommonPrefix(s, t) == TakeFirst(s, MatchedBytes(s, t))

(* s and t have n bytes each to compare, and agree on them. *)
AgreeOn(s, t, n) == n <= Len(s) /\ n <= Len(t) /\ \A i \in 1 .. n : s[i] = t[i]

(* One of the two strings is a prefix of the other (and they may be equal). *)
PrefixRelated(s, t) == IsPrefix(s, t) \/ IsPrefix(t, s)

(* No string of S is a proper prefix of another one. *)
PrefixFree(S) == \A s, t \in S : IsPrefix(s, t) => s = t

(* The lexicographic order of byte strings (Ord for [u8]). *)
LexLess(s, t) ==
  LET n == MatchedBytes(s, t)
  IN  IF n = Lesser(Len(s), Len(t)) THEN Len(s) < Len(t)
      ELSE s[n + 1] < t[n + 1]

(* The bytes of a set from the least to the greatest, as iterators and     *)
(* visitors meet the children of a node.                                   *)
Ascending(S) ==
  [i \in 1 .. Cardinality(S) |-> CHOOSE b \in S : Cardinality({c \in S : c < b}) = i - 1]
=============================================================================
