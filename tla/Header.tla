------------------------------- MODULE Header -------------------------------
(***************************************************************************)
(* The header of an inner node (src/nodes/representation/header.rs): the   *)
(* length of the compressed path (prefix_len) and an array that stores its *)
(* first PREFIX_LEN bytes.  When the path is longer than the array only    *)
(* the length is exact, and the bytes are read back from a leaf.           *)
(*                                                                         *)
(* The array keeps whatever an operation leaves in it beyond the path, as  *)
(* in the code: readers cut it to capped_prefix_len.  num_children is the  *)
(* number of children of the node and lives with the node's layout.        *)
(* prefix_len is a natural number here: the u32 of the code holds the      *)
(* length of every path of keys shorter than 2^32 bytes.                   *)
(***************************************************************************)
EXTENDS ByteStrings

CONSTANT PREFIX_LEN  (* the const generic of the code, 16 by default *)

ASSUME PrefixLenAssumption == PREFIX_LEN \in Nat

HeaderType == [prefix_len : Nat, prefix : [1 .. PREFIX_LEN -> Byte]]

(* Header::new *)
NewHeader(prefix, prefix_len) ==
  [prefix_len |-> prefix_len,
   prefix     |-> [i \in 1 .. PREFIX_LEN |->
                     IF i <= Len(prefix) THEN prefix[i] ELSE 0]]

(* Header::capped_prefix_len *)
CappedPrefixLen(h) == Lesser(h.prefix_len, PREFIX_LEN)

(* Header::read_prefix *)
ReadPrefix(h) == [i \in 1 .. CappedPrefixLen(h) |-> h.prefix[i]]

(* Mutant of LTrimBy: the bytes are not moved to the front.                *)
LTrimByInPlace(h, len) == [h EXCEPT !.prefix_len = @ - len]

(***************************************************************************)
(* Header::ltrim_by: drop the first len bytes.  copy_within moves the new  *)
(* path to the front of the array and leaves the bytes behind it.          *)
(***************************************************************************)
LTrimBy(h, len) ==
  LET rest == h.prefix_len - len
  IN  [prefix_len |-> rest,
       prefix     |-> [i \in 1 .. PREFIX_LEN |->
                         IF i <= Lesser(rest, PREFIX_LEN)
                         THEN h.prefix[len + i] ELSE h.prefix[i]]]

(* Mutant of LTrimByWithLeaf: the bytes are read from where the old path   *)
(* started.                                                                *)
LTrimByWithLeafFromDepth(h, len, depth, leaf_key) ==
  LET rest == h.prefix_len - len
  IN  [prefix_len |-> rest,
       prefix     |-> [i \in 1 .. PREFIX_LEN |->
                         IF i <= Lesser(rest, PREFIX_LEN)
                         THEN leaf_key[depth + i] ELSE h.prefix[i]]]

(***************************************************************************)
(* Header::ltrim_by_with_leaf: the same for a path longer than the array;  *)
(* the bytes come from the key of a leaf below, where the path of this     *)
(* node starts at depth.                                                   *)
(***************************************************************************)
LTrimByWithLeaf(h, len, depth, leaf_key) ==
  LET rest == h.prefix_len - len
  IN  [prefix_len |-> rest,
       prefix     |-> [i \in 1 .. PREFIX_LEN |->
                         IF i <= Lesser(rest, PREFIX_LEN)
                         THEN leaf_key[depth + len + i] ELSE h.prefix[i]]]

(* Header::clear_prefix, the header it leaves. *)
ClearPrefix(h) == [h EXCEPT !.prefix_len = 0]

(***************************************************************************)
(* Header::push_prefix: append the bytes `new' as far as they fit, and     *)
(* count new_len bytes.                                                    *)
(***************************************************************************)
PushPrefix(h, new, new_len) ==
  LET begin == CappedPrefixLen(h)
      end   == Lesser(begin + Len(new), PREFIX_LEN)
  IN  [prefix_len |-> h.prefix_len + new_len,
       prefix     |-> [i \in 1 .. PREFIX_LEN |->
                         IF begin < i /\ i <= end
                         THEN new[i - begin] ELSE h.prefix[i]]]

(* Mutant of MergedHeader: the byte of the surviving child is forgotten.   *)
MergedHeaderWithoutByte(parent, byte, child) ==
  PushPrefix(PushPrefix(ClearPrefix(child), ReadPrefix(parent), parent.prefix_len),
             ReadPrefix(child), child.prefix_len)

(***************************************************************************)
(* The three pushes of remove_child_from_inner_node_and_compress: the      *)
(* path of the removed parent, the byte of the surviving child, the path   *)
(* that child had.                                                         *)
(***************************************************************************)
MergedHeader(parent, byte, child) ==
  LET cleared    == ClearPrefix(child)
      withParent == PushPrefix(cleared, ReadPrefix(parent), parent.prefix_len)
      withByte   == PushPrefix(withParent, <<byte>>, 1)
  IN  PushPrefix(withByte, ReadPrefix(child), child.prefix_len)

(* h stands for the compressed path p: what every header must do. *)
Represents(h, p) ==
  /\ h.prefix_len = Len(p)
  /\ \A i \in 1 .. Lesser(Len(p), PREFIX_LEN) : h.prefix[i] = p[i]
=============================================================================
