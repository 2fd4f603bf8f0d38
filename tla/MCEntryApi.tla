----------------------------- MODULE MCEntryApi -----------------------------
(* The instances of MCTreeMap, with the entry API.                         *)
EXTENDS MCTreeMap, EntryApi

(* Few keys: a leaf to split, a compressed path, and a node that grows.    *)
EntryKeys == {<<0, 0, 0>>, <<0, 0, 1>>, <<0, 1>>, <<2>>, <<3>>, <<4>>, <<0, 0>>}
=============================================================================
