---------------------------- MODULE MCIterators ----------------------------
(* The instances of MCTreeMap, with every kind of iterator.                *)
EXTENDS MCTreeMap, IteratorInvariant

FewBytes == 0 .. 2

(* A path longer than the header's array, a fork below it, siblings, keys  *)
(* of several lengths, and one that conflicts with others.                 *)
IterKeys ==
  {<<0, 1, 0, 1, 0>>, <<0, 1, 0, 1, 1>>, <<0, 1, 0, 0>>, <<0, 1, 1>>, <<1, 0, 0>>, <<0, 2>>,
   <<2>>, <<0, 1>>, <<1, 1, 1>>}

(* Prefixes that end inside a path, at a node, at a leaf, behind a leaf,   *)
(* and ones that nothing starts with.                                      *)
IterPrefixes ==
  {<< >>, <<0>>, <<0, 1>>, <<0, 1, 0>>, <<0, 1, 0, 1>>, <<0, 1, 1>>, <<0, 1, 1, 0>>,
   <<0, 2, 2>>, <<1, 1>>, <<2>>}

(* The empty key, a stored key, a key that needs each kind of edit.        *)
FuzzySearchKeys == {<< >>, <<0, 2>>, <<0, 1, 1>>, <<1, 2, 0, 1>>}
FuzzyMaxEdits == 0 .. 3
=============================================================================
