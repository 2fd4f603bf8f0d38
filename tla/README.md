# A verification development for blart

`blart` is an adaptive radix tree for Rust. `TreeMap<K, V, PREFIX_LEN>` is an
ordered map whose keys are read as byte strings (`AsBytes::as_bytes`). A node of
the tree branches on one byte; a run of bytes without a branch is kept in the
header of the node below it (path compression), the first `PREFIX_LEN` bytes of
it in an array, the rest only as a length. Inner nodes have four layouts that
hold up to 4, 16, 48 and 256 children, and change layout as children come and
go. A key may not be a proper prefix of another one: such an insertion is
refused with `InsertPrefixError`.

The code is sequential, and the map is borrowed exclusively by whatever changes
it. What makes it hard is not concurrency. It works with raw pointers and
unchecked accesses (`assume!`, `unwrap_unchecked`), so every index, pointer and
length has to be right for reasons that lie many calls back; a compressed path
that is longer than the array has to be read back from a leaf at a depth the
search has counted; a change of a node has to be written back through edges a
search remembered; and entries hand such edges to the caller for later.

Paths below are relative to the repository; the crate is in `src/src/` of the
tree this project is kept beside.

## Inventory

| part | state | operations | correct when | status |
|---|---|---|---|---|
| tree operations: `collections/map.rs`, `nodes/operations/` | `root`, `num_entries`, the allocated nodes | `try_insert`, `get`, `get_mut`, `remove_entry`, `first/last_key_value`, `pop_first/last`, `clear`, drop | it is an ordered dictionary, no node leaks or dangles, the shape depends on the keys only, indices and depths stay in bounds, calls return; a panic leaves no dangling root | `TreeMap` and its modules, `PanickingDrop` |
| node header: `representation/header.rs` | `prefix_len`, `prefix` | `new`, `ltrim_by`, `ltrim_by_with_leaf`, `push_prefix`, `clear_prefix`, `read_prefix` | the header stands for the compressed path | `Header` |
| node layouts: `representation/inner_node_*.rs` | key bytes, indices, child pointers, `num_children` | `lookup_child`, `write_child`, `remove_child`, `grow`, `shrink`, `iter`, `range`, `min`, `max`, `deep_clone` | they are partial functions from bytes to children, iterated in byte order, in both builds | `NodeLayout`, `VectorSearch`, `NodeRange` |
| entry API: `map/entry.rs`, `map/entry_ref.rs` | the leaf and the edges above it, or an insert point | `try_entry`, `insert_entry`, `insert`, `get`, `get_mut`, `remove_entry`, `or_*`, `and_modify` | what an entry refers to is still in the tree when it is used | `EntryApi` |
| iterators: `map/iterators/iterator.rs`, `into_iter.rs` | a deque of subtrees, a size | `next`, `next_back` | every entry once, in order, also when both ends are used; the size is right | `Iterators`, `IntoIter` |
| prefix and fuzzy queries: `iterators/prefix.rs`, `fuzzy.rs` | a deque of subtrees with depths; a stack of subtrees and an arena of rows of edit distances | `next`, `next_back`, `size_hint` | exactly the entries that match, in order | `Iterators`, `Fuzzy` |
| visitors: `nodes/visitor.rs`, `nodes/visitor/` | the bytes on the way, the nodes seen, the counts | well-formedness checker, statistics, count of leaves, printer | the checker accepts every tree the map builds, the numbers are those of the tree | `WellFormed`, `TreeStats`; not the printer |
| byte encodings: `bytes.rs`, `bytes/mapped.rs` | the bytes in a `Mapped` | `new`, `get`, the comparisons | order and value are preserved, no key is a prefix of another, where the type promises it | `BytesMapping`, without wrapper types |
| tagged pointers: `tagged_pointer.rs`, the pointer types of `nodes/representation.rs` | a word with a tag in its low bits | `cast`, `set_data`, `to_ptr`, `to_opaque`, `to_node_ptr`, `header_mut` | a pointer leads to its node and names its type, and is equal to no pointer to another node | `TaggedPointer`, `NodePointers` |
| `rust_nightly_apis.rs` | none | copies of library functions | as in the library | not modelled |

The tree operations call the header and the layouts directly. The entry API runs
the same search functions and the same `apply` functions as the map's own
methods, with the caller in between. The iterators read the nodes through the
layouts' `iter`. The visitors read everything.

## Modules

* `ByteStrings`: byte strings, slices, common prefixes, lexicographic order.
* `Header`: the header of an inner node as a record, one operator per method.
  `Represents(h, path)` says when a header stands for a path.
* `Node`: node types, capacities, and an inner node as the tree sees it: a
  partial function from bytes to children.
* `MapSpec`: the abstract specification. A dictionary and the answer of the last
  call; one action per method of the public API.
* `TreeMap`: the tree. One step is one turn of a search loop, or the application
  of an insert or delete point, or one turn of the loop of `deallocate_tree`.
  `op` holds the locals of the running function; its `pc` says which. The map
  of states to code:
  * `search`: the loops of `search_for_insert_point`, `search_for_delete_point`,
    `search_unchecked`, `minimum_unchecked` and its siblings. `DescendByKey` and
    `DescendToEnd` are the turns of the loops, `StepToMinimum` is the walk to a
    leaf below in `inner_read_full_prefix`, the `Find*` actions are the
    `InsertPoint`s and `DeletePoint`s the searches return, `LookupMiss`,
    `InsertKeyTooShort`, `ReadLeaf` and `WriteLeafValue` are the other returns;
  * `apply`: `InsertPoint::apply` (`InsertAtMismatch`, `InsertAtLeaf`,
    `InsertIntoNode`, `InsertIntoGrownNode`, `InsertReplace`) and
    `DeletePoint::apply` (`DeleteRoot`, `DeleteAndMerge`, `DeleteAndShrink`,
    `DeleteInPlace`), each with the write-back to the parent, the grandparent or
    `root` and the count that `apply_insert_point` and `apply_delete_point` add;
  * `dealloc`: `deallocate_tree`; `done`: the answer is out.
* `TreeMapProperties`: what is checked of it. `TreeMapInvariant`: the inductive
  invariant, and the invariant the answers rest on.
* `PanickingDrop`: `clear`, and the drop of the map after it, when the drop of a
  value panics.
* `NodeSpec`, `NodeLayout`, `NodeRange`: the four layouts with their arrays, the
  way insert, delete and clone use them, and the partial function they stand for.
  `VectorSearch` has the searches of the nightly build, as operators on the same
  nodes.
* `TaggedPointer`: words, data and alignments. `NodePointers`: nodes are
  allocated and freed at any address that is aligned and free, their opaque
  pointers are kept, and asked for the node, for a node of some type, for a
  header.
* `EntryApi`: the entry API on top of `TreeMap`, whose actions it reuses.
* `IterSpec`: the abstract iterator. It holds the keys still to come, and each
  end gives the least or the greatest of them.
* `TreeWalk`: what all walks share, the children in order and
  `read_full_prefix`. `IterCall` has what all iterators share: the caller opens
  one, asks, takes the answer, drops it. `Iterators` adds the loops of
  `TreeIterator` and `Prefix`, `Fuzzy` that of the fuzzy search, `IntoIter` the
  iterator that owns the map and calls its methods; `MapIterators` puts them
  together. `iter` holds the fields of the struct; a step is one turn of the loop
  of `next` or `next_back`. A borrowed map cannot change below an iterator, so
  its own calls (`OtherCall`) wait: any tree that calls can build is walked. The
  walk to a leaf that `read_full_prefix` makes is one step here, for that reason.
  `IteratorInvariant` is the inductive invariant.
* `EditDistance`: the edit distance by its definition, as a number of edits, to
  compare the table of `Fuzzy` with.
* `VisitCall` has what all visitors share, their recursion as a stack of frames.
  `WellFormed` is the well-formedness checker, `TreeStats` the collector of
  statistics and the counter of leaves with the walk of `super_visit_with`;
  `Visitors` puts them together, `VisitorInvariant` is the inductive invariant.
* `BytesMapping`: how values become keys. A value is a sequence of integers, a
  type says of how many and of which width; the operators are the conversions,
  the actions `Mapped::new`, `get` and the comparison of two keys.
  `Representations` puts it next to `NodePointers`, for the instance.
* `MCTreeMap`, `MCPanickingDrop`, `MCNodeLayout`, `MCEntryApi`, `MCIterators`,
  `MCVisitors`, `MCRepresentations`: the instances for TLC.
* `ByteStringsProofs`, `TreeStepProofs`, `TreeMapProofs`, `EntryApiProofs`,
  `IteratorProofs`, `VisitorProofs`, `NodeLayoutProofs`, `NodePointersProofs`: the
  proofs.

Two abstractions deserve a word. A pointer is a record of the node type, which
the code keeps in its tag (that the tag leads back to it is checked in
`NodePointers`), and an address; the address is the byte string all
keys below the node share (the whole key, for a leaf). No action reads it: it is
a name for the allocation, and it stays the same when the node moves in the
tree, as an address does. `AddressesAreFresh` says that two live nodes never
have the same name. It also gives the properties a language: "the node at
`n.at`" needs no path. And a node holds its children as a function; that the
arrays of the layouts implement this function is checked in `NodeLayout`
against `NodeSpec`, which uses the operators of `Node` that `TreeMap` uses.

Left out of the actions: allocation failure, which aborts, and the overflow of
`prefix_len`, a `u32`. Drops of keys and values panic in `PanickingDrop` only.
The order in which `deallocate_tree` empties its stack is left open: any node on
it may be next.

## Runs

Capacities are scaled from 4, 16, 48, 256 to 3, 4, 5, 6, bytes to 0..5, so that
six children take a node through all four layouts and back. Nothing in the code
depends on the sizes except through `upper_capacity` and the array lengths.

| run | bounds | shows |
|---|---|---|
| `tree_deep` | nine keys that share up to four bytes, four branches below a path, `PREFIX_LEN` 1 | headers stay faithful, no stored key can be missed, the shape is canonical, depths and insert points are in bounds, keys stay prefix free, teardown holds every node once; under fairness, every call returns |
| `visitors` | ten keys, six branches at the root, one of them deep, `PREFIX_LEN` 1, a Node256 of one more than there are bytes | types, single references, live children, the fit of node types, the count, the remembered edges; the inductive invariant of the proofs, which also has the root and the addresses. On each of these trees: the checker accepts it and its vector of bytes leads to the node it visits, the statistics are exact and no difference of theirs underflows; the inductive invariant of the visitors |
| `well_formed_full` | same, a Node256 that fills up | violated: a full Node256 is refused, see below |
| `tree_dictionary` | the same without the fourth branch, two values, `PREFIX_LEN` 2 | the tree implements `MapSpec`, answers included; a walk to an end of the map has nothing beyond that end beside it, and a call keeps its arguments |
| `clear_panics` | as `tree_dictionary`, one value, `PREFIX_LEN` 1 | violated: a panic in `clear` leaves a dangling root, see below |
| `node_layout` | capacities 2, 4, 5, 6; two children, every set of bytes | the layouts implement `NodeSpec`; sorted keys, dense indices, iteration in order, `range` where it is right, no uninitialized byte in a vector lookup; the vector searches find what the plain ones find |
| `node_range` | same | violated: `range` of a compressed node, see below |
| `entry_api` | seven keys, two values, `PREFIX_LEN` 0: every path is read from a leaf | entries stay current, and the map with entries implements `MapSpec` |
| `entry_inserted` | same with one value, `PREFIX_LEN` 1, and inserted entries are removed | violated: stale edges, see below |
| `iterators` | nine keys, ten prefixes, four searched keys with distances 0 to 3, `PREFIX_LEN` 1 | iterators over all keys, those with a prefix, those within a distance, and the iterator that consumes the map implement `IterSpec` for every mixture of the two ends; sizes and depths are right, the arena of rows stays in step with the stack; the inductive invariant of the proofs |
| `representations` | integers of one to three bytes, bytes of four values, vectors and strings up to length 2; three nodes in 64 bytes of memory, entries of alignment 1, 8 and 16 | keys compare like values, can be mapped back, are no prefixes of each other; node pointers lead to their nodes, and are equal for the same node only |
| `ordered_paths` | paths up to length 3 over a separator and two other bytes | violated: paths do not compare like their bytes, see below |

The keys of the deep instance contain, for every length of a shared path from 0
to 4, a pair that parts there, and the two keys that are prefixes of others (one
of them empty). With `PREFIX_LEN` 0, 1 and 2 paths are shorter than, equal to
and longer than the array, before and after splits and merges. In the wide
instance one of the six branches has a path and branches of its own, so that the
node that grows and shrinks is a parent, a grandparent and the root. The searched
prefixes end inside a path, at a branch, at a leaf, behind a leaf and nowhere in
the tree; the searched keys of the fuzzy queries need insertions, deletions and
replacements, below paths that fit the array and paths that do not.

The layouts have an instance of their own in which a Node16 has slots to spare,
for the vector lookup. A Node48 and a Node256 never lose a child there without
shrinking at once; that their removal leaves them in order is seen through the
shrinking, which reads all of the node. Three nodes are enough for the
pointers: an address that is freed can be taken by another type while two other
nodes keep theirs.

All instances are explored completely. The bounds on lengths are `MaxLen`
(vectors and strings), `EndOfMemory` and `MaxNodes` (the memory); there are no
counters to bound.

Fairness: `FairSpec`, which `tree_deep` runs, asks for weak fairness of `Run`, the steps of a function
that has been called. A called function is not suspended by anything in a
single-threaded program. No fairness is asked of the caller: it may stop calling.

Every property of a passing run has a mutant: a definition next to the original
one that makes a plausible mistake, for which the same run reports the property
violated.

## Findings

* `entry_inserted`: `VacantEntry::insert_entry` (and its twin for borrowed keys)
  returns an `OccupiedEntry` with the parent and grandparent of the *insert
  point*. After the insertion these are one level too high, and when a node was
  grown the pointer the search stopped at is gone. `OccupiedEntry::remove_entry`
  builds a delete point from them. On a map with one key, inserting a second one
  through `entry` and removing it through the returned entry makes a delete point
  without a parent; applying it empties the map.
* `node_range`: `inner_range_iter` keeps the kind of a bound when it replaces a
  byte by a position. With a bound between two key bytes this skips a child,
  includes one too many, or panics. Only tests call `range` at present, and they
  use bounds with children, or ones that happen to work.
* `well_formed_full`: `NodeType::capacity_range` gives Node256 the range
  `49..256`, without its end, so `WellFormedChecker` answers
  `WrongChildrenCount` for a node with all 256 children. The documentation of
  the type includes 256 (`representation.rs:36`).

* `clear_panics`: `clear` resets `root` after `deallocate_tree` has returned
  (`map.rs:91`). When the drop of a key or a value panics, the nodes above it are
  freed already and the map still has its root; the unwinding drops the map,
  which frees the tree again. One entry is enough.
* `ordered_paths`: `Path` and `PathBuf` are `OrderedBytes` (`bytes.rs:237-252`),
  but the standard library compares paths by their components: `a//b` equals
  `a/b`, and `a/b` is less than `a-b` while its bytes are greater. A map of paths
  keeps equal paths apart and iterates in another order than a `BTreeMap`.

Also noticed, without a run: `OccupiedEntry::remove` returns the key, its
comment says the value (`entry.rs:81`).

## Proofs

Six systems are proved about, each from the `ASSUME`s of its modules and for
every value of the constants: the tree, the tree with entries, the tree with
iterators, the tree with visitors, the layouts, and the pointers. Together they
reach from the arrays of a node to the caller: the layouts implement partial
functions, the tree is a tree of partial functions, the tree implements the
dictionary, the iterators yield it in order, and the visitors say of it what is
true.

### The tree

`TreeMapProofs` proves `Spec => []Invariant` for every set of bytes with 0 in
it, every set of keys and values, every `PREFIX_LEN` and every increasing
capacities that the bytes fit. The assumptions are the `ASSUME`s of
`ByteStrings`, `Header`, `Node` and `TreeMap`.

The safety properties are not inductive alone. A step of a search is judged by
what the search has done: that an insertion at a vacancy does not hide a node
needs that no node lies below the current one under that byte, which the search
established turn by turn. `TreeMapInvariant` adds:

* `NothingIsPassedBy`: every node that runs along the bytes a search by key has
  passed lies below the node it stands at. It is not asked of a removal that is
  about to be applied, because that one has its leaf, and an entry makes such a
  removal without a search;
* what the remembered edges, the cursor and the insert or delete point say of
  the tree, per `pc`;
* that a leaf has nothing below it, and that the heap is finite.

The tree conditions are local (a node and its children, or two nodes), so a step
is judged by the nodes it touches. The argument goes along:

1. `ByteStringsProofs`: prefixes, common prefixes, slices; finite sets of numbers.
2. `TreeStepProofs`: every header operation takes a header that represents a
   path to one that represents the path the operation is meant to leave; updates
   of the heap that keep the shape conditions; the steps of a search; insertions
   and deletions, one lemma per action and conjunct.
3. `TreeMapProofs`: the theorem of the invariant, and the properties of the runs
   as its consequences: `TypeOK`, `EveryNodeIsReferencedOnce`,
   `ChildrenAreLive`, `RoutesToEveryNode`, `RootIsAboveAll`,
   `PrefixesAreFaithful`, `NodesFitTheirType`, `CountIsExact`,
   `ShapeIsCanonical`, `KeysArePrefixFree`, `AddressesAreFresh`,
   `SearchKeepsItsPath`, `DepthStaysInBounds`, `PointsAreApplicable`,
   `TeardownIsExact`.

`DictionaryImplemented` is the refinement of `MapSpec`. The abstract map is read
off the leaves, and is empty once `deallocate_tree` has been called; the abstract
answer is that of `op` while `pc` is `done`. Every step of a search is a stutter,
except the last, which is the call: a lookup or a refused insertion takes effect
when the search returns, an insertion or a removal when its point is applied,
`clear` when the teardown begins (its answer comes at the end). What is needed
beyond `Invariant` is `AnswerInvariant`:

* `EndIsAhead`: a walk to the first leaf never has a leaf beside it with a
  smaller key, a walk to the last none with a greater one. The code compares no
  keys on this way. It takes the first or the last child at every node, and that
  this leads to the least or the greatest of *all* keys needs the whole path;
* `CallIsKept`: the running call is one of the public methods, with the arguments
  it was called with, and a removal by key has the leaf of that key.

`AnswerAssumption` says that a completed answer, a record, is not the marker for
the absence of one.

### Entries

`EntryApiProofs` proves, under the hypothesis `~RemovesInserted`, that every
entry a caller holds refers to the tree as it is (`EntriesCurrent`) and that the
map with its entries still implements `MapSpec`
(`EntriesImplementDictionary`). The hypothesis excludes one use, removing an
entry through the handle its own insertion returned; with it both are false, and
`entry_inserted` below *Findings* is the counterexample. Entries from a search
may be removed, entries from an insertion may be read and written.

The invariant, `EntriesInvariant`, adds to those of the tree what an entry is
between two calls on it: a vacant entry is an insert point that waits for
`apply`, for the key and the value it was asked with; an occupied entry has its
leaf in the tree and, unless it comes from an insertion, the edges that lead to
it. The steps of a search and the application of points are those of the tree
and their lemmas are cited; what is new are the steps in which the caller gives
up, keeps, or uses an entry.

### Iterators

`IteratorProofs` proves `IteratorsHold`, that `IterInvariant` holds next to the
invariant of the tree, and from it `SizeIsRight` and `DepthsLeadToNodes` for all
kinds of iterators, and `WalksImplementIterator`, the refinement of `IterSpec`,
for all kinds but the fuzzy one.

The invariant sees a queue as the sequence of the paths to its subtrees
(`WalkPaths`; the stack of a fuzzy search read from its top, `StackPaths`). This
sequence is `Descending`: read from the back, every path differs from those
before it in a byte that is greater. Three things follow from that at once. No
key lies below two queued subtrees, so none is yielded twice; the keys below one
of them come all before or all after those below another, so a leaf at an end of
the queue is the least or the greatest key to come; and the number of keys to
come, which `size` counts, is the sum over the subtrees. A turn of the loop takes
one path off an end and puts some of its extensions in its place, in order
(`children` of a node are read in the order of their bytes), and that keeps the
sequence descending whatever subtrees it skips. Skipped ones hold no key that
matches: this is where the depth of `Prefix` is needed, which says that the
searched prefix and the path agree so far, and that the path of the node, read
back from a leaf when it is longer than the array, is the one from that depth
(`ReadFullPrefixIsPath` at the end of `TreeMapProofs`, for the walk to the least
leaf, whose recursion is one over the finite heap).

`MapIsHeld` is the other half: a borrowed map does nothing, so that what was
queued is still there, and an owned map does nothing but the pop the iterator
has called, whose effect and answer are those `DictionaryImplemented` rests on.

`SearchKeys = {}` in `WalksImplementIterator` leaves fuzzy queries out of the
specification. That a fuzzy search yields what is within the distance compares a
table with a definition by recursion, see below. Their queue, their size and the
map they borrow are within `IteratorsHold` and `SizeRight`.

`IteratorAssumption` says that `None` is no query, no answer of an iterator, and
not `Some` of an entry.

### Visitors

`VisitorProofs` proves `VisitorsHold`, that `VisitorInvariant` holds next to the
invariant of the tree, for every tree the map can build. A walk divides the nodes
in three: those it has done with, those on the stack of frames, and those that
are ahead, below the bytes still in `todo` or below the node being visited. Every
step moves at most one node from one part to the next, so what a visitor has
gathered is a statement about the nodes it has done with, and at the end about
all of them. It follows that:

* `PrefixLeads`: the vector of bytes that all visits of the checker share, which is
  extended on the way down and cut back on the way up, holds the path of the node
  that is visited. The bytes of a compressed path that do not fit the header are
  taken from a leaf, again by `ReadFullPrefixIsPath`;
* `TreesAccepted`: the checker accepts a tree, and counts each node once, if and
  only if none of its Node256 is full. The hypothesis is needed, `well_formed_full`
  below *Findings* is what happens without it; the equivalence says that this is
  the only tree the checker is wrong about. Also no node is ever seen twice, and the
  header always agrees with the leaves below;
* `StatsExact`: entries, bytes of keys, slots in use and the longest path are those
  of the tree, the whole is the sum over the node types, and the count of leaves is
  the number of entries;
* `NothingOverused`: no difference of the statistics underflows at any moment.

Two facts came out of the attempt to prove the invariant. It was not inductive for
the count of leaves until it had `StartsAtRoot`: without it, a walk that began in
the middle of the tree satisfies everything else and ends with a smaller number. And
the sums of the statistics are folds over sets of nodes or types, whose definition
chooses elements in an order of its own; the lemmas on folds in `VisitorProofs` show
that steps which commute give the same sum in any order, so that one more element
adds what it should (the recursion over a finite set needs no induction theorem
here: a smallest set for which it failed would have a smaller one).

`CountAssumption` says that `None`, a frame without an output, is no number.

### Layouts

`NodeLayoutProofs` proves `LayoutIsSound`, `Node16KeysAreFilled`,
`IterationIsOrdered`, `ImplementsChildren` (the refinement of `NodeSpec`) and
`RangesAreExact`, for every finite set of bytes, every set of children and every increasing
capacities. The inductive invariant is `LayoutInvariant`, the conjunction of the
first two: a live node is `Fitting`.

The four operations that copy between arrays are judged by what they do to the
partial function, with three relations: `Agrees` (the same children), `Differs`
(the same but for one byte) and `Lists` (a sequence of pairs is the children in
order). Each operation of each layout has a lemma that says it leaves a sound
node that agrees or differs; the operations of the tree compose them:

* `InsertFits`: a Node256 is never asked to grow, which would panic, because a
  full one has a child for every byte and none is vacant.
* `DeleteFits`: a node shrinks with the very removal that leaves as many children
  as the smaller type can hold. This is why a Node16 has no uninitialized key:
  `InnerNode48::shrink` fills a fresh array with exactly sixteen keys. A node that
  shrank later would leave the rest of the array uninitialized, and the vector
  search, which compares all sixteen, would read it.

`ChildAssumption` and `NoneAssumption` say that `Option::None` is no child and
no node, and that uninitialized memory is neither a byte nor a child.

`RangesExact` follows from the same invariant. In the layouts indexed by bytes a
slice starts and ends at the bounds themselves, and `KeyOffset` puts back what the
slice took off (`RangeAssumption`: bytes are numbered without a gap). In a
compressed node a bound becomes the write point of its byte, which parts the
smaller keys from the others: that is right for an included start and an excluded
end whether or not there is a child, and for an excluded start and an included end
exactly when there is one. `MeetsChildren` asks for no more than that; the run
`node_range` shows what happens without it.

`VectorSearchesAgree` follows from the same invariant: the mask made of
`num_children` leaves the keys in use, and the first lane that is not all ones
holds the least byte. `LaneAssumption` says that the lanes divide the bytes, which
are numbered without a gap, as a `u8` is.

### Pointers

`NodePointersProofs` proves `PointersLeadToNodes` and `PointersIdentifyNodes` for
a memory of any size and any alignments of keys and values. The invariant says
that every live node lies at a multiple of its alignment, that a kept word is the
address of its node plus the tag of the type found there, and that an answer is
that of this node. The rest is arithmetic of remainders: an alignment of eight or
more leaves the three bits of the tag zero, and a cast between the alignments of
the placeholder, the header and the node changes neither the tag nor the address.
`AlignmentAssumption` says that alignments above eight are multiples of eight
(they are powers of two) and that the placeholder leaves the bits of the constant
assertion in `NUM_BITS`.

### Only model-checked

* `CallsReturn`: liveness under fairness, out of the prover's reach.
* The table of `Fuzzy` against the definition of the distance, and the bytes of
  integers and sequences of any length (`ComparesLikeValues`, `GetsBackTheValue`,
  `NeitherIsAPrefix`): inductions over data, whose theorems take an operator as a
  parameter, which no installed prover can instantiate.
* The answers of fuzzy queries as an implementation of `IterSpec`, and the rows of
  their arena (`RowsBelongToNodes`): the table again.

## Not modelled

* The clone of a whole map. A step of it, the clone of one node of each layout,
  is an action of `NodeLayout`; the recursion composes it.
* `Extend`, `From` and `FromIterator`, which call `insert` in a
  loop, and `Eq`, `Ord` and `Hash`, which are those of the iterators.
* `prefix_len` as a `u32`: a compressed path of 2^32 bytes or more is cut
  (`header.rs:33`). No instance holds such a key; the models take a natural number.
* The printer of trees and the bytes of memory in the statistics: text and
  `size_of_val`.
* `TaggedPointer::new` and `new_with_data`, which only tests call, and the wrapper
  types of `bytes.rs`, which pass on the bytes of what they wrap.
* `rust_nightly_apis.rs`, copies of library functions; tests, benchmarks, fuzz
  targets and examples.

## Plan

The order so far was: the tree and its dictionary, the inductive invariant and
its proof, the layouts, the entry API, the walks, the bytes of keys, the words of
pointers, panics; then the proofs of the refinement of `MapSpec`, of the entries,
the layouts, the pointers, the iterators and the visitors. What is left:

1. `RowsBelongToNodes`, and with it the fuzzy part of `ImplementsIterator`, once
   the table can be compared with the distance by induction.
2. `GetsBackTheValue` and `ComparesLikeValues`, for the types of fixed width first.
3. The printer, if its output becomes something other code relies on.
