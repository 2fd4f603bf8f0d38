---------------------------- MODULE BytesMapping ----------------------------
(***************************************************************************)
(* How values become keys (src/bytes.rs, src/bytes/mapped.rs).  AsBytes    *)
(* gives the bytes of a value; NoPrefixesBytes and OrderedBytes are unsafe *)
(* promises about them: no key of the type is a prefix of another one      *)
(* (TreeMap::insert takes an insertion to succeed on the strength of it),  *)
(* and keys are ordered as their values are.  Mapped<B, D> holds the bytes *)
(* that the mapping B makes of a D; it is compared by its bytes and can be *)
(* asked for its value again.                                              *)
(*                                                                         *)
(* A value is a sequence of integers: the elements of an array, a vector   *)
(* or a tuple, the octets of an address, the characters of a string, or    *)
(* one integer alone.  The machine is little-endian.                       *)
(***************************************************************************)
EXTENDS ByteStrings

CONSTANTS
  Types,   (* the types of value looked at                                 *)
  MaxLen,  (* the bound on the length of vectors and strings               *)
  None

(* A byte has an even number of values, which are those below it.          *)
Base == Cardinality(Byte)
ASSUME BaseAssumption == Byte = 0 .. Base - 1 /\ Base % 2 = 0
ASSUME MaxLenAssumption == MaxLen \in Nat

VARIABLES
  type,   (* the type of the two values, or None                           *)
  left,   (* a value and its bytes, or None                                *)
  right,  (* another one                                                   *)
  out     (* what a method answered, or None                               *)

bytesVars == <<type, left, right, out>>
-----------------------------------------------------------------------------
Unsigned(size) == [signed |-> FALSE, nonzero |-> FALSE, size |-> size]
Signed(size)   == [signed |-> TRUE, nonzero |-> FALSE, size |-> size]
NonZero(int)   == [int EXCEPT !.nonzero = TRUE]

Array(int, n) == [form |-> "array", ints |-> [i \in 1 .. n |-> int]]
Scalar(int)   == Array(int, 1)
Octets(n)     == Array(Unsigned(1), n)
Tuple(ints)   == [form |-> "tuple", ints |-> ints]
Vector(int)   == [form |-> "vector", ints |-> <<int>>]
CStr          == [form |-> "c_str", ints |-> <<NonZero(Unsigned(1))>>]
Str           == [form |-> "str", ints |-> <<Unsigned(1)>>]
Path          == [form |-> "path", ints |-> <<NonZero(Unsigned(1))>>]
Native(int, n) == [form |-> "native", ints |-> [i \in 1 .. n |-> int]]

(* The types with get, and those that make each of the two promises.       *)
IsMapped(t)   == t.form \in {"array", "tuple", "vector"}
Ordered(t)    == t.form # "native"
NoPrefixes(t) == t.form \notin {"vector", "str", "path"}

HasAnyLength(t) == t.form \in {"vector", "c_str", "str", "path"}
IntAt(t, i)     == IF HasAnyLength(t) THEN t.ints[1] ELSE t.ints[i]

Count(size) == Base ^ size
Half(size)  == Count(size) \div 2

ValuesOfInt(int) ==
  {v \in IF int.signed THEN -Half(int.size) .. Half(int.size) - 1
         ELSE 0 .. Count(int.size) - 1 : int.nonzero => v # 0}
ValuesOf(t) ==
  UNION {{v \in [1 .. n -> UNION {ValuesOfInt(IntAt(t, i)) : i \in 1 .. n}] :
            \A i \in 1 .. n : v[i] \in ValuesOfInt(IntAt(t, i))} :
         n \in IF HasAnyLength(t) THEN 0 .. MaxLen ELSE {Len(t.ints)}}
-----------------------------------------------------------------------------
(* to_be_bytes and from_be_bytes *)
ToBE(u, size) == [i \in 1 .. size |-> (u \div Base ^ (size - i)) % Base]
FromBE(bytes) == FoldLeft(LAMBDA u, b : u * Base + b, 0, bytes)

(* bytemuck::cast between the signed and the unsigned type of one width,   *)
(* and the exclusive or with the top bit, which adds it without carry.     *)
CastToUnsigned(v, size) == v % Count(size)
CastToSigned(u, size)   == IF u < Half(size) THEN u ELSE u - Count(size)
FlipTopBit(u, size)     == (u + Half(size)) % Count(size)

ToUBE(v, size) == ToBE(v, size)

(* Mutant of ToIBE: two's complement in big-endian order.                  *)
ToIBEUnflipped(v, size) == ToBE(CastToUnsigned(v, size), size)

ToIBE(v, size) == ToBE(FlipTopBit(CastToUnsigned(v, size), size), size)

IntToBytes(int, v) ==
  IF int.signed THEN ToIBE(v, int.size) ELSE ToUBE(v, int.size)

(* None where NonZero::new(..).expect(..) panics. *)
IntFromBytes(int, bytes) ==
  LET u == FromBE(bytes)
      v == IF int.signed THEN CastToSigned(FlipTopBit(u, int.size), int.size) ELSE u
  IN  IF int.nonzero /\ v = 0 THEN None ELSE v

(* bytemuck::bytes_of, on a little-endian machine *)
NativeBytes(int, v) == Reverse(ToBE(CastToUnsigned(v, int.size), int.size))
-----------------------------------------------------------------------------
(* Mutant of ToBytes: a C string comes without its terminator (to_bytes of *)
(* CStr for to_bytes_with_nul).                                            *)
ToBytesUnterminated(t, v) ==
  CASE t.form = "c_str"  -> v
    [] t.form = "native" -> FlattenSeq([i \in DOMAIN v |-> NativeBytes(IntAt(t, i), v[i])])
    [] OTHER             -> FlattenSeq([i \in DOMAIN v |-> IntToBytes(IntAt(t, i), v[i])])

(* to_bytes, and as_bytes of the types that are not mapped. *)
ToBytes(t, v) ==
  CASE t.form = "c_str"  -> Append(v, 0)
    [] t.form = "native" -> FlattenSeq([i \in DOMAIN v |-> NativeBytes(IntAt(t, i), v[i])])
    [] OTHER             -> FlattenSeq([i \in DOMAIN v |-> IntToBytes(IntAt(t, i), v[i])])

(* The bytes that the elements before the i-th take up. *)
Offset(t, i) == FoldLeft(LAMBDA n, k : n + IntAt(t, k).size, 0, [k \in 1 .. i - 1 |-> k])

(* Mutant of Chunk: the index is not scaled by the size of an element.     *)
ChunkUnscaled(t, bytes, i) == SubSeq(bytes, i, i + IntAt(t, i).size - 1)

Chunk(t, bytes, i) ==
  SubSeq(bytes, Offset(t, i) + 1, Offset(t, i) + IntAt(t, i).size)

(* from_bytes; a tuple asserts that all bytes have been used. *)
FromBytes(t, bytes) ==
  LET n == IF HasAnyLength(t) THEN Len(bytes) \div t.ints[1].size ELSE Len(t.ints)
  IN  IF t.form = "tuple" /\ Offset(t, n + 1) # Len(bytes) THEN None
      ELSE [i \in 1 .. n |-> IntFromBytes(IntAt(t, i), Chunk(t, bytes, i))]

(* Ord of slices, and of the values in front of them. *)
Ordering(s, t) ==
  CASE s = t         -> "Equal"
    [] LexLess(s, t) -> "Less"
    [] OTHER         -> "Greater"

(* The components of a path, by which the standard library compares paths: *)
(* the root, which is less than any name and stands here as an empty one,  *)
(* and the names between separators.                                       *)
Separator == 1
Components(path) ==
  LET IsSeparator(i) == i \notin DOMAIN path \/ path[i] = Separator
      names == {<<i, j>> \in (DOMAIN path) \X (DOMAIN path) :
                  /\ i <= j /\ IsSeparator(i - 1) /\ IsSeparator(j + 1)
                  /\ \A k \in i .. j : ~IsSeparator(k)}
      root  == IF path # << >> /\ IsSeparator(1) THEN << << >> >> ELSE << >>
  IN  root \o [n \in 1 .. Cardinality(names) |->
                 LET name == SetToSortSeq(names, LAMBDA a, b : a[1] < b[1])[n]
                 IN  SubSeq(path, name[1], name[2])]

(* The order of the values of a type. *)
ValueOrdering(t, v, w) ==
  IF t.form # "path" THEN Ordering(v, w)
  ELSE LET p == Components(v)
           q == Components(w)
           IsLess(a, b) ==
             \E i \in 1 .. Len(b) :
               /\ \A k \in 1 .. i - 1 : k <= Len(a) /\ a[k] = b[k]
               /\ i > Len(a) \/ LexLess(a[i], b[i])
       IN  CASE p = q        -> "Equal"
             [] IsLess(p, q) -> "Less"
             [] OTHER        -> "Greater"
-----------------------------------------------------------------------------
BytesInit == type = None /\ left = None /\ right = None /\ out = None

(* Mapped::new, for two values *)
New ==
  /\ left = None
  /\ type' \in Types
  /\ \E v, w \in ValuesOf(type') :
       /\ left' = [value |-> v, repr |-> ToBytes(type', v)]
       /\ right' = [value |-> w, repr |-> ToBytes(type', w)]
  /\ UNCHANGED out

(* Ord for Mapped, and for keys by their bytes *)
Cmp ==
  /\ left # None /\ out = None
  /\ out' = [cmp |-> Ordering(left.repr, right.repr)]
  /\ UNCHANGED <<type, left, right>>

(* Mapped::get *)
Get ==
  /\ left # None /\ IsMapped(type) /\ out = None
  /\ out' = [get |-> FromBytes(type, left.repr)]
  /\ UNCHANGED <<type, left, right>>

(* The caller is done with both. *)
DropBoth ==
  /\ out # None
  /\ type' = None /\ left' = None /\ right' = None /\ out' = None

BytesNext == New \/ Cmp \/ Get \/ DropBoth

BytesSpec == BytesInit /\ [][BytesNext]_bytesVars
-----------------------------------------------------------------------------
Answered(method) == out # None /\ method \in DOMAIN out

(* OrderedBytes: bytes compare as values do, also across the sign, across  *)
(* element boundaries and for vectors of which one starts with the other;  *)
(* and values are equal exactly when their bytes are, as BytesMapping asks.*)
ComparesLikeValues ==
  (Answered("cmp") /\ Ordered(type)) => out.cmp = ValueOrdering(type, left.value, right.value)

(* get gives back the value that new was given, and does not panic.        *)
GetsBackTheValue == Answered("get") => out.get = left.value

(* NoPrefixesBytes: no key is a prefix of a different one.                 *)
NeitherIsAPrefix ==
  (left # None /\ NoPrefixes(type)) =>
    (PrefixRelated(left.repr, right.repr) => left.value = right.value)
=============================================================================
