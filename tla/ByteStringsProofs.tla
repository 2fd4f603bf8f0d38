------------------------- MODULE ByteStringsProofs -------------------------
(***************************************************************************)
(* What ByteStrings' operators return, for every alphabet.  The proofs     *)
(* about headers and about the tree cite these facts and never look into   *)
(* a sequence themselves.                                                  *)
(***************************************************************************)
EXTENDS ByteStrings, FiniteSetTheorems, TLAPS

(* A non-empty set of natural numbers has a least member.                  *)
LEMMA LeastExists ==
  ASSUME NEW S \in SUBSET Nat, S # {}
  PROVE  \E n \in S : \A m \in S : n <= m
<1> DEFINE R == {ss \in Nat \X Nat : ss[1] < ss[2]}
<1>1. R = OpToRel(<, Nat)  BY DEF OpToRel
<1>2. IsWellFoundedOn(R, Nat)  BY <1>1, NatLessThanWellFounded
<1>3. \A m, n \in Nat : m < n => <<m, n>> \in R  OBVIOUS
<1> HIDE DEF R
<1>4. PICK n \in S : \A m \in S : ~ (<<m, n>> \in R)  BY <1>2, WFMin
<1>5. \A m \in S : ~(m < n)  BY <1>3, <1>4
<1> QED  BY <1>5

(* So has one that is bounded a greatest member.                           *)
LEMMA GreatestExists ==
  ASSUME NEW S \in SUBSET Nat, S # {}, NEW B \in Nat, \A n \in S : n <= B
  PROVE  \E n \in S : \A m \in S : m <= n
<1> DEFINE T == {k \in Nat : k <= B /\ B - k \in S}
<1>1. T \in SUBSET Nat  OBVIOUS
<1>2. \A n \in S : B - n \in T  OBVIOUS
<1>3. T # {}  BY <1>2
<1>4. PICK t \in T : \A u \in T : t <= u  BY <1>1, <1>3, LeastExists
<1>5. \A m \in S : t <= B - m  BY <1>2, <1>4
<1>6. \A m \in S : m <= B - t  BY <1>1, <1>4, <1>5
<1>7. B - t \in S  BY <1>4
<1> QED  BY <1>6, <1>7

(* A finite set of numbers has a bound. *)
LEMMA FiniteIsBounded ==
  ASSUME NEW S \in SUBSET Nat, IsFiniteSet(S)
  PROVE  \E B \in Nat : \A n \in S : n <= B
<1>1. PICK n \in Nat : ExistsSurjection(1 .. n, S)  BY FS_NatSurjection
<1>2. PICK f \in Surjection(1 .. n, S) : TRUE  BY <1>1 DEF ExistsSurjection
<1>3. f \in [1 .. n -> S] /\ \A s \in S : \E i \in 1 .. n : f[i] = s
  BY <1>2 DEF Surjection, Range
<1> DEFINE T == {m \in 0 .. n : \E B \in Nat : \A i \in 1 .. m : f[i] <= B}
<1>4. T \in SUBSET Nat /\ 0 \in T /\ \A m \in T : m <= n  OBVIOUS
<1> HIDE DEF T
<1>5. PICK m \in T : \A k \in T : k <= m  BY <1>4, GreatestExists
<1>6. PICK B \in Nat : \A i \in 1 .. m : f[i] <= B  BY <1>5 DEF T
<1>7. m = n
  <2>1. SUFFICES ASSUME m < n PROVE FALSE  BY <1>4, <1>5
  <2>2. m + 1 \in 1 .. n /\ m \in Nat /\ m + 1 \in 0 .. n  BY <2>1, <1>4, <1>5
  <2>2a. \A i \in 1 .. n : f[i] \in Nat  BY <1>3
  <2>3. PICK C \in Nat : B <= C /\ f[m + 1] <= C
    <3>1. CASE B <= f[m + 1]  BY <3>1, <2>2, <2>2a
    <3>2. CASE ~(B <= f[m + 1])  BY <3>2, <2>2, <2>2a
    <3> QED  BY <3>1, <3>2
  <2>4. \A i \in 1 .. m + 1 : f[i] <= C
    <3>1. TAKE i \in 1 .. m + 1
    <3>2. i \in 1 .. n /\ f[i] \in Nat  BY <2>2, <2>2a
    <3>3. i \in 1 .. m \/ i = m + 1  BY <2>2
    <3> QED  BY <3>2, <3>3, <1>6, <2>3
  <2>5. m + 1 \in T  BY <2>2, <2>4 DEF T
  <2> QED  BY <2>2, <2>5, <1>5
<1> QED  BY <1>3, <1>6, <1>7

(* IsPrefix, byte by byte.                                                 *)
LEMMA PrefixPointwise ==
  ASSUME NEW s \in ByteString, NEW t \in ByteString
  PROVE  IsPrefix(s, t) <=> Len(s) <= Len(t) /\ \A i \in 1 .. Len(s) : s[i] = t[i]
BY DEF IsPrefix, ByteString

LEMMA PrefixReflexive ==
  ASSUME NEW s \in ByteString
  PROVE  IsPrefix(s, s)
BY PrefixPointwise

LEMMA PrefixTransitive ==
  ASSUME NEW r \in ByteString, NEW s \in ByteString, NEW t \in ByteString,
         IsPrefix(r, s), IsPrefix(s, t)
  PROVE  IsPrefix(r, t)
BY PrefixPointwise DEF ByteString

LEMMA PrefixSameLength ==
  ASSUME NEW s \in ByteString, NEW t \in ByteString, IsPrefix(s, t), Len(t) <= Len(s)
  PROVE  s = t
BY PrefixPointwise DEF ByteString

(* Prefixes of one string are ordered by their lengths.                    *)
LEMMA PrefixesCompare ==
  ASSUME NEW r \in ByteString, NEW s \in ByteString, NEW t \in ByteString,
         IsPrefix(r, t), IsPrefix(s, t), Len(r) <= Len(s)
  PROVE  IsPrefix(r, s)
BY PrefixPointwise DEF ByteString

(* A branch below s: s, then the byte of the branch.                       *)
LEMMA PrefixAppend ==
  ASSUME NEW s \in ByteString, NEW t \in ByteString, NEW b \in Byte
  PROVE  IsPrefix(Append(s, b), t) <=>
           IsPrefix(s, t) /\ Len(s) < Len(t) /\ t[Len(s) + 1] = b
<1>1. Append(s, b) \in ByteString  BY DEF ByteString
<1>2. Len(Append(s, b)) = Len(s) + 1  BY DEF ByteString
<1>3. \A i \in 1 .. Len(s) : Append(s, b)[i] = s[i]  BY DEF ByteString
<1>4. Append(s, b)[Len(s) + 1] = b  BY DEF ByteString
<1>5. Len(s) \in Nat /\ Len(t) \in Nat  BY DEF ByteString
<1>6. ASSUME IsPrefix(Append(s, b), t)
      PROVE  IsPrefix(s, t) /\ Len(s) < Len(t) /\ t[Len(s) + 1] = b
  <2>1. Len(s) + 1 <= Len(t) /\ \A i \in 1 .. Len(s) + 1 : Append(s, b)[i] = t[i]
    BY <1>1, <1>2, <1>6, PrefixPointwise
  <2>2. \A i \in 1 .. Len(s) : s[i] = t[i]  BY <2>1, <1>3, <1>5
  <2>3. t[Len(s) + 1] = b  BY <2>1, <1>4, <1>5
  <2> QED  BY <2>1, <2>2, <2>3, <1>5, PrefixPointwise
<1>7. ASSUME IsPrefix(s, t), Len(s) < Len(t), t[Len(s) + 1] = b
      PROVE  IsPrefix(Append(s, b), t)
  <2>1. \A i \in 1 .. Len(s) + 1 : Append(s, b)[i] = t[i]
    BY <1>3, <1>4, <1>5, <1>7, PrefixPointwise
  <2>2. \A i \in 1 .. Len(Append(s, b)) : Append(s, b)[i] = t[i]  BY <2>1, <1>2
  <2>3. Len(Append(s, b)) <= Len(t)  BY <1>2, <1>5, <1>7
  <2> QED  BY <2>2, <2>3, <1>1, PrefixPointwise
<1> QED  BY <1>6, <1>7

LEMMA PrefixAgrees ==
  ASSUME NEW s \in ByteString, NEW t \in ByteString
  PROVE  IsPrefix(s, t) <=> AgreeOn(s, t, Len(s))
BY PrefixPointwise DEF AgreeOn, ByteString

(* Slices.                                                                 *)
LEMMA DropFirstFacts ==
  ASSUME NEW s \in ByteString, NEW n \in Nat, n <= Len(s)
  PROVE  /\ DropFirst(s, n) \in ByteString
         /\ Len(DropFirst(s, n)) = Len(s) - n
         /\ \A i \in 1 .. Len(s) - n : DropFirst(s, n)[i] = s[n + i]
BY DEF DropFirst, ByteString

LEMMA TakeFirstFacts ==
  ASSUME NEW s \in ByteString, NEW n \in Nat, n <= Len(s)
  PROVE  /\ TakeFirst(s, n) \in ByteString
         /\ Len(TakeFirst(s, n)) = n
         /\ \A i \in 1 .. n : TakeFirst(s, n)[i] = s[i]
BY DEF TakeFirst, ByteString

LEMMA TakeFirstIsPrefix ==
  ASSUME NEW s \in ByteString, NEW n \in Nat, n <= Len(s)
  PROVE  IsPrefix(TakeFirst(s, n), s)
BY TakeFirstFacts, PrefixPointwise DEF ByteString

(* Counting the leading bytes two strings share stops at the first         *)
(* difference or at the end of the shorter one.                            *)
LEMMA MatchedBytesFacts ==
  ASSUME NEW s \in ByteString, NEW t \in ByteString
  PROVE  IsMatchedBytes(MatchedBytes(s, t), s, t)
<1> DEFINE L == Lesser(Len(s), Len(t))
           S == {n \in 0 .. L : \A i \in 1 .. n : s[i] = t[i]}
<1>1. L \in Nat  BY DEF Lesser, ByteString
<1>2. S \in SUBSET Nat /\ 0 \in S /\ \A n \in S : n <= L  BY <1>1
<1> HIDE DEF L
<1>3. S # {}  BY <1>2
<1> HIDE DEF S
<1>4. PICK n \in S : \A m \in S : m <= n  BY <1>1, <1>2, <1>3, GreatestExists
<1>5. n \in 0 .. L /\ \A i \in 1 .. n : s[i] = t[i]  BY <1>4 DEF S
<1>6. ASSUME n < L, s[n + 1] = t[n + 1]  PROVE FALSE
  <2>1. n + 1 \in 0 .. L /\ \A i \in 1 .. n + 1 : s[i] = t[i]  BY <1>1, <1>5, <1>6
  <2>2. n + 1 \in S  BY <2>1 DEF S
  <2> QED  BY <2>2, <1>4, <1>5
<1>7. IsMatchedBytes(n, s, t)  BY <1>5, <1>6 DEF IsMatchedBytes, L
<1>8. \E m \in 0 .. Lesser(Len(s), Len(t)) : IsMatchedBytes(m, s, t)
  BY <1>5, <1>7 DEF L
<1> QED  BY <1>8 DEF MatchedBytes
-----------------------------------------------------------------------------
(* Ascending lists the members of a finite set of numbers in order.        *)
LEMMA AscendingFacts ==
  ASSUME NEW S \in SUBSET Nat, IsFiniteSet(S)
  PROVE  /\ Cardinality(S) \in Nat
         /\ Ascending(S) \in [1 .. Cardinality(S) -> S]
         /\ \A i, j \in 1 .. Cardinality(S) : i < j => Ascending(S)[i] < Ascending(S)[j]
         /\ \A b \in S : \E i \in 1 .. Cardinality(S) : Ascending(S)[i] = b
<1> DEFINE Below(b) == {c \in S : c < b}
           rank == [b \in S |-> Cardinality(Below(b))]
           n == Cardinality(S)
<1>1. n \in Nat  BY FS_CardinalityType
<1>2. \A b \in S : /\ IsFiniteSet(Below(b)) /\ Cardinality(Below(b)) \in Nat
                   /\ Cardinality(Below(b)) < n
  <2>1. TAKE b \in S
  <2>2. Below(b) \in SUBSET S /\ b \notin Below(b)  OBVIOUS
  <2>3. Below(b) # S  BY <2>2
  <2> HIDE DEF Below
  <2>4. IsFiniteSet(Below(b)) /\ Cardinality(Below(b)) <= n /\ Cardinality(Below(b)) # n
    BY <2>2, <2>3, FS_Subset
  <2> QED  BY <2>4, <1>1, FS_CardinalityType
<1>3. \A b, c \in S : b < c => Cardinality(Below(b)) < Cardinality(Below(c))
  <2>1. SUFFICES ASSUME NEW b \in S, NEW c \in S, b < c
                 PROVE  Cardinality(Below(b)) < Cardinality(Below(c))
    OBVIOUS
  <2>2. Below(b) \in SUBSET Below(c) /\ b \in Below(c) /\ b \notin Below(b)
    <3>1. b \in Nat /\ c \in Nat /\ \A d \in S : d \in Nat  OBVIOUS
    <3>2. \A d \in S : d < b => d < c  BY <3>1, <2>1
    <3>3. b \in Below(c) /\ b \notin Below(b)  BY <3>1, <2>1
    <3>4. \A d \in Below(b) : d \in Below(c)  BY <3>2
    <3> HIDE DEF Below
    <3> QED  BY <3>3, <3>4
  <2>3. IsFiniteSet(Below(c)) /\ Cardinality(Below(c)) \in Nat /\ Cardinality(Below(b)) \in Nat
    BY <1>2
  <2> HIDE DEF Below
  <2>4. Cardinality(Below(b)) <= Cardinality(Below(c)) /\ Cardinality(Below(b)) # Cardinality(Below(c))
    BY <2>2, <2>3, FS_Subset
  <2> QED  BY <2>3, <2>4
<1> DEFINE T == 0 .. n - 1
<1>4. rank \in [S -> T]  BY <1>1, <1>2
<1>5. \A b, c \in S : rank[b] = rank[c] => b = c
  <2>1. SUFFICES ASSUME NEW b \in S, NEW c \in S, rank[b] = rank[c], b # c PROVE FALSE
    OBVIOUS
  <2>2. b \in Nat /\ c \in Nat  OBVIOUS
  <2>3. b < c \/ c < b  BY <2>1, <2>2
  <2>4. rank[b] \in Nat /\ rank[c] \in Nat  BY <1>2
  <2> QED  BY <2>1, <2>3, <2>4, <1>3
<1>6. IsFiniteSet(T) /\ Cardinality(T) = n
  <2>1. n - 1 \in Int /\ 0 \in Int  BY <1>1
  <2> HIDE DEF n
  <2>2. IsFiniteSet(0 .. n - 1) /\ Cardinality(0 .. n - 1) = IF 0 > n - 1 THEN 0 ELSE n - 1 - 0 + 1
    BY ONLY <2>1, FS_Interval
  <2> QED  BY <2>2, <1>1
<1>7. \A i \in T : \E b \in S : rank[b] = i
  <2> HIDE DEF T, rank
  <2>1. rank \in Injection(S, T)  BY <1>4, <1>5 DEF Injection, IsInjective
  <2>2. rank \in Surjection(S, T)  BY <2>1, <1>6, FS_Injection
  <2> QED  BY <2>2 DEF Surjection
<1> DEFINE A == Ascending(S)
<1>8. \A i \in 1 .. n : A[i] = CHOOSE b \in S : Cardinality(Below(b)) = i - 1
  BY DEF Ascending
<1>9. \A i \in 1 .. n : A[i] \in S /\ rank[A[i]] = i - 1
  <2>1. TAKE i \in 1 .. n
  <2>2. i - 1 \in T  BY <1>1
  <2>3. PICK b \in S : rank[b] = i - 1  BY <1>7, <2>2
  <2>4. Cardinality(Below(b)) = i - 1  BY <2>3
  <2> HIDE DEF Below, A
  <2>5. A[i] \in S /\ Cardinality(Below(A[i])) = i - 1  BY <1>8, <2>4
  <2> QED  BY <2>5
<1>10. A \in [1 .. n -> S]
  <2>1. A = [i \in 1 .. n |-> CHOOSE b \in S : Cardinality(Below(b)) = i - 1]  BY DEF Ascending
  <2> DEFINE At(i) == CHOOSE b \in S : Cardinality(Below(b)) = i - 1
  <2>2. A = [i \in 1 .. n |-> At(i)]  BY <2>1
  <2> HIDE DEF A, n, At
  <2>3. \A i \in 1 .. n : At(i) \in S  BY <2>2, <1>9
  <2> QED  BY <2>2, <2>3
<1>11. \A i, j \in 1 .. n : i < j => A[i] < A[j]
  <2>1. SUFFICES ASSUME NEW i \in 1 .. n, NEW j \in 1 .. n, i < j, ~(A[i] < A[j]) PROVE FALSE
    OBVIOUS
  <2>2. A[i] \in S /\ A[j] \in S /\ rank[A[i]] = i - 1 /\ rank[A[j]] = j - 1  BY <1>9
  <2> HIDE DEF A, rank
  <2>3. A[i] = A[j] \/ A[j] < A[i]
    <3>1. A[i] \in Nat /\ A[j] \in Nat  BY <2>2
    <3> QED  BY <3>1, <2>1
  <2>4. CASE A[i] = A[j]  BY <2>4, <2>1, <2>2, <1>1
  <2>5. CASE A[j] < A[i]
    <3>1. rank[A[j]] < rank[A[i]]  BY <2>5, <2>2, <1>3 DEF rank
    <3> QED  BY <3>1, <2>1, <2>2, <1>1
  <2> QED  BY <2>3, <2>4, <2>5
<1>12. \A b \in S : \E i \in 1 .. n : A[i] = b
  <2>1. TAKE b \in S
  <2>2. rank[b] \in T  BY <1>4
  <2>3. rank[b] + 1 \in 1 .. n  BY <2>2, <1>1
  <2>4. A[rank[b] + 1] \in S /\ rank[A[rank[b] + 1]] = rank[b]  BY <2>3, <2>2, <1>9, <1>1
  <2> HIDE DEF A, rank
  <2>5. A[rank[b] + 1] = b  BY <2>4, <1>5
  <2> QED  BY <2>3, <2>5
<1> QED  BY <1>1, <1>10, <1>11, <1>12
=============================================================================
