----------------------------- MODULE DataLemmas ------------------------------
(***************************************************************************)
(* Facts about sequences and finite sets of integers that the proofs about *)
(* the components share: least elements, and what removing or appending    *)
(* one element does to the members of a queue and to their order.          *)
(***************************************************************************)
EXTENDS Subsequences, SequencesExt, FiniteSetTheorems, SequenceTheorems, TLAPS

\* x occurs in s.
Has(s, x) == \E i \in 1..Len(s) : s[i] = x

\* An occurrence of x is before one of y.
Before(s, x, y) == \E i, j \in 1..Len(s) : i < j /\ s[i] = x /\ s[j] = y

-----------------------------------------------------------------------------
\* Every set of natural numbers that is not empty has a least element.
LEMMA LeastNatural ==
    ASSUME NEW I \in SUBSET Nat, I # {}
    PROVE  \E k \in I : \A j \in I : k <= j
<1>1. PICK k \in I : \A j \in I : ~ (<<j, k>> \in OpToRel(<, Nat))
  BY NatLessThanWellFounded, WFMin, Zenon
<1>2. \A j \in I : ~ (j < k)
  BY <1>1 DEF OpToRel
<1> QED BY <1>2

\* A finite set that is not empty has a least element in every total order R.
LEMMA LeastInOrder ==
    ASSUME NEW S, IsFiniteSet(S), S # {}, NEW R,
           \A x, y \in S : <<x, y>> \in R \/ <<y, x>> \in R,
           \A x, y, z \in S : <<x, y>> \in R /\ <<y, z>> \in R => <<x, z>> \in R
    PROVE  \E k \in S : \A j \in S : <<k, j>> \in R
<1> DEFINE NoLeast(U) == U # {} /\ \A k \in U : \E j \in U : <<k, j>> \notin R
           Sizes == {n \in Nat : \E U \in SUBSET S : IsFiniteSet(U) /\ Cardinality(U) = n /\ NoLeast(U)}
<1> SUFFICES ASSUME \A k \in S : \E j \in S : <<k, j>> \notin R PROVE FALSE
  OBVIOUS
<1>1. Cardinality(S) \in Sizes
  BY FS_CardinalityType
<1>2. PICK n \in Sizes : \A m \in Sizes : n <= m
  <2> HIDE DEF Sizes
  <2>1. Sizes \in SUBSET Nat
    BY DEF Sizes
  <2> QED BY <1>1, <2>1, LeastNatural
<1>3. PICK U \in SUBSET S : IsFiniteSet(U) /\ Cardinality(U) = n /\ NoLeast(U)
  BY <1>2
<1>4. PICK x \in U : TRUE
  BY <1>3
<1>5. IsFiniteSet(U \ {x}) /\ Cardinality(U \ {x}) = n - 1
  BY <1>3, <1>4, FS_RemoveElement
<1>6. Cardinality(U \ {x}) \in Nat
  BY <1>5, FS_CardinalityType
<1>7. U \ {x} # {}
  <2>1. <<x, x>> \in R
    BY <1>4
  <2>2. PICK j \in U : <<x, j>> \notin R
    BY <1>3, <1>4
  <2> QED BY <2>1, <2>2
<1>8. ~ NoLeast(U \ {x})
  <2>1. n \in Nat /\ n - 1 \in Nat
    BY <1>2, <1>5, <1>6
  <2>2. (n - 1) \notin Sizes
    <3> HIDE DEF Sizes
    <3> QED BY <1>2, <2>1
  <2>3. U \ {x} \in SUBSET S
    BY <1>3
  <2> HIDE DEF NoLeast
  <2> QED BY <1>5, <2>1, <2>2, <2>3
<1>9. PICK k \in U \ {x} : \A j \in U \ {x} : <<k, j>> \in R
  BY <1>7, <1>8
<1> QED BY <1>3, <1>9

\* A finite set of integers that is not empty has a least and a greatest element.
LEMMA LeastInteger ==
    ASSUME NEW I \in SUBSET Int, IsFiniteSet(I), I # {}
    PROVE  \E k \in I : \A j \in I : k <= j
<1> DEFINE R == {r \in Int \X Int : r[1] <= r[2]}
<1>1. \A x, y \in Int : <<x, y>> \in R <=> x <= y
  OBVIOUS
<1> HIDE DEF R
<1>2. /\ \A x, y \in I : <<x, y>> \in R \/ <<y, x>> \in R
      /\ \A x, y, z \in I : <<x, y>> \in R /\ <<y, z>> \in R => <<x, z>> \in R
  BY <1>1
<1>3. \E k \in I : \A j \in I : <<k, j>> \in R
  BY <1>2, LeastInOrder
<1> QED BY <1>1, <1>3

LEMMA GreatestInteger ==
    ASSUME NEW I \in SUBSET Int, IsFiniteSet(I), I # {}
    PROVE  \E k \in I : \A j \in I : k >= j
<1> DEFINE R == {r \in Int \X Int : r[1] >= r[2]}
<1>1. \A x, y \in Int : <<x, y>> \in R <=> x >= y
  OBVIOUS
<1> HIDE DEF R
<1>2. /\ \A x, y \in I : <<x, y>> \in R \/ <<y, x>> \in R
      /\ \A x, y, z \in I : <<x, y>> \in R /\ <<y, z>> \in R => <<x, z>> \in R
  BY <1>1
<1>3. \E k \in I : \A j \in I : <<k, j>> \in R
  BY <1>2, LeastInOrder
<1> QED BY <1>1, <1>3

-----------------------------------------------------------------------------
LEMMA RemoveAtProperties ==
    ASSUME NEW S, NEW s \in Seq(S), NEW k \in 1..Len(s)
    PROVE  /\ RemoveAt(s, k) \in Seq(S)
           /\ Len(RemoveAt(s, k)) = Len(s) - 1
           /\ \A j \in 1..(Len(s)-1) : RemoveAt(s, k)[j] = IF j < k THEN s[j] ELSE s[j+1]
<1> DEFINE a == SubSeq(s, 1, k-1)
           b == SubSeq(s, k+1, Len(s))
<1>1. a \in Seq(S) /\ Len(a) = k - 1 /\ \A i \in 1..(k-1) : a[i] = s[i]
  OBVIOUS
<1>2. b \in Seq(S) /\ Len(b) = Len(s) - k /\ \A i \in 1..(Len(s)-k) : b[i] = s[k+i]
  OBVIOUS
<1> HIDE DEF a, b
<1>3. /\ a \o b \in Seq(S)
      /\ Len(a \o b) = Len(a) + Len(b)
      /\ \A i \in 1..(Len(a) + Len(b)) :
            (a \o b)[i] = IF i <= Len(a) THEN a[i] ELSE b[i - Len(a)]
  BY <1>1, <1>2, ConcatProperties
<1>4. Len(a \o b) = Len(s) - 1
  BY <1>1, <1>2, <1>3
<1>5. \A i \in 1..(Len(s)-1) : (a \o b)[i] = IF i < k THEN s[i] ELSE s[i+1]
  BY <1>1, <1>2, <1>3
<1> QED BY <1>3, <1>4, <1>5 DEF RemoveAt, a, b

\* Removing the first occurrence removes one occurrence.
LEMMA RemoveFirstIsRemoveAt ==
    ASSUME NEW S, NEW s \in Seq(S), NEW e, Has(s, e)
    PROVE  \E k \in 1..Len(s) : s[k] = e /\ RemoveFirst(s, e) = RemoveAt(s, k)
<1> DEFINE I == {i \in 1..Len(s) : s[i] = e}
<1>1. I \in SUBSET Nat /\ I # {}
  BY DEF Has
<1>2. \E k \in I : \A j \in I : k <= j
  BY <1>1, LeastNatural
<1>3. Min(I) \in I
  BY <1>2 DEF Min
<1> QED BY <1>3 DEF RemoveFirst, SelectInSeq

\* A queue without duplicates loses exactly the removed element, and the order
\* of the others does not change.
LEMMA RemoveFirstProperties ==
    ASSUME NEW S, NEW s \in Seq(S), NEW e, IsInjective(s)
    PROVE  /\ RemoveFirst(s, e) \in Seq(S)
           /\ IsInjective(RemoveFirst(s, e))
           /\ \A x : Has(RemoveFirst(s, e), x) <=> Has(s, x) /\ x # e
           /\ \A x, y : Before(RemoveFirst(s, e), x, y) <=> Before(s, x, y) /\ x # e /\ y # e
<1>1. CASE ~ Has(s, e)
  <2>1. RemoveFirst(s, e) = s
    BY <1>1 DEF RemoveFirst, Has
  <2>2. \A x, y : Before(s, x, y) => Has(s, x) /\ Has(s, y)
    BY DEF Before, Has
  <2> QED BY <1>1, <2>1, <2>2
<1>2. CASE Has(s, e)
  <2>1. PICK k \in 1..Len(s) : s[k] = e /\ RemoveFirst(s, e) = RemoveAt(s, k)
    BY <1>2, RemoveFirstIsRemoveAt
  <2> DEFINE r == RemoveFirst(s, e)
  <2>2. /\ r \in Seq(S)
        /\ Len(r) = Len(s) - 1
        /\ \A j \in 1..(Len(s)-1) : r[j] = IF j < k THEN s[j] ELSE s[j+1]
    BY <2>1, RemoveAtProperties
  <2>3. \A i, j \in 1..Len(s) : s[i] = s[j] => i = j
    BY DEF IsInjective
  <2> HIDE DEF r
  <2>4. \A i, j \in 1..Len(r) : r[i] = r[j] => i = j
    BY <2>2, <2>3
  <2>5. IsInjective(r)
    <3>1. DOMAIN r = 1..Len(r)
      BY <2>2
    <3> QED BY <2>4, <3>1 DEF IsInjective
  <2>6. ASSUME NEW i \in 1..Len(s), s[i] # e
        PROVE  \E j \in 1..Len(r) : r[j] = s[i] /\ j = IF i < k THEN i ELSE i - 1
    <3>1. CASE i < k
      BY <2>1, <2>2, <2>6, <3>1
    <3>2. CASE i > k
      BY <2>1, <2>2, <2>6, <3>2
    <3> QED BY <2>1, <2>6, <3>1, <3>2
  <2>7. ASSUME NEW j \in 1..Len(r)
        PROVE  \E i \in 1..Len(s) : r[j] = s[i] /\ i # k /\ i = IF j < k THEN j ELSE j + 1
    BY <2>2
  <2>8. ASSUME NEW x PROVE Has(r, x) <=> Has(s, x) /\ x # e
    <3>1. ASSUME Has(r, x) PROVE Has(s, x) /\ x # e
      <4>1. PICK j \in 1..Len(r) : r[j] = x
        BY <3>1 DEF Has
      <4>2. PICK i \in 1..Len(s) : r[j] = s[i] /\ i # k
        BY <2>7
      <4> QED BY <2>1, <2>3, <4>1, <4>2 DEF Has
    <3>2. ASSUME Has(s, x), x # e PROVE Has(r, x)
      <4>1. PICK i \in 1..Len(s) : s[i] = x
        BY <3>2 DEF Has
      <4>2. PICK j \in 1..Len(r) : r[j] = s[i]
        BY <2>6, <3>2, <4>1
      <4> QED BY <4>1, <4>2 DEF Has
    <3> QED BY <3>1, <3>2
  <2>9. ASSUME NEW x, NEW y, Before(r, x, y) PROVE Before(s, x, y) /\ x # e /\ y # e
    <3>1. PICK i, j \in 1..Len(r) : i < j /\ r[i] = x /\ r[j] = y
      BY <2>9 DEF Before
    <3>2. PICK i2 \in 1..Len(s) : r[i] = s[i2] /\ i2 # k /\ i2 = IF i < k THEN i ELSE i + 1
      BY <2>7
    <3>3. PICK j2 \in 1..Len(s) : r[j] = s[j2] /\ j2 # k /\ j2 = IF j < k THEN j ELSE j + 1
      BY <2>7
    <3>4. i2 < j2
      BY <2>2, <3>1, <3>2, <3>3
    <3> QED BY <2>1, <2>3, <3>1, <3>2, <3>3, <3>4 DEF Before
  <2>10. ASSUME NEW x, NEW y, Before(s, x, y), x # e, y # e PROVE Before(r, x, y)
    <3>1. PICK i, j \in 1..Len(s) : i < j /\ s[i] = x /\ s[j] = y
      BY <2>10 DEF Before
    <3>2. PICK i2 \in 1..Len(r) : r[i2] = s[i] /\ i2 = IF i < k THEN i ELSE i - 1
      BY <2>6, <2>10, <3>1
    <3>3. PICK j2 \in 1..Len(r) : r[j2] = s[j] /\ j2 = IF j < k THEN j ELSE j - 1
      BY <2>6, <2>10, <3>1
    <3>4. i2 < j2
      BY <2>1, <2>10, <3>1, <3>2, <3>3
    <3> QED BY <3>1, <3>2, <3>3, <3>4 DEF Before
  <2> QED BY <2>2, <2>5, <2>8, <2>9, <2>10 DEF r
<1> QED BY <1>1, <1>2

\* Appending an element that is not there puts it behind all others.
LEMMA AppendFresh ==
    ASSUME NEW S, NEW s \in Seq(S), NEW e \in S, IsInjective(s), ~ Has(s, e)
    PROVE  /\ Append(s, e) \in Seq(S)
           /\ IsInjective(Append(s, e))
           /\ \A x : Has(Append(s, e), x) <=> Has(s, x) \/ x = e
           /\ \A x, y : Before(Append(s, e), x, y) <=> Before(s, x, y) \/ (Has(s, x) /\ y = e)
<1> DEFINE r == Append(s, e)
<1>1. /\ r \in Seq(S)
      /\ Len(r) = Len(s) + 1
      /\ \A i \in 1..Len(s) : r[i] = s[i]
      /\ r[Len(s) + 1] = e
  OBVIOUS
<1>2. \A i, j \in 1..Len(s) : s[i] = s[j] => i = j
  BY DEF IsInjective
<1>3. \A i \in 1..Len(s) : s[i] # e
  BY DEF Has
<1> HIDE DEF r
<1>4. \A i \in 1..Len(r) : i \in 1..Len(s) \/ i = Len(s) + 1
  BY <1>1
<1>5. IsInjective(r)
  <2>1. DOMAIN r = 1..Len(r)
    BY <1>1
  <2>2. \A i, j \in 1..Len(r) : r[i] = r[j] => i = j
    BY <1>1, <1>2, <1>3, <1>4
  <2> QED BY <2>1, <2>2 DEF IsInjective
<1>6. ASSUME NEW x PROVE Has(r, x) <=> Has(s, x) \/ x = e
  BY <1>1, <1>4 DEF Has
<1>7. ASSUME NEW x, NEW y PROVE Before(r, x, y) <=> Before(s, x, y) \/ (Has(s, x) /\ y = e)
  <2>1. ASSUME Before(r, x, y) PROVE Before(s, x, y) \/ (Has(s, x) /\ y = e)
    <3>1. PICK i, j \in 1..Len(r) : i < j /\ r[i] = x /\ r[j] = y
      BY <2>1 DEF Before
    <3>2. i \in 1..Len(s)
      BY <1>1, <3>1
    <3> QED BY <1>1, <1>4, <3>1, <3>2 DEF Before, Has
  <2>2. ASSUME Before(s, x, y) PROVE Before(r, x, y)
    BY <1>1, <2>2 DEF Before
  <2>3. ASSUME Has(s, x), y = e PROVE Before(r, x, y)
    BY <1>1, <2>3 DEF Before, Has
  <2> QED BY <2>1, <2>2, <2>3
<1> QED BY <1>1, <1>5, <1>6, <1>7 DEF r

\* The head of a queue is in it, and before everything else in it.
LEMMA HeadIsFirst ==
    ASSUME NEW S, NEW s \in Seq(S)
    PROVE  /\ s # <<>> <=> \E x : Has(s, x)
           /\ s # <<>> => /\ Has(s, Head(s))
                          /\ \A x : Has(s, x) => x = Head(s) \/ Before(s, Head(s), x)
<1>1. s # <<>> <=> 1 \in 1..Len(s)
  OBVIOUS
<1>2. s # <<>> => Head(s) = s[1]
  OBVIOUS
<1>3. ASSUME NEW i \in 1..Len(s) PROVE i = 1 \/ 1 < i
  OBVIOUS
<1> QED BY <1>1, <1>2, <1>3 DEF Has, Before

-----------------------------------------------------------------------------
\* The ranks of a finite set of positions are 1, 2, ... in the order of the
\* positions, and every one is taken once.
LEMMA RankProperties ==
    ASSUME NEW n \in Nat, NEW I \in SUBSET (1..n)
    PROVE  /\ IsFiniteSet(I) /\ Cardinality(I) \in Nat /\ Cardinality(I) <= n
           /\ \A i \in I : Rank(I, i) \in 1..Cardinality(I)
           /\ \A i, j \in I : i < j => Rank(I, i) < Rank(I, j)
           /\ \A k \in 1..Cardinality(I) : \E i \in I : Rank(I, i) = k
<1>1. IsFiniteSet(I) /\ Cardinality(I) \in Nat /\ Cardinality(I) <= n
  <2>1. IsFiniteSet(1..n) /\ Cardinality(1..n) = n
    BY FS_Interval
  <2> QED BY <2>1, FS_Subset, FS_CardinalityType
<1> DEFINE Upto(i) == {j \in I : j <= i}
<1>2. ASSUME NEW i \in I
      PROVE  /\ IsFiniteSet(Upto(i))
             /\ Cardinality(Upto(i)) \in 1..Cardinality(I)
             /\ Rank(I, i) = Cardinality(Upto(i))
             /\ Rank(I, i) \in Nat
  <2>1. IsFiniteSet(Upto(i)) /\ Cardinality(Upto(i)) <= Cardinality(I)
    BY <1>1, FS_Subset
  <2>2. i \in Upto(i)
    OBVIOUS
  <2>3. Cardinality(Upto(i)) # 0
    BY <2>1, <2>2, FS_EmptySet
  <2> QED BY <1>1, <2>1, <2>3, FS_CardinalityType DEF Rank
<1>3. ASSUME NEW i \in I, NEW j \in I, i < j
      PROVE  Rank(I, i) < Rank(I, j)
  <2>1. Upto(i) \in SUBSET Upto(j) /\ j \in Upto(j) /\ j \notin Upto(i)
    <3>1. \A x \in I : x \in Int
      OBVIOUS
    <3>2. \A x \in I : x <= i => x <= j
      BY <1>3, <3>1
    <3>3. j <= j /\ ~ (j <= i)
      BY <1>3, <3>1
    <3> QED BY <3>2, <3>3
  <2>2. Cardinality(Upto(i)) <= Cardinality(Upto(j)) /\ Cardinality(Upto(i)) # Cardinality(Upto(j))
    BY <1>2, <2>1, FS_Subset
  <2> QED BY <1>2, <2>2
<1>4. \A k \in 1..Cardinality(I) : \E i \in I : Rank(I, i) = k
  <2> DEFINE f == [i \in I |-> Rank(I, i)]
             m == Cardinality(I)
  <2>1. f \in [I -> 1..m]
    BY <1>2
  <2>2. \A i, j \in I : f[i] = f[j] => i = j
    <3>1. \A i, j \in I : i = j \/ i < j \/ j < i
      OBVIOUS
    <3>2. \A i, j \in I : Rank(I, i) = Rank(I, j) => i = j
      <4> HIDE DEF Upto
      <4> QED BY <1>2, <1>3, <3>1
    <3> QED BY <3>2
  <2>3. f \in Injection(I, 1..m)
    BY <2>1, <2>2 DEF Injection, IsInjective
  <2>4. IsFiniteSet(1..m) /\ Cardinality(1..m) = m
    BY <1>1, FS_Interval
  <2> HIDE DEF f
  <2>5. f \in Surjection(I, 1..m)
    BY <2>3, <2>4, FS_Injection
  <2> QED BY <2>5 DEF Surjection, f
<1> QED BY <1>1, <1>2, <1>3, <1>4

\* Filtering a list keeps the elements of S, once each if there are no
\* duplicates, and in their order.
LEMMA KeepProperties ==
    ASSUME NEW T, NEW s \in Seq(T), NEW S
    PROVE  /\ Keep(s, S) \in Seq(T)
           /\ Len(Keep(s, S)) <= Len(s)
           /\ \A x : Has(Keep(s, S), x) <=> Has(s, x) /\ x \in S
           /\ IsInjective(s) => IsInjective(Keep(s, S))
<1> DEFINE I == Kept(s, S)
           n == Cardinality(I)
           pos(k) == CHOOSE i \in I : Rank(I, i) = k
           r == Keep(s, S)
<1>1. I \in SUBSET (1..Len(s)) /\ \A i \in 1..Len(s) : i \in I <=> s[i] \in S
  BY DEF Kept
<1>2. /\ n \in Nat /\ n <= Len(s)
      /\ \A i \in I : Rank(I, i) \in 1..n
      /\ \A i, j \in I : i < j => Rank(I, i) < Rank(I, j)
      /\ \A k \in 1..n : \E i \in I : Rank(I, i) = k
  <2>1. Len(s) \in Nat
    OBVIOUS
  <2> HIDE DEF I
  <2> QED BY <1>1, <2>1, RankProperties
<1>3. r = [k \in 1..n |-> s[pos(k)]]
  BY DEF Keep
<1> HIDE DEF I, r
<1>4. \A k \in 1..n : pos(k) \in I /\ Rank(I, pos(k)) = k
  BY <1>2
<1> HIDE DEF n, pos
<1>5. \A i \in I : pos(Rank(I, i)) = i
  <2>1. \A i, j \in I : i = j \/ i < j \/ j < i
    BY <1>1
  <2>2. \A i \in I : pos(Rank(I, i)) \in I /\ Rank(I, pos(Rank(I, i))) = Rank(I, i)
    BY <1>2, <1>4
  <2>3. \A i, j \in I : Rank(I, i) = Rank(I, j) => i = j
    BY <1>2, <2>1
  <2> QED BY <2>2, <2>3
<1>6. r \in Seq(T) /\ Len(r) = n /\ DOMAIN r = 1..n
  <2>1. \A k \in 1..n : s[pos(k)] \in T
    <3>1. \A k \in 1..n : pos(k) \in 1..Len(s)
      BY <1>1, <1>4
    <3>2. \A i \in 1..Len(s) : s[i] \in T
      OBVIOUS
    <3> QED BY <3>1, <3>2
  <2>2. r \in [1..n -> T]
    BY <1>3, <2>1
  <2> QED BY <1>2, <2>2
<1>7. \A x : Has(r, x) <=> Has(s, x) /\ x \in S
  <2>1. ASSUME NEW k \in 1..n PROVE pos(k) \in 1..Len(s) /\ r[k] = s[pos(k)] /\ s[pos(k)] \in S
    BY <1>1, <1>3, <1>4
  <2>2. ASSUME NEW i \in 1..Len(s), s[i] \in S PROVE \E k \in 1..n : r[k] = s[i]
    BY <1>1, <1>2, <1>3, <1>5, <2>2
  <2> QED BY <1>6, <2>1, <2>2 DEF Has
<1>8. IsInjective(s) => IsInjective(r)
  <2> SUFFICES ASSUME IsInjective(s), NEW k \in 1..n, NEW l \in 1..n, r[k] = r[l] PROVE k = l
    BY <1>6 DEF IsInjective
  <2>1. s[pos(k)] = s[pos(l)] /\ pos(k) \in I /\ pos(l) \in I
    BY <1>3, <1>4
  <2>2. DOMAIN s = 1..Len(s)
    OBVIOUS
  <2>3. pos(k) \in DOMAIN s /\ pos(l) \in DOMAIN s
    BY <1>1, <2>1, <2>2
  <2>4. pos(k) = pos(l)
    BY <2>1, <2>3 DEF IsInjective
  <2> QED BY <1>4, <2>4
<1> QED BY <1>2, <1>6, <1>7, <1>8 DEF r

\* Sorting a finite set lists its elements, every one of them.
LEMMA InOrderProperties ==
    ASSUME NEW S, IsFiniteSet(S), NEW R,
           \A x \in S : <<x, x>> \in R,
           \A x, y \in S : <<x, y>> \in R \/ <<y, x>> \in R,
           \A x, y \in S : <<x, y>> \in R /\ <<y, x>> \in R => x = y,
           \A x, y, z \in S : <<x, y>> \in R /\ <<y, z>> \in R => <<x, z>> \in R
    PROVE  /\ InOrder(S, R) \in Seq(S)
           /\ Len(InOrder(S, R)) = Cardinality(S)
           /\ \A x \in S : Has(InOrder(S, R), x)
<1> DEFINE n == Cardinality(S)
           Upto(x) == {y \in S : <<y, x>> \in R}
           rank(x) == Cardinality(Upto(x))
           at(k) == CHOOSE x \in S : rank(x) = k
           r == InOrder(S, R)
<1>1. n \in Nat
  BY FS_CardinalityType
<1>2. ASSUME NEW x \in S
      PROVE  IsFiniteSet(Upto(x)) /\ rank(x) \in 1..n
  <2>1. Upto(x) \in SUBSET S /\ x \in Upto(x)
    OBVIOUS
  <2> HIDE DEF Upto
  <2>2. IsFiniteSet(Upto(x)) /\ Cardinality(Upto(x)) <= n /\ Cardinality(Upto(x)) \in Nat
    BY <2>1, FS_Subset, FS_CardinalityType
  <2>3. Cardinality(Upto(x)) # 0
    BY <2>1, <2>2, FS_EmptySet
  <2> QED BY <1>1, <2>2, <2>3
<1>3. ASSUME NEW x \in S, NEW y \in S, <<x, y>> \in R, rank(x) = rank(y) PROVE x = y
  <2>1. Upto(x) \in SUBSET Upto(y) /\ y \in Upto(y)
    BY <1>3
  <2>2. Upto(x) = Upto(y)
    <3>1. IsFiniteSet(Upto(y)) /\ Cardinality(Upto(x)) = Cardinality(Upto(y))
      BY <1>2, <1>3
    <3> HIDE DEF Upto
    <3> QED BY <2>1, <3>1, FS_Subset
  <2>3. y \in Upto(x)
    BY <2>1, <2>2
  <2> QED BY <1>3, <2>3
<1>4. \A x, y \in S : rank(x) = rank(y) => x = y
  <2> HIDE DEF rank
  <2> QED BY <1>3
<1> HIDE DEF Upto, rank
<1>5. \A k \in 1..n : \E x \in S : rank(x) = k
  <2> DEFINE f == [x \in S |-> rank(x)]
  <2>1. f \in Injection(S, 1..n)
    BY <1>2, <1>4 DEF Injection, IsInjective
  <2>2. IsFiniteSet(1..n) /\ Cardinality(1..n) = n
    BY <1>1, FS_Interval
  <2> HIDE DEF f
  <2>3. f \in Surjection(S, 1..n)
    BY <2>1, <2>2, FS_Injection
  <2> QED BY <2>3 DEF Surjection, f
<1>6. r = [k \in 1..n |-> at(k)]
  BY DEF InOrder, Upto, rank
<1>7. \A k \in 1..n : at(k) \in S /\ rank(at(k)) = k
  BY <1>5
<1> HIDE DEF at, r
<1>8. r \in [1..n -> S]
  BY <1>6, <1>7
<1>9. r \in Seq(S) /\ Len(r) = n
  BY <1>1, <1>8
<1>10. ASSUME NEW x \in S PROVE Has(r, x)
  <2>1. rank(x) \in 1..n
    BY <1>2
  <2>2. at(rank(x)) = x
    BY <1>4, <1>7, <2>1
  <2> QED BY <1>6, <1>9, <2>1, <2>2 DEF Has
<1> HIDE DEF n
<1> QED BY <1>9, <1>10 DEF r, n
==============================================================================
