---------------------------- MODULE MempoolProofs ----------------------------
(***************************************************************************)
(* What the mempool keeps, for every block tree, every set of transactions *)
(* and every limit.                                                        *)
(***************************************************************************)
EXTENDS Mempool, CoinStoreProofs, DataLemmas

Item == [tx : Txs, lineage : Coins \cup {NoCoin}]

\* c is a version of the singleton that t fast forwards.
IsVersion(c, t) == c \in SameAsParent /\ singleton[c] = singleton[ff[t]]

\* The rows of the item x in the index by coin
Rows(x) == {<<c, x.tx>> : c \in Effective(x.tx, x.lineage)}

\* A fast forward spend is based on a version of its singleton, and no other
\* spend of the item is of a version: rebasing it never takes away another row.
VersionsApart(x) ==
    x.lineage # NoCoin => /\ ff[x.tx] # NoCoin
                          /\ IsVersion(x.lineage, x.tx)
                          /\ \A c \in coin_spends[x.tx] \ {ff[x.tx]} : ~ IsVersion(c, x.tx)

\* A pool: items with distinct names, the index by coin, and the limit
IsPool(its, index) ==
    /\ its \in Seq(Item)
    /\ index \subseteq Coins \X Txs
    /\ IsInjective(its)
    /\ \A x, y : Has(its, x) /\ Has(its, y) /\ x.tx = y.tx => x = y
    /\ \A x : Has(its, x) => VersionsApart(x)
    /\ \A s : s \in index <=> \E x : Has(its, x) /\ s \in Rows(x)
    /\ TotalCost(Names(its)) <= max_size_in_cost

\* A cache within its limits
IsCache(cache) ==
    /\ cache \in Seq(Txs)
    /\ IsInjective(cache)
    /\ TotalCost(ToSet(cache)) <= cache_max_total_cost
    /\ Len(cache) <= cache_max_size

-----------------------------------------------------------------------------
(* Lists *)

LEMMA ToSetIsHas ==
    ASSUME NEW S, NEW s \in Seq(S)
    PROVE  \A x : x \in ToSet(s) <=> Has(s, x)
BY DEF ToSet, Has

LEMMA NamesAre ==
    ASSUME NEW its \in Seq(Item)
    PROVE  /\ Names(its) \in SUBSET Txs
           /\ IsFiniteSet(Names(its))
           /\ \A t : t \in Names(its) <=> \E x : Has(its, x) /\ x.tx = t
<1>1. DOMAIN its = 1..Len(its) /\ Len(its) \in Nat
  OBVIOUS
<1>2. \A i \in 1..Len(its) : its[i].tx \in Txs
  <2>1. \A i \in 1..Len(its) : its[i] \in Item
    OBVIOUS
  <2>2. \A x \in Item : x.tx \in Txs
    BY DEF Item
  <2> QED BY <2>1, <2>2
<1>3. Names(its) \in SUBSET Txs
  BY <1>1, <1>2 DEF Names
<1>4. \A t : t \in Names(its) <=> \E x : Has(its, x) /\ x.tx = t
  BY <1>1 DEF Names, Has
<1>5. IsFiniteSet(Names(its))
  <2> DEFINE f == [i \in 1..Len(its) |-> its[i].tx]
  <2>1. f \in Surjection(1..Len(its), Names(its))
    BY <1>1 DEF Names, Surjection
  <2>2. IsFiniteSet(1..Len(its))
    BY <1>1, FS_Interval
  <2> HIDE DEF f
  <2> QED BY <2>1, <2>2, FS_Surjection
<1> QED BY <1>3, <1>4, <1>5

LEMMA WithoutProperties ==
    ASSUME NEW its \in Seq(Item), NEW txs
    PROVE  /\ Without(its, txs) \in Seq(Item)
           /\ \A x : Has(Without(its, txs), x) <=> Has(its, x) /\ x.tx \notin txs
           /\ IsInjective(its) => IsInjective(Without(its, txs))
           /\ Names(Without(its, txs)) = Names(its) \ txs
<1> DEFINE K == {i \in ToSet(its) : i.tx \notin txs}
<1>1. Without(its, txs) = Keep(its, K)
  BY DEF Without
<1>2. \A x : Has(its, x) => (x \in K <=> x.tx \notin txs)
  BY ToSetIsHas
<1> HIDE DEF K
<1>3. /\ Without(its, txs) \in Seq(Item)
      /\ \A x : Has(Without(its, txs), x) <=> Has(its, x) /\ x \in K
      /\ IsInjective(its) => IsInjective(Without(its, txs))
  BY <1>1, KeepProperties
<1>4. \A x : Has(Without(its, txs), x) <=> Has(its, x) /\ x.tx \notin txs
  BY <1>2, <1>3
<1>5. \A t : t \in Names(Without(its, txs)) <=> t \in Names(its) \ txs
  BY <1>3, <1>4, NamesAre
<1> QED BY <1>3, <1>4, <1>5

-----------------------------------------------------------------------------
(* Costs *)

Units(txs) == {u \in txs \X (1..max_block_clvm_cost) : u[2] <= cost[u[1]]}

LEMMA UnitsFinite ==
    ASSUME NEW txs, IsFiniteSet(txs)
    PROVE  IsFiniteSet(Units(txs)) /\ TotalCost(txs) = Cardinality(Units(txs)) /\ TotalCost(txs) \in Nat
<1>1. IsFiniteSet(1..max_block_clvm_cost)
  BY LimitsAssumption, FS_Interval
<1>2. IsFiniteSet(txs \X (1..max_block_clvm_cost))
  BY <1>1, FS_Product
<1>3. Units(txs) \in SUBSET (txs \X (1..max_block_clvm_cost))
  BY DEF Units
<1>4. IsFiniteSet(Units(txs))
  BY <1>2, <1>3, FS_Subset
<1> QED BY <1>4, FS_CardinalityType DEF TotalCost, Units

LEMMA CostMonotone ==
    ASSUME NEW B, IsFiniteSet(B), NEW A \in SUBSET B
    PROVE  IsFiniteSet(A) /\ TotalCost(A) <= TotalCost(B)
<1>1. IsFiniteSet(A)
  BY FS_Subset
<1>2. Units(A) \in SUBSET Units(B)
  BY DEF Units
<1>3. Cardinality(Units(A)) <= Cardinality(Units(B))
  BY <1>2, UnitsFinite, FS_Subset
<1> QED BY <1>1, <1>3, UnitsFinite

LEMMA CostAdd ==
    ASSUME NEW A \in SUBSET Txs, IsFiniteSet(A), NEW t \in Txs
    PROVE  IsFiniteSet(A \cup {t}) /\ TotalCost(A \cup {t}) <= TotalCost(A) + cost[t]
<1> DEFINE f == [k \in 1..cost[t] |-> <<t, k>>]
<1>1. IsFiniteSet(A \cup {t})
  BY FS_AddElement
<1>2. cost[t] \in Nat /\ cost[t] <= max_block_clvm_cost /\ max_block_clvm_cost \in Nat
  BY MempoolTyping, LimitsAssumption
<1>3. f \in Surjection(1..cost[t], Units({t}))
  <2>1. \A k \in 1..cost[t] : <<t, k>> \in Units({t})
    BY <1>2 DEF Units
  <2>2. \A u \in Units({t}) : u[2] \in 1..cost[t] /\ u = <<t, u[2]>>
    BY <1>2 DEF Units
  <2> QED BY <2>1, <2>2 DEF Surjection
<1> HIDE DEF f
<1>4. IsFiniteSet(1..cost[t]) /\ Cardinality(1..cost[t]) = cost[t]
  <2>1. ASSUME NEW n \in Nat PROVE IsFiniteSet(1..n) /\ Cardinality(1..n) = n
    BY FS_Interval
  <2> QED BY <1>2, <2>1
<1>5. IsFiniteSet(Units({t})) /\ Cardinality(Units({t})) <= cost[t]
  BY <1>3, <1>4, FS_Surjection
<1>6. Units(A \cup {t}) = Units(A) \cup Units({t})
  BY DEF Units
<1>7. Cardinality(Units(A) \cup Units({t}))
        = Cardinality(Units(A)) + Cardinality(Units({t})) - Cardinality(Units(A) \cap Units({t}))
  BY <1>5, UnitsFinite, FS_Union
<1>8. Cardinality(Units(A) \cap Units({t})) \in Nat
  <2>1. Units(A) \cap Units({t}) \in SUBSET Units(A)
    OBVIOUS
  <2> QED BY <2>1, UnitsFinite, FS_Subset, FS_CardinalityType
<1>9. Cardinality(Units(A)) \in Nat /\ Cardinality(Units({t})) \in Nat
  BY <1>5, UnitsFinite, FS_CardinalityType
<1>10. /\ TotalCost(A) = Cardinality(Units(A))
       /\ TotalCost(A \cup {t}) = Cardinality(Units(A) \cup Units({t}))
  BY <1>1, <1>6, UnitsFinite
<1> QED BY <1>1, <1>2, <1>5, <1>7, <1>8, <1>9, <1>10

LEMMA NoCost == TotalCost({}) = 0
<1>1. Units({}) = {}
  BY DEF Units
<1> QED BY <1>1, FS_EmptySet, UnitsFinite

-----------------------------------------------------------------------------
(* The order of priority, by fee per cost, compares products. *)

LEMMA TimesNat == ASSUME NEW x \in Nat, NEW y \in Nat PROVE x * y \in Nat
OBVIOUS

LEMMA TimesMonotone ==
    ASSUME NEW x \in Nat, NEW y \in Nat, NEW k \in Nat, x >= y
    PROVE  x * k >= y * k
<1>1. (x - y) * k \in Nat
  OBVIOUS
<1>2. x * k = (x - y) * k + y * k
  OBVIOUS
<1>3. x * k \in Nat /\ y * k \in Nat
  OBVIOUS
<1> QED BY <1>1, <1>2, <1>3

LEMMA TimesStrict ==
    ASSUME NEW x \in Nat, NEW y \in Nat, NEW k \in Nat \ {0}
    PROVE  x * k >= y * k <=> x >= y
<1>1. CASE x >= y
  BY <1>1, TimesMonotone
<1>2. CASE y >= x + 1
  <2>1. y * k >= (x + 1) * k
    BY <1>2, TimesMonotone
  <2>2. (x + 1) * k = x * k + k /\ x * k \in Nat /\ y * k \in Nat
    OBVIOUS
  <2> QED BY <1>2, <2>1, <2>2
<1> QED BY <1>1, <1>2

LEMMA RatiosTransitive ==
    ASSUME NEW a \in Nat, NEW b \in Nat, NEW c \in Nat,
           NEW p \in Nat \ {0}, NEW q \in Nat \ {0}, NEW r \in Nat \ {0},
           a * q >= b * p, b * r >= c * q
    PROVE  /\ a * r >= c * p
           /\ a * r = c * p => a * q = b * p /\ b * r = c * q
<1>1. /\ a * q \in Nat /\ b * p \in Nat /\ b * r \in Nat /\ c * q \in Nat /\ a * r \in Nat /\ c * p \in Nat
  BY TimesNat
<1>2. (a * q) * r >= (b * p) * r /\ (b * r) * p >= (c * q) * p
  BY <1>1, TimesMonotone
<1>3. (a * q) * r = (a * r) * q /\ (b * p) * r = (b * r) * p /\ (c * q) * p = (c * p) * q
  OBVIOUS
<1>4. /\ (a * r) * q \in Nat /\ (b * r) * p \in Nat /\ (c * p) * q \in Nat
  BY <1>1, TimesNat
<1>5. (a * r) * q >= (c * p) * q
  BY <1>2, <1>3, <1>4
<1>6. a * r >= c * p
  BY <1>1, <1>5, TimesStrict
<1>7. ASSUME a * r = c * p PROVE a * q = b * p /\ b * r = c * q
  <2>1. (a * q) * r = (b * p) * r /\ (b * r) * p = (c * q) * p
    BY <1>2, <1>3, <1>4, <1>7
  <2>2. ASSUME NEW x \in Nat, NEW y \in Nat, NEW k \in Nat \ {0}, x * k = y * k PROVE x = y
    <3>1. x * k >= y * k /\ y * k >= x * k
      BY <2>2
    <3> QED BY <3>1, TimesStrict
  <2> QED BY <1>1, <2>1, <2>2
<1> QED BY <1>6, <1>7

LEMMA VirtualCost == \A t \in Txs : virtual_cost(t) \in Nat \ {0} /\ fee[t] \in Nat
<1> SUFFICES ASSUME NEW t \in Txs PROVE virtual_cost(t) \in Nat \ {0} /\ fee[t] \in Nat
  OBVIOUS
<1>1. Cardinality(coin_spends[t]) \in Nat
  BY MempoolTyping, FS_CardinalityType
<1>2. cost[t] \in Nat /\ cost[t] >= 1 /\ fee[t] \in Nat /\ SPEND_PENALTY_COST \in Nat
  BY MempoolTyping, LimitsAssumption
<1>3. Cardinality(coin_spends[t]) * SPEND_PENALTY_COST \in Nat
  BY <1>1, <1>2
<1> QED BY <1>2, <1>3 DEF virtual_cost

LEMMA OutranksIsTotal ==
    ASSUME NEW its \in Seq(Item)
    PROVE  /\ \A i, j \in 1..Len(its) : Outranks(its, i, j) \/ Outranks(its, j, i)
           /\ \A i, j, k \in 1..Len(its) :
                 Outranks(its, i, j) /\ Outranks(its, j, k) => Outranks(its, i, k)
<1> DEFINE F(i) == fee[its[i].tx]
           V(i) == virtual_cost(its[i].tx)
<1>1. \A i \in 1..Len(its) : F(i) \in Nat /\ V(i) \in Nat \ {0}
  <2>1. \A i \in 1..Len(its) : its[i] \in Item
    OBVIOUS
  <2>2. \A x \in Item : x.tx \in Txs
    BY DEF Item
  <2> QED BY <2>1, <2>2, VirtualCost
<1>2. \A i, j : Outranks(its, i, j) <=> F(i) * V(j) > F(j) * V(i) \/ (F(i) * V(j) = F(j) * V(i) /\ i <= j)
  BY DEF Outranks
<1> HIDE DEF F, V
<1>0. ASSUME NEW i \in 1..Len(its), NEW j \in 1..Len(its) PROVE F(i) * V(j) \in Nat
  <2>1. F(i) \in Nat /\ V(j) \in Nat
    BY <1>1
  <2> QED BY <2>1, TimesNat
<1>3. ASSUME NEW i \in 1..Len(its), NEW j \in 1..Len(its)
      PROVE  Outranks(its, i, j) \/ Outranks(its, j, i)
  <2>1. F(i) * V(j) \in Nat /\ F(j) * V(i) \in Nat
    BY <1>0
  <2> QED BY <1>2, <2>1
<1>4. ASSUME NEW i \in 1..Len(its), NEW j \in 1..Len(its), NEW k \in 1..Len(its),
             Outranks(its, i, j), Outranks(its, j, k)
      PROVE  Outranks(its, i, k)
  <2>1. /\ F(i) * V(j) \in Nat /\ F(j) * V(i) \in Nat /\ F(j) * V(k) \in Nat
        /\ F(k) * V(j) \in Nat /\ F(i) * V(k) \in Nat /\ F(k) * V(i) \in Nat
    BY <1>0
  <2>2. F(i) * V(j) >= F(j) * V(i) /\ F(j) * V(k) >= F(k) * V(j)
    BY <1>2, <1>4, <2>1
  <2>3. /\ F(i) * V(k) >= F(k) * V(i)
        /\ F(i) * V(k) = F(k) * V(i) => F(i) * V(j) = F(j) * V(i) /\ F(j) * V(k) = F(k) * V(j)
    <3>1. /\ F(i) \in Nat /\ F(j) \in Nat /\ F(k) \in Nat
          /\ V(i) \in Nat \ {0} /\ V(j) \in Nat \ {0} /\ V(k) \in Nat \ {0}
      BY <1>1
    <3>2. PICK a \in Nat, b \in Nat, c \in Nat : a = F(i) /\ b = F(j) /\ c = F(k)
      BY <3>1
    <3>3. PICK p \in Nat \ {0}, q \in Nat \ {0}, r \in Nat \ {0} : p = V(i) /\ q = V(j) /\ r = V(k)
      BY <3>1
    <3>4. a * q >= b * p /\ b * r >= c * q
      BY <2>2, <3>2, <3>3
    <3>5. a * r >= c * p /\ (a * r = c * p => a * q = b * p /\ b * r = c * q)
      BY <3>4, RatiosTransitive
    <3> QED BY <3>2, <3>3, <3>5
  <2>4. CASE F(i) * V(k) # F(k) * V(i)
    BY <1>2, <2>1, <2>3, <2>4
  <2>5. CASE F(i) * V(k) = F(k) * V(i)
    <3>1. i <= j /\ j <= k
      BY <1>2, <1>4, <2>1, <2>3, <2>5
    <3> QED BY <1>2, <2>5, <3>1
  <2> QED BY <2>4, <2>5
<1> QED BY <1>3, <1>4

-----------------------------------------------------------------------------
(* What add_to_pool() evicts is enough: of the items that stay, the one with  *)
(* the lowest priority bounds the cost of all of them.                        *)

LEMMA EvictionMakesRoom ==
    ASSUME NEW its \in Seq(Item), NEW t \in Txs
    PROVE  TotalCost(Names(its) \ EvictedFull(its, t)) + cost[t] <= max_size_in_cost
<1> DEFINE D == 1..Len(its)
           room == max_size_in_cost - cost[t]
           R == {j \in D : CumulativeCost(its, D, j) <= room}
           Of(J) == {its[j].tx : j \in J}
           left == Names(its) \ EvictedFull(its, t)
<1>1. cost[t] \in Nat /\ max_size_in_cost \in Nat /\ room \in Nat
  BY MempoolTyping, LimitsAssumption
<1>2. DOMAIN its = D /\ Len(its) \in Nat /\ Names(its) = Of(D)
  BY DEF Names
<1>3. IsFiniteSet(Names(its)) /\ left \in SUBSET Names(its) /\ TotalCost(Names(its)) \in Nat
  BY NamesAre, UnitsFinite
<1>4. \A J \in SUBSET D : IsFiniteSet(Of(J)) /\ TotalCost(Of(J)) \in Nat
  <2>1. \A J \in SUBSET D : Of(J) \in SUBSET Of(D)
    OBVIOUS
  <2> QED BY <1>2, <1>3, <2>1, FS_Subset, UnitsFinite
<1>5. CASE TotalCost(Names(its)) + cost[t] <= max_size_in_cost
  <2>1. TotalCost(left) <= TotalCost(Names(its)) /\ TotalCost(left) \in Nat
    BY <1>3, CostMonotone, UnitsFinite
  <2> QED BY <1>1, <1>3, <1>5, <2>1
<1>6. CASE TotalCost(Names(its)) + cost[t] > max_size_in_cost
  <2>1. EvictedFull(its, t) = Of({j \in D : CumulativeCost(its, D, j) > room})
    BY <1>2, <1>6 DEF EvictedFull
  <2>2. \A j \in D : CumulativeCost(its, D, j) \in Nat
    <3>1. \A j \in D : CumulativeCost(its, D, j) = TotalCost(Of({k \in D : Outranks(its, k, j)}))
      BY DEF CumulativeCost
    <3> HIDE DEF Of, D
    <3> QED BY <1>4, <3>1
  <2>3. left \in SUBSET Of(R)
    BY <1>1, <1>2, <2>1, <2>2
  <2>4. CASE R = {}
    <3>1. left = {}
      BY <2>3, <2>4
    <3>2. TotalCost(left) = 0
      BY <3>1, NoCost, Zenon
    <3> HIDE DEF left
    <3> QED BY <1>1, <3>2 DEF left
  <2>5. CASE R # {}
    <3> DEFINE Q == {ij \in D \X D : Outranks(its, ij[2], ij[1])}
    <3>1. \A i, j \in D : <<i, j>> \in Q <=> Outranks(its, j, i)
      OBVIOUS
    <3>2. R \in SUBSET D /\ IsFiniteSet(R)
      <4>1. R \in SUBSET D
        OBVIOUS
      <4>2. IsFiniteSet(D)
        BY <1>2, FS_Interval
      <4> HIDE DEF R, D
      <4> QED BY <4>1, <4>2, FS_Subset
    <3>3. PICK m \in R : \A j \in R : <<m, j>> \in Q
      <4>1. /\ \A x, y \in R : <<x, y>> \in Q \/ <<y, x>> \in Q
            /\ \A x, y, z \in R : <<x, y>> \in Q /\ <<y, z>> \in Q => <<x, z>> \in Q
        <5> HIDE DEF Q, R
        <5> QED BY <3>1, <3>2, OutranksIsTotal
      <4> HIDE DEF Q, R
      <4> QED BY <2>5, <3>2, <4>1, LeastInOrder
    <3> DEFINE up == {k \in D : Outranks(its, k, m)}
    <3>4. R \in SUBSET up
      BY <3>1, <3>3
    <3>5. TotalCost(Of(up)) <= room
      BY <3>3 DEF CumulativeCost
    <3>6. left \in SUBSET Of(up)
      BY <2>3, <3>4
    <3>7. TotalCost(left) <= TotalCost(Of(up)) /\ TotalCost(left) \in Nat /\ TotalCost(Of(up)) \in Nat
      <4>1. up \in SUBSET D
        OBVIOUS
      <4> HIDE DEF up, Of, left
      <4> QED BY <1>4, <3>6, <4>1, CostMonotone, UnitsFinite
    <3> HIDE DEF up, Of, left
    <3> QED BY <1>1, <3>5, <3>7 DEF left
  <2> QED BY <2>4, <2>5
<1> QED BY <1>1, <1>3, <1>5, <1>6

-----------------------------------------------------------------------------
(* The caches *)

LEMMA InjectiveCard ==
    ASSUME NEW S, NEW s \in Seq(S), IsInjective(s)
    PROVE  IsFiniteSet(ToSet(s)) /\ Cardinality(ToSet(s)) = Len(s)
<1>1. DOMAIN s = 1..Len(s) /\ Len(s) \in Nat
  OBVIOUS
<1>2. IsFiniteSet(1..Len(s)) /\ Cardinality(1..Len(s)) = Len(s)
  <2>1. ASSUME NEW n \in Nat PROVE IsFiniteSet(1..n) /\ Cardinality(1..n) = n
    BY FS_Interval
  <2> QED BY <1>1, <2>1
<1> DEFINE f == [i \in 1..Len(s) |-> s[i]]
<1>3. f \in Surjection(1..Len(s), ToSet(s)) /\ f \in Injection(1..Len(s), ToSet(s))
  BY <1>1 DEF ToSet, Injection, Surjection, IsInjective
<1> HIDE DEF f
<1> QED BY <1>2, <1>3, FS_Surjection

\* Of the transactions that stay, the one that would go next bounds the cost and
\* the number of all of them.
LEMMA BoundedProperties ==
    ASSUME NEW cache \in Seq(Txs), IsInjective(cache), NEW rank, \A t \in Txs : rank[t] \in Nat
    PROVE  /\ Bounded(cache, rank) \in Seq(Txs)
           /\ IsInjective(Bounded(cache, rank))
           /\ \A x : Has(Bounded(cache, rank), x) => Has(cache, x)
           /\ TotalCost(ToSet(Bounded(cache, rank))) <= cache_max_total_cost
           /\ Len(Bounded(cache, rank)) <= cache_max_size
<1> DEFINE D == 1..Len(cache)
           Prior(i, j) == rank[cache[i]] > rank[cache[j]] \/ (rank[cache[i]] = rank[cache[j]] /\ i < j)
           rest(i) == {cache[j] : j \in {k \in D : k = i \/ Prior(i, k)}}
           fits == {i \in D : TotalCost(rest(i)) <= cache_max_total_cost /\ Cardinality(rest(i)) <= cache_max_size}
           kept == {cache[i] : i \in fits}
           r == Bounded(cache, rank)
<1>1. DOMAIN cache = D /\ Len(cache) \in Nat /\ IsFiniteSet(D)
  BY FS_Interval
<1>2. \A i \in D : cache[i] \in Txs /\ rank[cache[i]] \in Nat
  OBVIOUS
<1>3. r = Keep(cache, kept)
  BY <1>1 DEF Bounded
<1> HIDE DEF r
<1>4. /\ r \in Seq(Txs) /\ IsInjective(r)
      /\ \A x : Has(r, x) <=> Has(cache, x) /\ x \in kept
  <2> HIDE DEF kept
  <2> QED BY <1>3, KeepProperties
<1>5. ToSet(r) \in SUBSET kept
  <2> HIDE DEF kept
  <2> QED BY <1>4, ToSetIsHas
<1>6. /\ IsFiniteSet(ToSet(r)) /\ Cardinality(ToSet(r)) = Len(r)
  BY <1>4, InjectiveCard
<1>7. cache_max_total_cost \in Nat /\ cache_max_size \in Nat
  BY LimitsAssumption
<1>8. CASE fits = {}
  <2>1. ToSet(r) = {}
    BY <1>5, <1>8
  <2>2. TotalCost(ToSet(r)) = 0 /\ Len(r) = 0
    BY <1>6, <2>1, NoCost, FS_EmptySet
  <2> QED BY <1>4, <1>7, <2>2 DEF r
<1>9. CASE fits # {}
  <2> DEFINE Q == {ij \in D \X D : ij[1] = ij[2] \/ Prior(ij[1], ij[2])}
  <2>1. \A i, j \in D : <<i, j>> \in Q <=> i = j \/ Prior(i, j)
    OBVIOUS
  <2>2. fits \in SUBSET D /\ IsFiniteSet(fits)
    <3>1. fits \in SUBSET D
      OBVIOUS
    <3> HIDE DEF fits, D
    <3> QED BY <1>1, <3>1, FS_Subset
  <2>3. /\ \A i, j \in D : i = j \/ Prior(i, j) \/ Prior(j, i)
        /\ \A i, j, k \in D : Prior(i, j) /\ Prior(j, k) => Prior(i, k)
    <3>1. \A i \in D : i \in Nat
      OBVIOUS
    <3>2. ASSUME NEW i \in D, NEW j \in D PROVE i = j \/ Prior(i, j) \/ Prior(j, i)
      BY <1>2, <3>1
    <3>3. ASSUME NEW i \in D, NEW j \in D, NEW k \in D, Prior(i, j), Prior(j, k)
          PROVE  Prior(i, k)
      BY <1>2, <3>1, <3>3
    <3> HIDE DEF Prior, D
    <3> QED BY <3>2, <3>3
  <2>4. PICK m \in fits : \A j \in fits : <<m, j>> \in Q
    <3>1. /\ \A x, y \in fits : <<x, y>> \in Q \/ <<y, x>> \in Q
          /\ \A x, y, z \in fits : <<x, y>> \in Q /\ <<y, z>> \in Q => <<x, z>> \in Q
      <4> HIDE DEF Q, fits, Prior
      <4> QED BY <2>1, <2>2, <2>3
    <3> HIDE DEF Q, fits
    <3> QED BY <1>9, <2>2, <3>1, LeastInOrder
  <2>5. kept \in SUBSET rest(m)
    <3> HIDE DEF Prior, Q
    <3>1. \A j \in fits : j \in D /\ (j = m \/ Prior(m, j))
      BY <2>1, <2>2, <2>4
    <3> QED BY <3>1
  <2>6. TotalCost(rest(m)) <= cache_max_total_cost /\ Cardinality(rest(m)) <= cache_max_size
    OBVIOUS
  <2>7. IsFiniteSet(rest(m))
    <3>1. rest(m) \in SUBSET ToSet(cache)
      BY <1>1 DEF ToSet
    <3> HIDE DEF rest
    <3> QED BY <3>1, InjectiveCard, FS_Subset
  <2> HIDE DEF rest, kept, fits
  <2>8. ToSet(r) \in SUBSET rest(m)
    BY <1>5, <2>5
  <2>9. /\ TotalCost(ToSet(r)) <= TotalCost(rest(m)) /\ TotalCost(ToSet(r)) \in Nat
        /\ TotalCost(rest(m)) \in Nat
    BY <1>6, <2>7, <2>8, CostMonotone, UnitsFinite
  <2>10. /\ Cardinality(ToSet(r)) <= Cardinality(rest(m)) /\ Cardinality(ToSet(r)) \in Nat
         /\ Cardinality(rest(m)) \in Nat
    BY <1>6, <2>7, <2>8, FS_Subset, FS_CardinalityType
  <2>11. TotalCost(ToSet(r)) <= cache_max_total_cost
    BY <1>7, <2>6, <2>9
  <2>12. Len(r) <= cache_max_size
    BY <1>6, <1>7, <2>6, <2>10
  <2> QED BY <1>4, <2>11, <2>12 DEF r
<1> QED BY <1>8, <1>9

LEMMA AddToCache ==
    ASSUME NEW cache, IsCache(cache), NEW t \in Txs, t \notin ToSet(cache),
           NEW rank, \A u \in Txs : rank[u] \in Nat
    PROVE  /\ IsCache(Bounded(Append(cache, t), rank))
           /\ \A x : Has(Bounded(Append(cache, t), rank), x) => Has(cache, x) \/ x = t
<1>1. cache \in Seq(Txs) /\ IsInjective(cache) /\ ~ Has(cache, t)
  BY ToSetIsHas DEF IsCache
<1>2. /\ Append(cache, t) \in Seq(Txs) /\ IsInjective(Append(cache, t))
      /\ \A x : Has(Append(cache, t), x) <=> Has(cache, x) \/ x = t
  BY <1>1, AppendFresh
<1> DEFINE new == Append(cache, t)
<1> HIDE DEF new
<1> QED BY <1>2, BoundedProperties DEF IsCache, new

LEMMA KeepCache ==
    ASSUME NEW cache, IsCache(cache), NEW S
    PROVE  /\ IsCache(Keep(cache, S))
           /\ \A x : Has(Keep(cache, S), x) <=> Has(cache, x) /\ x \in S
<1>1. cache \in Seq(Txs) /\ IsInjective(cache)
  BY DEF IsCache
<1>2. /\ Keep(cache, S) \in Seq(Txs) /\ IsInjective(Keep(cache, S))
      /\ Len(Keep(cache, S)) <= Len(cache)
      /\ \A x : Has(Keep(cache, S), x) <=> Has(cache, x) /\ x \in S
  BY <1>1, KeepProperties
<1>3. ToSet(Keep(cache, S)) \in SUBSET ToSet(cache)
  BY <1>1, <1>2, ToSetIsHas
<1>4. IsFiniteSet(ToSet(cache))
  BY <1>1, InjectiveCard
<1>5. /\ TotalCost(ToSet(Keep(cache, S))) <= TotalCost(ToSet(cache))
      /\ TotalCost(ToSet(Keep(cache, S))) \in Nat /\ TotalCost(ToSet(cache)) \in Nat
  BY <1>3, <1>4, CostMonotone, UnitsFinite
<1>6. Len(Keep(cache, S)) \in Nat /\ Len(cache) \in Nat
  BY <1>1, <1>2
<1> QED BY <1>2, <1>5, <1>6, LimitsAssumption DEF IsCache

LEMMA EmptyCache == IsCache(<<>>)
<1>1. <<>> \in Seq(Txs) /\ Len(<<>>) = 0 /\ IsInjective(<<>>)
  BY DEF IsInjective
<1>2. ToSet(<<>>) = {}
  BY DEF ToSet
<1>3. TotalCost(ToSet(<<>>)) = 0
  BY <1>2, NoCost, Zenon
<1>4. 0 <= cache_max_total_cost /\ Len(<<>>) <= cache_max_size
  BY <1>1, LimitsAssumption
<1> QED BY <1>1, <1>3, <1>4 DEF IsCache

-----------------------------------------------------------------------------
(* The pool *)

LEMMA EmptyPool == IsPool(<<>>, {})
<1>1. <<>> \in Seq(Item) /\ Len(<<>>) = 0 /\ IsInjective(<<>>)
  BY DEF IsInjective
<1>2. \A x : ~ Has(<<>>, x)
  BY DEF Has
<1>3. Names(<<>>) = {}
  BY DEF Names
<1>4. TotalCost(Names(<<>>)) = 0
  BY <1>3, NoCost, Zenon
<1>5. TotalCost(Names(<<>>)) <= max_size_in_cost
  BY <1>4, LimitsAssumption
<1> QED BY <1>1, <1>2, <1>5 DEF IsPool

\* Removing items with their rows
LEMMA PoolWithout ==
    ASSUME NEW its, NEW index, IsPool(its, index), NEW txs
    PROVE  IsPool(Without(its, txs), {s \in index : s[2] \notin txs})
<1> DEFINE r == Without(its, txs)
           left == {s \in index : s[2] \notin txs}
<1>1. its \in Seq(Item) /\ IsInjective(its)
  BY DEF IsPool
<1>2. /\ r \in Seq(Item) /\ IsInjective(r)
      /\ \A x : Has(r, x) <=> Has(its, x) /\ x.tx \notin txs
      /\ Names(r) = Names(its) \ txs
  BY <1>1, WithoutProperties
<1> HIDE DEF r
<1>3. ASSUME NEW s PROVE s \in left <=> \E x : Has(r, x) /\ s \in Rows(x)
  <2>1. \A x : s \in Rows(x) => s[2] = x.tx
    BY DEF Rows
  <2> QED BY <1>2, <2>1 DEF IsPool
<1>4. TotalCost(Names(r)) <= max_size_in_cost
  <2>1. Names(r) \in SUBSET Names(its) /\ IsFiniteSet(Names(its))
    BY <1>1, <1>2, NamesAre
  <2>2. TotalCost(Names(r)) <= TotalCost(Names(its)) /\ TotalCost(Names(r)) \in Nat /\ TotalCost(Names(its)) \in Nat
    BY <2>1, CostMonotone, UnitsFinite
  <2>3. TotalCost(Names(its)) <= max_size_in_cost
    BY DEF IsPool
  <2> QED BY <2>2, <2>3, LimitsAssumption
<1>5. left \subseteq Coins \X Txs
  BY DEF IsPool
<1>6. /\ \A x, y : Has(r, x) /\ Has(r, y) /\ x.tx = y.tx => x = y
      /\ \A x : Has(r, x) => VersionsApart(x)
  BY <1>2 DEF IsPool
<1> HIDE DEF left
<1>7. IsPool(r, left)
  BY <1>2, <1>3, <1>4, <1>5, <1>6 DEF IsPool
<1> QED BY <1>7 DEF r, left

\* Adding an item that fits
LEMMA PoolWith ==
    ASSUME NEW its, NEW index, IsPool(its, index), NEW x \in Item, VersionsApart(x),
           x.tx \notin Names(its), TotalCost(Names(its)) + cost[x.tx] <= max_size_in_cost
    PROVE  IsPool(Append(its, x), index \cup Rows(x))
<1> DEFINE r == Append(its, x)
<1>1. its \in Seq(Item) /\ IsInjective(its)
  BY DEF IsPool
<1>2. /\ \A y : Has(its, y) => y.tx # x.tx
      /\ ~ Has(its, x)
  BY <1>1, NamesAre
<1>3. /\ r \in Seq(Item) /\ IsInjective(r)
      /\ \A y : Has(r, y) <=> Has(its, y) \/ y = x
  BY <1>1, <1>2, AppendFresh
<1> HIDE DEF r
<1>4. \A s : s \in index \cup Rows(x) <=> \E y : Has(r, y) /\ s \in Rows(y)
  BY <1>3 DEF IsPool
<1>5. x.tx \in Txs /\ x.lineage \in Coins \cup {NoCoin}
  BY DEF Item
<1>6. Rows(x) \subseteq Coins \X Txs
  <2>1. Effective(x.tx, x.lineage) \subseteq Coins
    BY <1>5, MempoolTyping DEF Effective
  <2> QED BY <1>5, <2>1 DEF Rows
<1>7. TotalCost(Names(r)) <= max_size_in_cost
  <2>1. Names(its) \in SUBSET Txs /\ IsFiniteSet(Names(its))
    BY <1>1, NamesAre
  <2>2. \A t : t \in Names(r) <=> t \in Names(its) \cup {x.tx}
    <3>1. \A t : t \in Names(r) <=> \E y : Has(r, y) /\ y.tx = t
      BY <1>3, NamesAre
    <3>2. \A t : t \in Names(its) <=> \E y : Has(its, y) /\ y.tx = t
      BY <1>1, NamesAre
    <3> QED BY <1>3, <3>1, <3>2
  <2>3. Names(r) = Names(its) \cup {x.tx}
    BY <2>2
  <2>4. TotalCost(Names(r)) <= TotalCost(Names(its)) + cost[x.tx] /\ IsFiniteSet(Names(r))
    BY <1>5, <2>1, <2>3, CostAdd
  <2>5. TotalCost(Names(r)) \in Nat /\ TotalCost(Names(its)) \in Nat
    BY <2>1, <2>4, UnitsFinite
  <2>6. cost[x.tx] \in Nat
    BY <1>5, MempoolTyping, LimitsAssumption
  <2> QED BY <2>4, <2>5, <2>6, LimitsAssumption
<1>8. /\ \A y, z : Has(r, y) /\ Has(r, z) /\ y.tx = z.tx => y = z
      /\ \A y : Has(r, y) => VersionsApart(y)
  BY <1>2, <1>3 DEF IsPool
<1>9. index \cup Rows(x) \subseteq Coins \X Txs
  BY <1>6 DEF IsPool
<1>10. IsPool(r, index \cup Rows(x))
  BY <1>3, <1>4, <1>7, <1>8, <1>9 DEF IsPool
<1> QED BY <1>10 DEF r

-----------------------------------------------------------------------------
(* add_spend_bundle() *)

\* The latest version of the singleton of t is the only unspent one.
LEMMA LatestIs ==
    ASSUME unspent \subseteq Coins, NEW t \in Txs
    PROVE  /\ Lineage(ff[t]) \in Coins \cup {NoCoin}
           /\ Lineage(ff[t]) # NoCoin => /\ IsVersion(Lineage(ff[t]), t)
                                         /\ Lineage(ff[t]) \in unspent
                                         /\ \A c \in unspent : IsVersion(c, t) => c = Lineage(ff[t])
<1> DEFINE versions == {d \in unspent \cap SameAsParent : singleton[d] = singleton[ff[t]]}
<1>1. \A c : c \in versions <=> c \in unspent /\ IsVersion(c, t)
  BY DEF IsVersion
<1> DEFINE l == IF \E d \in versions : versions = {d} THEN CHOOSE d \in versions : TRUE ELSE NoCoin
<1>2. Lineage(ff[t]) = l
  BY DEF Lineage
<1> HIDE DEF versions
<1>3. CASE \E d \in versions : versions = {d}
  <2>1. l \in versions /\ \A d \in versions : d = l
    BY <1>3
  <2> HIDE DEF l
  <2> QED BY <1>1, <1>2, <2>1
<1>4. CASE ~ \E d \in versions : versions = {d}
  BY <1>2, <1>4
<1> QED BY <1>3, <1>4

\* A bundle that is fast forwarded is based on that version.
LEMMA LineageIs ==
    ASSUME unspent \subseteq Coins, NEW t \in Txs
    PROVE  /\ LineageOf(t) \in Coins \cup {NoCoin}
           /\ LineageOf(t) # NoCoin => /\ ff[t] # NoCoin
                                       /\ IsVersion(LineageOf(t), t)
                                       /\ LineageOf(t) \in unspent
                                       /\ \A c \in unspent : IsVersion(c, t) => c = LineageOf(t)
<1>1. LineageOf(t) = NoCoin \/ (ff[t] # NoCoin /\ LineageOf(t) = Lineage(ff[t]))
  BY DEF LineageOf
<1> QED BY <1>1, LatestIs

LEMMA VerdictMeans ==
    ASSUME NEW t, NEW l
    PROVE  /\ Verdict(t, l) = "add" => /\ t \notin Names(items) /\ ~ Refused(t, l)
                                       /\ ~ (height[mempool_peak] < assert_height[t])
                                       /\ ~ (height[mempool_peak] >= assert_before_height[t])
           /\ Verdict(t, l) = "early" => height[mempool_peak] < assert_height[t]
<1>1. CASE t \in Names(items)
  BY <1>1 DEF Verdict
<1>2. CASE t \notin Names(items) /\ Refused(t, l)
  BY <1>2 DEF Verdict
<1>3. CASE t \notin Names(items) /\ ~ Refused(t, l)
  <2> DEFINE rest == IF height[mempool_peak] < assert_height[t] THEN "early"
                     ELSE IF height[mempool_peak] >= assert_before_height[t] THEN "failed"
                     ELSE IF Conflicts(t, l) # {} /\ ~ CanReplace(Conflicts(t, l), t, l) THEN "conflict"
                     ELSE "add"
  <2>1. Verdict(t, l) = rest
    BY <1>3 DEF Verdict
  <2> QED BY <1>3, <2>1
<1> QED BY <1>1, <1>2, <1>3

\* What a bundle that is added looks like in the pool
NewItem(t) == [tx |-> t, lineage |-> LineageOf(t)]

LEMMA NewItemApart ==
    ASSUME unspent \subseteq Coins, NEW t \in Txs, ~ Refused(t, LineageOf(t))
    PROVE  NewItem(t) \in Item /\ VersionsApart(NewItem(t))
<1> DEFINE l == LineageOf(t)
<1>1. NewItem(t) \in Item /\ NewItem(t).tx = t /\ NewItem(t).lineage = l
  BY LineageIs DEF NewItem, Item
<1>2. ASSUME l # NoCoin, NEW c \in coin_spends[t] \ {ff[t]}, IsVersion(c, t) PROVE FALSE
  <2>1. c \in unspent /\ l \notin coin_spends[t] \ {ff[t]}
    BY <1>2 DEF Refused, IsFF
  <2>2. c = l
    BY <1>2, <2>1, LineageIs
  <2> QED BY <1>2, <2>1, <2>2
<1> QED BY <1>1, <1>2, LineageIs DEF VersionsApart

LEMMA AddDoes ==
    ASSUME items \in Seq(Item), NEW t \in Txs, NEW status,
           AddSpendBundle(t, status) \/ TooSlow(t, status)
    PROVE  /\ \/ items' = items /\ spends' = spends
              \/ \E gone : /\ items' = Without(items, gone)
                           /\ spends' = {s \in spends : s[2] \notin gone}
              \/ /\ Verdict(t, LineageOf(t)) = "add"
                 /\ \E gone : /\ Conflicts(t, LineageOf(t)) \subseteq gone
                              /\ items' = Append(Without(items, gone), NewItem(t))
                              /\ spends' = {s \in spends : s[2] \notin gone} \cup Rows(NewItem(t))
                              /\ TotalCost(Names(Without(items, gone))) + cost[t] <= max_size_in_cost
           /\ conflict_cache' \in {conflict_cache, ConflictCacheAdd(t)}
           /\ \/ pending_cache' = pending_cache
              \/ /\ height[mempool_peak] < assert_height[t]
                 /\ pending_cache' = PendingCacheAdd(t)
<1>1. CASE TooSlow(t, status)
  BY <1>1 DEF TooSlow, cache_vars
<1>2. CASE AddSpendBundle(t, status)
  <2> DEFINE lineage == LineageOf(t)
             verdict == Verdict(t, lineage)
             conflicts == Conflicts(t, lineage)
             without == RemoveFromPool(conflicts)
             refused == SoonRefused(without.items, t)
             soon == {without.items[i].tx : i \in EvictedSoon(without.items, t)}
             its == Without(without.items, soon)
             full == EvictedFull(its, t)
             gone == IF refused THEN conflicts ELSE conflicts \cup soon \cup full
             left == RemoveFromPool(gone)
  <2>1. /\ items' = CASE verdict # "add" -> items
                      [] verdict = "add" /\ refused -> left.items
                      [] OTHER -> Append(left.items, [tx |-> t, lineage |-> lineage])
        /\ spends' = CASE verdict # "add" -> spends
                       [] verdict = "add" /\ refused -> left.spends
                       [] OTHER -> left.spends \cup {<<c, t>> : c \in Effective(t, lineage)}
        /\ conflict_cache' = IF verdict = "conflict" THEN ConflictCacheAdd(t) ELSE conflict_cache
        /\ pending_cache' = IF verdict = "early" THEN PendingCacheAdd(t) ELSE pending_cache
    BY <1>2 DEF AddSpendBundle
  <2>2. verdict = "early" => height[mempool_peak] < assert_height[t]
    BY VerdictMeans
  <2>3. left.items = Without(items, gone) /\ left.spends = {s \in spends : s[2] \notin gone}
    BY DEF RemoveFromPool
  <2>4. without.items = Without(items, conflicts)
    BY DEF RemoveFromPool
  <2>5. {<<c, t>> : c \in Effective(t, lineage)} = Rows(NewItem(t))
    BY DEF Rows, NewItem
  <2>6. ~ refused => TotalCost(Names(Without(items, gone))) + cost[t] <= max_size_in_cost
    <3> SUFFICES ASSUME ~ refused PROVE TotalCost(Names(Without(items, gone))) + cost[t] <= max_size_in_cost
      OBVIOUS
    <3>1. gone = conflicts \cup soon \cup full
      OBVIOUS
    <3> HIDE DEF gone, refused, full, conflicts, soon
    <3>2. without.items \in Seq(Item) /\ Names(without.items) = Names(items) \ conflicts
      <4> HIDE DEF without
      <4> QED BY <2>4, WithoutProperties
    <3>3. its \in Seq(Item) /\ Names(its) = Names(without.items) \ soon
      <4> HIDE DEF without
      <4> QED BY <3>2, WithoutProperties
    <3>4. Names(Without(items, gone)) = Names(items) \ gone
      BY WithoutProperties
    <3> HIDE DEF its, without
    <3>5. Names(Without(items, gone)) = Names(its) \ full
      BY <3>1, <3>2, <3>3, <3>4
    <3>6. TotalCost(Names(its) \ full) + cost[t] <= max_size_in_cost
      BY <3>3, EvictionMakesRoom DEF full
    <3> QED BY <3>5, <3>6, Zenon
  <2>7. conflicts \subseteq gone
    OBVIOUS
  <2> HIDE DEF gone, left, refused, conflicts, verdict
  <2>8. \/ items' = items /\ spends' = spends
        \/ \E g : items' = Without(items, g) /\ spends' = {s \in spends : s[2] \notin g}
        \/ /\ verdict = "add"
           /\ \E g : /\ conflicts \subseteq g
                     /\ items' = Append(Without(items, g), NewItem(t))
                     /\ spends' = {s \in spends : s[2] \notin g} \cup Rows(NewItem(t))
                     /\ TotalCost(Names(Without(items, g))) + cost[t] <= max_size_in_cost
    <3>1. CASE verdict # "add"
      BY <2>1, <3>1
    <3>2. CASE verdict = "add" /\ refused
      <4>1. items' = left.items /\ spends' = left.spends
        BY <2>1, <3>2
      <4> QED BY <2>3, <4>1
    <3>3. CASE verdict = "add" /\ ~ refused
      <4>1. items' = Append(left.items, NewItem(t)) /\ spends' = left.spends \cup Rows(NewItem(t))
        BY <2>1, <2>5, <3>3 DEF NewItem
      <4>2. TotalCost(Names(Without(items, gone))) + cost[t] <= max_size_in_cost
        BY <2>6, <3>3
      <4>3. items' = Append(Without(items, gone), NewItem(t))
        BY <2>3, <4>1
      <4>4. spends' = {s \in spends : s[2] \notin gone} \cup Rows(NewItem(t))
        BY <2>3, <4>1
      <4> QED BY <2>7, <3>3, <4>2, <4>3, <4>4
    <3> QED BY <3>1, <3>2, <3>3
  <2> QED BY <2>1, <2>2, <2>8 DEF verdict, conflicts
<1> QED BY <1>1, <1>2

LEMMA AddKeepsPool ==
    ASSUME IsPool(items, spends), IsCache(conflict_cache), IsCache(pending_cache),
           unspent \subseteq Coins, NEW t \in Txs, NEW status,
           AddSpendBundle(t, status) \/ TooSlow(t, status)
    PROVE  /\ IsPool(items', spends')
           /\ IsCache(conflict_cache')
           /\ IsCache(pending_cache')
           /\ \A u : Has(pending_cache', u) =>
                        Has(pending_cache, u) \/ (u = t /\ height[mempool_peak] < assert_height[t])
<1>1. items \in Seq(Item)
  BY DEF IsPool
<1>2. ASSUME items' = items, spends' = spends PROVE IsPool(items', spends')
  BY <1>2 DEF IsPool
<1>3. ASSUME NEW gone, items' = Without(items, gone), spends' = {s \in spends : s[2] \notin gone}
      PROVE  IsPool(items', spends')
  BY <1>3, PoolWithout
<1>4. ASSUME Verdict(t, LineageOf(t)) = "add", NEW gone,
             items' = Append(Without(items, gone), NewItem(t)),
             spends' = {s \in spends : s[2] \notin gone} \cup Rows(NewItem(t)),
             TotalCost(Names(Without(items, gone))) + cost[t] <= max_size_in_cost
      PROVE  IsPool(items', spends')
  <2>1. t \notin Names(items) /\ ~ Refused(t, LineageOf(t))
    BY <1>4, VerdictMeans
  <2>2. NewItem(t) \in Item /\ VersionsApart(NewItem(t)) /\ NewItem(t).tx = t
    BY <2>1, NewItemApart DEF NewItem
  <2>3. IsPool(Without(items, gone), {s \in spends : s[2] \notin gone})
    BY PoolWithout
  <2>4. t \notin Names(Without(items, gone))
    BY <1>1, <2>1, WithoutProperties
  <2> DEFINE its == Without(items, gone)
             index == {s \in spends : s[2] \notin gone}
  <2> HIDE DEF its, index
  <2>5. IsPool(Append(its, NewItem(t)), index \cup Rows(NewItem(t)))
    BY <1>4, <2>2, <2>3, <2>4, PoolWith DEF its, index
  <2> QED BY <1>4, <2>5 DEF its, index
<1>5. IsPool(items', spends')
  BY <1>1, <1>2, <1>3, <1>4, AddDoes
<1>6. IsCache(conflict_cache')
  <2>1. \A u \in Txs : [v \in Txs |-> 0][u] \in Nat
    OBVIOUS
  <2>2. IsCache(ConflictCacheAdd(t))
    BY <2>1, AddToCache DEF ConflictCacheAdd
  <2>3. conflict_cache' \in {conflict_cache, ConflictCacheAdd(t)}
    BY <1>1, AddDoes
  <2> QED BY <2>2, <2>3
<1>7. /\ IsCache(PendingCacheAdd(t))
      /\ \A u : Has(PendingCacheAdd(t), u) => Has(pending_cache, u) \/ u = t
  <2>1. \A u \in Txs : assert_height[u] \in Nat
    BY MempoolTyping
  <2> QED BY <2>1, AddToCache DEF PendingCacheAdd
<1>8. \/ pending_cache' = pending_cache
      \/ height[mempool_peak] < assert_height[t] /\ pending_cache' = PendingCacheAdd(t)
  BY <1>1, AddDoes
<1> QED BY <1>5, <1>6, <1>7, <1>8

-----------------------------------------------------------------------------
(* The fast path of new_peak() *)

\* The item x after the coins spent
Moved(x, spent) == IF x.lineage \in spent THEN [x EXCEPT !.lineage = Lineage(ff[x.tx])] ELSE x

LEMMA RebasedIs ==
    ASSUME IsPool(items, spends), unspent \subseteq Coins, NEW spent \in SUBSET Coins
    PROVE  /\ Rebased(spent).items \in Seq(Item)
           /\ IsInjective(Rebased(spent).items)
           /\ \A y : Has(Rebased(spent).items, y) <=> \E x : Has(items, x) /\ y = Moved(x, spent)
           /\ Rebased(spent).spends =
                {s \in spends : ~ \E x : Has(items, x) /\ x.lineage \in spent /\ s = <<x.lineage, x.tx>>}
                  \cup {<<Lineage(ff[x.tx]), x.tx>> : x \in {z \in ToSet(items) : z.lineage \in spent}}
           /\ \A t : t \in Rebased(spent).evicted <=>
                \E x : /\ Has(items, x) /\ x.tx = t
                       /\ \/ (Effective(t, x.lineage) \ {x.lineage}) \cap spent # {}
                          \/ x.lineage \in spent /\ Lineage(ff[t]) = NoCoin
<1>1. /\ items \in Seq(Item) /\ IsInjective(items) /\ DOMAIN items = 1..Len(items)
      /\ \A x, y : Has(items, x) /\ Has(items, y) /\ x.tx = y.tx => x = y
      /\ \A x : x \in ToSet(items) <=> Has(items, x)
  <2>1. items \in Seq(Item)
    BY DEF IsPool
  <2> QED BY <2>1, ToSetIsHas DEF IsPool
<1>2. ASSUME NEW x, Has(items, x)
      PROVE  x \in Item /\ x.tx \in Txs /\ x.lineage \in Coins \cup {NoCoin} /\ VersionsApart(x)
  <2>1. x \in Item
    BY <1>1, <1>2 DEF Has
  <2> QED BY <1>2, <2>1 DEF Item, IsPool
<1>3. ASSUME NEW x, Has(items, x)
      PROVE  Moved(x, spent) \in Item /\ Moved(x, spent).tx = x.tx
  <2>1. x.lineage \in spent => Lineage(ff[x.tx]) \in Coins \cup {NoCoin}
    BY <1>2, <1>3, LatestIs
  <2> QED BY <1>2, <1>3, <2>1 DEF Moved, Item
<1> DEFINE its == Rebased(spent).items
<1>4. its = [k \in 1..Len(items) |-> Moved(items[k], spent)]
  <2>1. \A k \in 1..Len(items) : items[k] \in ToSet(items)
    BY <1>1 DEF ToSet
  <2>2. its = [k \in DOMAIN items |-> IF items[k] \in {i \in ToSet(items) : i.lineage \in spent}
                                      THEN [items[k] EXCEPT !.lineage = Lineage(ff[items[k].tx])]
                                      ELSE items[k]]
    BY DEF Rebased
  <2> HIDE DEF its
  <2> QED BY <1>1, <2>1, <2>2 DEF Moved
<1> HIDE DEF its
<1>5. \A k \in 1..Len(items) : Has(items, items[k])
  BY DEF Has
<1>6. its \in Seq(Item) /\ DOMAIN its = 1..Len(items) /\ Len(its) = Len(items)
  <2>1. its \in [1..Len(items) -> Item]
    BY <1>3, <1>4, <1>5
  <2> QED BY <1>1, <1>4, <2>1
<1>7. IsInjective(its)
  <2> SUFFICES ASSUME NEW k \in 1..Len(items), NEW l \in 1..Len(items), its[k] = its[l] PROVE k = l
    BY <1>6 DEF IsInjective
  <2>1. items[k].tx = items[l].tx
    BY <1>3, <1>4, <1>5
  <2>2. items[k] = items[l]
    BY <1>1, <1>5, <2>1
  <2> QED BY <1>1, <2>2 DEF IsInjective
<1>8. \A y : Has(its, y) <=> \E x : Has(items, x) /\ y = Moved(x, spent)
  BY <1>4, <1>6 DEF Has
<1>9. Rebased(spent).spends =
                {s \in spends : ~ \E x : Has(items, x) /\ x.lineage \in spent /\ s = <<x.lineage, x.tx>>}
                  \cup {<<Lineage(ff[x.tx]), x.tx>> : x \in {z \in ToSet(items) : z.lineage \in spent}}
  <2> DEFINE moved == {i \in ToSet(items) : i.lineage \in spent}
  <2>1. Rebased(spent).spends =
            {s \in spends : ~ \E i \in moved : s = <<i.lineage, i.tx>>}
              \cup {<<Lineage(ff[i.tx]), i.tx>> : i \in moved}
    BY DEF Rebased
  <2> QED BY <1>1, <2>1
<1>10. ASSUME NEW t
       PROVE  t \in Rebased(spent).evicted <=>
                \E x : /\ Has(items, x) /\ x.tx = t
                       /\ \/ (Effective(t, x.lineage) \ {x.lineage}) \cap spent # {}
                          \/ x.lineage \in spent /\ Lineage(ff[t]) = NoCoin
  <2> DEFINE Regular(i) == IF i.lineage = NoCoin THEN coin_spends[i.tx] ELSE coin_spends[i.tx] \ {ff[i.tx]}
             moved == {i \in ToSet(items) : i.lineage \in spent}
  <2>1. Rebased(spent).evicted = {i.tx : i \in {j \in ToSet(items) :
                  Regular(j) \cap spent # {} \/ (j \in moved /\ Lineage(ff[j.tx]) = NoCoin)}}
    BY DEF Rebased
  <2>2. ASSUME NEW x, Has(items, x) PROVE Effective(x.tx, x.lineage) \ {x.lineage} = Regular(x)
    <3>1. coin_spends[x.tx] \subseteq Coins /\ NoCoin \notin Coins
      BY <1>2, <2>2, MempoolTyping
    <3>2. x.lineage # NoCoin => x.lineage \notin coin_spends[x.tx] \ {ff[x.tx]}
      BY <1>2, <2>2 DEF VersionsApart
    <3> QED BY <3>1, <3>2 DEF Effective
  <2> HIDE DEF Regular
  <2> QED BY <1>1, <2>1, <2>2
<1> QED BY <1>6, <1>7, <1>8, <1>9, <1>10 DEF its

\* The rebased pool without the evicted items is a pool.
LEMMA PoolRebased ==
    ASSUME IsPool(items, spends), unspent \subseteq Coins, NEW spent \in SUBSET Coins,
           NEW gone, Rebased(spent).evicted \subseteq gone
    PROVE  /\ IsPool(Without(Rebased(spent).items, gone), {s \in Rebased(spent).spends : s[2] \notin gone})
           /\ \A y : Has(Without(Rebased(spent).items, gone), y) <=>
                        \E x : Has(items, x) /\ x.tx \notin gone /\ y = Moved(x, spent)
<1> DEFINE its == Rebased(spent).items
           index == Rebased(spent).spends
           r == Without(its, gone)
           left == {s \in index : s[2] \notin gone}
<1>1. /\ its \in Seq(Item) /\ IsInjective(its)
      /\ \A y : Has(its, y) <=> \E x : Has(items, x) /\ y = Moved(x, spent)
      /\ index = {s \in spends : ~ \E x : Has(items, x) /\ x.lineage \in spent /\ s = <<x.lineage, x.tx>>}
                  \cup {<<Lineage(ff[x.tx]), x.tx>> : x \in {z \in ToSet(items) : z.lineage \in spent}}
  BY RebasedIs
<1>2. \A x : Has(items, x) /\ x.lineage \in spent /\ Lineage(ff[x.tx]) = NoCoin => x.tx \in gone
  BY RebasedIs
<1> HIDE DEF its, index
<1>3. /\ items \in Seq(Item)
      /\ \A x, y : Has(items, x) /\ Has(items, y) /\ x.tx = y.tx => x = y
      /\ \A x : x \in ToSet(items) <=> Has(items, x)
      /\ \A s : s \in spends <=> \E x : Has(items, x) /\ s \in Rows(x)
  <2>1. items \in Seq(Item)
    BY DEF IsPool
  <2> QED BY <2>1, ToSetIsHas DEF IsPool
<1>4. ASSUME NEW x, Has(items, x)
      PROVE  /\ x \in Item /\ x.tx \in Txs /\ x.lineage \in Coins \cup {NoCoin} /\ VersionsApart(x)
             /\ Moved(x, spent).tx = x.tx
  <2>1. x \in Item
    BY <1>3, <1>4 DEF Has
  <2> QED BY <1>4, <2>1 DEF Item, IsPool, Moved
\* An item that is moved and stays
<1>5. ASSUME NEW x, Has(items, x), x.lineage \in spent, x.tx \notin gone
      PROVE  LET y == Moved(x, spent)
                 l == Lineage(ff[x.tx])
             IN  /\ l \in Coins /\ y.tx = x.tx /\ y.lineage = l /\ VersionsApart(y)
                 /\ Rows(y) = {<<c, x.tx>> : c \in (coin_spends[x.tx] \ {ff[x.tx]}) \cup {l}}
                 /\ Rows(x) = {<<c, x.tx>> : c \in (coin_spends[x.tx] \ {ff[x.tx]}) \cup {x.lineage}}
                 /\ x.lineage \notin coin_spends[x.tx] \ {ff[x.tx]}
  <2> DEFINE y == Moved(x, spent)
             l == Lineage(ff[x.tx])
  <2>1. x.lineage # NoCoin
    BY <1>5, MempoolTyping
  <2>2. /\ ff[x.tx] # NoCoin /\ IsVersion(x.lineage, x.tx)
        /\ \A c \in coin_spends[x.tx] \ {ff[x.tx]} : ~ IsVersion(c, x.tx)
    BY <1>4, <1>5, <2>1 DEF VersionsApart
  <2>3. l # NoCoin
    BY <1>2, <1>5
  <2>4. l \in Coins /\ IsVersion(l, x.tx)
    BY <1>4, <1>5, <2>3, LatestIs
  <2>5. y.tx = x.tx /\ y.lineage = l
    BY <1>4, <1>5 DEF Moved, Item
  <2> HIDE DEF y, l
  <2>6. VersionsApart(y)
    BY <2>2, <2>3, <2>4, <2>5 DEF VersionsApart
  <2>7. /\ Rows(y) = {<<c, x.tx>> : c \in (coin_spends[x.tx] \ {ff[x.tx]}) \cup {l}}
        /\ Rows(x) = {<<c, x.tx>> : c \in (coin_spends[x.tx] \ {ff[x.tx]}) \cup {x.lineage}}
    BY <2>1, <2>3, <2>5 DEF Rows, Effective
  <2> QED BY <2>2, <2>4, <2>5, <2>6, <2>7 DEF y, l
<1>6. ASSUME NEW x, x.lineage \notin spent PROVE Moved(x, spent) = x
  BY <1>6 DEF Moved
<1>7. /\ r \in Seq(Item) /\ IsInjective(r)
      /\ \A y : Has(r, y) <=> Has(its, y) /\ y.tx \notin gone
      /\ Names(r) = Names(its) \ gone
  BY <1>1, WithoutProperties
<1> HIDE DEF r
<1>8. \A y : Has(r, y) <=> \E x : Has(items, x) /\ x.tx \notin gone /\ y = Moved(x, spent)
  BY <1>1, <1>4, <1>7
<1>9. ASSUME NEW s, s \in left PROVE \E y : Has(r, y) /\ s \in Rows(y)
  <2>1. s \in index /\ s[2] \notin gone
    BY <1>9
  <2>2. CASE s \in {<<Lineage(ff[x.tx]), x.tx>> : x \in {z \in ToSet(items) : z.lineage \in spent}}
    <3>1. PICK x : Has(items, x) /\ x.lineage \in spent /\ s = <<Lineage(ff[x.tx]), x.tx>>
      BY <1>3, <2>2
    <3>2. x.tx \notin gone
      BY <2>1, <3>1
    <3>3. s \in Rows(Moved(x, spent))
      BY <1>5, <3>1, <3>2
    <3> QED BY <1>8, <3>1, <3>2, <3>3
  <2>3. CASE s \in spends /\ ~ \E x : Has(items, x) /\ x.lineage \in spent /\ s = <<x.lineage, x.tx>>
    <3>1. PICK x : Has(items, x) /\ s \in Rows(x)
      BY <1>3, <2>3
    <3>2. s[2] = x.tx /\ x.tx \notin gone
      BY <2>1, <3>1 DEF Rows
    <3>3. s \in Rows(Moved(x, spent))
      <4>1. CASE x.lineage \in spent
        BY <1>5, <2>3, <3>1, <3>2, <4>1
      <4>2. CASE x.lineage \notin spent
        BY <1>6, <3>1, <4>2
      <4> QED BY <4>1, <4>2
    <3> QED BY <1>8, <3>1, <3>2, <3>3
  <2> QED BY <1>1, <2>1, <2>2, <2>3
<1>10. ASSUME NEW x, Has(items, x), x.tx \notin gone, NEW s \in Rows(Moved(x, spent)) PROVE s \in left
  <2>1. s[2] = x.tx
    BY <1>4, <1>10 DEF Rows
  <2>2. CASE x.lineage \notin spent
    <3>1. s \in spends
      BY <1>3, <1>6, <1>10, <2>2
    <3>2. ASSUME NEW z, Has(items, z), z.lineage \in spent, s = <<z.lineage, z.tx>> PROVE FALSE
      <4>1. z = x
        BY <1>3, <1>10, <2>1, <3>2
      <4> QED BY <2>2, <3>2, <4>1
    <3> QED BY <1>1, <1>10, <2>1, <3>1, <3>2
  <2>3. CASE x.lineage \in spent
    <3>1. PICK c \in (coin_spends[x.tx] \ {ff[x.tx]}) \cup {Lineage(ff[x.tx])} : s = <<c, x.tx>>
      BY <1>5, <1>10, <2>3
    <3>2. CASE c = Lineage(ff[x.tx])
      BY <1>1, <1>3, <1>10, <2>1, <2>3, <3>1, <3>2
    <3>3. CASE c \in coin_spends[x.tx] \ {ff[x.tx]}
      <4>1. s \in Rows(x) /\ c # x.lineage
        BY <1>5, <1>10, <2>3, <3>1, <3>3
      <4>2. s \in spends
        BY <1>3, <1>10, <4>1
      <4>3. ASSUME NEW z, Has(items, z), z.lineage \in spent, s = <<z.lineage, z.tx>> PROVE FALSE
        <5>1. z = x
          BY <1>3, <1>10, <2>1, <4>3
        <5> QED BY <3>1, <4>1, <4>3, <5>1
      <4> QED BY <1>1, <1>10, <2>1, <4>2, <4>3
    <3> QED BY <3>1, <3>2, <3>3
  <2> QED BY <2>2, <2>3
<1>11. \A s : s \in left <=> \E y : Has(r, y) /\ s \in Rows(y)
  <2> HIDE DEF left
  <2> QED BY <1>8, <1>9, <1>10
<1>12. /\ \A x, y : Has(r, x) /\ Has(r, y) /\ x.tx = y.tx => x = y
       /\ \A x : Has(r, x) => VersionsApart(x) /\ x \in Item
  <2>1. \A x : Has(items, x) /\ x.tx \notin gone => VersionsApart(Moved(x, spent))
    BY <1>4, <1>5, <1>6
  <2>2. \A x : Has(r, x) => x \in Item
    BY <1>7 DEF Has
  <2> QED BY <1>3, <1>4, <1>8, <2>1, <2>2
<1>13. left \subseteq Coins \X Txs
  <2>1. ASSUME NEW y, Has(r, y) PROVE Rows(y) \subseteq Coins \X Txs
    <3>1. y.tx \in Txs /\ y.lineage \in Coins \cup {NoCoin}
      BY <1>12, <2>1 DEF Item
    <3>2. Effective(y.tx, y.lineage) \subseteq Coins
      BY <3>1, MempoolTyping DEF Effective
    <3> QED BY <3>1, <3>2 DEF Rows
  <2> HIDE DEF left
  <2> QED BY <1>11, <2>1
<1>14. TotalCost(Names(r)) <= max_size_in_cost
  <2>1. IsFiniteSet(Names(items)) /\ \A t : t \in Names(items) <=> \E x : Has(items, x) /\ x.tx = t
    BY <1>3, NamesAre
  <2>2. \A t : t \in Names(r) <=> \E x : Has(r, x) /\ x.tx = t
    BY <1>7, NamesAre
  <2>3. Names(r) \in SUBSET Names(items)
    BY <1>4, <1>8, <2>1, <2>2
  <2>4. TotalCost(Names(r)) <= TotalCost(Names(items)) /\ TotalCost(Names(r)) \in Nat
        /\ TotalCost(Names(items)) \in Nat
    BY <2>1, <2>3, CostMonotone, UnitsFinite
  <2>5. TotalCost(Names(items)) <= max_size_in_cost
    BY DEF IsPool
  <2> QED BY <2>4, <2>5, LimitsAssumption
<1> HIDE DEF left
<1>15. IsPool(r, left)
  BY <1>7, <1>11, <1>12, <1>13, <1>14 DEF IsPool
<1> QED BY <1>8, <1>15 DEF r, left, its, index

-----------------------------------------------------------------------------
(* The invariant that holds in every behaviour *)

ChainTyped ==
    /\ peak \in Tips
    /\ unspent \subseteq Coins
    /\ peak = GENESIS_CHALLENGE => mempool_peak = GENESIS_CHALLENGE

\* Once new_peak() has begun the manager's peak is the latest transaction block
\* of the chain, and it stays so until the next block.
PeakKnown == InStep \/ lock \in {"readd", "retry"} => mempool_peak = TxPeak(peak)

\* Outside the first loop of new_peak() nothing that is due is pending.
NothingDue ==
    lock # "readd" => \A t : Has(pending_cache, t) => assert_height[t] > height[mempool_peak]

Bounds ==
    /\ IsPool(items, spends)
    /\ IsCache(conflict_cache)
    /\ IsCache(pending_cache)

MempoolInv ==
    /\ TypeOK
    /\ ChainTyped
    /\ Bounds
    /\ PeakKnown
    /\ NothingDue
    /\ lock = "retry" => todo # <<>>

LEMMA LatestTxIs ==
    ASSUME NEW p \in Tips, NEW A \in SUBSET Anc[p]
    PROVE  /\ LatestTx(A) \in TxBlocks \cup {GENESIS_CHALLENGE}
           /\ A \cap TxBlocks = {} <=> LatestTx(A) = GENESIS_CHALLENGE
           /\ A \cap TxBlocks # {} => /\ LatestTx(A) \in A \cap TxBlocks
                                      /\ \A a \in A \cap TxBlocks : height[a] <= height[LatestTx(A)]
<1> DEFINE B == A \cap TxBlocks
           gaps == {height[p] - height[b] : b \in B}
           m == CHOOSE b \in B : \A a \in B : height[a] <= height[b]
<1>1. B \subseteq Blocks /\ GENESIS_CHALLENGE \notin B
  BY MempoolTyping, TreeTyping
<1>2. \A b \in B : height[b] \in Nat /\ height[b] <= height[p] /\ height[p] \in Int
  BY AncBlocks
<1>3. CASE B = {}
  BY <1>3 DEF LatestTx
<1>4. CASE B # {}
  <2>1. gaps \in SUBSET Nat /\ gaps # {}
    BY <1>2, <1>4
  <2>2. PICK g \in gaps : \A h \in gaps : g <= h
    <3> HIDE DEF gaps
    <3> QED BY <2>1, LeastNatural
  <2>3. PICK b \in B : g = height[p] - height[b]
    OBVIOUS
  <2>4. ASSUME NEW a \in B PROVE height[a] <= height[b]
    <3>1. height[p] - height[b] <= height[p] - height[a]
      BY <2>2, <2>3
    <3> HIDE DEF B
    <3> QED BY <1>2, <3>1
  <2>5. m \in B /\ \A a \in B : height[a] <= height[m]
    BY <2>4
  <2>6. LatestTx(A) = m
    BY <1>4 DEF LatestTx
  <2> QED BY <1>1, <1>4, <2>5, <2>6
<1> QED BY <1>3, <1>4

\* Every chain begins with a transaction block.
LEMMA TxPeakIs ==
    ASSUME NEW p \in Tips
    PROVE  /\ TxPeak(p) \in TxBlocks \cup {GENESIS_CHALLENGE}
           /\ TxPeak(p) = GENESIS_CHALLENGE <=> p = GENESIS_CHALLENGE
<1>1. TxPeak(p) \in TxBlocks \cup {GENESIS_CHALLENGE}
      /\ (Anc[p] \cap TxBlocks = {} <=> TxPeak(p) = GENESIS_CHALLENGE)
  BY LatestTxIs DEF TxPeak
<1>2. p = GENESIS_CHALLENGE => Anc[p] = {}
  BY AncestryIsAChain
<1>3. ASSUME p # GENESIS_CHALLENGE PROVE Anc[p] \cap TxBlocks # {}
  <2>1. p \in Blocks /\ height[p] \in Nat
    BY <1>3, HeightsAndWeights DEF Tips
  <2>2. PICK b \in Anc[p] : height[b] = 0
    BY <2>1, AncestryIsAChain
  <2>3. b \in Blocks /\ prev_hash[b] \in Tips /\ height[b] = height[prev_hash[b]] + 1
    BY <2>1, TreeTyping, HeightsAndWeights, AncBlocks DEF Tips
  <2>4. prev_hash[b] = GENESIS_CHALLENGE
    BY <2>2, <2>3, HeightsAndWeights DEF Tips
  <2> QED BY <2>2, <2>3, <2>4, MempoolTyping
<1> QED BY <1>1, <1>2, <1>3

LEMMA SeenTyped ==
    ASSUME seen \in Seq(Txs), NEW t \in Txs
    PROVE  SeenWith(t) \in Seq(Txs) /\ SeenWithout(t) \in Seq(Txs)
<1>1. SeenWithout(t) \in Seq(Txs)
  BY KeepProperties DEF SeenWithout
<1>2. Append(seen, t) \in Seq(Txs) /\ Len(Append(seen, t)) = Len(seen) + 1
  OBVIOUS
<1>3. Append(seen, t) # <<>>
  BY <1>2, EmptySeq
<1>4. Tail(Append(seen, t)) \in Seq(Txs)
  BY <1>2, <1>3
<1> QED BY <1>1, <1>2, <1>4 DEF SeenWith

LEMMA InitMempool == Init => MempoolInv
<1> SUFFICES ASSUME Init PROVE MempoolInv
  OBVIOUS
<1>1. /\ peak = GENESIS_CHALLENGE /\ unspent = {}
      /\ items = <<>> /\ spends = {} /\ block_height = 0 /\ mempool_peak = GENESIS_CHALLENGE
      /\ conflict_cache = <<>> /\ pending_cache = <<>> /\ seen = <<>> /\ in_flight = {}
      /\ lock = "free" /\ spent_coins = {} /\ finishing = FALSE /\ todo = <<>>
      /\ handler \in [Handlers -> [pc : {"idle"}, tx : {CHOOSE t \in Txs : TRUE}]]
      /\ overtaken = FALSE
  BY DEF Init, Chain!Init
<1>2. Bounds
  BY <1>1, EmptyPool, EmptyCache DEF Bounds
<1>3. ChainTyped
  BY <1>1 DEF ChainTyped, Tips
<1>4. PeakKnown
  BY <1>1, <1>3, TxPeakIs DEF PeakKnown, ChainTyped
<1>5. NothingDue
  BY <1>1 DEF NothingDue, Has
<1>6. TypeOK
  <2>1. (CHOOSE t \in Txs : TRUE) \in Txs
    BY MempoolTyping
  <2>2. handler \in [Handlers -> [pc : {"idle", "validating", "locking"}, tx : Txs]]
    BY <1>1, <2>1
  <2>3. <<>> \in Seq(Txs) /\ <<>> \in Seq([tx : Txs, lineage : Coins \cup {NoCoin}])
    OBVIOUS
  <2> QED BY <1>1, <2>2, <2>3 DEF TypeOK
<1> QED BY <1>1, <1>2, <1>3, <1>4, <1>5, <1>6 DEF MempoolInv

\* A bundle is added, or refused, while the lock is held.
LEMMA AddKeeps ==
    ASSUME MempoolInv, NEW t \in Txs, NEW status,
           AddSpendBundle(t, status) \/ TooSlow(t, status),
           UNCHANGED <<chain_vars, mempool_peak>>
    PROVE  /\ Bounds'
           /\ ChainTyped'
           /\ lock' # "readd" => (NothingDue' \/ lock = "readd")
           /\ items' \in Seq(Item) /\ spends' \subseteq Coins \X Txs
           /\ conflict_cache' \in Seq(Txs) /\ pending_cache' \in Seq(Txs)
<1>1. /\ IsPool(items', spends') /\ IsCache(conflict_cache') /\ IsCache(pending_cache')
      /\ \A u : Has(pending_cache', u) =>
                        Has(pending_cache, u) \/ (u = t /\ height[mempool_peak] < assert_height[t])
  BY AddKeepsPool DEF MempoolInv, Bounds, ChainTyped
<1>2. Bounds'
  BY <1>1 DEF Bounds, IsPool, IsCache
<1>3. ChainTyped'
  BY DEF ChainTyped, MempoolInv, chain_vars
<1>4. ASSUME lock # "readd" PROVE NothingDue'
  <2>1. \A u : Has(pending_cache, u) => assert_height[u] > height[mempool_peak]
    BY <1>4 DEF MempoolInv, NothingDue
  <2>2. assert_height[t] \in Nat /\ height[mempool_peak] \in Int
    BY MempoolTyping, AncBlocks, TreeTyping DEF MempoolInv, TypeOK, Tips
  <2> QED BY <1>1, <2>1, <2>2 DEF NothingDue
<1> QED BY <1>1, <1>2, <1>3, <1>4 DEF IsPool, IsCache

\* new_peak() up to its first loop
LEMMA NewPeakKeeps ==
    ASSUME MempoolInv, lock # "readd", NEW spent \in SUBSET Coins, NewPeak(spent),
           UNCHANGED <<chain_vars, cache_vars, handler>>,
           spent_coins' \subseteq Coins, finishing' \in BOOLEAN, overtaken' \in BOOLEAN
    PROVE  MempoolInv'
<1> DEFINE tip == TxPeak(peak)
           rebased == Rebased(spent)
           gone == Expired(tip) \cup rebased.evicted
<1>1. /\ stored' = stored /\ peak' = peak /\ unspent' = unspent /\ handler' = handler
      /\ conflict_cache' = conflict_cache /\ pending_cache' = pending_cache
  BY DEF chain_vars, cache_vars
<1>2. /\ TypeOK /\ IsPool(items, spends) /\ unspent \in SUBSET Coins /\ peak \in Tips
      /\ IsCache(conflict_cache) /\ IsCache(pending_cache)
      /\ (peak = GENESIS_CHALLENGE => mempool_peak = GENESIS_CHALLENGE)
      /\ items \in Seq(Item) /\ seen \in Seq(Txs)
  BY DEF MempoolInv, ChainTyped, Bounds, TypeOK, Item
<1>3. TxPeak(peak)' = tip /\ tip \in TxBlocks \cup {GENESIS_CHALLENGE}
      /\ (tip = GENESIS_CHALLENGE <=> peak = GENESIS_CHALLENGE)
  BY <1>1, <1>2, TxPeakIs DEF TxPeak
<1>4. IsCache(conflict_cache') /\ IsCache(pending_cache')
  BY <1>1, <1>2 DEF IsCache
<1>5. CASE tip \in {GENESIS_CHALLENGE, mempool_peak}
  <2>1. /\ lock' = "free" /\ items' = items /\ spends' = spends /\ block_height' = block_height
        /\ mempool_peak' = mempool_peak /\ seen' = seen /\ in_flight' = in_flight /\ todo' = todo
    BY <1>5 DEF NewPeak, pool_vars
  <2>2. mempool_peak = tip
    BY <1>2, <1>3, <1>5
  <2>3. TypeOK'
    BY <1>1, <1>2, <2>1 DEF TypeOK
  <2>4. Bounds' /\ ChainTyped'
    BY <1>1, <1>2, <1>4, <2>1 DEF Bounds, IsPool, ChainTyped
  <2>5. PeakKnown'
    BY <1>3, <2>1, <2>2 DEF PeakKnown, InStep
  <2>6. NothingDue'
    BY <1>1, <2>1 DEF MempoolInv, NothingDue
  <2> QED BY <2>1, <2>3, <2>4, <2>5, <2>6 DEF MempoolInv
<1>6. CASE tip \notin {GENESIS_CHALLENGE, mempool_peak}
  <2>1. mempool_peak' = tip /\ lock' = "readd"
    BY <1>6 DEF NewPeak
  <2>2. tip \in TxBlocks /\ height[tip] \in Nat
    BY <1>3, <1>6, MempoolTyping, HeightsAndWeights
  <2>3. /\ IsPool(items', spends') /\ block_height' \in Nat /\ seen' \in Seq(Txs)
        /\ in_flight' \subseteq Txs /\ todo' \in Seq(Txs)
    <3>1. CASE UseOptimization(tip)
      <4>1. /\ items' = Without(rebased.items, gone)
            /\ spends' = {s \in rebased.spends : s[2] \notin gone}
            /\ block_height' = height[tip]
            /\ seen' = Keep(seen, Txs \ (rebased.evicted \ Expired(tip)))
            /\ todo' = <<>> /\ in_flight' = in_flight
        BY <1>6, <3>1 DEF NewPeak
      <4>2. IsPool(items', spends')
        <5>1. rebased.evicted \subseteq gone
          OBVIOUS
        <5> HIDE DEF gone
        <5> QED BY <1>2, <4>1, <5>1, PoolRebased
      <4>3. seen' \in Seq(Txs)
        BY <1>2, <4>1, KeepProperties
      <4>4. <<>> \in Seq(Txs)
        OBVIOUS
      <4> QED BY <1>2, <2>2, <4>1, <4>2, <4>3, <4>4 DEF TypeOK
    <3>2. CASE ~ UseOptimization(tip)
      <4> DEFINE names == [i \in DOMAIN items |-> items[i].tx]
      <4>1. /\ items' = <<>> /\ spends' = {} /\ block_height' = 0 /\ seen' = <<>> /\ in_flight' = {}
            /\ todo' = Keep(names, Txs \ Expired(tip))
        BY <1>6, <3>2 DEF NewPeak
      <4>2. names \in Seq(Txs)
        <5>1. DOMAIN items = 1..Len(items) /\ Len(items) \in Nat /\ \A i \in 1..Len(items) : items[i] \in Item
          BY <1>2
        <5>2. \A x \in Item : x.tx \in Txs
          BY DEF Item
        <5>3. names \in [1..Len(items) -> Txs]
          BY <5>1, <5>2
        <5> QED BY <5>1, <5>3
      <4> HIDE DEF names
      <4>3. todo' \in Seq(Txs)
        BY <4>1, <4>2, KeepProperties
      <4>4. <<>> \in Seq(Txs)
        OBVIOUS
      <4> QED BY <4>1, <4>3, <4>4, EmptyPool
    <3> QED BY <3>1, <3>2
  <2>4. TypeOK'
    <3>1. items' \in Seq([tx : Txs, lineage : Coins \cup {NoCoin}]) /\ spends' \subseteq Coins \X Txs
      BY <2>3 DEF IsPool, Item
    <3> QED BY <1>1, <1>2, <2>1, <2>2, <2>3, <3>1 DEF TypeOK
  <2>5. Bounds'
    BY <1>4, <2>3 DEF Bounds
  <2>6. ChainTyped'
    BY <1>1, <1>2, <1>3, <1>6, <2>1 DEF ChainTyped
  <2>7. PeakKnown'
    BY <1>3, <2>1 DEF PeakKnown
  <2>8. NothingDue'
    BY <2>1 DEF NothingDue
  <2> QED BY <2>1, <2>4, <2>5, <2>6, <2>7, <2>8 DEF MempoolInv
<1> QED BY <1>5, <1>6

\* Both caches are drained.
LEMMA DrainKeeps == ASSUME MempoolInv, Drain PROVE MempoolInv'
<1> DEFINE LockOf(i) == assert_height[pending_cache[i]]
           due == {i \in DOMAIN pending_cache : Due(pending_cache[i])}
           byHeight == {ij \in due \X due : \/ LockOf(ij[1]) < LockOf(ij[2])
                                            \/ LockOf(ij[1]) = LockOf(ij[2]) /\ ij[1] <= ij[2]}
           n == Cardinality(due)
           early == [k \in 1..n |-> pending_cache[InOrder(due, byHeight)[k]]]
<1>1. /\ lock = "readd"
      /\ todo' = early \o Keep(conflict_cache, Txs \ ToSet(early))
      /\ pending_cache' = Keep(pending_cache, {t \in Txs : ~ Due(t)})
      /\ conflict_cache' = <<>>
      /\ lock' = IF todo' = <<>> THEN "free" ELSE "retry"
      /\ UNCHANGED <<chain_vars, pool_vars, mempool_peak, seen, in_flight, spent_coins, finishing, handler,
                     overtaken>>
  BY DEF Drain
<1>2. /\ TypeOK /\ ChainTyped /\ IsPool(items, spends) /\ IsCache(conflict_cache) /\ IsCache(pending_cache)
      /\ mempool_peak = TxPeak(peak)
      /\ conflict_cache \in Seq(Txs) /\ pending_cache \in Seq(Txs)
      /\ mempool_peak \in Tips
  BY <1>1, MempoolTyping DEF MempoolInv, Bounds, PeakKnown, TypeOK, Tips
<1>3. early \in Seq(Txs)
  <2>1. DOMAIN pending_cache = 1..Len(pending_cache) /\ Len(pending_cache) \in Nat
    BY <1>2
  <2>2. \A i \in due : i \in Nat /\ LockOf(i) \in Nat /\ pending_cache[i] \in Txs
    BY <1>2, <2>1, MempoolTyping
  <2>3. IsFiniteSet(due)
    <3>1. due \in SUBSET (1..Len(pending_cache)) /\ IsFiniteSet(1..Len(pending_cache))
      BY <2>1, FS_Interval
    <3> HIDE DEF due
    <3> QED BY <3>1, FS_Subset
  <2>4. /\ \A x \in due : <<x, x>> \in byHeight
        /\ \A x, y \in due : <<x, y>> \in byHeight \/ <<y, x>> \in byHeight
        /\ \A x, y \in due : <<x, y>> \in byHeight /\ <<y, x>> \in byHeight => x = y
        /\ \A x, y, z \in due : <<x, y>> \in byHeight /\ <<y, z>> \in byHeight => <<x, z>> \in byHeight
    <3>1. \A x, y \in due : <<x, y>> \in byHeight <=> LockOf(x) < LockOf(y) \/ (LockOf(x) = LockOf(y) /\ x <= y)
      OBVIOUS
    <3> HIDE DEF due, byHeight, LockOf
    <3> QED BY <2>2, <3>1
  <2>5. n \in Nat
    BY <2>3, FS_CardinalityType
  <2>6. InOrder(due, byHeight) \in Seq(due) /\ Len(InOrder(due, byHeight)) = n
    <3> HIDE DEF due, byHeight
    <3> QED BY <2>3, <2>4, InOrderProperties
  <2>7. \A k \in 1..n : pending_cache[InOrder(due, byHeight)[k]] \in Txs
    <3> HIDE DEF due, byHeight
    <3> QED BY <2>2, <2>6
  <2> HIDE DEF n, due, byHeight
  <2>8. early \in [1..n -> Txs]
    BY <2>7
  <2> QED BY <2>5, <2>8
<1> HIDE DEF early
<1>4. todo' \in Seq(Txs)
  BY <1>1, <1>2, <1>3, KeepProperties
<1>5. /\ IsCache(pending_cache')
      /\ \A x : Has(pending_cache', x) => x \in Txs /\ ~ Due(x)
  BY <1>1, <1>2, KeepCache
<1>6. IsCache(conflict_cache')
  BY <1>1, EmptyCache
<1>7. /\ peak' = peak /\ unspent' = unspent /\ mempool_peak' = mempool_peak
      /\ items' = items /\ spends' = spends
      /\ lock' \in {"free", "retry"} /\ (lock' = "retry" => todo' # <<>>)
  BY <1>1 DEF chain_vars, pool_vars
<1>8. TypeOK'
  <2>1. pending_cache' \in Seq(Txs) /\ conflict_cache' \in Seq(Txs)
    BY <1>5, <1>6 DEF IsCache
  <2> QED BY <1>1, <1>2, <1>4, <1>7, <2>1 DEF TypeOK, pool_vars
<1>9. Bounds' /\ ChainTyped'
  BY <1>2, <1>5, <1>6, <1>7 DEF Bounds, ChainTyped, IsPool
<1>10. PeakKnown'
  BY <1>2, <1>7 DEF PeakKnown, TxPeak
<1>11. NothingDue'
  <2> SUFFICES ASSUME NEW t, Has(pending_cache', t) PROVE assert_height[t] > height[mempool_peak]
    BY <1>7 DEF NothingDue
  <2>1. t \in Txs /\ ~ (assert_height[t] <= height[mempool_peak])
    BY <1>5 DEF Due
  <2>2. assert_height[t] \in Nat /\ height[mempool_peak] \in Int
    BY <1>2, <2>1, MempoolTyping, AncBlocks
  <2> QED BY <2>1, <2>2
<1> QED BY <1>7, <1>8, <1>9, <1>10, <1>11 DEF MempoolInv

\* A step that leaves the mempool and the chain alone
LEMMA BookkeepingKeeps ==
    ASSUME MempoolInv, TypeOK',
           UNCHANGED <<chain_vars, pool_vars, cache_vars, mempool_peak, todo>>,
           lock' = lock, finishing' = finishing
    PROVE  MempoolInv'
<1>1. /\ stored' = stored /\ peak' = peak /\ unspent' = unspent /\ items' = items /\ spends' = spends
      /\ conflict_cache' = conflict_cache /\ pending_cache' = pending_cache /\ todo' = todo
      /\ mempool_peak' = mempool_peak
  BY DEF chain_vars, pool_vars, cache_vars
<1>2. Bounds' /\ ChainTyped'
  BY <1>1 DEF MempoolInv, Bounds, IsPool, IsCache, ChainTyped
<1>3. PeakKnown' /\ NothingDue'
  BY <1>1 DEF MempoolInv, PeakKnown, InStep, TxPeak, NothingDue
<1> QED BY <1>1, <1>2, <1>3 DEF MempoolInv

\* A block is stored while no item is added.
LEMMA BlockKeeps ==
    ASSUME MempoolInv, NEW b \in Blocks, Chain!StoreBlock(b), lock # "readd",
           lock' \in {"batch", "sync"}, spent_coins' \subseteq Coins,
           UNCHANGED <<pool_vars, cache_vars, mempool_peak, seen, in_flight, finishing, todo, handler>>,
           overtaken' \in BOOLEAN
    PROVE  MempoolInv'
<1>1. /\ items' = items /\ spends' = spends /\ block_height' = block_height
      /\ conflict_cache' = conflict_cache /\ pending_cache' = pending_cache
      /\ mempool_peak' = mempool_peak /\ seen' = seen /\ in_flight' = in_flight
      /\ finishing' = finishing /\ todo' = todo /\ handler' = handler
  BY DEF pool_vars, cache_vars
<1>2. TypeOK'
  BY <1>1 DEF MempoolInv, TypeOK
<1>3. peak' \in {peak, b} /\ unspent' = Chain!UnspentAt(peak')
  BY DEF Chain!StoreBlock
<1>4. ChainTyped'
  <2>1. unspent' \subseteq Coins
    BY <1>3 DEF Chain!UnspentAt
  <2>2. peak' \in Tips /\ b # GENESIS_CHALLENGE
    BY <1>3, TreeTyping DEF MempoolInv, ChainTyped, Tips
  <2> QED BY <1>1, <1>3, <2>1, <2>2 DEF MempoolInv, ChainTyped
<1>5. Bounds'
  BY <1>1 DEF MempoolInv, Bounds, IsPool, IsCache
<1>6. PeakKnown' /\ NothingDue' /\ lock' # "retry"
  BY <1>1 DEF MempoolInv, PeakKnown, InStep, NothingDue
<1> QED BY <1>2, <1>4, <1>5, <1>6 DEF MempoolInv

LEMMA StepMempool == MempoolInv /\ [Next]_vars => MempoolInv'
<1> SUFFICES ASSUME MempoolInv, [Next]_vars PROVE MempoolInv'
  OBVIOUS
<1> USE DEF chain_vars, pool_vars, cache_vars
<1>0. /\ TypeOK /\ seen \in Seq(Txs) /\ todo \in Seq(Txs) /\ in_flight \subseteq Txs
      /\ handler \in [Handlers -> [pc : {"idle", "validating", "locking"}, tx : Txs]]
      /\ spent_coins \subseteq Coins /\ finishing \in BOOLEAN /\ overtaken \in BOOLEAN
  BY DEF MempoolInv, TypeOK
<1>1. ASSUME NEW t \in Txs, SubmitPresent(t) PROVE MempoolInv'
  <2>1. seen' \in Seq(Txs)
    BY <1>0, <1>1, SeenTyped DEF SubmitPresent
  <2>2. TypeOK'
    BY <1>0, <1>1, <2>1 DEF SubmitPresent, TypeOK
  <2> QED BY <1>1, <2>2, BookkeepingKeeps DEF SubmitPresent
<1>2. ASSUME NEW h \in Handlers, NEW t \in Txs, Submit(h, t) PROVE MempoolInv'
  <2>1. TypeOK'
    BY <1>0, <1>2 DEF Submit, TypeOK
  <2> QED BY <1>2, <2>1, BookkeepingKeeps DEF Submit
<1>3. ASSUME NEW h \in Handlers, PreValidated(h) PROVE MempoolInv'
  <2>1. handler[h].tx \in Txs
    BY <1>0
  <2>2. seen' \in Seq(Txs) /\ in_flight' \subseteq Txs
    BY <1>0, <1>3, <2>1, SeenTyped DEF PreValidated
  <2>3. handler' \in [Handlers -> [pc : {"idle", "validating", "locking"}, tx : Txs]]
    BY <1>0, <1>3 DEF PreValidated
  <2>4. TypeOK'
    BY <1>0, <1>3, <2>2, <2>3 DEF PreValidated, TypeOK
  <2> QED BY <1>3, <2>4, BookkeepingKeeps DEF PreValidated
<1>4. ASSUME NEW h \in Handlers, AddTransaction(h) PROVE MempoolInv'
  <2> DEFINE t == handler[h].tx
  <2>1. t \in Txs
    BY <1>0
  <2>2. PICK status : /\ AddSpendBundle(t, status) \/ TooSlow(t, status)
                      /\ seen' \in {seen, SeenWithout(t)}
    BY <1>4 DEF AddTransaction
  <2>3. /\ lock = "free" /\ handler' = [handler EXCEPT ![h].pc = "idle"]
        /\ UNCHANGED <<chain_vars, block_height, mempool_peak, in_flight, lock, spent_coins, finishing, todo,
                       overtaken>>
    BY <1>4 DEF AddTransaction
  <2> HIDE DEF t
  <2>4. /\ Bounds' /\ ChainTyped' /\ (lock' # "readd" => (NothingDue' \/ lock = "readd"))
        /\ items' \in Seq(Item) /\ spends' \subseteq Coins \X Txs
        /\ conflict_cache' \in Seq(Txs) /\ pending_cache' \in Seq(Txs)
    BY <2>1, <2>2, <2>3, AddKeeps
  <2>5. seen' \in Seq(Txs)
    BY <1>0, <2>1, <2>2, SeenTyped
  <2>6. handler' \in [Handlers -> [pc : {"idle", "validating", "locking"}, tx : Txs]]
    BY <1>0, <2>3
  <2>7. TypeOK'
    BY <1>0, <2>3, <2>4, <2>5, <2>6 DEF TypeOK, Item
  <2>8. PeakKnown'
    BY <2>3 DEF MempoolInv, PeakKnown, InStep, TxPeak
  <2> QED BY <2>3, <2>4, <2>7, <2>8 DEF MempoolInv
<1>5. ASSUME NEW b \in Blocks, AddBlock(b) PROVE MempoolInv'
  <2>1. UNION {removals[a] : a \in Anc[peak'] \ Anc[peak]} \subseteq Coins
    <3>1. peak \in Tips /\ peak' \in Tips
      BY <1>5 DEF MempoolInv, ChainTyped, AddBlock, Chain!StoreBlock, Tips
    <3>2. \A a \in Anc[peak'] : removals[a] \subseteq Coins
      BY <3>1, AncBlocks, CoinTyping
    <3> QED BY <3>2
  <2>2. spent_coins' \subseteq Coins
    BY <1>0, <1>5, <2>1 DEF AddBlock
  <2>3. Chain!StoreBlock(b) /\ lock # "readd" /\ lock' = "batch"
    BY <1>5 DEF AddBlock
  <2>4. UNCHANGED <<pool_vars, cache_vars, mempool_peak, seen, in_flight, finishing, todo, handler>>
    BY <1>5 DEF AddBlock
  <2>5. overtaken' \in BOOLEAN
    BY <1>5 DEF AddBlock
  <2> QED BY <2>2, <2>3, <2>4, <2>5, BlockKeeps
<1>6. ASSUME NEW b \in Blocks, SyncBlock(b) PROVE MempoolInv'
  <2>1. Chain!StoreBlock(b) /\ lock # "readd" /\ lock' = "sync" /\ spent_coins' = spent_coins
    BY <1>6 DEF SyncBlock
  <2>2. UNCHANGED <<pool_vars, cache_vars, mempool_peak, seen, in_flight, finishing, todo, handler>>
    BY <1>6 DEF SyncBlock
  <2>3. overtaken' \in BOOLEAN
    BY <1>0, <1>6 DEF SyncBlock
  <2> QED BY <1>0, <2>1, <2>2, <2>3, BlockKeeps
<1>7. CASE EndBatch
  <2>1. /\ lock # "readd" /\ NewPeak(spent_coins) /\ spent_coins' = {} /\ finishing' = finishing
        /\ UNCHANGED <<chain_vars, cache_vars, handler>>
    BY <1>7 DEF EndBatch
  <2>2. overtaken' \in BOOLEAN
    BY <1>7 DEF EndBatch
  <2> QED BY <1>0, <2>1, <2>2, NewPeakKeeps
<1>8. CASE EndSync
  <2>1. /\ lock = "sync" /\ lock' = "free" /\ finishing' = TRUE
        /\ UNCHANGED <<chain_vars, pool_vars, cache_vars, mempool_peak, seen, in_flight, spent_coins, todo, handler,
                       overtaken>>
    BY <1>8 DEF EndSync
  <2>2. TypeOK'
    BY <1>0, <2>1 DEF TypeOK
  <2>3. Bounds' /\ ChainTyped'
    BY <2>1 DEF MempoolInv, Bounds, IsPool, IsCache, ChainTyped
  <2>4. PeakKnown' /\ NothingDue'
    BY <2>1 DEF MempoolInv, PeakKnown, InStep, NothingDue
  <2> QED BY <2>1, <2>2, <2>3, <2>4 DEF MempoolInv
<1>9. CASE FinishSync
  <2>1. /\ lock # "readd" /\ NewPeak({}) /\ spent_coins' = spent_coins /\ finishing' = FALSE
        /\ UNCHANGED <<chain_vars, cache_vars, handler>>
    BY <1>9 DEF FinishSync
  <2>2. overtaken' \in BOOLEAN
    BY <1>9 DEF FinishSync
  <2> QED BY <1>0, <2>1, <2>2, NewPeakKeeps
<1>10. CASE Readd
  <2> DEFINE t == Head(todo)
  <2>1. t \in Txs /\ Tail(todo) \in Seq(Txs)
    BY <1>0, <1>10 DEF Readd
  <2>2. PICK status : /\ AddSpendBundle(t, status) \/ TooSlow(t, status)
                      /\ seen' \in {seen, SeenWith(t)}
    BY <1>10 DEF Readd
  <2>3. /\ lock = "readd" /\ todo' = Tail(todo)
        /\ UNCHANGED <<chain_vars, block_height, mempool_peak, in_flight, lock, spent_coins, finishing, handler,
                       overtaken>>
    BY <1>10 DEF Readd
  <2> HIDE DEF t
  <2>4. /\ Bounds' /\ ChainTyped'
        /\ items' \in Seq(Item) /\ spends' \subseteq Coins \X Txs
        /\ conflict_cache' \in Seq(Txs) /\ pending_cache' \in Seq(Txs)
    BY <2>1, <2>2, <2>3, AddKeeps
  <2>5. seen' \in Seq(Txs)
    BY <1>0, <2>1, <2>2, SeenTyped
  <2>6. TypeOK'
    BY <1>0, <2>1, <2>3, <2>4, <2>5 DEF TypeOK, Item
  <2>7. PeakKnown' /\ NothingDue'
    BY <2>3 DEF MempoolInv, PeakKnown, InStep, TxPeak, NothingDue
  <2> QED BY <2>3, <2>4, <2>6, <2>7 DEF MempoolInv
<1>11. CASE Retry
  <2> DEFINE t == Head(todo)
  <2>1. t \in Txs /\ Tail(todo) \in Seq(Txs)
    <3>1. todo # <<>>
      BY <1>11 DEF Retry, MempoolInv
    <3> QED BY <1>0, <3>1
  <2>2. PICK status : AddSpendBundle(t, status) \/ TooSlow(t, status)
    BY <1>11 DEF Retry
  <2>3. /\ lock = "retry" /\ todo' = Tail(todo) /\ lock' \in {"free", "retry"}
        /\ (lock' = "retry" => todo' # <<>>)
        /\ UNCHANGED <<chain_vars, block_height, mempool_peak, seen, in_flight, spent_coins, finishing, handler,
                       overtaken>>
    BY <1>11 DEF Retry
  <2> HIDE DEF t
  <2>4. /\ Bounds' /\ ChainTyped' /\ NothingDue'
        /\ items' \in Seq(Item) /\ spends' \subseteq Coins \X Txs
        /\ conflict_cache' \in Seq(Txs) /\ pending_cache' \in Seq(Txs)
    BY <2>1, <2>2, <2>3, AddKeeps
  <2>5. TypeOK'
    BY <1>0, <2>1, <2>3, <2>4 DEF TypeOK, Item
  <2>6. PeakKnown'
    BY <2>3 DEF MempoolInv, PeakKnown, InStep, TxPeak
  <2> QED BY <2>3, <2>4, <2>5, <2>6 DEF MempoolInv
<1>12. CASE UNCHANGED vars
  <2>1. TypeOK'
    BY <1>0, <1>12 DEF vars, TypeOK
  <2> QED BY <1>12, <2>1, BookkeepingKeeps DEF vars
<1> HIDE DEF chain_vars, pool_vars, cache_vars
<1> QED BY <1>1, <1>2, <1>3, <1>4, <1>5, <1>6, <1>7, <1>8, <1>9, <1>10, <1>11, <1>12, DrainKeeps DEF Next

\* The invariant holds for every tree, every set of transactions and every limit.
THEOREM MempoolCorrect == Spec => []MempoolInv
BY InitMempool, StepMempool, PTL DEF Spec

\* Type correctness of the mempool.
THEOREM TypeCorrect == Spec => []TypeOK
<1>1. MempoolInv => TypeOK
  BY DEF MempoolInv
<1> QED BY <1>1, MempoolCorrect, PTL

\* The index by coin has the rows of the items and no others, after every
\* replacement, eviction, reorganisation and rebased fast forward spend.
THEOREM IndexCorrect == Spec => []IndexExact
<1>1. MempoolInv => IndexExact
  <2> SUFFICES ASSUME MempoolInv PROVE IndexExact
    OBVIOUS
  <2>1. items \in Seq(Item) /\ \A s : s \in spends <=> \E x : Has(items, x) /\ s \in Rows(x)
    BY DEF MempoolInv, Bounds, IsPool
  <2>2. \A x : x \in ToSet(items) <=> Has(items, x)
    BY <2>1, ToSetIsHas
  <2>3. spends = UNION {Rows(i) : i \in ToSet(items)}
    BY <2>1, <2>2
  <2> QED BY <2>3 DEF IndexExact, Rows
<1> QED BY <1>1, MempoolCorrect, PTL

\* The pool never exceeds its size in cost, and an item is in it once.
THEOREM PoolCorrect == Spec => []PoolWithinLimit
<1>1. MempoolInv => PoolWithinLimit
  <2> SUFFICES ASSUME MempoolInv PROVE PoolWithinLimit
    OBVIOUS
  <2>1. /\ items \in Seq(Item) /\ IsInjective(items) /\ TotalCost(Names(items)) <= max_size_in_cost
        /\ \A x, y : Has(items, x) /\ Has(items, y) /\ x.tx = y.tx => x = y
    BY DEF MempoolInv, Bounds, IsPool
  <2> DEFINE names == [i \in 1..Len(items) |-> items[i].tx]
  <2>2. DOMAIN items = 1..Len(items) /\ Len(items) \in Nat /\ \A i \in 1..Len(items) : items[i] \in Item
    BY <2>1
  <2>3. names \in [1..Len(items) -> Txs]
    <3>1. \A x \in Item : x.tx \in Txs
      BY DEF Item
    <3> QED BY <2>2, <3>1
  <2>4. IsInjective(names)
    <3> SUFFICES ASSUME NEW i \in 1..Len(items), NEW j \in 1..Len(items), items[i].tx = items[j].tx PROVE i = j
      BY DEF IsInjective
    <3>1. items[i] = items[j]
      BY <2>1 DEF Has
    <3> QED BY <2>1, <2>2, <3>1 DEF IsInjective
  <2>5. ToSet(names) = Names(items)
    BY <2>2 DEF ToSet, Names
  <2> HIDE DEF names
  <2>6. names \in Seq(Txs) /\ Len(names) = Len(items)
    BY <2>2, <2>3
  <2>7. Cardinality(Names(items)) = Len(items)
    BY <2>4, <2>5, <2>6, InjectiveCard
  <2> QED BY <2>1, <2>7 DEF PoolWithinLimit
<1> QED BY <1>1, MempoolCorrect, PTL

\* Nothing that is due is left in the pending cache when new_peak() returns, and
\* nothing that is due gets into it.
THEOREM PendingCorrect == Spec => []PendingIsEarly
<1>1. MempoolInv => PendingIsEarly
  <2> SUFFICES ASSUME MempoolInv, InStep, NEW t \in ToSet(pending_cache)
               PROVE  assert_height[t] > height[TxPeak(peak)]
    BY DEF PendingIsEarly
  <2>1. Has(pending_cache, t) /\ lock = "free" /\ mempool_peak = TxPeak(peak)
    BY ToSetIsHas DEF MempoolInv, TypeOK, InStep, PeakKnown
  <2> QED BY <2>1 DEF MempoolInv, NothingDue
<1> QED BY <1>1, MempoolCorrect, PTL

\* Both caches stay within their bounds in cost and number.
THEOREM CachesCorrect == Spec => []CachesWithinLimit
<1>1. MempoolInv => CachesWithinLimit
  BY DEF MempoolInv, Bounds, IsCache, CachesWithinLimit
<1> QED BY <1>1, MempoolCorrect, PTL

-----------------------------------------------------------------------------
(* The items and the chain.  A long sync that ends one transaction block     *)
(* ahead, or a block that is stored before a long sync has reported its peak,*)
(* leaves items behind that new_peak() does not look at.  The first is left  *)
(* out by ~ OneBlockSyncs; after the second, nothing is said of the items    *)
(* until new_peak() builds the pool anew (PoolReported).                     *)

\* A long sync reports its peak before another block is stored.
ReportedFirst == finishing => UNCHANGED chain_vars

\* The coins of the item x are unspent on the chain that ends in p.
FitsAt(x, p) == Effective(x.tx, x.lineage) \subseteq Chain!UnspentAt(p)

\* Two items share at most the version that both are based on.
ItemsApart(x, y) ==
    x.tx # y.tx =>
        Effective(x.tx, x.lineage) \cap Effective(y.tx, y.lineage) \subseteq {x.lineage} \cap {y.lineage}

ChainKept ==
    /\ unspent = Chain!UnspentAt(peak)
    /\ \A s \in stored : s \in Blocks /\ ValidBlock(s) /\ Anc[s] \subseteq stored
    /\ peak \in stored \cup {GENESIS_CHALLENGE}
    /\ mempool_peak \in stored \cup {GENESIS_CHALLENGE}

\* The items fit the chain of the manager's peak, which may be behind that of the
\* node, but for those added between the end of a long sync and its report.
ItemsFit ==
    (finishing => mempool_peak = TxPeak(peak)) => \A x : Has(items, x) => FitsAt(x, mempool_peak)

LocksMet ==
    \A x : Has(items, x) => /\ assert_height[x.tx] <= height[mempool_peak]
                            /\ height[mempool_peak] < assert_before_height[x.tx]

\* A batch has collected what the blocks after the manager's peak spend.
BatchCovered ==
    lock = "batch" => \A a \in Anc[peak] \ Anc[mempool_peak] : removals[a] \subseteq spent_coins

\* A sync that is not reported yet will not be taken for one block.
SyncAhead ==
    finishing => lock = "free" /\ ~ UseOptimization(TxPeak(peak))

AllApart == \A x, y : Has(items, x) /\ Has(items, y) => ItemsApart(x, y)

SpendInv ==
    /\ MempoolInv
    /\ ChainKept
    /\ ItemsFit
    /\ LocksMet
    /\ BatchCovered
    /\ SyncAhead
    /\ AllApart

PoolReported ==
    /\ MempoolInv
    /\ ChainKept
    /\ overtaken \/ SpendInv

\* Blocks that are not transaction blocks change nothing.
LEMMA TxPeakUnspent ==
    ASSUME NEW p \in Tips
    PROVE  /\ Chain!UnspentAt(TxPeak(p)) = Chain!UnspentAt(p)
           /\ \A a \in Anc[p] \ Anc[TxPeak(p)] : removals[a] = {}
           /\ TxPeak(p) \in Anc[p] \cup {GENESIS_CHALLENGE}
           /\ Anc[TxPeak(p)] \subseteq Anc[p]
<1> DEFINE q == TxPeak(p)
<1>1. /\ q \in TxBlocks \cup {GENESIS_CHALLENGE}
      /\ q = GENESIS_CHALLENGE <=> p = GENESIS_CHALLENGE
  BY TxPeakIs
<1>2. q \in Tips
  BY <1>1, MempoolTyping DEF Tips
<1>3. CASE p = GENESIS_CHALLENGE
  BY <1>1, <1>3
<1>4. CASE p # GENESIS_CHALLENGE
  <2>1. q \in Anc[p] /\ \A a \in Anc[p] \cap TxBlocks : height[a] <= height[q]
    BY <1>1, <1>4, LatestTxIs DEF TxPeak
  <2> HIDE DEF q
  <2>2. Anc[q] = {a \in Anc[p] : height[a] <= height[q]} /\ Anc[q] \subseteq Anc[p]
    BY <1>2, <2>1, AncBelow
  <2>3. \A a \in Anc[p] \ Anc[q] : a \in Blocks \ TxBlocks
    BY <2>1, <2>2, AncBlocks
  <2>4. \A a \in Anc[p] \ Anc[q] : Additions(a) = {} /\ removals[a] = {}
    BY <2>3, MempoolTyping
  <2>5. \A c : (\E a \in Anc[p] : c \in Additions(a)) <=> (\E a \in Anc[q] : c \in Additions(a))
    BY <2>2, <2>4
  <2>6. \A c : (\A a \in Anc[p] : c \notin removals[a]) <=> (\A a \in Anc[q] : c \notin removals[a])
    BY <2>2, <2>4
  <2>7. Chain!UnspentAt(q) = Chain!UnspentAt(p)
    BY <2>5, <2>6 DEF Chain!UnspentAt, Chain!Additions, Additions
  <2> QED BY <2>1, <2>2, <2>4, <2>7 DEF q
<1> QED BY <1>3, <1>4

\* A coin that is unspent on a chain and not spent by the blocks that follow
LEMMA StillUnspent ==
    ASSUME NEW m, NEW p, Anc[m] \subseteq Anc[p], NEW S,
           \A a \in Anc[p] \ Anc[m] : removals[a] \subseteq S,
           NEW c \in Chain!UnspentAt(m), c \notin S
    PROVE  c \in Chain!UnspentAt(p)
BY DEF Chain!UnspentAt

LEMMA OneVersion ==
    ASSUME NEW p \in Tips, ValidChain(p), NEW t \in Txs, ff[t] # NoCoin,
           NEW c \in Chain!UnspentAt(p), NEW d \in Chain!UnspentAt(p), IsVersion(c, t), IsVersion(d, t)
    PROVE  c = d
BY SingletonAssumption DEF IsVersion, ValidChain

LEMMA StoredChain ==
    ASSUME ChainKept, NEW p \in stored \cup {GENESIS_CHALLENGE}
    PROVE  p \in Tips /\ Anc[p] \subseteq stored /\ ValidChain(p)
<1>1. Anc[p] \subseteq stored
  BY AncestryIsAChain DEF ChainKept
<1> QED BY <1>1 DEF ChainKept, Tips, ValidChain

\* A block is stored.
LEMMA BlockKeepsChain ==
    ASSUME ChainKept, NEW b \in Blocks, Chain!StoreBlock(b), mempool_peak' = mempool_peak
    PROVE  ChainKept'
<1>1. /\ b \notin stored /\ prev_hash[b] \in stored \cup {GENESIS_CHALLENGE}
      /\ stored' = stored \cup {b} /\ peak' \in {peak, b} /\ unspent' = Chain!UnspentAt(peak')
  BY DEF Chain!StoreBlock
<1>2. ValidBlock(b)
  BY DEF Chain!StoreBlock, Chain!ValidBlock, ValidBlock, Chain!SpendsValid, SpendsValid,
         Chain!Additions, Additions, Chain!ProperAnc, ProperAnc
<1>3. Anc[prev_hash[b]] \subseteq stored
  BY <1>1, StoredChain
<1>4. Anc[b] \subseteq stored'
  BY <1>1, <1>3, AncestryIsAChain
<1>5. \A s \in stored' : s \in Blocks /\ ValidBlock(s) /\ Anc[s] \subseteq stored'
  BY <1>1, <1>2, <1>4 DEF ChainKept
<1>6. peak' \in stored' \cup {GENESIS_CHALLENGE} /\ mempool_peak' \in stored' \cup {GENESIS_CHALLENGE}
  BY <1>1 DEF ChainKept
<1> QED BY <1>1, <1>5, <1>6 DEF ChainKept

\* The manager learns of the peak, or not.
LEMMA ReportKeepsChain ==
    ASSUME MempoolInv, ChainKept, UNCHANGED chain_vars, mempool_peak' \in {mempool_peak, TxPeak(peak)}
    PROVE  ChainKept' /\ TxPeak(peak) \in stored \cup {GENESIS_CHALLENGE}
<1>1. stored' = stored /\ peak' = peak /\ unspent' = unspent
  BY DEF chain_vars
<1>2. peak \in Tips
  BY DEF MempoolInv, ChainTyped
<1>3. TxPeak(peak) \in stored \cup {GENESIS_CHALLENGE}
  <2>1. Anc[peak] \subseteq stored
    BY StoredChain DEF ChainKept
  <2> QED BY <1>2, <2>1, TxPeakUnspent
<1> QED BY <1>1, <1>3 DEF ChainKept, Chain!UnspentAt

-----------------------------------------------------------------------------
(* A bundle that is added *)

LEMMA NewItemFits ==
    ASSUME unspent \subseteq Coins, NEW t \in Txs, ~ Refused(t, LineageOf(t))
    PROVE  Effective(t, LineageOf(t)) \subseteq unspent
<1>1. \A c \in coin_spends[t] : c \notin unspent => IsFF(t, LineageOf(t), c)
  BY DEF Refused
<1>2. CASE LineageOf(t) = NoCoin
  BY <1>1, <1>2 DEF IsFF, Effective
<1>3. CASE LineageOf(t) # NoCoin
  <2>1. LineageOf(t) \in unspent
    BY <1>3, LineageIs
  <2> QED BY <1>1, <1>3, <2>1 DEF IsFF, Effective
<1> QED BY <1>2, <1>3

\* An item that check_removals() does not report shares no coin with the new one
\* but a version that both fast forward.
LEMMA NewItemMeetsNone ==
    ASSUME IsPool(items, spends), unspent \subseteq Coins, NEW t \in Txs,
           NEW y, Has(items, y), y.tx \notin Conflicts(t, LineageOf(t))
    PROVE  Effective(t, LineageOf(t)) \cap Effective(y.tx, y.lineage) \subseteq {LineageOf(t)} \cap {y.lineage}
<1> DEFINE l == LineageOf(t)
           Latest(c) == IF IsFF(t, l, c) THEN l ELSE c
           Found(i, c) == CASE c \in coin_spends[i.tx] -> c
                            [] c \notin coin_spends[i.tx] /\ Latest(c) \in coin_spends[i.tx] -> Latest(c)
                            [] OTHER -> ff[i.tx]
<1>1. items \in Seq(Item) /\ y \in ToSet(items) /\ VersionsApart(y)
  <2>1. items \in Seq(Item)
    BY DEF IsPool
  <2> QED BY <2>1, ToSetIsHas DEF IsPool
<1>2. \A c \in coin_spends[t] :
          <<c, y.tx>> \in spends \/ <<Latest(c), y.tx>> \in spends
            => IsFF(t, l, c) /\ IsFF(y.tx, y.lineage, Found(y, c))
  BY <1>1 DEF Conflicts
<1>3. \A c \in Effective(y.tx, y.lineage) : <<c, y.tx>> \in spends
  <2>1. \A c \in Effective(y.tx, y.lineage) : <<c, y.tx>> \in Rows(y)
    BY DEF Rows
  <2> QED BY <2>1 DEF IsPool
<1> SUFFICES ASSUME NEW c \in Effective(t, l), c \in Effective(y.tx, y.lineage)
             PROVE  c = l /\ c = y.lineage
  OBVIOUS
<1>4. <<c, y.tx>> \in spends
  BY <1>3
<1>5. l # NoCoin /\ c = l
  <2>1. ASSUME c \in coin_spends[t], ~ IsFF(t, l, c) PROVE FALSE
    BY <1>2, <1>4, <2>1
  <2> QED BY <2>1 DEF Effective, IsFF
<1>6. ff[t] \in coin_spends[t] /\ ff[t] # NoCoin /\ IsFF(t, l, ff[t]) /\ Latest(ff[t]) = l /\ IsVersion(l, t)
  <2>1. ff[t] # NoCoin /\ IsVersion(l, t)
    BY <1>5, LineageIs
  <2> QED BY <1>5, <2>1, MempoolTyping DEF IsFF
<1>7. y.lineage # NoCoin /\ Found(y, ff[t]) = ff[y.tx]
  BY <1>2, <1>4, <1>5, <1>6 DEF IsFF
<1>8. c = y.lineage \/ c \in coin_spends[y.tx] \ {ff[y.tx]}
  BY <1>7 DEF Effective
<1>9. ASSUME c \in coin_spends[y.tx] \ {ff[y.tx]} PROVE FALSE
  <2>1. CASE ff[t] \in coin_spends[y.tx]
    <3>1. ff[t] = ff[y.tx]
      BY <1>7, <2>1
    <3>2. IsVersion(c, y.tx)
      BY <1>5, <1>6, <3>1 DEF IsVersion
    <3> QED BY <1>1, <1>7, <1>9, <3>2 DEF VersionsApart
  <2>2. CASE ff[t] \notin coin_spends[y.tx]
    <3>1. Found(y, ff[t]) = c
      BY <1>5, <1>6, <1>9, <2>2
    <3> QED BY <1>7, <1>9, <3>1
  <2> QED BY <2>1, <2>2
<1> QED BY <1>5, <1>8, <1>9

\* After a bundle was added or refused every item was there, or is the new one.
LEMMA ItemsAfterAdd ==
    ASSUME IsPool(items, spends), NEW t \in Txs, NEW status,
           AddSpendBundle(t, status) \/ TooSlow(t, status)
    PROVE  \/ \A x : Has(items', x) => Has(items, x)
           \/ /\ Verdict(t, LineageOf(t)) = "add"
              /\ \A x : Has(items', x) =>
                            x = NewItem(t) \/ (Has(items, x) /\ x.tx \notin Conflicts(t, LineageOf(t)))
<1>1. items \in Seq(Item)
  BY DEF IsPool
<1>2. ASSUME NEW gone, items' = Without(items, gone) PROVE \A x : Has(items', x) => Has(items, x)
  BY <1>1, <1>2, WithoutProperties
<1>3. ASSUME NEW gone, Conflicts(t, LineageOf(t)) \subseteq gone,
             items' = Append(Without(items, gone), NewItem(t)),
             NEW x, Has(items', x)
      PROVE  x = NewItem(t) \/ (Has(items, x) /\ x.tx \notin Conflicts(t, LineageOf(t)))
  <2> DEFINE its == Without(items, gone)
  <2>1. its \in Seq(Item) /\ \A y : Has(its, y) => Has(items, y) /\ y.tx \notin gone
    BY <1>1, WithoutProperties
  <2> HIDE DEF its
  <2>2. Has(its, x) \/ x = NewItem(t)
    BY <1>3, <2>1 DEF Has, its
  <2> QED BY <1>3, <2>1, <2>2
<1> QED BY <1>1, <1>2, <1>3, AddDoes

LEMMA AddKeepsItems ==
    ASSUME SpendInv, NEW t \in Txs, NEW status,
           AddSpendBundle(t, status) \/ TooSlow(t, status),
           UNCHANGED <<chain_vars, mempool_peak>>, finishing' = finishing,
           finishing \/ mempool_peak = TxPeak(peak)
    PROVE  ItemsFit' /\ LocksMet' /\ AllApart'
<1> DEFINE l == LineageOf(t)
<1>1. /\ IsPool(items, spends) /\ unspent \subseteq Coins /\ peak \in Tips /\ ItemsFit /\ LocksMet /\ AllApart
      /\ unspent = Chain!UnspentAt(peak) /\ mempool_peak \in Tips
  BY MempoolTyping DEF SpendInv, MempoolInv, Bounds, ChainTyped, ChainKept, TypeOK, Tips
<1>2. peak' = peak /\ mempool_peak' = mempool_peak /\ TxPeak(peak)' = TxPeak(peak)
  BY DEF chain_vars, TxPeak
<1>3. CASE \A x : Has(items', x) => Has(items, x)
  BY <1>1, <1>2, <1>3 DEF ItemsFit, LocksMet, AllApart
<1>4. ASSUME Verdict(t, l) = "add",
             \A x : Has(items', x) => x = NewItem(t) \/ (Has(items, x) /\ x.tx \notin Conflicts(t, l))
      PROVE  ItemsFit' /\ LocksMet' /\ AllApart'
  <2>1. /\ ~ Refused(t, l)
        /\ ~ (height[mempool_peak] < assert_height[t])
        /\ ~ (height[mempool_peak] >= assert_before_height[t])
    BY <1>4, VerdictMeans
  <2>2. NewItem(t).tx = t /\ NewItem(t).lineage = l
    BY DEF NewItem
  <2>3. ItemsFit'
    <3> SUFFICES ASSUME finishing => mempool_peak = TxPeak(peak), NEW x, Has(items', x)
                 PROVE  FitsAt(x, mempool_peak)
      BY <1>2 DEF ItemsFit
    <3>1. Has(items, x) => FitsAt(x, mempool_peak)
      BY <1>1 DEF ItemsFit
    <3>2. Chain!UnspentAt(mempool_peak) = unspent
      BY <1>1, TxPeakUnspent
    <3>3. FitsAt(NewItem(t), mempool_peak)
      BY <1>1, <2>1, <2>2, <3>2, NewItemFits DEF FitsAt
    <3> QED BY <1>4, <3>1, <3>3
  <2>4. LocksMet'
    <3>1. height[mempool_peak] \in Int /\ assert_height[t] \in Nat /\ assert_before_height[t] \in Nat
      BY <1>1, AncBlocks, MempoolTyping
    <3>2. assert_height[t] <= height[mempool_peak] /\ height[mempool_peak] < assert_before_height[t]
      BY <2>1, <3>1
    <3> QED BY <1>1, <1>2, <1>4, <2>2, <3>2 DEF LocksMet
  <2>5. AllApart'
    <3>1. ASSUME NEW y, Has(items, y), y.tx \notin Conflicts(t, l)
          PROVE  ItemsApart(NewItem(t), y) /\ ItemsApart(y, NewItem(t))
      <4>1. Effective(t, l) \cap Effective(y.tx, y.lineage) \subseteq {l} \cap {y.lineage}
        BY <1>1, <3>1, NewItemMeetsNone
      <4> QED BY <2>2, <4>1 DEF ItemsApart
    <3>2. ItemsApart(NewItem(t), NewItem(t))
      BY DEF ItemsApart
    <3> SUFFICES ASSUME NEW x, NEW y, Has(items', x), Has(items', y) PROVE ItemsApart(x, y)
      BY DEF AllApart
    <3>3. Has(items, x) /\ Has(items, y) => ItemsApart(x, y)
      BY <1>1 DEF AllApart
    <3> QED BY <1>4, <3>1, <3>2, <3>3
  <2> QED BY <2>3, <2>4, <2>5
<1> QED BY <1>1, <1>3, <1>4, ItemsAfterAdd

-----------------------------------------------------------------------------
(* A new peak *)

\* The fast path: what is left of the pool fits the next transaction block, for
\* the batch has collected every coin that was spent since the manager's peak.
LEMMA FastPathKeepsItems ==
    ASSUME SpendInv, ~ finishing, NEW spent \in SUBSET Coins,
           UseOptimization(TxPeak(peak)), TxPeak(peak) # GENESIS_CHALLENGE,
           \A a \in Anc[peak] \ Anc[mempool_peak] : removals[a] \subseteq spent,
           NEW gone, Rebased(spent).evicted \cup Expired(TxPeak(peak)) \subseteq gone
    PROVE  \A x : Has(Without(Rebased(spent).items, gone), x) =>
              /\ FitsAt(x, TxPeak(peak))
              /\ assert_height[x.tx] <= height[TxPeak(peak)]
              /\ height[TxPeak(peak)] < assert_before_height[x.tx]
              /\ \A y : Has(Without(Rebased(spent).items, gone), y) => ItemsApart(x, y)
<1> DEFINE tip == TxPeak(peak)
           m == mempool_peak
           r == Without(Rebased(spent).items, gone)
<1>1. /\ IsPool(items, spends) /\ unspent \subseteq Coins /\ peak \in Tips
      /\ unspent = Chain!UnspentAt(peak) /\ ChainKept
      /\ m # GENESIS_CHALLENGE /\ PrevTx(tip) = m
  BY DEF SpendInv, MempoolInv, Bounds, ChainTyped, ChainKept, UseOptimization
<1>2. /\ tip \in Anc[peak] /\ tip \in Tips /\ Anc[tip] \subseteq Anc[peak]
      /\ unspent = Chain!UnspentAt(tip)
  BY <1>1, TxPeakUnspent, AncBlocks DEF Tips
<1>3. /\ m \in Anc[tip] /\ m \in Tips /\ ValidChain(m)
      /\ Anc[m] \subseteq Anc[tip] /\ height[m] <= height[tip]
  <2>1. m \in ProperAnc(tip)
    <3>1. ProperAnc(tip) \in SUBSET Anc[tip]
      BY DEF ProperAnc
    <3> QED BY <1>1, <1>2, <3>1, LatestTxIs DEF PrevTx
  <2>2. m \in Anc[tip]
    BY <2>1 DEF ProperAnc
  <2>3. m \in Tips /\ ValidChain(m)
    BY <1>1, StoredChain DEF ChainKept
  <2> QED BY <1>2, <2>2, <2>3, AncBelow, AncBlocks
<1>4. \A a \in Anc[tip] \ Anc[m] : removals[a] \subseteq spent
  BY <1>2
<1>5. \A c \in Chain!UnspentAt(m) : c \notin spent => c \in Chain!UnspentAt(tip)
  BY <1>3, <1>4, StillUnspent
<1>6. \A y : Has(r, y) <=> \E x : Has(items, x) /\ x.tx \notin gone /\ y = Moved(x, spent)
  <2>1. Rebased(spent).evicted \subseteq gone
    OBVIOUS
  <2> QED BY <1>1, <2>1, PoolRebased
<1> HIDE DEF r
\* what is known of an item x that stays
<1>7. ASSUME NEW x, Has(items, x), x.tx \notin gone
      PROVE  /\ x \in Item /\ x.tx \in Txs /\ VersionsApart(x)
             /\ Effective(x.tx, x.lineage) \subseteq Chain!UnspentAt(m)
             /\ (Effective(x.tx, x.lineage) \ {x.lineage}) \cap spent = {}
             /\ x.lineage \in spent => x.lineage # NoCoin /\ Lineage(ff[x.tx]) # NoCoin
             /\ assert_height[x.tx] <= height[m]
             /\ ~ (assert_before_height[x.tx] <= height[tip])
  <2>1. x \in Item /\ x.tx \in Txs /\ VersionsApart(x)
    <3>1. items \in Seq(Item)
      BY <1>1 DEF IsPool
    <3>2. x \in Item
      BY <1>7, <3>1 DEF Has
    <3> QED BY <1>1, <1>7, <3>2 DEF IsPool, Item
  <2>2. Effective(x.tx, x.lineage) \subseteq Chain!UnspentAt(m) /\ assert_height[x.tx] <= height[m]
    BY <1>7 DEF SpendInv, ItemsFit, FitsAt, LocksMet
  <2>3. x.tx \notin Rebased(spent).evicted /\ x.tx \notin Expired(tip)
    BY <1>7
  <2>4. /\ (Effective(x.tx, x.lineage) \ {x.lineage}) \cap spent = {}
        /\ x.lineage \in spent => Lineage(ff[x.tx]) # NoCoin
    BY <1>1, <1>7, <2>3, RebasedIs
  <2>5. x.lineage \in spent => x.lineage # NoCoin
    BY MempoolTyping
  <2>6. ~ (assert_before_height[x.tx] <= height[tip])
    <3>1. x.tx \in Names(items)
      <4>1. items \in Seq(Item)
        BY <1>1 DEF IsPool
      <4> QED BY <1>7, <4>1, NamesAre
    <3> QED BY <2>3, <3>1 DEF Expired
  <2> QED BY <2>1, <2>2, <2>4, <2>5, <2>6
\* the item as it is rebased
<1>8. ASSUME NEW x, Has(items, x), x.tx \notin gone
      PROVE  /\ Moved(x, spent).tx = x.tx
             /\ Effective(x.tx, Moved(x, spent).lineage) \ {Moved(x, spent).lineage}
                    \subseteq Effective(x.tx, x.lineage) \ {x.lineage}
             /\ \/ Moved(x, spent) = x /\ x.lineage \notin spent
                \/ /\ x.lineage \in spent /\ Moved(x, spent).lineage = Lineage(ff[x.tx])
                   /\ Lineage(ff[x.tx]) \in unspent /\ IsVersion(Lineage(ff[x.tx]), x.tx)
                   /\ x.lineage \in Chain!UnspentAt(m) /\ IsVersion(x.lineage, x.tx) /\ ff[x.tx] # NoCoin
  <2>1. CASE x.lineage \notin spent
    BY <2>1 DEF Moved
  <2>2. CASE x.lineage \in spent
    <3>1. x.lineage # NoCoin /\ Lineage(ff[x.tx]) # NoCoin /\ x \in Item /\ x.tx \in Txs
      BY <1>7, <1>8, <2>2
    <3>2. Moved(x, spent).tx = x.tx /\ Moved(x, spent).lineage = Lineage(ff[x.tx])
      BY <2>2, <3>1 DEF Moved, Item
    <3>3. Lineage(ff[x.tx]) \in unspent /\ IsVersion(Lineage(ff[x.tx]), x.tx)
      BY <1>1, <3>1, LatestIs
    <3>4. ff[x.tx] # NoCoin /\ IsVersion(x.lineage, x.tx) /\ x.lineage \notin coin_spends[x.tx] \ {ff[x.tx]}
      BY <1>7, <1>8, <3>1 DEF VersionsApart
    <3>5. x.lineage \in Chain!UnspentAt(m)
      BY <1>7, <1>8, <3>1 DEF Effective
    <3>6. Effective(x.tx, Lineage(ff[x.tx])) \ {Lineage(ff[x.tx])} \subseteq Effective(x.tx, x.lineage) \ {x.lineage}
      BY <3>1, <3>4 DEF Effective
    <3> QED BY <2>2, <3>2, <3>3, <3>4, <3>5, <3>6
  <2> QED BY <2>1, <2>2
<1>9. ASSUME NEW x, Has(items, x), x.tx \notin gone
      PROVE  /\ FitsAt(Moved(x, spent), tip)
             /\ assert_height[x.tx] <= height[tip]
             /\ height[tip] < assert_before_height[x.tx]
  <2> DEFINE e == Effective(x.tx, x.lineage)
             v == Moved(x, spent).lineage
  <2>1. e \ {x.lineage} \subseteq Chain!UnspentAt(tip)
    BY <1>5, <1>7, <1>9
  <2>2. v \in Effective(x.tx, v) => v \in Chain!UnspentAt(tip)
    BY <1>2, <1>5, <1>7, <1>8, <1>9
  <2>3. Effective(x.tx, v) \subseteq Chain!UnspentAt(tip)
    BY <1>8, <1>9, <2>1, <2>2
  <2>4. FitsAt(Moved(x, spent), tip)
    BY <1>8, <1>9, <2>3 DEF FitsAt
  <2>5. height[m] \in Int /\ height[tip] \in Int /\ assert_height[x.tx] \in Nat /\ assert_before_height[x.tx] \in Nat
    BY <1>2, <1>3, <1>7, <1>9, AncBlocks, MempoolTyping
  <2>6. assert_height[x.tx] <= height[m] /\ ~ (assert_before_height[x.tx] <= height[tip])
    BY <1>7, <1>9
  <2> QED BY <1>3, <2>4, <2>5, <2>6
\* a coin that a rebased spend now has in common with another item
<1>10. ASSUME NEW x, Has(items, x), x.tx \notin gone, NEW y, Has(items, y), y.tx \notin gone, x.tx # y.tx,
              NEW c \in Effective(x.tx, Moved(x, spent).lineage), c \in Effective(y.tx, Moved(y, spent).lineage)
       PROVE  c = Moved(x, spent).lineage
  <2> DEFINE v == Moved(x, spent).lineage
             w == Moved(y, spent).lineage
  <2> SUFFICES ASSUME c # v PROVE FALSE
    OBVIOUS
  <2>1. c \in Effective(x.tx, x.lineage) /\ c # x.lineage /\ c \in Chain!UnspentAt(m) /\ c \notin spent
    BY <1>7, <1>8, <1>10
  <2>2. c \notin Effective(y.tx, y.lineage)
    BY <1>10, <2>1 DEF SpendInv, AllApart, ItemsApart
  <2>3. c = w /\ y.lineage \in spent /\ c = Lineage(ff[y.tx])
    BY <1>8, <1>10, <2>2
  <2>4. /\ IsVersion(c, y.tx) /\ y.lineage \in Chain!UnspentAt(m) /\ IsVersion(y.lineage, y.tx)
        /\ ff[y.tx] # NoCoin /\ y.tx \in Txs
    BY <1>7, <1>8, <1>10, <2>3
  <2>5. c = y.lineage
    BY <1>3, <2>1, <2>4, OneVersion
  <2> QED BY <2>1, <2>3, <2>5
<1>11. ASSUME NEW x, Has(items, x), x.tx \notin gone, NEW y, Has(items, y), y.tx \notin gone
       PROVE  ItemsApart(Moved(x, spent), Moved(y, spent))
  <2>1. Moved(x, spent).tx = x.tx /\ Moved(y, spent).tx = y.tx
    BY <1>8, <1>11
  <2> SUFFICES ASSUME x.tx # y.tx, NEW c \in Effective(x.tx, Moved(x, spent).lineage),
                      c \in Effective(y.tx, Moved(y, spent).lineage)
               PROVE  c = Moved(x, spent).lineage /\ c = Moved(y, spent).lineage
    BY <2>1 DEF ItemsApart
  <2> QED BY <1>10, <1>11
<1>12. ASSUME NEW z, Has(r, z)
       PROVE  /\ FitsAt(z, tip) /\ assert_height[z.tx] <= height[tip] /\ height[tip] < assert_before_height[z.tx]
              /\ \A y : Has(r, y) => ItemsApart(z, y)
  <2>1. PICK x : Has(items, x) /\ x.tx \notin gone /\ z = Moved(x, spent)
    BY <1>6, <1>12
  <2>2. z.tx = x.tx
    BY <1>8, <2>1
  <2>3. \A y : Has(r, y) => ItemsApart(z, y)
    BY <1>6, <1>11, <2>1
  <2> QED BY <1>9, <2>1, <2>2, <2>3
<1> QED BY <1>12 DEF r

LEMMA NewPeakKeepsItems ==
    ASSUME SpendInv, MempoolInv', NEW spent \in SUBSET Coins, NewPeak(spent),
           UNCHANGED chain_vars, finishing' = FALSE,
           UseOptimization(TxPeak(peak)) =>
               ~ finishing /\ \A a \in Anc[peak] \ Anc[mempool_peak] : removals[a] \subseteq spent
    PROVE  SpendInv'
<1> DEFINE tip == TxPeak(peak)
           gone == Expired(tip) \cup Rebased(spent).evicted
<1>1. stored' = stored /\ peak' = peak /\ unspent' = unspent /\ TxPeak(peak)' = tip
  BY DEF chain_vars, TxPeak
<1>2. /\ peak \in Tips /\ ChainKept
      /\ peak = GENESIS_CHALLENGE => mempool_peak = GENESIS_CHALLENGE
  BY DEF SpendInv, MempoolInv, ChainTyped
<1>3. lock' \in {"free", "readd"} /\ mempool_peak' \in {mempool_peak, tip}
  BY DEF NewPeak
<1>4. /\ tip \in stored \cup {GENESIS_CHALLENGE}
      /\ tip = GENESIS_CHALLENGE <=> peak = GENESIS_CHALLENGE
  <2>1. ChainKept /\ MempoolInv
    BY DEF SpendInv
  <2> QED BY <1>2, <2>1, <1>3, ReportKeepsChain, TxPeakIs
<1>5. ChainKept'
  BY <1>3, ReportKeepsChain DEF SpendInv
<1>6. BatchCovered' /\ SyncAhead'
  BY <1>3 DEF BatchCovered, SyncAhead
<1>7. ItemsFit' /\ LocksMet' /\ AllApart'
  <2>1. CASE tip \in {GENESIS_CHALLENGE, mempool_peak}
    <3>1. items' = items /\ mempool_peak' = mempool_peak /\ mempool_peak = tip
      BY <1>2, <1>4, <2>1 DEF NewPeak, pool_vars
    <3> QED BY <1>1, <3>1 DEF SpendInv, ItemsFit, LocksMet, AllApart
  <2>2. CASE tip \notin {GENESIS_CHALLENGE, mempool_peak} /\ ~ UseOptimization(tip)
    <3>1. items' = <<>>
      BY <2>2 DEF NewPeak
    <3>2. \A x : ~ Has(items', x)
      BY <3>1 DEF Has
    <3> QED BY <3>2 DEF ItemsFit, LocksMet, AllApart
  <2>3. CASE tip \notin {GENESIS_CHALLENGE, mempool_peak} /\ UseOptimization(tip)
    <3>1. items' = Without(Rebased(spent).items, gone) /\ mempool_peak' = tip
      BY <2>3 DEF NewPeak
    <3>2. Rebased(spent).evicted \cup Expired(TxPeak(peak)) \subseteq gone
      OBVIOUS
    <3> HIDE DEF gone
    <3>3. \A x : Has(items', x) =>
              /\ FitsAt(x, tip) /\ assert_height[x.tx] <= height[tip] /\ height[tip] < assert_before_height[x.tx]
              /\ \A y : Has(items', y) => ItemsApart(x, y)
      BY <2>3, <3>1, <3>2, FastPathKeepsItems
    <3> QED BY <3>1, <3>3 DEF ItemsFit, LocksMet, AllApart
  <2> QED BY <2>1, <2>2, <2>3
<1> QED BY <1>5, <1>6, <1>7 DEF SpendInv

\* A block is stored.
LEMMA BlockKeepsItems ==
    ASSUME SpendInv, MempoolInv', ~ finishing, NEW b \in Blocks, Chain!StoreBlock(b),
           UNCHANGED <<pool_vars, mempool_peak, finishing>>, BatchCovered'
    PROVE  SpendInv'
<1>1. /\ b \notin stored /\ prev_hash[b] \in stored \cup {GENESIS_CHALLENGE}
      /\ stored' = stored \cup {b} /\ peak' \in {peak, b} /\ unspent' = Chain!UnspentAt(peak')
      /\ items' = items /\ mempool_peak' = mempool_peak /\ finishing' = FALSE
  BY DEF Chain!StoreBlock, pool_vars, SpendInv, MempoolInv, TypeOK
<1>2. ChainKept'
  BY <1>1, BlockKeepsChain DEF SpendInv
<1>3. ItemsFit' /\ LocksMet' /\ AllApart' /\ SyncAhead'
  BY <1>1 DEF SpendInv, ItemsFit, LocksMet, AllApart, SyncAhead
<1> QED BY <1>2, <1>3 DEF SpendInv

\* A step that leaves the chain, the items and the sync alone
LEMMA OtherKeepsItems ==
    ASSUME SpendInv, MempoolInv', UNCHANGED <<chain_vars, items, mempool_peak, finishing>>,
           (lock' = lock /\ spent_coins' = spent_coins) \/ (lock' \in {"free", "retry"} /\ ~ finishing)
    PROVE  SpendInv'
<1>1. /\ stored' = stored /\ peak' = peak /\ unspent' = unspent
      /\ items' = items /\ mempool_peak' = mempool_peak /\ finishing' = finishing
      /\ TxPeak(peak)' = TxPeak(peak)
  BY DEF chain_vars, TxPeak
<1>2. ChainKept'
  BY <1>1 DEF SpendInv, ChainKept, Chain!UnspentAt
<1>3. ItemsFit' /\ LocksMet' /\ AllApart'
  BY <1>1 DEF SpendInv, ItemsFit, LocksMet, AllApart
<1>4. BatchCovered'
  BY <1>1 DEF SpendInv, BatchCovered
<1>5. SyncAhead'
  BY <1>1 DEF SpendInv, SyncAhead, UseOptimization
<1> QED BY <1>2, <1>3, <1>4, <1>5 DEF SpendInv

\* A bundle is added or refused.
LEMMA AddKeepsSpendInv ==
    ASSUME SpendInv, MempoolInv', NEW t \in Txs, NEW status,
           AddSpendBundle(t, status) \/ TooSlow(t, status),
           UNCHANGED <<chain_vars, mempool_peak, finishing>>,
           finishing \/ mempool_peak = TxPeak(peak),
           (lock = "free" /\ lock' = lock) \/ (lock' # "batch" /\ ~ finishing)
    PROVE  SpendInv'
<1>1. /\ stored' = stored /\ peak' = peak /\ unspent' = unspent
      /\ mempool_peak' = mempool_peak /\ finishing' = finishing /\ TxPeak(peak)' = TxPeak(peak)
  BY DEF chain_vars, TxPeak
<1>2. ItemsFit' /\ LocksMet' /\ AllApart'
  BY <1>1, AddKeepsItems
<1>3. ChainKept'
  BY <1>1 DEF SpendInv, ChainKept, Chain!UnspentAt
<1>4. BatchCovered' /\ SyncAhead'
  BY <1>1 DEF SpendInv, BatchCovered, SyncAhead, UseOptimization
<1> QED BY <1>2, <1>3, <1>4 DEF SpendInv

LEMMA InitSpend == Init => SpendInv
<1> SUFFICES ASSUME Init PROVE SpendInv
  OBVIOUS
<1>1. /\ stored = {} /\ peak = GENESIS_CHALLENGE /\ unspent = {} /\ mempool_peak = GENESIS_CHALLENGE
      /\ items = <<>> /\ lock = "free" /\ finishing = FALSE
  BY DEF Init, Chain!Init
<1>2. \A x : ~ Has(items, x)
  BY <1>1 DEF Has
<1>3. Chain!UnspentAt(GENESIS_CHALLENGE) = {}
  BY AncestryIsAChain DEF Chain!UnspentAt
<1>4. ChainKept
  BY <1>1, <1>3 DEF ChainKept
<1> QED BY <1>1, <1>2, <1>4, InitMempool DEF SpendInv, ItemsFit, LocksMet, AllApart, BatchCovered, SyncAhead

LEMMA StepSpend ==
    ASSUME ~ OneBlockSyncs, SpendInv, [Next]_vars, ReportedFirst
    PROVE  SpendInv'
<1>0. MempoolInv /\ MempoolInv'
  BY StepMempool DEF SpendInv
<1> USE DEF chain_vars, pool_vars, cache_vars
<1>1. ASSUME NEW t \in Txs, SubmitPresent(t) PROVE SpendInv'
  <2>1. UNCHANGED <<chain_vars, items, mempool_peak, finishing>> /\ lock' = lock /\ spent_coins' = spent_coins
    BY <1>1 DEF SubmitPresent
  <2> QED BY <1>0, <2>1, OtherKeepsItems
<1>2. ASSUME NEW h \in Handlers, NEW t \in Txs, Submit(h, t) PROVE SpendInv'
  <2>1. UNCHANGED <<chain_vars, items, mempool_peak, finishing>> /\ lock' = lock /\ spent_coins' = spent_coins
    BY <1>2 DEF Submit
  <2> QED BY <1>0, <2>1, OtherKeepsItems
<1>3. ASSUME NEW h \in Handlers, PreValidated(h) PROVE SpendInv'
  <2>1. UNCHANGED <<chain_vars, items, mempool_peak, finishing>> /\ lock' = lock /\ spent_coins' = spent_coins
    BY <1>3 DEF PreValidated
  <2> QED BY <1>0, <2>1, OtherKeepsItems
<1>4. ASSUME NEW h \in Handlers, AddTransaction(h) PROVE SpendInv'
  <2> DEFINE t == handler[h].tx
  <2>1. t \in Txs
    BY <1>0 DEF MempoolInv, TypeOK
  <2>2. PICK status : AddSpendBundle(t, status) \/ TooSlow(t, status)
    BY <1>4 DEF AddTransaction
  <2>3. lock = "free" /\ lock' = lock /\ UNCHANGED <<chain_vars, mempool_peak, finishing>>
    BY <1>4 DEF AddTransaction
  <2>4. finishing \/ mempool_peak = TxPeak(peak)
    BY <1>0, <2>3 DEF MempoolInv, PeakKnown, InStep
  <2> HIDE DEF t
  <2> QED BY <1>0, <2>1, <2>2, <2>3, <2>4, AddKeepsSpendInv
<1>5. ASSUME NEW b \in Blocks, AddBlock(b) PROVE SpendInv'
  <2>1. /\ Chain!StoreBlock(b) /\ lock \in {"free", "batch"} /\ lock' = "batch"
        /\ spent_coins' = spent_coins \cup UNION {removals[a] : a \in Anc[peak'] \ Anc[peak]}
        /\ UNCHANGED <<pool_vars, mempool_peak, finishing>>
    BY <1>5 DEF AddBlock
  <2>2. ~ finishing
    BY <2>1 DEF ReportedFirst, Chain!StoreBlock
  <2>3. \A a \in Anc[peak] \ Anc[mempool_peak] : removals[a] \subseteq spent_coins
    <3>1. CASE lock = "batch"
      BY <3>1 DEF SpendInv, BatchCovered
    <3>2. CASE lock = "free"
      <4>1. mempool_peak = TxPeak(peak) /\ peak \in Tips
        BY <1>0, <2>2, <3>2 DEF MempoolInv, PeakKnown, InStep, ChainTyped
      <4>2. \A a \in Anc[peak] \ Anc[mempool_peak] : removals[a] = {}
        BY <4>1, TxPeakUnspent
      <4> QED BY <4>2
    <3> QED BY <2>1, <3>1, <3>2
  <2>4. BatchCovered'
    <3>1. mempool_peak' = mempool_peak
      BY <2>1
    <3>2. ASSUME NEW a \in Anc[peak'] \ Anc[mempool_peak] PROVE removals[a] \subseteq spent_coins'
      BY <2>1, <2>3
    <3> QED BY <3>1, <3>2 DEF BatchCovered
  <2> QED BY <1>0, <2>1, <2>2, <2>4, BlockKeepsItems
<1>6. ASSUME NEW b \in Blocks, SyncBlock(b) PROVE SpendInv'
  <2>1. /\ Chain!StoreBlock(b) /\ lock' = "sync" /\ ~ finishing
        /\ UNCHANGED <<pool_vars, mempool_peak, finishing>>
    BY <1>6 DEF SyncBlock
  <2>2. BatchCovered'
    BY <2>1 DEF BatchCovered
  <2> QED BY <1>0, <2>1, <2>2, BlockKeepsItems
<1>7. CASE EndBatch
  <2>1. lock = "batch" /\ NewPeak(spent_coins) /\ UNCHANGED <<chain_vars, finishing>>
    BY <1>7 DEF EndBatch
  <2>2. ~ finishing /\ finishing \in BOOLEAN /\ spent_coins \in SUBSET Coins
    BY <1>0, <2>1 DEF SpendInv, SyncAhead, MempoolInv, TypeOK
  <2>3. finishing' = FALSE
    BY <2>1, <2>2
  <2>4. \A a \in Anc[peak] \ Anc[mempool_peak] : removals[a] \subseteq spent_coins
    BY <2>1 DEF SpendInv, BatchCovered
  <2> QED BY <1>0, <2>1, <2>2, <2>3, <2>4, NewPeakKeepsItems
<1>8. CASE EndSync
  <2>1. /\ lock = "sync" /\ lock' = "free" /\ finishing' = TRUE
        /\ PrevTx(TxPeak(peak)) # mempool_peak \/ mempool_peak = GENESIS_CHALLENGE
        /\ stored' = stored /\ peak' = peak /\ unspent' = unspent /\ items' = items
        /\ mempool_peak' = mempool_peak
    BY <1>8 DEF EndSync
  <2>2. ~ finishing
    BY <2>1 DEF SpendInv, SyncAhead
  <2>3. ChainKept'
    BY <2>1 DEF SpendInv, ChainKept, Chain!UnspentAt
  <2>4. ItemsFit' /\ LocksMet' /\ AllApart'
    BY <2>1, <2>2 DEF SpendInv, ItemsFit, LocksMet, AllApart
  <2>5. ~ UseOptimization(TxPeak(peak))'
    BY <2>1 DEF UseOptimization, TxPeak
  <2>6. BatchCovered' /\ SyncAhead'
    BY <2>1, <2>5 DEF BatchCovered, SyncAhead
  <2> QED BY <1>0, <2>3, <2>4, <2>6 DEF SpendInv
<1>9. CASE FinishSync
  <2>1. finishing /\ finishing' = FALSE /\ NewPeak({}) /\ UNCHANGED chain_vars
    BY <1>9 DEF FinishSync
  <2>2. ~ UseOptimization(TxPeak(peak))
    BY <2>1 DEF SpendInv, SyncAhead
  <2> QED BY <1>0, <2>1, <2>2, NewPeakKeepsItems
<1>10. CASE Readd
  <2> DEFINE t == Head(todo)
  <2>1. t \in Txs
    BY <1>0, <1>10 DEF Readd, MempoolInv, TypeOK
  <2>2. PICK status : AddSpendBundle(t, status) \/ TooSlow(t, status)
    BY <1>10 DEF Readd
  <2>3. lock = "readd" /\ lock' = lock /\ UNCHANGED <<chain_vars, mempool_peak, finishing>>
    BY <1>10 DEF Readd
  <2>4. mempool_peak = TxPeak(peak) /\ ~ finishing
    BY <1>0, <2>3 DEF MempoolInv, PeakKnown, SpendInv, SyncAhead
  <2> HIDE DEF t
  <2> QED BY <1>0, <2>1, <2>2, <2>3, <2>4, AddKeepsSpendInv
<1>11. CASE Retry
  <2> DEFINE t == Head(todo)
  <2>1. t \in Txs
    <3>1. todo # <<>> /\ todo \in Seq(Txs)
      BY <1>0, <1>11 DEF Retry, MempoolInv, TypeOK
    <3> QED BY <3>1
  <2>2. PICK status : AddSpendBundle(t, status) \/ TooSlow(t, status)
    BY <1>11 DEF Retry
  <2>3. lock = "retry" /\ lock' # "batch" /\ UNCHANGED <<chain_vars, mempool_peak, finishing>>
    BY <1>11 DEF Retry
  <2>4. mempool_peak = TxPeak(peak) /\ ~ finishing
    BY <1>0, <2>3 DEF MempoolInv, PeakKnown, SpendInv, SyncAhead
  <2> HIDE DEF t
  <2> QED BY <1>0, <2>1, <2>2, <2>3, <2>4, AddKeepsSpendInv
<1>12. CASE Drain
  <2>1. lock = "readd" /\ lock' \in {"free", "retry"} /\ UNCHANGED <<chain_vars, items, mempool_peak, finishing>>
    BY <1>12 DEF Drain
  <2>2. ~ finishing
    BY <2>1 DEF SpendInv, SyncAhead
  <2> QED BY <1>0, <2>1, <2>2, OtherKeepsItems
<1>13. CASE UNCHANGED vars
  <2>1. UNCHANGED <<chain_vars, items, mempool_peak, finishing>> /\ lock' = lock /\ spent_coins' = spent_coins
    BY <1>13 DEF vars
  <2> QED BY <1>0, <2>1, OtherKeepsItems
<1> HIDE DEF chain_vars, pool_vars, cache_vars
<1> QED BY <1>1, <1>2, <1>3, <1>4, <1>5, <1>6, <1>7, <1>8, <1>9, <1>10, <1>11, <1>12, <1>13 DEF Next

\* The chain does not move while a long sync is to be reported, or the pool is
\* said to be overtaken.
LEMMA OvertakenIsSeen ==
    ASSUME [Next]_vars, ~ overtaken'
    PROVE  ReportedFirst
<1> USE DEF chain_vars
<1>1. ASSUME NEW b \in Blocks, AddBlock(b) PROVE ~ finishing
  BY <1>1 DEF AddBlock
<1>2. ASSUME NEW b \in Blocks, SyncBlock(b) PROVE ~ finishing
  BY <1>2 DEF SyncBlock
<1>3. \/ \E b \in Blocks : AddBlock(b) \/ SyncBlock(b)
      \/ UNCHANGED chain_vars
  BY DEF Next, vars, SubmitPresent, Submit, PreValidated, AddTransaction, EndBatch, EndSync, FinishSync,
         Readd, Drain, Retry
<1> QED BY <1>1, <1>2, <1>3 DEF ReportedFirst

LEMMA StepChain ==
    ASSUME MempoolInv, ChainKept, [Next]_vars
    PROVE  ChainKept'
<1> USE DEF chain_vars
<1>1. ASSUME NEW b \in Blocks, AddBlock(b) \/ SyncBlock(b) PROVE ChainKept'
  <2>1. Chain!StoreBlock(b) /\ mempool_peak' = mempool_peak
    BY <1>1 DEF AddBlock, SyncBlock
  <2> QED BY <2>1, BlockKeepsChain
<1>2. ASSUME UNCHANGED chain_vars, mempool_peak' \in {mempool_peak, TxPeak(peak)} PROVE ChainKept'
  BY <1>2, ReportKeepsChain
<1>3. \/ \E b \in Blocks : AddBlock(b) \/ SyncBlock(b)
      \/ UNCHANGED chain_vars /\ mempool_peak' \in {mempool_peak, TxPeak(peak)}
  BY DEF Next, vars, SubmitPresent, Submit, PreValidated, AddTransaction, EndBatch, EndSync, FinishSync,
         Readd, Drain, Retry, NewPeak
<1> QED BY <1>1, <1>2, <1>3

\* A pool that was overtaken is so no more: it has been built anew.
LEMMA RebuiltIsReported ==
    ASSUME MempoolInv, MempoolInv', ChainKept', [Next]_vars, overtaken, ~ overtaken'
    PROVE  SpendInv'
<1>1. Rebuilds /\ finishing' = FALSE /\ \E spent : NewPeak(spent)
  <2>1. finishing \in BOOLEAN
    BY DEF MempoolInv, TypeOK
  <2>2. CASE EndBatch
    BY <2>1, <2>2 DEF EndBatch
  <2>3. CASE FinishSync
    BY <2>3 DEF FinishSync
  <2>4. EndBatch \/ FinishSync
    BY DEF Next, vars, SubmitPresent, Submit, PreValidated, AddTransaction, AddBlock, SyncBlock, EndSync,
           Readd, Drain, Retry
  <2> QED BY <2>2, <2>3, <2>4
<1>2. items' = <<>> /\ lock' = "readd"
  BY <1>1 DEF Rebuilds, NewPeak
<1>3. \A x : ~ Has(items', x)
  BY <1>2 DEF Has
<1>4. ItemsFit' /\ LocksMet' /\ AllApart'
  BY <1>3 DEF ItemsFit, LocksMet, AllApart
<1>5. BatchCovered' /\ SyncAhead'
  BY <1>1, <1>2 DEF BatchCovered, SyncAhead
<1> QED BY <1>4, <1>5 DEF SpendInv

\* As long as no long sync ends one transaction block ahead of the mempool, the
\* items fit the chain of the manager's peak, from when new_peak() builds the pool
\* anew until a block is stored before a long sync is reported.
THEOREM SpendCorrect ==
    ASSUME ~ OneBlockSyncs
    PROVE  Spec => []PoolReported
<1>1. Init => PoolReported
  BY InitSpend DEF PoolReported, SpendInv
<1>2. ASSUME PoolReported, [Next]_vars PROVE PoolReported'
  <2>1. MempoolInv /\ ChainKept /\ MempoolInv' /\ ChainKept'
    BY <1>2, StepMempool, StepChain DEF PoolReported
  <2>2. ASSUME ~ overtaken' PROVE SpendInv'
    <3>1. CASE overtaken
      BY <1>2, <2>1, <2>2, <3>1, RebuiltIsReported
    <3>2. CASE ~ overtaken
      <4>1. SpendInv
        BY <1>2, <3>2 DEF PoolReported
      <4> QED BY <1>2, <2>2, <4>1, OvertakenIsSeen, StepSpend
    <3> QED BY <3>1, <3>2
  <2> QED BY <2>1, <2>2 DEF PoolReported
<1>3. PoolReported /\ [Next]_vars => PoolReported'
  BY <1>2
<1> QED BY <1>1, <1>3, PTL DEF Spec

\* Whenever the lock is free every item fits the peak, through replacements,
\* reorganisations, batches and rebased fast forward spends, whatever the amount
\* of the version they are rebased onto; with the exception that ItemsFitPeak states.
THEOREM FitCorrect ==
    ASSUME ~ OneBlockSyncs
    PROVE  Spec => []ItemsFitPeak
<1>1. ASSUME SpendInv, InStep, NEW x \in ToSet(items)
      PROVE  /\ Effective(x.tx, x.lineage) \subseteq unspent
             /\ x.lineage # NoCoin => x.lineage = Lineage(ff[x.tx])
             /\ assert_height[x.tx] <= height[TxPeak(peak)]
             /\ height[TxPeak(peak)] < assert_before_height[x.tx]
  <2>1. /\ MempoolInv /\ ChainKept /\ ItemsFit /\ LocksMet /\ mempool_peak = TxPeak(peak) /\ peak \in Tips
        /\ IsPool(items, spends) /\ unspent \subseteq Coins
    BY <1>1 DEF SpendInv, MempoolInv, PeakKnown, ChainTyped, Bounds
  <2>2. Has(items, x) /\ x \in Item /\ x.tx \in Txs /\ VersionsApart(x)
    <3>1. items \in Seq(Item)
      BY <2>1 DEF IsPool
    <3>2. Has(items, x)
      BY <1>1, <3>1, ToSetIsHas
    <3>3. x \in Item
      BY <3>1, <3>2 DEF Has
    <3> QED BY <2>1, <3>2, <3>3 DEF IsPool, Item
  <2>3. Effective(x.tx, x.lineage) \subseteq unspent
    <3>1. FitsAt(x, TxPeak(peak))
      BY <2>1, <2>2 DEF ItemsFit
    <3> QED BY <2>1, <3>1, TxPeakUnspent DEF FitsAt, ChainKept
  <2>4. ASSUME x.lineage # NoCoin PROVE x.lineage = Lineage(ff[x.tx])
    <3> DEFINE versions == {d \in unspent \cap SameAsParent : singleton[d] = singleton[ff[x.tx]]}
    <3>1. x.lineage \in unspent /\ IsVersion(x.lineage, x.tx) /\ ff[x.tx] # NoCoin
      BY <2>2, <2>3, <2>4 DEF VersionsApart, Effective
    <3>2. ValidChain(peak) /\ unspent = Chain!UnspentAt(peak)
      BY <2>1, StoredChain DEF ChainKept
    <3>3. \A d \in versions : d = x.lineage
      <4>1. \A d \in versions : IsVersion(d, x.tx) /\ d \in unspent
        BY DEF IsVersion
      <4> HIDE DEF versions
      <4> QED BY <2>1, <2>2, <3>1, <3>2, <4>1, OneVersion
    <3>4. x.lineage \in versions
      BY <3>1 DEF IsVersion
    <3> HIDE DEF versions
    <3>5. versions = {x.lineage}
      BY <3>3, <3>4
    <3>6. Lineage(ff[x.tx]) = IF \E d \in versions : versions = {d} THEN CHOOSE d \in versions : TRUE ELSE NoCoin
      BY DEF Lineage, versions
    <3> QED BY <3>5, <3>6
  <2>5. assert_height[x.tx] <= height[TxPeak(peak)] /\ height[TxPeak(peak)] < assert_before_height[x.tx]
    BY <2>1, <2>2 DEF LocksMet
  <2> QED BY <2>3, <2>4, <2>5
<1>2. PoolReported => ItemsFitPeak
  BY <1>1 DEF PoolReported, ItemsFitPeak
<1> QED BY <1>2, SpendCorrect, PTL

\* No two items spend the same coin, unless both fast forward the same singleton:
\* if no block was added between a long sync and its report since new_peak() last
\* built the pool anew.
THEOREM ConflictsCorrect ==
    ASSUME ~ OneBlockSyncs
    PROVE  Spec => [](~ overtaken => NoConflicts)
<1>1. SpendInv => NoConflicts
  <2> SUFFICES ASSUME SpendInv, NEW i \in ToSet(items), NEW j \in ToSet(items)
               PROVE  \/ i.tx = j.tx
                      \/ Effective(i.tx, i.lineage) \cap Effective(j.tx, j.lineage)
                            \subseteq {i.lineage} \cap {j.lineage}
    BY DEF NoConflicts
  <2>1. Has(items, i) /\ Has(items, j)
    <3>1. items \in Seq(Item)
      BY DEF SpendInv, MempoolInv, Bounds, IsPool
    <3> QED BY <3>1, ToSetIsHas
  <2>2. ItemsApart(i, j)
    BY <2>1 DEF SpendInv, AllApart
  <2> QED BY <2>2 DEF ItemsApart
<1>2. PoolReported => (~ overtaken => NoConflicts)
  BY <1>1 DEF PoolReported
<1> QED BY <1>2, SpendCorrect, PTL
==============================================================================
