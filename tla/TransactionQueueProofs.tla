----------------------- MODULE TransactionQueueProofs ------------------------
(***************************************************************************)
(* The queue's bookkeeping is exact and its round robin is fair, for every *)
(* number of peers, every set of entries and costs, every limit and every  *)
(* cleanup period.                                                         *)
(*                                                                         *)
(* That the semaphore counts the entries is inductive once the popper's    *)
(* unit is counted (Reserved).  Fairness is not: it rests on Shares, that  *)
(* what one watched peer has been served more than the other is, up to a   *)
(* constant, the deficit it has less; every top-up gives both the same.    *)
(***************************************************************************)
EXTENDS TransactionQueue, DataLemmas

AllItems(Q) == UNION {{p} \X Items(Q[p]) : p \in Peers}

SlotFree == popper # "slot" => handlers < max_handlers

BacklogInMap == \A p \in Peers : Backlogged(p) => p \in Registered

Balance == lead + deficit[Watched[1]] - deficit[Watched[2]]

Shares ==
    /\ Balance < 2 * MaxCost
    /\ - Balance < 2 * MaxCost
    /\ (\E i \in 1..2 : ~ Backlogged(Watched[i])) => lead = 0

IInv ==
    /\ TypeOK
    /\ IsFiniteSet(AllItems(queued))
    /\ QueueLengthExact
    /\ SlotFree
    /\ BacklogInMap
    /\ DeficitBounded
    /\ Shares

-----------------------------------------------------------------------------
(* Counting the entries *)

LEMMA InAllItems ==
    ASSUME NEW Q, NEW x
    PROVE  x \in AllItems(Q)
             <=> \E p \in Peers, e \in Entries : \E n \in 1..Q[p][e] : x = <<p, <<e, n>>>>
BY DEF AllItems, Items

\* One entry more in one queue is one item more.
LEMMA OneMore ==
    ASSUME NEW Q \in [Peers -> [Entries -> Nat]], NEW Q2 \in [Peers -> [Entries -> Nat]],
           NEW p \in Peers, NEW e \in Entries,
           Q2[p][e] = Q[p][e] + 1,
           \A r \in Peers, f \in Entries : <<r, f>> # <<p, e>> => Q2[r][f] = Q[r][f]
    PROVE  /\ AllItems(Q2) = AllItems(Q) \cup {<<p, <<e, Q2[p][e]>>>>}
           /\ <<p, <<e, Q2[p][e]>>>> \notin AllItems(Q)
<1> DEFINE new == <<p, <<e, Q2[p][e]>>>>
<1>1. new \notin AllItems(Q)
  <2> SUFFICES ASSUME new \in AllItems(Q) PROVE FALSE
    OBVIOUS
  <2>1. PICK r \in Peers, f \in Entries : \E n \in 1..Q[r][f] : new = <<r, <<f, n>>>>
    BY InAllItems
  <2>2. Q2[p][e] \in 1..Q[p][e]
    BY <2>1
  <2> QED BY <2>2
<1>2. ASSUME NEW x \in AllItems(Q2) PROVE x \in AllItems(Q) \cup {new}
  <2>1. PICK r \in Peers, f \in Entries : \E n \in 1..Q2[r][f] : x = <<r, <<f, n>>>>
    BY <1>2, InAllItems
  <2>2. PICK n \in 1..Q2[r][f] : x = <<r, <<f, n>>>>
    BY <2>1
  <2>3. n \in 1..Q[r][f] \/ (r = p /\ f = e /\ n = Q2[p][e])
    <3>1. CASE r = p /\ f = e
      BY <3>1
    <3>2. CASE ~ (r = p /\ f = e)
      BY <3>2
    <3> QED BY <3>1, <3>2
  <2> QED BY <2>2, <2>3, InAllItems
<1>3. ASSUME NEW x \in AllItems(Q) \cup {new} PROVE x \in AllItems(Q2)
  <2>1. CASE x = new
    <3>1. Q2[p][e] \in 1..Q2[p][e]
      OBVIOUS
    <3> QED BY <2>1, <3>1, InAllItems
  <2>2. CASE x \in AllItems(Q)
    <3>1. PICK r \in Peers, f \in Entries : \E n \in 1..Q[r][f] : x = <<r, <<f, n>>>>
      BY <2>2, InAllItems
    <3>2. PICK n \in 1..Q[r][f] : x = <<r, <<f, n>>>>
      BY <3>1
    <3>3. n \in 1..Q2[r][f]
      <4>1. CASE r = p /\ f = e
        BY <4>1
      <4>2. CASE ~ (r = p /\ f = e)
        BY <4>2
      <4> QED BY <4>1, <4>2
    <3> QED BY <3>2, <3>3, InAllItems
  <2> QED BY <1>3, <2>1, <2>2
<1> QED BY <1>1, <1>2, <1>3

\* Q2 has one copy of the entry e of p more than Q.
Adds(Q, Q2, p, e) ==
    /\ Q2[p][e] = Q[p][e] + 1
    /\ \A r \in Peers, f \in Entries : <<r, f>> # <<p, e>> => Q2[r][f] = Q[r][f]

\* Then the queues hold one entry more in all.
LEMMA CountOneMore ==
    ASSUME NEW Q \in [Peers -> [Entries -> Nat]], NEW Q2 \in [Peers -> [Entries -> Nat]],
           NEW p \in Peers, NEW e \in Entries, Adds(Q, Q2, p, e),
           IsFiniteSet(AllItems(Q)) \/ IsFiniteSet(AllItems(Q2))
    PROVE  /\ IsFiniteSet(AllItems(Q)) /\ IsFiniteSet(AllItems(Q2))
           /\ Cardinality(AllItems(Q)) \in Nat
           /\ Cardinality(AllItems(Q2)) = Cardinality(AllItems(Q)) + 1
<1> DEFINE new == <<p, <<e, Q2[p][e]>>>>
           A == AllItems(Q)
           B == AllItems(Q2)
<1>1. B = A \cup {new} /\ new \notin A
  BY OneMore DEF Adds
<1> HIDE DEF new, A, B
<1>2. IsFiniteSet(A)
  <2>1. A \in SUBSET B
    BY <1>1
  <2> QED BY <2>1, FS_Subset DEF A, B
<1>3. IsFiniteSet(B) /\ Cardinality(B) = Cardinality(A) + 1
  BY <1>1, <1>2, FS_AddElement
<1> QED BY <1>2, <1>3, FS_CardinalityType DEF A, B

-----------------------------------------------------------------------------
(* The order of the entries *)

\* Comparing fees per cost by cross multiplication is transitive.
LEMMA RatioTransitive ==
    ASSUME NEW a \in Nat, NEW b \in Nat, NEW c \in Nat,
           NEW x \in Nat, NEW y \in Nat, NEW z \in Nat, x > 0, y > 0, z > 0,
           a * y >= b * x, b * z >= c * y
    PROVE  /\ a * z >= c * x
           /\ a * y > b * x \/ b * z > c * y => a * z > c * x
<1>1. (a * y) * z >= (b * x) * z /\ (a * y > b * x => (a * y) * z > (b * x) * z)
  OBVIOUS
<1>2. (b * z) * x >= (c * y) * x /\ (b * z > c * y => (b * z) * x > (c * y) * x)
  OBVIOUS
<1>3. (a * y) * z = (a * z) * y /\ (b * x) * z = (b * z) * x /\ (c * y) * x = (c * x) * y
  OBVIOUS
<1>4. /\ (a * z) * y >= (c * x) * y
      /\ a * y > b * x \/ b * z > c * y => (a * z) * y > (c * x) * y
  BY <1>1, <1>2, <1>3
<1>5. ASSUME NEW u \in Nat, NEW v \in Nat PROVE u * y >= v * y => u >= v
  OBVIOUS
<1>6. ASSUME NEW u \in Nat, NEW v \in Nat PROVE u * y > v * y => u > v
  OBVIOUS
<1>7. a * z \in Nat /\ c * x \in Nat
  OBVIOUS
<1> QED BY <1>4, <1>5, <1>6, <1>7

LEMMA PrecedesTotal ==
    ASSUME NEW e \in Entries, NEW f \in Entries, e # f
    PROVE  Precedes(e, f) \/ Precedes(f, e)
<1> DEFINE ef == advertised_fee[e] * advertised_cost[f]
           fe == advertised_fee[f] * advertised_cost[e]
<1>1. /\ advertised_cost[e] \in Nat /\ advertised_cost[f] \in Nat
      /\ spend_name[e] \in Nat /\ spend_name[f] \in Nat /\ spend_name[e] # spend_name[f]
      /\ ef \in Nat /\ fe \in Nat
  BY EntriesAssumption
<1> HIDE DEF ef, fe
<1>2. /\ Precedes(e, f) <=>
            \/ advertised_cost[e] > 0 /\ ~ (advertised_cost[f] > 0)
            \/ advertised_cost[e] > 0 /\ advertised_cost[f] > 0 /\ ef > fe
            \/ /\ advertised_cost[e] > 0 <=> advertised_cost[f] > 0
               /\ advertised_cost[e] > 0 => ef = fe
               /\ spend_name[e] < spend_name[f]
      /\ Precedes(f, e) <=>
            \/ advertised_cost[f] > 0 /\ ~ (advertised_cost[e] > 0)
            \/ advertised_cost[f] > 0 /\ advertised_cost[e] > 0 /\ fe > ef
            \/ /\ advertised_cost[f] > 0 <=> advertised_cost[e] > 0
               /\ advertised_cost[f] > 0 => fe = ef
               /\ spend_name[f] < spend_name[e]
  BY DEF Precedes, ef, fe
<1> QED BY <1>1, <1>2

LEMMA PrecedesTransitive ==
    ASSUME NEW e \in Entries, NEW f \in Entries, NEW g \in Entries,
           Precedes(e, f), Precedes(f, g)
    PROVE  Precedes(e, g)
<1> DEFINE ef == advertised_fee[e] * advertised_cost[f]
           fe == advertised_fee[f] * advertised_cost[e]
           fg == advertised_fee[f] * advertised_cost[g]
           gf == advertised_fee[g] * advertised_cost[f]
           eg == advertised_fee[e] * advertised_cost[g]
           ge == advertised_fee[g] * advertised_cost[e]
           known(h) == advertised_cost[h] > 0
<1>1. /\ \A h \in {e, f, g} : /\ advertised_cost[h] \in Nat /\ advertised_fee[h] \in Nat
                              /\ spend_name[h] \in Nat
      /\ ef \in Nat /\ fe \in Nat /\ fg \in Nat /\ gf \in Nat /\ eg \in Nat /\ ge \in Nat
  BY EntriesAssumption
<1>2. known(e) /\ known(f) /\ known(g) /\ ef >= fe /\ fg >= gf
         => eg >= ge /\ (ef > fe \/ fg > gf => eg > ge)
  BY <1>1, RatioTransitive
<1>3. known(e) /\ known(f) /\ known(g) /\ fe >= ef /\ gf >= fg => ge >= eg
  BY <1>1, RatioTransitive
<1> HIDE DEF ef, fe, fg, gf, eg, ge, known
<1>4. \/ known(e) /\ ~ known(f)
      \/ known(e) /\ known(f) /\ ef > fe
      \/ /\ known(e) <=> known(f)
         /\ known(e) => ef = fe
         /\ spend_name[e] < spend_name[f]
  BY DEF Precedes, ef, fe, known
<1>5. \/ known(f) /\ ~ known(g)
      \/ known(f) /\ known(g) /\ fg > gf
      \/ /\ known(f) <=> known(g)
         /\ known(f) => fg = gf
         /\ spend_name[f] < spend_name[g]
  BY DEF Precedes, fg, gf, known
<1>6. \/ known(e) /\ ~ known(g)
      \/ known(e) /\ known(g) /\ eg > ge
      \/ /\ known(e) <=> known(g)
         /\ known(e) => eg = ge
         /\ spend_name[e] < spend_name[g]
  BY <1>1, <1>2, <1>3, <1>4, <1>5
<1> QED BY <1>6 DEF Precedes, eg, ge, known

\* A queue that is not empty has a top, and the top is one of its entries.
LEMMA TopProperties ==
    ASSUME NEW q \in [Entries -> Nat], ~ IsEmptyQueue(q)
    PROVE  Top(q) \in Entries /\ q[Top(q)] > 0
<1> DEFINE S == {e \in Entries : q[e] > 0}
           R == {r \in Entries \X Entries : r[1] = r[2] \/ Precedes(r[1], r[2])}
<1>1. \A e, f \in Entries : <<e, f>> \in R <=> e = f \/ Precedes(e, f)
  OBVIOUS
<1> HIDE DEF R
<1>2. IsFiniteSet(S) /\ S # {}
  BY EntriesAssumption, FS_Subset DEF IsEmptyQueue
<1>3. /\ \A e, f \in S : <<e, f>> \in R \/ <<f, e>> \in R
      /\ \A e, f, g \in S : <<e, f>> \in R /\ <<f, g>> \in R => <<e, g>> \in R
  BY <1>1, PrecedesTotal, PrecedesTransitive
<1> HIDE DEF S
<1>4. PICK k \in S : \A j \in S : <<k, j>> \in R
  BY <1>2, <1>3, LeastInOrder
<1>5. k \in Entries /\ q[k] > 0 /\ \A f \in Entries : q[f] > 0 => f = k \/ Precedes(k, f)
  BY <1>1, <1>4 DEF S
<1> QED BY <1>5 DEF Top

\* Every transaction costs something, and at most MaxCost.
LEMMA CostBounds ==
    /\ MaxCost \in Nat
    /\ \A e \in Entries : Cost(e) \in Nat /\ 0 < Cost(e) /\ Cost(e) <= MaxCost
    /\ MaxCost > 0
<1> DEFINE T == {Cost(e) : e \in Entries}
           f == [e \in Entries |-> Cost(e)]
<1>1. \A e \in Entries : Cost(e) \in Nat /\ 0 < Cost(e)
  BY EntriesAssumption, BoundsAssumption DEF Cost
<1>2. f \in Surjection(Entries, T)
  BY DEF Surjection
<1>3. IsFiniteSet(T)
  <2> HIDE DEF f, T
  <2> QED BY <1>2, EntriesAssumption, FS_Surjection
<1>4. T \in SUBSET Int /\ T # {}
  BY <1>1, EntriesAssumption
<1>5. PICK k \in T : \A j \in T : k >= j
  <2> HIDE DEF T
  <2> QED BY <1>3, <1>4, GreatestInteger
<1>6. MaxCost \in T /\ \A j \in T : MaxCost >= j
  BY <1>5 DEF MaxCost, Max
<1>7. PICK e \in Entries : TRUE
  BY EntriesAssumption
<1> QED BY <1>1, <1>6, <1>7

LEMMA TopCostBounds ==
    ASSUME TypeOK, NEW p \in Peers, Backlogged(p)
    PROVE  /\ Top(queued[p]) \in Entries
           /\ queued[p][Top(queued[p])] > 0
           /\ TopCost(p) \in Nat /\ 0 < TopCost(p) /\ TopCost(p) <= MaxCost
<1>1. queued[p] \in [Entries -> Nat] /\ ~ IsEmptyQueue(queued[p])
  BY DEF TypeOK, Backlogged
<1>2. Top(queued[p]) \in Entries /\ queued[p][Top(queued[p])] > 0
  BY <1>1, TopProperties
<1> QED BY <1>2, CostBounds DEF TopCost

-----------------------------------------------------------------------------
(* The cleanup *)

LEMMA RegisteredHas ==
    ASSUME index_to_peer_map \in Seq(Peers)
    PROVE  \A x : x \in Registered <=> Has(index_to_peer_map, x)
<1>1. DOMAIN index_to_peer_map = 1..Len(index_to_peer_map)
  OBVIOUS
<1> QED BY <1>1 DEF Registered, Has

\* The loop of _cleanup_peer_queues() only decrements the cursor, and never
\* below zero.
LEMMA CursorAfterBound ==
    ASSUME index_to_peer_map \in Seq(Peers), NEW q, NEW c \in Nat
    PROVE  CursorAfter(q, c) \in 0..c
<1> DEFINE n == Len(index_to_peer_map)
           Removed(i) == IsEmptyQueue(q[index_to_peer_map[i]])
           Step(g, i) == IF i = 0 THEN c
                         ELSE g[i-1] - (IF Removed(i) /\ i - 1 < g[i-1] THEN 1 ELSE 0)
           Good == {m \in Nat : \E g \in [0..m -> 0..c] : \A i \in 0..m : g[i] = Step(g, i)}
           Bad == Nat \ Good
           F == CHOOSE g : g = [i \in 0..n |-> Step(g, i)]
<1>1. CursorAfter(q, c) = F[n]
  BY DEF CursorAfter
<1> HIDE DEF Removed
<1>2. Bad = {}
  <2> SUFFICES ASSUME Bad # {} PROVE FALSE
    OBVIOUS
  <2>1. PICK m \in Bad : \A k \in Bad : m <= k
    <3>1. Bad \in SUBSET Nat
      OBVIOUS
    <3> HIDE DEF Bad
    <3> QED BY <3>1, LeastNatural
  <2>2. m # 0
    <3> SUFFICES ASSUME m = 0 PROVE FALSE
      OBVIOUS
    <3> DEFINE g == [i \in 0..0 |-> c]
    <3>1. g \in [0..0 -> 0..c] /\ \A i \in 0..0 : g[i] = Step(g, i)
      OBVIOUS
    <3>2. 0 \in Good
      BY <3>1
    <3> QED BY <2>1, <3>2
  <2>3. m - 1 \in Good
    <3> HIDE DEF Good
    <3>1. m \in Nat /\ m - 1 \in Nat
      BY <2>1, <2>2
    <3>2. m - 1 \notin Bad
      <4> HIDE DEF Bad
      <4> QED BY <2>1, <3>1
    <3> QED BY <3>1, <3>2
  <2>4. PICK g \in [0..(m-1) -> 0..c] : \A i \in 0..(m-1) : g[i] = Step(g, i)
    BY <2>3
  <2> DEFINE last == Step(g, m)
             h == [i \in 0..m |-> IF i = m THEN last ELSE g[i]]
  <2>5. last \in 0..c
    <3>1. m - 1 \in 0..(m-1) /\ m \in Nat
      BY <2>1, <2>2
    <3>2. g[m-1] \in 0..c
      BY <3>1
    <3> QED BY <2>2, <3>1, <3>2
  <2>6. h \in [0..m -> 0..c]
    <3> HIDE DEF last
    <3> QED BY <2>1, <2>5
  <2>7. ASSUME NEW i \in 0..m PROVE h[i] = Step(h, i)
    <3>1. CASE i = 0
      <4>1. 0 \in 0..(m-1)
        BY <2>1, <2>2
      <4> QED BY <2>2, <2>4, <3>1, <4>1
    <3>2. CASE i # 0
      <4>1. i - 1 \in 0..(m-1) /\ i - 1 \in 0..m /\ i - 1 # m
        BY <2>1, <3>2
      <4>2. h[i-1] = g[i-1]
        BY <4>1
      <4>3. h[i] = Step(g, i)
        <5>1. CASE i = m
          BY <5>1
        <5>2. CASE i # m
          <6>1. i \in 0..(m-1)
            BY <2>1, <5>2
          <6>2. h[i] = g[i]
            BY <5>2
          <6> QED BY <2>4, <6>1, <6>2
        <5> QED BY <5>1, <5>2
      <4> HIDE DEF h
      <4> QED BY <3>2, <4>2, <4>3
    <3> QED BY <3>1, <3>2
  <2> HIDE DEF h
  <2>8. m \in Good
    BY <2>1, <2>6, <2>7
  <2> QED BY <2>1, <2>8
<1>3. n \in Nat
  OBVIOUS
<1>4. \E g : g = [i \in 0..n |-> Step(g, i)]
  <2>1. PICK g \in [0..n -> 0..c] : \A i \in 0..n : g[i] = Step(g, i)
    BY <1>2, <1>3
  <2>2. g = [i \in 0..n |-> Step(g, i)]
    BY <2>1
  <2> QED BY <2>2
<1>5. F = [i \in 0..n |-> Step(F, i)]
  BY <1>4, Zenon
<1> HIDE DEF F, n
<1>6. \A i \in 0..n : F[i] = Step(F, i)
  BY <1>5
<1>7. \A i \in 0..n : F[i] \in 0..c
  <2> DEFINE Out == {i \in 0..n : F[i] \notin 0..c}
  <2> SUFFICES ASSUME Out # {} PROVE FALSE
    OBVIOUS
  <2>1. PICK i \in Out : \A k \in Out : i <= k
    <3>1. Out \in SUBSET Nat
      BY <1>3
    <3> HIDE DEF Out
    <3> QED BY <3>1, LeastNatural
  <2>2. i # 0
    BY <1>3, <1>6, <2>1
  <2>3. i - 1 \in 0..n /\ i \in 0..n /\ i - 1 \notin Out
    BY <1>3, <2>1, <2>2
  <2>4. F[i-1] \in 0..c
    BY <2>3
  <2>5. F[i] \in 0..c
    BY <1>6, <2>2, <2>3, <2>4
  <2> QED BY <2>1, <2>5
<1> QED BY <1>1, <1>3, <1>7

-----------------------------------------------------------------------------
(* Steps that leave the queues alone *)

LEMMA CountIsNat ==
    ASSUME IInv
    PROVE  TotalQueued = Cardinality(AllItems(queued)) /\ TotalQueued \in Nat
BY FS_CardinalityType DEF IInv, TotalQueued, AllItems

\* What does not touch queued, deficit, the map or the history keeps the parts
\* of the invariant about them.
LEMMA QueuesUnchanged ==
    ASSUME IInv, UNCHANGED <<list_cursor, index_to_peer_map, queued, deficit, cleanup_counter, lead>>
    PROVE  /\ IsFiniteSet(AllItems(queued))'
           /\ BacklogInMap'
           /\ DeficitBounded'
           /\ Shares'
           /\ TotalQueued' = TotalQueued
<1>1. \A p \in Peers : Backlogged(p)' <=> Backlogged(p)
  BY DEF Backlogged
<1>2. Registered' = Registered
  BY DEF Registered
<1> QED BY <1>1, <1>2 DEF IInv, BacklogInMap, DeficitBounded, Shares, Balance, TotalQueued, AllItems,
           Backlogged

\* A release adds one unit, to the semaphore or to the popper.
LEMMA ReleaseAdds ==
    ASSUME TypeOK, Release
    PROVE  /\ queue_length' \in Nat
           /\ popper' \in {"slot", "pop", "granted", "select"}
           /\ popper' = "slot" <=> popper = "slot"
           /\ queue_length \in Nat /\ Reserved \in 0..1 /\ Reserved' \in 0..1
           /\ queue_length' + Reserved' = queue_length + Reserved + 1
<1>1. CASE popper = "pop"
  BY <1>1 DEF TypeOK, Release, Reserved
<1>2. CASE popper # "pop"
  <2>1. queue_length' = queue_length + 1 /\ popper' = popper
    BY <1>2 DEF Release
  <2>2. Reserved' = Reserved /\ Reserved \in 0..1
    BY <2>1 DEF Reserved
  <2> QED BY <2>1, <2>2 DEF TypeOK
<1> QED BY <1>1, <1>2

LEMMA PutHighStep == ASSUME IInv, PutHigh PROVE IInv'
<1>1. TypeOK' /\ SlotFree'
  <2>1. high_priority' \in Nat /\ high_puts' \in 0..HighBound
    BY BoundsAssumption DEF IInv, PutHigh, TypeOK
  <2> QED BY <2>1, ReleaseAdds DEF IInv, PutHigh, TypeOK, SlotFree
<1>2. TotalQueued' = TotalQueued
  BY QueuesUnchanged DEF PutHigh
<1>3. QueueLengthExact'
  <2>1. high_priority' = high_priority + 1 /\ high_priority \in Nat
    BY DEF IInv, PutHigh, TypeOK
  <2> QED BY <1>2, <2>1, CountIsNat, ReleaseAdds DEF IInv, QueueLengthExact, PutHigh
<1> QED BY <1>1, <1>3, QueuesUnchanged DEF IInv, PutHigh

LEMMA BeginPopStep == ASSUME IInv, BeginPop PROVE IInv'
<1>1. TypeOK' /\ SlotFree'
  BY DEF IInv, BeginPop, TypeOK, SlotFree
<1>2. TotalQueued' = TotalQueued
  BY QueuesUnchanged DEF BeginPop
<1>3. QueueLengthExact'
  BY <1>2, CountIsNat DEF IInv, QueueLengthExact, BeginPop, Reserved, TypeOK
<1> QED BY <1>1, <1>3, QueuesUnchanged DEF IInv, BeginPop

LEMMA ResumePopStep == ASSUME IInv, ResumePop PROVE IInv'
<1>1. TypeOK' /\ SlotFree'
  BY DEF IInv, ResumePop, TypeOK, SlotFree
<1>2. TotalQueued' = TotalQueued
  BY QueuesUnchanged DEF ResumePop
<1>3. QueueLengthExact'
  BY <1>2, CountIsNat DEF IInv, QueueLengthExact, ResumePop, Reserved, TypeOK
<1> QED BY <1>1, <1>3, QueuesUnchanged DEF IInv, ResumePop

LEMMA TakeHighStep == ASSUME IInv, TakeHigh PROVE IInv'
<1>1. TypeOK' /\ SlotFree'
  BY BoundsAssumption DEF IInv, TakeHigh, Dispatch, TypeOK, SlotFree
<1>2. TotalQueued' = TotalQueued
  BY QueuesUnchanged DEF TakeHigh
<1>3. QueueLengthExact'
  <2>1. high_priority' = high_priority - 1 /\ queue_length' = queue_length /\ Reserved = 1 /\ Reserved' = 0
    BY DEF TakeHigh, Dispatch, Reserved
  <2>2. high_priority \in Nat /\ queue_length \in Nat /\ TotalQueued \in Nat
    BY CountIsNat DEF IInv, TypeOK
  <2> QED BY <1>2, <2>1, <2>2 DEF IInv, QueueLengthExact
<1> QED BY <1>1, <1>3, QueuesUnchanged DEF IInv, TakeHigh

LEMMA EndHandlerStep == ASSUME IInv, EndHandler PROVE IInv'
<1>1. TypeOK' /\ SlotFree'
  BY BoundsAssumption DEF IInv, EndHandler, TypeOK, SlotFree
<1>2. TotalQueued' = TotalQueued
  BY QueuesUnchanged DEF EndHandler
<1>3. QueueLengthExact'
  BY <1>2, CountIsNat DEF IInv, QueueLengthExact, EndHandler, Reserved, TypeOK
<1> QED BY <1>1, <1>3, QueuesUnchanged DEF IInv, EndHandler

-----------------------------------------------------------------------------
(* A peer's transaction comes in *)

LEMMA PutStep ==
    ASSUME IInv, NEW p \in Peers, NEW e \in Entries, Put(p, e)
    PROVE  IInv'
<1>1. /\ index_to_peer_map' = IF p \in Registered THEN index_to_peer_map
                                                  ELSE Append(index_to_peer_map, p)
      /\ queued' = [queued EXCEPT ![p][e] = @ + 1]
      /\ Release
      /\ UNCHANGED <<list_cursor, deficit, high_priority, cleanup_counter, handlers, high_puts, lead>>
  BY DEF Put
<1>2. /\ queued \in [Peers -> [Entries -> Nat]]
      /\ index_to_peer_map \in Seq(Peers) /\ IsInjective(index_to_peer_map)
  BY DEF IInv, TypeOK
<1>3. /\ queued' \in [Peers -> [Entries -> Nat]]
      /\ queued'[p][e] = queued[p][e] + 1
      /\ \A r \in Peers, f \in Entries : <<r, f>> # <<p, e>> => queued'[r][f] = queued[r][f]
  BY <1>1, <1>2
<1>4. IsFiniteSet(AllItems(queued)) /\ TotalQueued = Cardinality(AllItems(queued))
      /\ TotalQueued \in Nat
  BY CountIsNat DEF IInv
<1>5. /\ IsFiniteSet(AllItems(queued'))
      /\ Cardinality(AllItems(queued')) = Cardinality(AllItems(queued)) + 1
  <2>1. Adds(queued, queued', p, e)
    BY <1>3 DEF Adds
  <2> QED BY <1>2, <1>3, <1>4, <2>1, CountOneMore
<1>6. TotalQueued' = TotalQueued + 1
  BY <1>4, <1>5 DEF TotalQueued, AllItems
<1>7. QueueLengthExact'
  <2>1. high_priority' = high_priority /\ high_priority \in Nat
    BY <1>1 DEF IInv, TypeOK
  <2> QED BY <1>1, <1>4, <1>6, <2>1, ReleaseAdds DEF IInv, QueueLengthExact
<1>8. /\ index_to_peer_map' \in Seq(Peers) /\ IsInjective(index_to_peer_map')
      /\ \A x : x \in Registered' <=> x \in Registered \/ x = p
      /\ Len(index_to_peer_map') >= Len(index_to_peer_map)
  <2>1. CASE p \in Registered
    BY <1>1, <1>2, <2>1 DEF Registered
  <2>2. CASE p \notin Registered
    <3>1. index_to_peer_map' = Append(index_to_peer_map, p)
      BY <1>1, <2>2
    <3>2. ~ Has(index_to_peer_map, p)
      BY <1>2, <2>2, RegisteredHas
    <3>3. /\ index_to_peer_map' \in Seq(Peers) /\ IsInjective(index_to_peer_map')
          /\ \A x : Has(index_to_peer_map', x) <=> Has(index_to_peer_map, x) \/ x = p
      BY <1>2, <3>1, <3>2, AppendFresh
    <3>4. \A x : x \in Registered <=> Has(index_to_peer_map, x)
      BY <1>2, RegisteredHas
    <3>5. \A x : x \in Registered' <=> Has(index_to_peer_map', x)
      <4>1. DOMAIN (index_to_peer_map') = 1..Len(index_to_peer_map')
        BY <3>3
      <4> QED BY <4>1 DEF Registered, Has
    <3> QED BY <1>2, <3>1, <3>3, <3>4, <3>5
  <2> QED BY <2>1, <2>2
<1>9. TypeOK'
  <2>1. list_cursor' \in 0..Len(index_to_peer_map')
        /\ (list_cursor' = 0 \/ list_cursor' < Len(index_to_peer_map'))
    BY <1>1, <1>2, <1>8 DEF IInv, TypeOK
  <2>2. queue_length' \in Nat /\ popper' \in {"slot", "pop", "granted", "select"}
    BY <1>1 DEF IInv, TypeOK, Release
  <2> QED BY <1>1, <1>3, <1>8, <2>1, <2>2 DEF IInv, TypeOK
<1>10. SlotFree'
  BY <1>1 DEF IInv, SlotFree, Release
<1>11. \A r \in Peers : Backlogged(r) => Backlogged(r)'
  <2> SUFFICES ASSUME NEW r \in Peers, NEW f \in Entries, queued[r][f] # 0
               PROVE  queued'[r][f] # 0
    BY DEF Backlogged, IsEmptyQueue
  <2>1. CASE r = p /\ f = e
    BY <1>2, <1>3, <2>1
  <2>2. CASE ~ (r = p /\ f = e)
    BY <1>3, <2>2
  <2> QED BY <2>1, <2>2
<1>12. BacklogInMap'
  <2>1. \A r \in Peers : r # p => (Backlogged(r)' => Backlogged(r))
    BY <1>1, <1>2 DEF Backlogged
  <2> QED BY <1>8, <2>1 DEF IInv, BacklogInMap
<1>13. DeficitBounded'
  BY <1>1, <1>11 DEF IInv, DeficitBounded
<1>14. Shares'
  <2>1. Watched[1] \in Peers /\ Watched[2] \in Peers
    BY PeersAssumption
  <2>2. Balance' = Balance
    BY <1>1 DEF Balance
  <2>3. (\E i \in 1..2 : ~ Backlogged(Watched[i])') => (\E i \in 1..2 : ~ Backlogged(Watched[i]))
    BY <1>11, <2>1
  <2> QED BY <1>1, <2>2, <2>3 DEF IInv, Shares
<1> QED BY <1>5, <1>7, <1>9, <1>10, <1>12, <1>13, <1>14 DEF IInv

-----------------------------------------------------------------------------
(* A round in which no one can pay *)

\* The lowest cost among the top transactions, the same for every peer
LowestCost == Min({TopCost(r) : r \in {s \in Registered : Backlogged(s)}})

LEMMA LowestCostIs ==
    ASSUME TypeOK, \E p \in Registered : Backlogged(p)
    PROVE  LowestCost \in Nat /\ 0 < LowestCost /\ LowestCost <= MaxCost
<1> DEFINE T == {TopCost(r) : r \in {s \in Registered : Backlogged(s)}}
<1>1. Registered \subseteq Peers
  BY DEF TypeOK, Registered
<1>2. \A c \in T : c \in Nat /\ 0 < c /\ c <= MaxCost
  BY <1>1, TopCostBounds
<1>3. T # {}
  OBVIOUS
<1>4. PICK k \in T : \A j \in T : k <= j
  <2>1. T \in SUBSET Nat
    BY <1>2
  <2> HIDE DEF T
  <2> QED BY <1>3, <2>1, LeastNatural
<1>5. LowestCost \in T
  BY <1>4 DEF LowestCost, Min
<1> QED BY <1>2, <1>5

LEMMA AddDeficitsStep == ASSUME IInv, AddDeficits PROVE IInv'
<1>1. /\ popper = "select"
      /\ \A p \in Registered : ~ CanAfford(p)
      /\ \E p \in Registered : Backlogged(p)
      /\ UNCHANGED <<list_cursor, index_to_peer_map, queued, high_priority, queue_length,
                     cleanup_counter, popper, handlers, high_puts, lead>>
  BY DEF AddDeficits
<1>2. deficit' = [p \in Peers |-> IF Backlogged(p) THEN deficit[p] + LowestCost ELSE deficit[p]]
  BY DEF AddDeficits, Topped, LowestCost, IInv, BacklogInMap
<1>3. LowestCost \in Nat /\ 0 < LowestCost /\ LowestCost <= MaxCost /\ MaxCost \in Nat
  BY <1>1, LowestCostIs, CostBounds DEF IInv
<1>4. deficit \in [Peers -> Nat]
  BY DEF IInv, TypeOK
<1>5. /\ deficit' \in [Peers -> Nat]
      /\ \A p \in Peers : deficit'[p] = IF Backlogged(p) THEN deficit[p] + LowestCost ELSE deficit[p]
  BY <1>2, <1>3, <1>4
<1>6. TypeOK'
  BY <1>1, <1>5 DEF IInv, TypeOK
<1>7. \A p \in Peers : Backlogged(p)' <=> Backlogged(p)
  BY <1>1 DEF Backlogged
<1>8. DeficitBounded'
  <2>1. ASSUME NEW p \in Peers, Backlogged(p) PROVE deficit'[p] < 2 * MaxCost
    <3>1. p \in Registered
      BY <2>1 DEF IInv, BacklogInMap
    <3>2. ~ (deficit[p] >= TopCost(p))
      BY <1>1, <2>1, <3>1 DEF CanAfford
    <3>3. TopCost(p) \in Nat /\ TopCost(p) <= MaxCost
      BY <2>1, TopCostBounds DEF IInv
    <3>4. deficit[p] < MaxCost
      BY <1>3, <1>4, <3>2, <3>3
    <3> QED BY <1>3, <1>4, <1>5, <2>1, <3>4
  <2> QED BY <1>5, <1>7, <2>1 DEF IInv, DeficitBounded
<1>9. Shares'
  <2>1. Watched[1] \in Peers /\ Watched[2] \in Peers
    BY PeersAssumption
  <2>2. lead' = lead /\ lead \in Int
    BY <1>1 DEF IInv, TypeOK
  <2>3. CASE \A i \in 1..2 : Backlogged(Watched[i])
    <3>1. Backlogged(Watched[1]) /\ Backlogged(Watched[2])
      BY <2>3
    <3>2. Balance' = Balance
      BY <1>3, <1>4, <1>5, <2>1, <2>2, <3>1 DEF Balance
    <3> QED BY <1>7, <2>1, <2>3, <3>2 DEF IInv, Shares
  <2>4. CASE \E i \in 1..2 : ~ Backlogged(Watched[i])
    <3>1. lead = 0
      BY <2>4 DEF IInv, Shares
    <3>2. deficit'[Watched[1]] < 2 * MaxCost /\ deficit'[Watched[2]] < 2 * MaxCost
      BY <1>8, <2>1 DEF DeficitBounded
    <3>3. deficit'[Watched[1]] \in Nat /\ deficit'[Watched[2]] \in Nat
      BY <1>5, <2>1
    <3>4. Balance' = deficit'[Watched[1]] - deficit'[Watched[2]]
      BY <2>2, <3>1, <3>3 DEF Balance
    <3> QED BY <1>3, <2>2, <3>1, <3>2, <3>3, <3>4 DEF Shares
  <2> QED BY <2>3, <2>4
<1>10. BacklogInMap'
  BY <1>1, <1>7 DEF IInv, BacklogInMap, Registered
<1>11. IsFiniteSet(AllItems(queued))' /\ QueueLengthExact' /\ SlotFree'
  BY <1>1 DEF IInv, QueueLengthExact, SlotFree, Reserved, TotalQueued, AllItems
<1> QED BY <1>6, <1>8, <1>9, <1>10, <1>11 DEF IInv

-----------------------------------------------------------------------------
(* A peer's transaction is taken *)

\* What is left in the queues when p's top transaction is taken
Taken(p) == [queued EXCEPT ![p] = [queued[p] EXCEPT ![Top(queued[p])] = @ - 1]]

LEMMA TakePeerDoes ==
    ASSUME TypeOK, NEW p \in Peers, TakePeer(p)
    PROVE  /\ popper = "select" /\ popper' = "slot" /\ handlers' = handlers + 1
           /\ high_priority = 0
           /\ CanAfford(p)
           /\ queued' = Taken(p)
           /\ deficit' = [deficit EXCEPT ![p] = DeficitAfter(p, Taken(p)[p])]
           /\ cleanup_counter' = (cleanup_counter + 1) % cleanup_period
           /\ \E c \in 0..(Len(index_to_peer_map) - 1) :
                 \/ Cleanup(Taken(p), c)
                 \/ list_cursor' = c /\ UNCHANGED index_to_peer_map
           /\ lead' = LeadAfter(p, Taken(p))
           /\ UNCHANGED <<high_priority, queue_length, high_puts>>
<1> DEFINE n == Len(index_to_peer_map)
           at(o) == ((list_cursor + o) % n) + 1
<1>1. Taken(p)[p] = [queued[p] EXCEPT ![Top(queued[p])] = @ - 1]
  BY DEF Taken, TypeOK
<1>2. PICK offset \in 0..(n - 1) :
         /\ CanAfford(p)
         /\ queued' = Taken(p)
         /\ deficit' = [deficit EXCEPT ![p] = DeficitAfter(p, Taken(p)[p])]
         /\ cleanup_counter' = (cleanup_counter + 1) % cleanup_period
         /\ \/ Cleanup(Taken(p), at(offset) % n)
            \/ list_cursor' = at(offset) % n /\ UNCHANGED index_to_peer_map
         /\ lead' = LeadAfter(p, Taken(p))
  BY <1>1 DEF TakePeer, Taken
<1>3. n \in Nat /\ n > 0 /\ list_cursor \in Nat /\ offset \in Nat
  BY <1>2 DEF TypeOK
<1> HIDE DEF n
<1>4. at(offset) % n \in 0..(n - 1)
  BY <1>3
<1>5. /\ popper = "select" /\ popper' = "slot" /\ handlers' = handlers + 1
      /\ high_priority = 0
      /\ UNCHANGED <<high_priority, queue_length, high_puts>>
  BY DEF TakePeer, Dispatch
<1> HIDE DEF at
<1> QED BY <1>2, <1>4, <1>5 DEF n

LEMMA TakenIs ==
    ASSUME TypeOK, NEW p \in Peers, Backlogged(p)
    PROVE  LET e == Top(queued[p]) IN
           /\ e \in Entries
           /\ Taken(p) \in [Peers -> [Entries -> Nat]]
           /\ queued[p][e] = Taken(p)[p][e] + 1
           /\ \A r \in Peers, f \in Entries : <<r, f>> # <<p, e>> => queued[r][f] = Taken(p)[r][f]
           /\ \A r \in Peers : r # p => Taken(p)[r] = queued[r]
           /\ \A r \in Peers : ~ IsEmptyQueue(Taken(p)[r]) => Backlogged(r)
<1> DEFINE e == Top(queued[p])
<1>1. e \in Entries /\ queued[p][e] > 0 /\ queued \in [Peers -> [Entries -> Nat]]
  BY TopCostBounds DEF TypeOK
<1> HIDE DEF e
<1>2. Taken(p) = [queued EXCEPT ![p] = [queued[p] EXCEPT ![e] = @ - 1]]
  BY DEF Taken, e
<1>3. queued[p] \in [Entries -> Nat] /\ queued[p][e] - 1 \in Nat
  BY <1>1
<1>4. [queued[p] EXCEPT ![e] = @ - 1] \in [Entries -> Nat]
  BY <1>1, <1>3
<1>5. Taken(p) \in [Peers -> [Entries -> Nat]] /\ Taken(p)[p] = [queued[p] EXCEPT ![e] = @ - 1]
  BY <1>1, <1>2, <1>4
<1>6. \A r \in Peers : r # p => Taken(p)[r] = queued[r]
  BY <1>1, <1>2
<1>7. queued[p][e] = Taken(p)[p][e] + 1
  BY <1>1, <1>3, <1>5
<1>8. \A f \in Entries : f # e => Taken(p)[p][f] = queued[p][f]
  BY <1>3, <1>5
<1>9. \A r \in Peers : ~ IsEmptyQueue(Taken(p)[r]) => Backlogged(r)
  BY <1>6 DEF Backlogged
<1> QED BY <1>1, <1>5, <1>6, <1>7, <1>8, <1>9 DEF e

\* The map and the cursor after a pop, with or without the periodic cleanup
LEMMA MapAfterPop ==
    ASSUME TypeOK, NEW Q, NEW c \in 0..(Len(index_to_peer_map) - 1),
           Cleanup(Q, c) \/ (list_cursor' = c /\ UNCHANGED index_to_peer_map)
    PROVE  /\ index_to_peer_map' \in Seq(Peers)
           /\ IsInjective(index_to_peer_map')
           /\ list_cursor' \in 0..Len(index_to_peer_map')
           /\ list_cursor' = 0 \/ list_cursor' < Len(index_to_peer_map')
           /\ \A r \in Registered : ~ IsEmptyQueue(Q[r]) => r \in Registered'
<1>1. index_to_peer_map \in Seq(Peers) /\ IsInjective(index_to_peer_map)
  BY DEF TypeOK
<1>2. CASE Cleanup(Q, c)
  <2> DEFINE S == {r \in Peers : ~ IsEmptyQueue(Q[r])}
             m == Keep(index_to_peer_map, S)
  <2>1. /\ index_to_peer_map' = m
        /\ list_cursor' = IF CursorAfter(Q, c) >= Len(m) THEN 0 ELSE CursorAfter(Q, c)
    BY <1>2 DEF Cleanup
  <2> HIDE DEF S
  <2>2. /\ m \in Seq(Peers)
        /\ IsInjective(m)
        /\ \A x : Has(m, x) <=> Has(index_to_peer_map, x) /\ x \in S
    BY <1>1, KeepProperties
  <2> HIDE DEF m
  <2>3. CursorAfter(Q, c) \in 0..c /\ c \in Nat
    BY <1>1, CursorAfterBound
  <2>4. Len(m) \in Nat
    BY <2>2
  <2>5. list_cursor' \in 0..Len(m) /\ (list_cursor' = 0 \/ list_cursor' < Len(m))
    BY <2>1, <2>3, <2>4
  <2>6. \A x : x \in Registered' <=> Has(m, x)
    <3>1. DOMAIN m = 1..Len(m)
      BY <2>2
    <3> QED BY <2>1, <3>1 DEF Registered, Has
  <2>7. \A x : x \in Registered <=> Has(index_to_peer_map, x)
    BY <1>1, RegisteredHas
  <2>8. Registered \subseteq Peers
    BY <1>1 DEF Registered
  <2> QED BY <2>1, <2>2, <2>5, <2>6, <2>7, <2>8 DEF S
<1>3. CASE list_cursor' = c /\ UNCHANGED index_to_peer_map
  BY <1>1, <1>3 DEF Registered
<1> QED BY <1>2, <1>3

LEMMA TakePeerStep ==
    ASSUME IInv, NEW p \in Peers, TakePeer(p)
    PROVE  IInv'
<1> DEFINE e == Top(queued[p])
<1>0. TypeOK /\ CanAfford(p) /\ Backlogged(p)
  BY TakePeerDoes DEF IInv, CanAfford
<1>1. /\ popper = "select" /\ popper' = "slot" /\ handlers' = handlers + 1
      /\ high_priority = 0
      /\ queued' = Taken(p)
      /\ deficit' = [deficit EXCEPT ![p] = DeficitAfter(p, Taken(p)[p])]
      /\ cleanup_counter' = (cleanup_counter + 1) % cleanup_period
      /\ lead' = LeadAfter(p, Taken(p))
      /\ UNCHANGED <<high_priority, queue_length, high_puts>>
  BY <1>0, TakePeerDoes
<1>2. /\ e \in Entries
      /\ queued' \in [Peers -> [Entries -> Nat]]
      /\ queued[p][e] = queued'[p][e] + 1
      /\ \A r \in Peers, f \in Entries : <<r, f>> # <<p, e>> => queued[r][f] = queued'[r][f]
      /\ \A r \in Peers : r # p => queued'[r] = queued[r]
      /\ \A r \in Peers : Backlogged(r)' => Backlogged(r)
  BY <1>0, <1>1, TakenIs DEF Backlogged
<1>3. /\ index_to_peer_map' \in Seq(Peers)
      /\ IsInjective(index_to_peer_map')
      /\ list_cursor' \in 0..Len(index_to_peer_map')
      /\ list_cursor' = 0 \/ list_cursor' < Len(index_to_peer_map')
      /\ \A r \in Registered : Backlogged(r)' => r \in Registered'
  <2>1. PICK c \in 0..(Len(index_to_peer_map) - 1) :
           Cleanup(Taken(p), c) \/ (list_cursor' = c /\ UNCHANGED index_to_peer_map)
    BY <1>0, TakePeerDoes
  <2>2. \A r \in Registered : Backlogged(r)' <=> ~ IsEmptyQueue(Taken(p)[r])
    BY <1>1 DEF Backlogged
  <2> QED BY <1>0, <2>1, <2>2, MapAfterPop
<1>4. /\ deficit \in [Peers -> Nat] /\ deficit[p] >= TopCost(p)
      /\ TopCost(p) \in Nat /\ 0 < TopCost(p) /\ TopCost(p) <= MaxCost /\ MaxCost \in Nat
  BY <1>0, TopCostBounds, CostBounds DEF TypeOK, CanAfford
<1>5. /\ deficit' \in [Peers -> Nat]
      /\ deficit'[p] = IF Backlogged(p)' THEN deficit[p] - TopCost(p) ELSE 0
      /\ \A r \in Peers : r # p => deficit'[r] = deficit[r]
  <2>1. DeficitAfter(p, Taken(p)[p]) = IF Backlogged(p)' THEN deficit[p] - TopCost(p) ELSE 0
    BY <1>1 DEF DeficitAfter, Backlogged
  <2>2. DeficitAfter(p, Taken(p)[p]) \in Nat
    BY <1>4, <2>1
  <2> QED BY <1>1, <1>4, <2>1, <2>2
<1>6. /\ lead \in Int /\ lead' \in Int
      /\ lead' = IF \E i \in 1..2 : ~ Backlogged(Watched[i])' THEN 0
                 ELSE lead + (IF p = Watched[1] THEN TopCost(p) ELSE 0)
                           - (IF p = Watched[2] THEN TopCost(p) ELSE 0)
  <2>1. lead' = IF \E i \in 1..2 : ~ Backlogged(Watched[i])' THEN 0
                ELSE lead + (IF p = Watched[1] THEN TopCost(p) ELSE 0)
                          - (IF p = Watched[2] THEN TopCost(p) ELSE 0)
    BY <1>1 DEF LeadAfter, Backlogged
  <2>2. lead \in Int
    BY <1>0 DEF TypeOK
  <2>3. lead + (IF p = Watched[1] THEN TopCost(p) ELSE 0)
             - (IF p = Watched[2] THEN TopCost(p) ELSE 0) \in Int
    BY <1>4, <2>2
  <2> QED BY <2>1, <2>2, <2>3
<1>7. TypeOK'
  <2>1. cleanup_counter' \in 0..(cleanup_period - 1)
    BY <1>0, <1>1, BoundsAssumption DEF TypeOK
  <2>2. handlers' \in 0..max_handlers
    BY <1>0, <1>1, BoundsAssumption DEF IInv, SlotFree, TypeOK
  <2> QED BY <1>0, <1>1, <1>2, <1>3, <1>5, <1>6, <2>1, <2>2 DEF TypeOK
<1>8. IsFiniteSet(AllItems(queued))' /\ TotalQueued = TotalQueued' + 1 /\ TotalQueued' \in Nat
  <2>1. queued \in [Peers -> [Entries -> Nat]] /\ IsFiniteSet(AllItems(queued))
    BY DEF IInv, TypeOK
  <2> HIDE DEF e
  <2>2. /\ IsFiniteSet(AllItems(queued'))
        /\ Cardinality(AllItems(queued')) \in Nat
        /\ Cardinality(AllItems(queued)) = Cardinality(AllItems(queued')) + 1
    <3>1. queued' \in [Peers -> [Entries -> Nat]] /\ e \in Entries /\ Adds(queued', queued, p, e)
      BY <1>2 DEF Adds
    <3> QED BY <2>1, <3>1, CountOneMore
  <2> QED BY <2>2 DEF TotalQueued, AllItems
<1>9. QueueLengthExact'
  <2>1. Reserved = 1 /\ Reserved' = 0
    BY <1>1 DEF Reserved
  <2>2. high_priority' = high_priority /\ queue_length' = queue_length
        /\ high_priority \in Nat /\ queue_length \in Nat
    BY <1>0, <1>1 DEF TypeOK
  <2>3. high_priority + TotalQueued = queue_length + Reserved
    BY DEF IInv, QueueLengthExact
  <2>4. ASSUME NEW h \in Nat, NEW n \in Nat, NEW l \in Nat, h + (n + 1) = l + 1 PROVE h + n = l + 0
    BY <2>4
  <2>5. high_priority + (TotalQueued' + 1) = queue_length + 1
    BY <1>8, <2>1, <2>3
  <2>6. high_priority + TotalQueued' = queue_length + 0
    BY <1>8, <2>2, <2>4, <2>5
  <2> QED BY <2>1, <2>2, <2>6 DEF QueueLengthExact
<1>10. SlotFree'
  BY <1>1 DEF SlotFree
<1>11. BacklogInMap'
  BY <1>2, <1>3 DEF IInv, BacklogInMap
<1>12. DeficitBounded'
  <2>1. ASSUME NEW r \in Peers
        PROVE  deficit'[r] < 2 * MaxCost /\ (~ Backlogged(r)' => deficit'[r] = 0)
    <3>1. CASE r = p
      <4>1. deficit[p] < 2 * MaxCost /\ deficit[p] \in Nat
        BY <1>4 DEF IInv, DeficitBounded
      <4> QED BY <1>4, <1>5, <3>1, <4>1
    <3>2. CASE r # p
      <4>1. Backlogged(r)' <=> Backlogged(r)
        BY <1>2, <3>2 DEF Backlogged
      <4> QED BY <1>5, <3>2, <4>1 DEF IInv, DeficitBounded
    <3> QED BY <3>1, <3>2
  <2> QED BY <2>1 DEF DeficitBounded
<1>13. Shares'
  <2>1. Watched[1] \in Peers /\ Watched[2] \in Peers
    BY PeersAssumption
  <2> DEFINE u == Watched[1]
             v == Watched[2]
  <2>2. CASE \E i \in 1..2 : ~ Backlogged(Watched[i])'
    <3>1. lead' = 0
      BY <1>6, <2>2
    <3>2. /\ deficit'[u] < 2 * MaxCost /\ deficit'[v] < 2 * MaxCost
          /\ deficit'[u] \in Nat /\ deficit'[v] \in Nat
      BY <1>5, <1>12, <2>1 DEF DeficitBounded
    <3>3. Balance' = deficit'[u] - deficit'[v]
      BY <3>1, <3>2 DEF Balance
    <3> QED BY <1>4, <3>1, <3>2, <3>3 DEF Shares
  <2>3. CASE \A i \in 1..2 : Backlogged(Watched[i])'
    <3>1. Backlogged(u)' /\ Backlogged(v)'
      BY <2>3
    <3>2. lead' = lead + (IF p = u THEN TopCost(p) ELSE 0) - (IF p = v THEN TopCost(p) ELSE 0)
      BY <1>6, <2>3
    <3>3. /\ deficit'[u] = deficit[u] - (IF p = u THEN TopCost(p) ELSE 0)
          /\ deficit'[v] = deficit[v] - (IF p = v THEN TopCost(p) ELSE 0)
          /\ deficit[u] \in Nat /\ deficit[v] \in Nat
      BY <1>4, <1>5, <2>1, <3>1
    <3> HIDE DEF u, v
    <3>4. Balance' = lead' + deficit'[u] - deficit'[v] /\ Balance = lead + deficit[u] - deficit[v]
      BY DEF Balance, u, v
    <3>5. Balance' = Balance
      BY <1>4, <1>6, <3>2, <3>3, <3>4
    <3> QED BY <2>3, <3>5 DEF IInv, Shares
  <2> QED BY <2>2, <2>3
<1> QED BY <1>7, <1>8, <1>9, <1>10, <1>11, <1>12, <1>13 DEF IInv

-----------------------------------------------------------------------------
LEMMA InitIInv == Init => IInv
<1> SUFFICES ASSUME Init PROVE IInv
  OBVIOUS
<1>1. TypeOK
  <2>1. IsInjective(<<>>)
    BY DEF IsInjective
  <2> QED BY <2>1, BoundsAssumption DEF Init, TypeOK
<1>2. \A p \in Peers : ~ Backlogged(p)
  BY DEF Init, Backlogged, IsEmptyQueue
<1>3. AllItems(queued) = {}
  <2>1. \A x : x \notin AllItems(queued)
    BY InAllItems DEF Init
  <2> QED BY <2>1
<1>4. TotalQueued = 0 /\ IsFiniteSet(AllItems(queued))
  BY <1>3, FS_EmptySet DEF TotalQueued, AllItems
<1>5. QueueLengthExact /\ SlotFree /\ BacklogInMap
  BY <1>2, <1>4 DEF Init, QueueLengthExact, Reserved, SlotFree, BacklogInMap
<1>6. DeficitBounded
  BY CostBounds DEF Init, DeficitBounded
<1>7. Shares
  <2>1. Balance = 0
    BY PeersAssumption DEF Init, Balance
  <2> QED BY <2>1, CostBounds DEF Init, Shares
<1> QED BY <1>1, <1>4, <1>5, <1>6, <1>7 DEF IInv

LEMMA NextIInv == IInv /\ [Next]_vars => IInv'
<1> SUFFICES ASSUME IInv, [Next]_vars PROVE IInv'
  OBVIOUS
<1>1. ASSUME NEW p \in Peers, NEW e \in Entries, Put(p, e) PROVE IInv'
  BY <1>1, PutStep
<1>2. ASSUME NEW p \in Peers, TakePeer(p) PROVE IInv'
  BY <1>2, TakePeerStep
<1>3. CASE UNCHANGED vars
  <2>1. TypeOK' /\ SlotFree'
    BY <1>3 DEF vars, IInv, TypeOK, SlotFree
  <2>2. QueueLengthExact'
    BY <1>3 DEF vars, IInv, QueueLengthExact, TotalQueued, Reserved
  <2> QED BY <1>3, <2>1, <2>2, QueuesUnchanged DEF vars, IInv
<1> QED BY <1>1, <1>2, <1>3, PutHighStep, BeginPopStep, ResumePopStep, TakeHighStep, AddDeficitsStep,
           EndHandlerStep DEF Next

LEMMA Invariance == Spec => []IInv
BY InitIInv, NextIInv, PTL DEF Spec

\* The cursor stays a valid index of the map, peers have one place in it, and
\* no more handlers run than there are slots, whatever is cleaned up.
THEOREM TypeCorrect == Spec => []TypeOK
<1>1. IInv => TypeOK
  BY DEF IInv
<1> QED BY <1>1, Invariance, PTL

\* The semaphore counts the queued entries of every peer and of the node itself,
\* less the one that has been granted to the popper.
THEOREM LengthCorrect == Spec => []QueueLengthExact
<1>1. IInv => QueueLengthExact
  BY DEF IInv
<1> QED BY <1>1, Invariance, PTL

\* A popper that has its unit finds a transaction in a queue it can reach: the
\* assertions of pop() hold.
THEOREM PopFinds == Spec => []BacklogReachable
<1>1. ASSUME IInv PROVE BacklogReachable
  <2>1. ASSUME popper = "select", high_priority = 0 PROVE \E p \in Registered : Backlogged(p)
    <3>1. TotalQueued # 0
      BY <1>1, <2>1, CountIsNat DEF IInv, QueueLengthExact, Reserved, TypeOK
    <3>2. AllItems(queued) # {}
      BY <1>1, <3>1, CountIsNat, FS_EmptySet
    <3>3. PICK x : x \in AllItems(queued)
      BY <3>2
    <3>4. PICK p \in Peers, e \in Entries : \E n \in 1..queued[p][e] : x = <<p, <<e, n>>>>
      BY <3>3, InAllItems
    <3>5. queued[p][e] # 0
      BY <3>4
    <3>6. Backlogged(p)
      BY <3>5 DEF Backlogged, IsEmptyQueue
    <3> QED BY <1>1, <3>6 DEF IInv, BacklogInMap
  <2> QED BY <1>1, <2>1 DEF IInv, BacklogInMap, BacklogReachable
<1>2. IInv => BacklogReachable
  BY <1>1
<1> QED BY <1>2, Invariance, PTL

\* No peer ever has credit for two of the most expensive transactions, and one
\* without transactions has none.
THEOREM DeficitCorrect == Spec => []DeficitBounded
<1>1. IInv => DeficitBounded
  BY DEF IInv
<1> QED BY <1>1, Invariance, PTL

\* Of two peers that both have transactions waiting, neither is ever served more
\* than the other by four times the highest cost.
THEOREM CostCorrect == Spec => []CostFairness
<1>1. ASSUME IInv PROVE CostFairness
  <2>1. Watched[1] \in Peers /\ Watched[2] \in Peers
    BY PeersAssumption
  <2>2. /\ deficit[Watched[1]] \in Nat /\ deficit[Watched[1]] < 2 * MaxCost
        /\ deficit[Watched[2]] \in Nat /\ deficit[Watched[2]] < 2 * MaxCost
        /\ lead \in Int
    BY <1>1, <2>1 DEF IInv, TypeOK, DeficitBounded
  <2> QED BY <1>1, <2>2, CostBounds DEF IInv, Shares, Balance, CostFairness
<1>2. IInv => CostFairness
  BY <1>1
<1> QED BY <1>2, Invariance, PTL
-----------------------------------------------------------------------------
(* The loop of pop() *)

\* A round that tops up the deficits is followed by one that finds a peer to
\* serve: the peer whose top transaction is the cheapest has been given just
\* that.  pop(), which never suspends, goes at most twice over the peers.
THEOREM OneTopUp == Spec => [][AddDeficits => (\E p \in Registered : CanAfford(p))']_vars
<1>1. ASSUME IInv, AddDeficits PROVE (\E p \in Registered : CanAfford(p))'
  <2> DEFINE T == {TopCost(r) : r \in {s \in Registered : Backlogged(s)}}
  <2>1. /\ \E p \in Registered : Backlogged(p)
        /\ UNCHANGED <<index_to_peer_map, queued>>
        /\ deficit' = [p \in Peers |-> IF p \in Registered /\ Backlogged(p)
                                       THEN deficit[p] + LowestCost ELSE deficit[p]]
    BY <1>1 DEF AddDeficits, Topped, LowestCost
  <2>2. Registered \subseteq Peers /\ deficit \in [Peers -> Nat] /\ TypeOK
    BY <1>1 DEF IInv, TypeOK, Registered
  <2>3. T \in SUBSET Nat /\ T # {}
    BY <2>1, <2>2, TopCostBounds
  <2>4. PICK k \in T : \A j \in T : k <= j
    <3> HIDE DEF T
    <3> QED BY <2>3, LeastNatural
  <2>5. LowestCost \in T
    BY <2>4 DEF LowestCost, Min
  <2>6. PICK r \in Registered : Backlogged(r) /\ LowestCost = TopCost(r)
    BY <2>5
  <2>7. TopCost(r) \in Nat /\ deficit[r] \in Nat /\ r \in Peers
    BY <2>2, <2>6, TopCostBounds
  <2>8. deficit'[r] = deficit[r] + TopCost(r)
    BY <2>1, <2>6, <2>7
  <2>9. Registered' = Registered /\ Backlogged(r)' /\ TopCost(r)' = TopCost(r)
    BY <2>1, <2>6 DEF Registered, Backlogged, TopCost
  <2> QED BY <2>6, <2>7, <2>8, <2>9 DEF CanAfford
<1>2. IInv => [AddDeficits => (\E p \in Registered : CanAfford(p))']_vars
  BY <1>1
<1> QED BY <1>2, Invariance, PTL
==============================================================================
