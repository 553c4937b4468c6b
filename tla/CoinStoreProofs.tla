--------------------------- MODULE CoinStoreProofs ---------------------------
(***************************************************************************)
(* Facts about chains and about the coin store that the proofs of module   *)
(* BlockchainProofs rest on: a coin is created once and spent once along a *)
(* valid chain; rollback_to_block() turns the coin store of a chain into   *)
(* that of an ancestor, and applying a valid fork turns the coin store of  *)
(* the fork point into that of the fork's last block.                      *)
(***************************************************************************)
EXTENDS CoinStore, TLAPS

ValidChain(p) == \A a \in Anc[p] : ValidBlock(a)

\* The ancestors of a block are blocks, and their heights are natural numbers.
LEMMA AncBlocks ==
    \A p \in Tips : /\ Anc[p] \subseteq Blocks
                    /\ \A a \in Anc[p] : height[a] \in Nat /\ height[a] <= height[p]
                    /\ height[p] \in Int /\ height[p] >= -1
BY TreeTyping, HeightsAndWeights, AncestryIsAChain DEF Tips

\* Two blocks of one chain: the lower one is an ancestor of the higher one.
LEMMA AncComparable ==
    ASSUME NEW p \in Tips, NEW a1 \in Anc[p], NEW a2 \in Anc[p],
           height[a1] <= height[a2]
    PROVE  a1 \in Anc[a2]
<1>1. a1 \in Blocks /\ a2 \in Blocks /\ p \in Blocks
  BY AncBlocks, AncestryIsAChain DEF Tips
<1>2. height[a1] \in 0..height[a2]
  BY <1>1, HeightsAndWeights
<1>3. PICK x \in Anc[a2] : height[x] = height[a1]
  BY <1>1, <1>2, AncestryIsAChain
<1>4. x \in Anc[p]
  BY <1>1, <1>3, AncestryIsAChain
<1> QED BY <1>1, <1>3, <1>4, AncestryIsAChain

\* A chain has one block per height.
LEMMA AncUnique ==
    ASSUME NEW p \in Tips, NEW a1 \in Anc[p], NEW a2 \in Anc[p],
           height[a1] = height[a2]
    PROVE  a1 = a2
BY AncBlocks, AncestryIsAChain DEF Tips

\* The blocks of a chain up to the height of one of its blocks are that block's chain.
LEMMA AncBelow ==
    ASSUME NEW p \in Tips, NEW q \in Tips, q \in Anc[p] \/ q = GENESIS_CHALLENGE
    PROVE  /\ Anc[q] = {a \in Anc[p] : height[a] <= height[q]}
           /\ Anc[q] \subseteq Anc[p]
<1>1. CASE q = GENESIS_CHALLENGE
  BY <1>1, AncBlocks, AncestryIsAChain, HeightsAndWeights
<1>2. CASE q \in Anc[p]
  <2>1. Anc[q] \subseteq Anc[p]
    BY <1>2, AncestryIsAChain DEF Tips
  <2>2. \A a \in Anc[q] : height[a] <= height[q]
    BY AncBlocks
  <2>3. \A a \in Anc[p] : height[a] <= height[q] => a \in Anc[q]
    BY <1>2, AncComparable
  <2> QED BY <2>1, <2>2, <2>3
<1> QED BY <1>1, <1>2

\* Along a valid chain no coin is created twice.
LEMMA CreatedOnce ==
    ASSUME NEW p \in Tips, ValidChain(p), NEW a1 \in Anc[p], NEW a2 \in Anc[p],
           NEW c, c \in Additions(a1), c \in Additions(a2)
    PROVE  a1 = a2
<1>1. ASSUME NEW x \in Anc[p], NEW y \in Anc[p], height[x] < height[y],
             c \in Additions(x), c \in Additions(y)
      PROVE  FALSE
  <2>1. x \in ProperAnc(y) /\ y \in Blocks
    BY <1>1, AncComparable, AncBlocks DEF ProperAnc
  <2>2. ProperAnc(y) \subseteq Anc[p]
    BY AncBelow, AncBlocks DEF ProperAnc, Tips
  <2>3. \A a \in ProperAnc(y) : SpendsValid(a)
    BY <2>2 DEF ValidChain, ValidBlock
  <2>4. \A d \in removals[y] : \A a \in ProperAnc(y) : d \notin removals[a]
    BY DEF ValidChain, ValidBlock, SpendsValid
  <2>5. Additions(x) \cap Additions(y) = {}
    BY <2>1, <2>3, <2>4, CoinIdsCommitToParents
  <2> QED BY <1>1, <2>5
<1>2. height[a1] \in Int /\ height[a2] \in Int
  BY AncBlocks
<1>3. height[a1] = height[a2]
  BY <1>1, <1>2
<1> QED BY <1>3, AncUnique

\* Along a valid chain no coin is spent twice.
LEMMA SpentOnce ==
    ASSUME NEW p \in Tips, ValidChain(p), NEW a1 \in Anc[p], NEW a2 \in Anc[p],
           NEW c, c \in removals[a1], c \in removals[a2]
    PROVE  a1 = a2
<1>1. ASSUME NEW x \in Anc[p], NEW y \in Anc[p], height[x] < height[y],
             c \in removals[x], c \in removals[y]
      PROVE  FALSE
  <2>1. x \in ProperAnc(y)
    BY <1>1, AncComparable, AncBlocks DEF ProperAnc
  <2> QED BY <1>1, <2>1 DEF ValidChain, ValidBlock, SpendsValid
<1>2. height[a1] \in Int /\ height[a2] \in Int
  BY AncBlocks
<1>3. height[a1] = height[a2]
  BY <1>1, <1>2
<1> QED BY <1>3, AncUnique

\* A spent coin of a valid chain has been created on it, no later than it is spent.
LEMMA SpentAfterCreated ==
    ASSUME NEW p \in Tips, ValidChain(p), NEW a \in Anc[p], NEW c, c \in removals[a]
    PROVE  /\ \E x \in Anc[p] : c \in Additions(x)
           /\ \A x \in Anc[p] : c \in Additions(x) => height[x] <= height[a]
<1>1. PICK y \in Anc[a] : c \in Additions(y)
  BY DEF ValidChain, ValidBlock, SpendsValid
<1>2. a \in Tips
  BY AncBlocks DEF Tips
<1>3. y \in Anc[p] /\ height[y] <= height[a]
  BY <1>2, AncBelow, AncBlocks
<1> QED BY <1>1, <1>3, CreatedOnce

\* An ancestor of a block with a valid chain has a valid chain.
LEMMA ValidChainBelow ==
    ASSUME NEW p \in Tips, ValidChain(p), NEW q \in Tips, q \in Anc[p] \/ q = GENESIS_CHALLENGE
    PROVE  ValidChain(q)
BY AncBelow DEF ValidChain

-----------------------------------------------------------------------------
\* rollback_to_block() at the height of an ancestor q of p turns the coin store
\* of the chain of p into the coin store of the chain of q, markers included.
THEOREM RollbackCorrect ==
    ASSUME NEW p \in Tips, ValidChain(p),
           NEW q \in Tips, q \in Anc[p] \/ q = GENESIS_CHALLENGE,
           NEW ci \in [Coins -> Int], NEW si \in [Coins -> Int], CoinStoreOf(ci, si, p)
    PROVE  CoinStoreOf(RolledBackConfirmed(ci, height[q]),
                       RolledBackSpent(ci, si, height[q]), q)
<1> DEFINE h == height[q]
           rc == RolledBackConfirmed(ci, h)
           rs == RolledBackSpent(ci, si, h)
<1>h. h \in Int /\ h >= -1
  BY AncBlocks
<1>v. ValidChain(q)
  BY ValidChainBelow
<1>q. Anc[q] = {a \in Anc[p] : height[a] <= h}
  BY AncBelow
<1>n. \A a \in Anc[p] : height[a] \in Nat /\ a \in Blocks
  BY AncBlocks
<1>rc. \A c \in Coins : rc[c] = IF ci[c] > h THEN NoRow ELSE ci[c]
  BY DEF RolledBackConfirmed
<1>1. ASSUME NEW c \in Coins, NEW a \in Anc[q], c \in Additions(a)
      PROVE  rc[c] = height[a] /\ rc[c] # NoRow
  <2>1. a \in Anc[p] /\ height[a] <= h /\ height[a] \in Nat
    BY <1>q, <1>n
  <2>2. ci[c] = height[a]
    BY <1>1, <2>1 DEF CoinStoreOf
  <2> QED BY <2>1, <2>2, <1>rc, <1>h DEF NoRow
<1>2. ASSUME NEW c \in Coins, \A a \in Anc[q] : c \notin Additions(a)
      PROVE  rc[c] = NoRow
  <2>1. CASE \E x \in Anc[p] : c \in Additions(x)
    <3>1. PICK x \in Anc[p] : c \in Additions(x)
      BY <2>1
    <3>2. ci[c] = height[x]
      BY <3>1 DEF CoinStoreOf
    <3>3. height[x] > h
      BY <3>1, <1>2, <1>q, <1>n, <1>h
    <3> QED BY <3>2, <3>3, <1>rc
  <2>2. CASE \A x \in Anc[p] : c \notin Additions(x)
    <3>1. ci[c] = NoRow
      BY <2>2 DEF CoinStoreOf
    <3> QED BY <3>1, <1>rc, <1>h DEF NoRow
  <2> QED BY <2>1, <2>2
<1>rs. \A c \in Coins :
          /\ rc[c] = NoRow => rs[c] = 0
          /\ (rc[c] # NoRow /\ si[c] > h /\ si[c] > 0) => rs[c] = RestoredIndex(ci, si, h, c)
          /\ (rc[c] # NoRow /\ ~(si[c] > h /\ si[c] > 0)) => rs[c] = si[c]
  BY DEF RolledBackSpent
<1>3. ASSUME NEW c \in Coins, NEW a \in Anc[q], c \in removals[a]
      PROVE  rs[c] = height[a] /\ rc[c] # NoRow /\ si[c] = height[a] /\ si[c] > 0
  <2>1. a \in Anc[p] /\ height[a] <= h /\ height[a] \in Nat /\ a \in Blocks
    BY <1>q, <1>n
  <2>2. si[c] = height[a]
    BY <1>3, <2>1 DEF CoinStoreOf
  <2>3. rc[c] # NoRow
    BY <1>1, <1>3, <1>v, SpentAfterCreated
  <2>4. height[a] # 0
    BY <1>3, <2>1, CoinCreation
  <2> QED BY <2>1, <2>2, <2>3, <2>4, <1>rs, <1>h
<1>4. ASSUME NEW c \in Coins, NEW x \in Anc[q], c \in Additions(x),
             \A a \in Anc[q] : c \notin removals[a]
      PROVE  rs[c] = UnspentIndex(c)
  <2>1. rc[c] # NoRow /\ x \in Anc[p] /\ h >= 0
    BY <1>1, <1>4, <1>q, <1>n, <1>h
  <2>2. CASE \E a \in Anc[p] : c \in removals[a]
    <3>1. PICK a \in Anc[p] : c \in removals[a]
      BY <2>2
    <3>2. si[c] = height[a]
      BY <3>1 DEF CoinStoreOf
    <3>3. height[a] > h /\ height[a] > 0
      BY <3>1, <1>4, <1>q, <1>n, <1>h, <2>1
    <3>4. rs[c] = RestoredIndex(ci, si, h, c)
      BY <2>1, <3>2, <3>3, <1>rs
    <3>5. CASE c \notin SameAsParent
      BY <3>4, <3>5 DEF RestoredIndex, UnspentIndex
    <3>6. CASE c \in SameAsParent
      <4>1. coin_parent[c] \in Coins /\ coin_parent[c] \in removals[x]
        BY <3>6, <1>4, <2>1, <1>n, CoinCreation, CoinTyping DEF Additions
      <4>2. rc[coin_parent[c]] # NoRow /\ si[coin_parent[c]] > 0
        BY <4>1, <1>3
      <4> QED BY <3>4, <3>6, <4>2 DEF RestoredIndex, UnspentIndex
    <3> QED BY <3>5, <3>6
  <2>3. CASE \A a \in Anc[p] : c \notin removals[a]
    <3>1. si[c] = UnspentIndex(c)
      BY <2>1, <2>3, <1>4 DEF CoinStoreOf
    <3>2. ~ (si[c] > 0)
      BY <3>1 DEF UnspentIndex
    <3> QED BY <2>1, <3>1, <3>2, <1>rs
  <2> QED BY <2>2, <2>3
<1> HIDE DEF h, rc, rs
<1>5. CoinStoreOf(rc, rs, q)
  BY <1>1, <1>2, <1>3, <1>4, <1>rs DEF CoinStoreOf
<1> QED BY <1>5 DEF h, rc, rs

\* Applying the blocks of a valid fork above q to the coin store of the chain
\* of q gives the coin store of the fork's last block b, and raises nothing.
THEOREM ApplyCorrect ==
    ASSUME NEW b \in Tips, ValidChain(b),
           NEW q \in Tips, q \in Anc[b] \/ q = GENESIS_CHALLENGE,
           NEW bs, bs = {a \in Anc[b] : height[a] > height[q]},
           NEW adds, NEW rems, ForkDictsExact(bs, adds, rems),
           NEW ci \in [Coins -> Int], NEW si \in [Coins -> Int], CoinStoreOf(ci, si, q)
    PROVE  /\ CoinStoreOf(AddedConfirmed(ci, adds), AddedSpent(si, adds, rems), b)
           /\ ~ NewBlocksRaise(ci, si, adds, rems)
<1> DEFINE nc == AddedConfirmed(ci, adds)
           ns == AddedSpent(si, adds, rems)
<1>n. \A a \in Anc[b] : height[a] \in Nat /\ height[a] # NoRow /\ a \in Blocks
  BY AncBlocks DEF NoRow
<1>q. Anc[q] = {a \in Anc[b] : height[a] <= height[q]} /\ height[q] \in Int
  BY AncBelow, AncBlocks
<1>b. Anc[b] = Anc[q] \cup bs /\ Anc[q] \cap bs = {}
  BY <1>q, <1>n
<1>vq. ValidChain(q)
  BY ValidChainBelow
<1>nc. \A c \in Coins : /\ adds[c] # NoRow => nc[c] = adds[c]
                        /\ adds[c] = NoRow => nc[c] = ci[c]
  BY DEF AddedConfirmed
<1>ns. \A c \in Coins : /\ rems[c] # NoRow => ns[c] = rems[c]
                        /\ rems[c] = NoRow /\ adds[c] # NoRow => ns[c] = UnspentIndex(c)
                        /\ rems[c] = NoRow /\ adds[c] = NoRow => ns[c] = si[c]
  BY DEF AddedSpent
<1>a. \A c \in Coins : /\ \A a \in bs : c \in Additions(a) => adds[c] = height[a] /\ adds[c] # NoRow
                       /\ adds[c] # NoRow => \E a \in bs : c \in Additions(a)
  BY <1>n, <1>b DEF ForkDictsExact
<1>r. \A c \in Coins : /\ \A a \in bs : c \in removals[a] => rems[c] = height[a] /\ rems[c] # NoRow
                       /\ rems[c] # NoRow => \E a \in bs : c \in removals[a]
  BY <1>n, <1>b DEF ForkDictsExact
<1>c. \A c \in Coins : (\E x \in Anc[q] : c \in Additions(x)) => adds[c] = NoRow
  BY <1>a, <1>b, CreatedOnce
<1>s. \A c \in Coins : (\E x \in Anc[q] : c \in removals[x]) => rems[c] = NoRow
  <2> SUFFICES ASSUME NEW c \in Coins, NEW x \in Anc[q], c \in removals[x], rems[c] # NoRow
               PROVE  FALSE
    OBVIOUS
  <2>1. PICK a \in bs : c \in removals[a]
    BY <1>r
  <2>2. a \in Anc[b] /\ x \in Anc[b] /\ a # x
    BY <1>b
  <2> QED BY <2>1, <2>2, SpentOnce
<1> HIDE DEF nc, ns
<1>1. ASSUME NEW c \in Coins, NEW a \in Anc[b], c \in Additions(a)
      PROVE  nc[c] = height[a]
  <2>1. CASE a \in bs
    BY <1>1, <2>1, <1>a, <1>nc
  <2>2. CASE a \in Anc[q]
    BY <1>1, <2>2, <1>c, <1>nc DEF CoinStoreOf
  <2> QED BY <2>1, <2>2, <1>b
<1>2. ASSUME NEW c \in Coins, \A a \in Anc[b] : c \notin Additions(a)
      PROVE  nc[c] = NoRow /\ ns[c] = 0
  <2>1. adds[c] = NoRow
    BY <1>2, <1>a, <1>b
  <2>2. rems[c] = NoRow
    <3> SUFFICES ASSUME rems[c] # NoRow PROVE FALSE
      OBVIOUS
    <3>1. PICK a \in bs : c \in removals[a]
      BY <1>r
    <3>2. a \in Anc[b]
      BY <1>b
    <3> QED BY <3>1, <3>2, <1>2, SpentAfterCreated
  <2>3. ci[c] = NoRow /\ si[c] = 0
    BY <1>2, <1>b DEF CoinStoreOf
  <2> QED BY <2>1, <2>2, <2>3, <1>nc, <1>ns
<1>3. ASSUME NEW c \in Coins, NEW a \in Anc[b], c \in removals[a]
      PROVE  ns[c] = height[a]
  <2>1. CASE a \in bs
    BY <1>3, <2>1, <1>r, <1>ns
  <2>2. CASE a \in Anc[q]
    <3>1. rems[c] = NoRow
      BY <1>3, <2>2, <1>s
    <3>2. adds[c] = NoRow
      BY <1>3, <2>2, <1>c, <1>vq, SpentAfterCreated
    <3> QED BY <1>3, <2>2, <3>1, <3>2, <1>ns DEF CoinStoreOf
  <2> QED BY <2>1, <2>2, <1>b
<1>4. ASSUME NEW c \in Coins, NEW x \in Anc[b], c \in Additions(x),
             \A a \in Anc[b] : c \notin removals[a]
      PROVE  ns[c] = UnspentIndex(c)
  <2>1. rems[c] = NoRow
    BY <1>4, <1>r, <1>b
  <2>2. CASE x \in bs
    BY <1>4, <2>1, <2>2, <1>a, <1>ns
  <2>3. CASE x \in Anc[q]
    <3>1. adds[c] = NoRow
      BY <1>4, <2>3, <1>c
    <3>2. si[c] = UnspentIndex(c)
      BY <1>4, <2>3, <1>b DEF CoinStoreOf
    <3> QED BY <2>1, <3>1, <3>2, <1>ns
  <2> QED BY <2>2, <2>3, <1>b
<1>5. CoinStoreOf(nc, ns, b)
  BY <1>1, <1>2, <1>3, <1>4 DEF CoinStoreOf
<1>6. ASSUME NEW c \in Coins, adds[c] # NoRow
      PROVE  ci[c] = NoRow
  <2>1. \A a \in Anc[q] : c \notin Additions(a)
    BY <1>6, <1>c
  <2> QED BY <2>1 DEF CoinStoreOf
<1>7. ASSUME NEW c \in Coins, rems[c] # NoRow
      PROVE  \/ adds[c] # NoRow /\ adds[c] <= rems[c]
             \/ ci[c] # NoRow /\ si[c] <= 0
  <2>1. PICK a \in bs : c \in removals[a]
    BY <1>7, <1>r
  <2>2. PICK x \in Anc[b] : c \in Additions(x) /\ height[x] <= height[a]
    BY <2>1, <1>b, SpentAfterCreated
  <2>3. CASE x \in bs
    BY <2>1, <2>2, <2>3, <1>a, <1>r
  <2>4. CASE x \in Anc[q]
    <3>1. ci[c] = height[x] /\ ci[c] # NoRow
      BY <2>2, <2>4, <1>n DEF CoinStoreOf
    <3>2. \A y \in Anc[q] : c \notin removals[y]
      BY <1>7, <1>s
    <3>3. si[c] = UnspentIndex(c)
      BY <2>2, <2>4, <3>2 DEF CoinStoreOf
    <3>4. si[c] <= 0
      BY <3>3 DEF UnspentIndex
    <3> QED BY <3>1, <3>4
  <2> QED BY <2>2, <2>3, <2>4, <1>b
<1> QED BY <1>5, <1>6, <1>7 DEF NewBlocksRaise, nc, ns
==============================================================================
