-------------------------- MODULE BlockchainProofs ---------------------------
(***************************************************************************)
(* Blockchain maintains its coin store, main chain and stored blocks for   *)
(* every block tree, every set of coins and every number of callers, as    *)
(* long as a ForkInfo is trusted: either no caller uses one whose fork     *)
(* block has left the main chain, or there is only one caller.             *)
(***************************************************************************)
EXTENDS Blockchain, CoinStoreProofs

ForkInfoTrusted == CallersRecheckFork \/ \A s1, s2 \in Callers : s1 = s2

\* The fork block of fi is on the chain that ends in p.
PointShared(fi, p) ==
    \A a \in Anc[fi.peak_hash] : height[a] = fi.fork_height => a \in Anc[p]

Exact(fi) ==
    /\ fi.fork_height \in Int
    /\ fi.fork_height >= -1
    /\ fi.fork_height <= height[fi.peak_hash]
    /\ fi.block_hashes = {a \in Anc[fi.peak_hash] : height[a] > fi.fork_height}
    /\ ForkDictsExact(fi.block_hashes, fi.additions, fi.removals)

PeakStored ==
    /\ current_peak \in full_blocks \cup {GENESIS_CHALLENGE}
    /\ current_peak = GENESIS_CHALLENGE => full_blocks = {}

MemoryOf(p) == height_map = Anc[p] /\ peak_height = height[p]

MemInv ==
    /\ height_map \subseteq full_blocks
    /\ block_records \subseteq full_blocks
    /\ pc \in {"idle", "transaction"} => MemoryOf(current_peak)
    /\ pc = "update" =>
         /\ adding.caller \in Callers
         /\ adding.block \in full_blocks
         /\ Fork.peak_hash = adding.block
         /\ IF adding.new_peak
            THEN adding.block = current_peak /\ UpdatedHeightMap = Anc[current_peak]
            ELSE MemoryOf(current_peak)

\* The block whose add_block() is in its transaction
Pending(s) == IF pc = "transaction" /\ adding.caller = s THEN {adding.block} ELSE {}

ForksInv ==
    \A s \in Callers :
        /\ fork_info[s].peak_hash \in full_blocks \cup {GENESIS_CHALLENGE} \cup Pending(s)
        /\ Exact(fork_info[s])

SharedInv == ~ CallersRecheckFork => \A s \in Callers : PointShared(fork_info[s], current_peak)

TxInv ==
    pc = "transaction" =>
        /\ adding.caller \in Callers
        /\ adding.block \in Blocks \ full_blocks
        /\ ValidBlock(adding.block)
        /\ prev_hash[adding.block] \in full_blocks \cup {GENESIS_CHALLENGE}
        /\ Fork.peak_hash = adding.block
        /\ Fork.fork_height <= height[prev_hash[adding.block]]
        /\ PointShared(Fork, current_peak)
        /\ prev_hash[adding.block] = current_peak => Fork.fork_height = height[current_peak]
        /\ adding.new_peak = BetterThanPeak(adding.block)

\* The inductive invariant
IInv ==
    /\ TypeOK
    /\ StoredBlocksValid
    /\ PeakStored
    /\ MainChainMatchesPeak
    /\ CoinStoreMatchesPeak
    /\ MemInv
    /\ ForksInv
    /\ SharedInv
    /\ TxInv

-----------------------------------------------------------------------------
\* A stored block, and a valid child of one, has a valid chain.
LEMMA StoredChain ==
    ASSUME StoredBlocksValid, full_blocks \subseteq Blocks
    PROVE  /\ \A p \in full_blocks \cup {GENESIS_CHALLENGE} : p \in Tips /\ ValidChain(p)
           /\ \A b \in Blocks : /\ ValidBlock(b)
                                /\ prev_hash[b] \in full_blocks \cup {GENESIS_CHALLENGE}
                                => ValidChain(b)
<1>1. \A p \in full_blocks \cup {GENESIS_CHALLENGE} : p \in Tips /\ ValidChain(p)
  BY AncestryIsAChain DEF StoredBlocksValid, ValidChain, Tips
<1> QED BY <1>1, AncestryIsAChain DEF ValidChain

\* The parent's chain is the chain without the block.
LEMMA ParentChain ==
    ASSUME NEW b \in Blocks
    PROVE  /\ prev_hash[b] \in Tips
           /\ Anc[b] = {b} \cup Anc[prev_hash[b]]
           /\ b \notin Anc[prev_hash[b]]
           /\ ProperAnc(b) = Anc[prev_hash[b]]
           /\ height[b] = height[prev_hash[b]] + 1
           /\ height[b] \in Nat
           /\ b \in Tips
BY TreeTyping, AncestryIsAChain, HeightsAndWeights, AncBlocks DEF ProperAnc, Tips

\* A fresh ForkInfo is exact.
LEMMA FreshExact ==
    ASSUME NEW p \in Tips
    PROVE  /\ FreshForkInfo(p) \in ForkInfos
           /\ Exact(FreshForkInfo(p))
           /\ FreshForkInfo(p).peak_hash = p
           /\ FreshForkInfo(p).fork_height = height[p]
<1>1. {a \in Anc[p] : height[a] > height[p]} = {}
  BY AncBlocks
<1>2. height[p] \in Int /\ height[p] >= -1
  BY AncBlocks
<1> QED BY <1>1, <1>2 DEF FreshForkInfo, ForkInfos, Exact, ForkDictsExact, EmptyDict, NoRow

\* include_spends() of a child of the fork's peak keeps a ForkInfo exact.
LEMMA IncludeExact ==
    ASSUME NEW fi \in ForkInfos, Exact(fi), NEW b \in Blocks, fi.peak_hash = prev_hash[b],
           ValidChain(b)
    PROVE  /\ IncludeSpends(fi, b) \in ForkInfos
           /\ Exact(IncludeSpends(fi, b))
           /\ IncludeSpends(fi, b).peak_hash = b
           /\ IncludeSpends(fi, b).fork_height = fi.fork_height
<1> DEFINE fj == IncludeSpends(fi, b)
<1>1. /\ fj.peak_hash = b /\ fj.fork_height = fi.fork_height
      /\ fj.block_hashes = fi.block_hashes \cup {b}
      /\ fj.additions = [c \in Coins |-> IF c \in Additions(b) THEN height[b] ELSE fi.additions[c]]
      /\ fj.removals = [c \in Coins |-> IF c \in removals[b] THEN height[b] ELSE fi.removals[c]]
      /\ fj = [fork_height |-> fj.fork_height, peak_hash |-> fj.peak_hash,
               block_hashes |-> fj.block_hashes, additions |-> fj.additions, removals |-> fj.removals]
  BY DEF IncludeSpends, ForkInfos
<1> HIDE DEF fj
<1>2. height[b] = height[prev_hash[b]] + 1 /\ height[b] \in Nat /\ height[prev_hash[b]] \in Int
  BY ParentChain, AncBlocks
<1>3. fj \in ForkInfos
  BY <1>1, <1>2, ParentChain DEF ForkInfos
<1>4. fj.block_hashes = {a \in Anc[b] : height[a] > fj.fork_height}
  BY <1>1, <1>2, ParentChain DEF Exact
<1>5. fi.block_hashes \subseteq Anc[b] /\ b \in Anc[b] /\ b \notin fi.block_hashes /\ b \in Tips
  BY ParentChain DEF Exact
<1>6. ForkDictsExact(fj.block_hashes, fj.additions, fj.removals)
  <2> SUFFICES ASSUME NEW c \in Coins
               PROVE  /\ \A a \in fj.block_hashes : c \in Additions(a) => fj.additions[c] = height[a]
                      /\ \A a \in fj.block_hashes : c \in removals[a] => fj.removals[c] = height[a]
                      /\ (\A a \in fj.block_hashes : c \notin Additions(a)) => fj.additions[c] = NoRow
                      /\ (\A a \in fj.block_hashes : c \notin removals[a]) => fj.removals[c] = NoRow
    BY DEF ForkDictsExact
  <2>1. ASSUME NEW a \in fi.block_hashes, c \in Additions(a) PROVE c \notin Additions(b)
    BY <2>1, <1>5, CreatedOnce
  <2>2. ASSUME NEW a \in fi.block_hashes, c \in removals[a] PROVE c \notin removals[b]
    BY <2>2, <1>5, SpentOnce
  <2>3. /\ \A a \in fi.block_hashes : c \in Additions(a) => fi.additions[c] = height[a]
        /\ \A a \in fi.block_hashes : c \in removals[a] => fi.removals[c] = height[a]
        /\ (\A a \in fi.block_hashes : c \notin Additions(a)) => fi.additions[c] = NoRow
        /\ (\A a \in fi.block_hashes : c \notin removals[a]) => fi.removals[c] = NoRow
    BY DEF Exact, ForkDictsExact
  <2> QED BY <2>1, <2>2, <2>3, <1>1
<1>7. Exact(fj)
  BY <1>1, <1>2, <1>4, <1>6 DEF Exact
<1> QED BY <1>1, <1>3, <1>7 DEF fj

\* A ForkInfo whose fork block is on the chain of p has a fork block, which may
\* be the parent of the genesis block.
LEMMA SharedPoint ==
    ASSUME NEW fi \in ForkInfos, Exact(fi), NEW p \in Tips, PointShared(fi, p)
    PROVE  \E q \in Tips : /\ height[q] = fi.fork_height
                           /\ q \in Anc[fi.peak_hash] \/ q = GENESIS_CHALLENGE
                           /\ q \in Anc[p] \/ q = GENESIS_CHALLENGE
<1>1. fi.peak_hash \in Tips
  BY DEF ForkInfos
<1>2. CASE fi.fork_height = -1
  BY <1>2, HeightsAndWeights DEF Tips
<1>3. CASE fi.fork_height # -1
  <2>1. fi.peak_hash \in Blocks /\ fi.fork_height \in 0..height[fi.peak_hash]
    BY <1>1, <1>3, HeightsAndWeights, AncBlocks DEF Exact, Tips
  <2>2. PICK a \in Anc[fi.peak_hash] : height[a] = fi.fork_height
    BY <2>1, AncestryIsAChain
  <2> QED BY <1>1, <2>2, AncBlocks DEF PointShared, Tips
<1> QED BY <1>2, <1>3

\* get_peak() returns the block the memory describes.
LEMMA GetPeak ==
    ASSUME NEW p \in Tips, MemoryOf(p)
    PROVE  get_peak = p
<1>1. CASE p = GENESIS_CHALLENGE
  BY <1>1, HeightsAndWeights DEF MemoryOf, get_peak
<1>2. CASE p \in Blocks
  <2>1. p \in Anc[p] /\ height[p] # -1
    BY <1>2, ParentChain
  <2>2. HashAt(height[p]) \in Anc[p] /\ height[HashAt(height[p])] = height[p]
    BY <2>1 DEF HashAt, MemoryOf
  <2>3. HashAt(height[p]) = p
    BY <2>1, <2>2, AncUnique
  <2> QED BY <2>1, <2>3 DEF MemoryOf, get_peak
<1> QED BY <1>1, <1>2 DEF Tips

\* What the store and the fork say about a coin the block does not create
\* itself is what the block's chain says.
LEMMA SpendAllowedExact ==
    ASSUME NEW p \in Tips, ValidChain(p),
           CoinStoreOf(confirmed_index, spent_index, p),
           confirmed_index \in [Coins -> Int], spent_index \in [Coins -> Int],
           NEW fi \in ForkInfos, Exact(fi), ValidChain(fi.peak_hash), PointShared(fi, p),
           NEW c \in Coins, NEW b, c \notin Additions(b)
    PROVE  SpendAllowed(fi, b, c) <=>
              /\ \E a \in Anc[fi.peak_hash] : c \in Additions(a)
              /\ \A a \in Anc[fi.peak_hash] : c \notin removals[a]
<1>t. fi.peak_hash \in Tips
  BY DEF ForkInfos
<1>1. PICK q \in Tips : /\ height[q] = fi.fork_height
                        /\ q \in Anc[fi.peak_hash] \/ q = GENESIS_CHALLENGE
                        /\ q \in Anc[p] \/ q = GENESIS_CHALLENGE
  BY SharedPoint
<1>2. /\ Anc[q] = {a \in Anc[p] : height[a] <= height[q]}
      /\ Anc[q] = {a \in Anc[fi.peak_hash] : height[a] <= height[q]}
  BY <1>t, <1>1, AncBelow
<1>3. ValidChain(q)
  BY <1>t, <1>1, ValidChainBelow
<1>4. /\ \A a \in Anc[p] : height[a] \in Nat /\ a \in Blocks
      /\ \A a \in Anc[fi.peak_hash] : height[a] \in Nat /\ a \in Blocks
      /\ height[q] \in Int
  BY <1>t, AncBlocks
<1>5. Anc[fi.peak_hash] = Anc[q] \cup fi.block_hashes
  BY <1>1, <1>2, <1>4 DEF Exact
<1>6. InStoreBelowFork(fi, c) <=> \E a \in Anc[q] : c \in Additions(a)
  BY <1>1, <1>2, <1>4 DEF InStoreBelowFork, CoinStoreOf, NoRow
<1>7. (spent_index[c] > 0 /\ spent_index[c] <= fi.fork_height)
         <=> \E a \in Anc[q] : c \in removals[a]
  <2>1. ASSUME NEW a \in Anc[q], c \in removals[a]
        PROVE  spent_index[c] > 0 /\ spent_index[c] <= fi.fork_height
    <3>1. a \in Anc[p] /\ a \in Blocks /\ height[a] \in Nat /\ height[a] <= height[q]
      BY <1>2, <1>4
    <3>2. height[a] # 0
      BY <2>1, <3>1, CoinCreation
    <3>3. spent_index[c] = height[a]
      BY <2>1, <3>1 DEF CoinStoreOf
    <3> QED BY <1>1, <3>1, <3>2, <3>3
  <2>2. ASSUME spent_index[c] > 0, spent_index[c] <= fi.fork_height
        PROVE  \E a \in Anc[q] : c \in removals[a]
    <3>1. \E a \in Anc[p] : c \in removals[a]
      BY <2>2 DEF CoinStoreOf, UnspentIndex
    <3>2. PICK a \in Anc[p] : c \in removals[a] /\ spent_index[c] = height[a]
      BY <3>1 DEF CoinStoreOf
    <3> QED BY <2>2, <3>2, <1>1, <1>2, <1>4
  <2> QED BY <2>1, <2>2
<1>8. fi.removals[c] = NoRow <=> \A a \in fi.block_hashes : c \notin removals[a]
  BY <1>4, <1>5 DEF Exact, ForkDictsExact, NoRow
<1>9. fi.additions[c] # NoRow <=> \E a \in fi.block_hashes : c \in Additions(a)
  BY <1>4, <1>5 DEF Exact, ForkDictsExact, NoRow
<1>10. (\E a \in Anc[q] : c \in removals[a]) => \E a \in Anc[q] : c \in Additions(a)
  BY <1>3, SpentAfterCreated
<1> QED BY <1>5, <1>6, <1>7, <1>8, <1>9, <1>10 DEF SpendAllowed

\* Body validation gives the verdict of the block's own chain.
LEMMA ValidateExact ==
    ASSUME NEW p \in Tips, ValidChain(p),
           CoinStoreOf(confirmed_index, spent_index, p),
           confirmed_index \in [Coins -> Int], spent_index \in [Coins -> Int],
           NEW fi \in ForkInfos, Exact(fi), PointShared(fi, p),
           NEW b \in Blocks, fi.peak_hash = prev_hash[b], ValidChain(prev_hash[b])
    PROVE  ValidateBlockBody(fi, b) <=> SpendsValid(b)
<1>1. \A c \in removals[b] : c \notin Additions(b) =>
         ( SpendAllowed(fi, b, c) <=>
              /\ \E a \in Anc[prev_hash[b]] : c \in Additions(a)
              /\ \A a \in Anc[prev_hash[b]] : c \notin removals[a] )
  BY SpendAllowedExact, CoinTyping
<1>2. Anc[b] = {b} \cup Anc[prev_hash[b]] /\ ProperAnc(b) = Anc[prev_hash[b]]
      /\ prev_hash[b] \in Tips
  BY ParentChain
<1>3. ASSUME SpendsValid(b) PROVE ValidateBlockBody(fi, b)
  BY <1>1, <1>2, <1>3 DEF SpendsValid, ValidateBlockBody, SpendAllowed
<1>4. ASSUME ValidateBlockBody(fi, b) PROVE SpendsValid(b)
  <2>1. \A c \in removals[b] \ Additions(b) : \A a \in ProperAnc(b) : c \notin removals[a]
    BY <1>1, <1>2, <1>4 DEF ValidateBlockBody
  <2>2. \A a \in ProperAnc(b) : SpendsValid(a)
    BY <1>2 DEF ValidChain, ValidBlock
  <2>3. \A a \in ProperAnc(b) : Additions(a) \cap Additions(b) = {}
    BY <2>1, <2>2, CoinIdsCommitToParents
  <2>4. ASSUME NEW c \in removals[b], c \in Additions(b), NEW a \in ProperAnc(b), c \in removals[a]
        PROVE  FALSE
    BY <2>3, <2>4, <1>2, SpentAfterCreated
  <2> QED BY <2>1, <2>4, <1>1, <1>2, <1>4 DEF SpendsValid, ValidateBlockBody
<1> QED BY <1>3, <1>4

-----------------------------------------------------------------------------
\* A fresh fork on a block of the chain of p shares its fork block with it.
LEMMA FreshShared ==
    ASSUME NEW p \in Tips, NEW q \in Tips, q \in Anc[p] \cup {p, GENESIS_CHALLENGE}
    PROVE  PointShared(FreshForkInfo(q), p)
BY AncBelow DEF PointShared, FreshForkInfo

\* A fork that grows keeps its fork block.
LEMMA IncludeShared ==
    ASSUME NEW fi \in ForkInfos, Exact(fi), NEW b \in Blocks, fi.peak_hash = prev_hash[b],
           NEW p \in Tips, PointShared(fi, p)
    PROVE  PointShared(IncludeSpends(fi, b), p)
<1>1. /\ Anc[b] = {b} \cup Anc[prev_hash[b]]
      /\ height[b] = height[prev_hash[b]] + 1 /\ height[prev_hash[b]] \in Int
  BY ParentChain, AncBlocks
<1>2. height[b] # fi.fork_height
  BY <1>1 DEF Exact
<1> QED BY <1>1, <1>2 DEF PointShared, IncludeSpends

\* With one caller, a caller outside add_block() finds no call in progress.
LEMMA FreeAlone ==
    ASSUME ForkInfoTrusted, IInv, ~ CallersRecheckFork, NEW s \in Callers, Free(s)
    PROVE  pc = "idle"
BY DEF ForkInfoTrusted, IInv, TxInv, MemInv, Free

\* A caller outside add_block() may replace its ForkInfo by any exact one.
LEMMA ChangeFork ==
    ASSUME IInv, NEW s \in Callers, Free(s),
           NEW fj \in ForkInfos, Exact(fj),
           fj.peak_hash \in full_blocks \cup {GENESIS_CHALLENGE},
           ~ CallersRecheckFork => PointShared(fj, current_peak),
           fork_info' = [fork_info EXCEPT ![s] = fj],
           block_records' \subseteq full_blocks,
           UNCHANGED <<database, height_map, peak_height, pc, adding>>
    PROVE  IInv'
<1> USE DEF database
<1>1. TypeOK'
  BY DEF IInv, TypeOK
<1>2. StoredBlocksValid' /\ PeakStored' /\ MainChainMatchesPeak' /\ CoinStoreMatchesPeak'
  BY DEF IInv, StoredBlocksValid, PeakStored, MainChainMatchesPeak, CoinStoreMatchesPeak
<1>3. \A t \in Callers : fork_info'[t] = IF t = s THEN fj ELSE fork_info[t]
  BY DEF IInv, TypeOK
<1>4. pc \in {"transaction", "update"} => adding.caller \in Callers /\ Fork' = Fork
  BY <1>3 DEF IInv, TxInv, MemInv, Free, Fork
<1>5. MemInv'
  BY <1>4 DEF IInv, MemInv, MemoryOf, UpdatedHeightMap, RecordsToAdd
<1>6. ForksInv'
  BY <1>3 DEF IInv, ForksInv, Pending
<1>7. SharedInv'
  BY <1>3 DEF IInv, SharedInv
<1>8. TxInv'
  <2>1. get_peak' = get_peak
    BY DEF get_peak, HashAt
  <2>2. BetterThanPeak(adding.block)' = BetterThanPeak(adding.block)
    BY <2>1 DEF BetterThanPeak
  <2>3. pc = "transaction" => PointShared(Fork, current_peak)' = PointShared(Fork, current_peak)
    BY <1>4 DEF PointShared
  <2> QED BY <1>4, <2>2, <2>3 DEF IInv, TxInv
<1> QED BY <1>1, <1>2, <1>5, <1>6, <1>7, <1>8 DEF IInv

\* The ForkInfo a caller outside add_block() owns
LEMMA OwnFork ==
    ASSUME IInv, NEW s \in Callers, Free(s)
    PROVE  /\ fork_info[s] \in ForkInfos
           /\ Exact(fork_info[s])
           /\ fork_info[s].peak_hash \in full_blocks \cup {GENESIS_CHALLENGE}
BY DEF IInv, TypeOK, ForksInv, Pending, Free

\* The peak and the stored blocks, as every step finds them
LEMMA StoredFacts ==
    ASSUME IInv
    PROVE  /\ current_peak \in Tips
           /\ ValidChain(current_peak)
           /\ full_blocks \subseteq Blocks
           /\ Anc[current_peak] \subseteq full_blocks
           /\ \A b \in full_blocks : ValidChain(b)
           /\ ValidChain(GENESIS_CHALLENGE)
BY StoredChain, AncestryIsAChain
   DEF IInv, TypeOK, PeakStored, StoredBlocksValid

\* add_block() works with an exact ForkInfo that shares its fork block.
LEMMA ForkForExact ==
    ASSUME ForkInfoTrusted, IInv, NEW s \in Callers, NEW b \in Blocks,
           MayAdd(s, b), PassesChecks(s, b)
    PROVE  /\ ForkInfoFor(s, b) \in ForkInfos
           /\ Exact(ForkInfoFor(s, b))
           /\ ForkInfoFor(s, b).peak_hash = prev_hash[b]
           /\ PointShared(ForkInfoFor(s, b), current_peak)
           /\ prev_hash[b] \in full_blocks \cup {GENESIS_CHALLENGE}
           /\ ValidChain(prev_hash[b])
           /\ prev_hash[b] = current_peak => ForkInfoFor(s, b).fork_height = height[current_peak]
<1>1. pc = "idle" /\ Free(s) /\ MemoryOf(current_peak)
  BY DEF MayAdd, Free, IInv, MemInv
<1>2. get_peak = current_peak
  BY <1>1, GetPeak, StoredFacts
<1>3. /\ prev_hash[b] \in full_blocks \cup {GENESIS_CHALLENGE}
      /\ prev_hash[b] \in Tips
      /\ ValidChain(prev_hash[b])
  BY ParentChain, StoredFacts DEF PassesChecks, IInv, MemInv
<1>4. CASE ExtendingMainChain(b)
  <2>1. prev_hash[b] \in {current_peak, GENESIS_CHALLENGE}
    BY <1>2, <1>3, <1>4, ParentChain, HeightsAndWeights DEF ExtendingMainChain, IInv, PeakStored, Tips
  <2>2. ForkInfoFor(s, b) = FreshForkInfo(prev_hash[b])
    BY <1>4 DEF ForkInfoFor
  <2> QED BY <1>3, <2>1, <2>2, FreshExact, FreshShared, StoredFacts
<1>5. CASE ~ ExtendingMainChain(b)
  <2>1. ForkInfoFor(s, b) = fork_info[s]
    BY <1>5 DEF ForkInfoFor
  <2>2. prev_hash[b] # current_peak
    BY <1>2, <1>5 DEF ExtendingMainChain
  <2>3. PointShared(fork_info[s], current_peak)
    BY <1>1 DEF MayAdd, ForkPointShared, PointShared, MemoryOf, IInv, SharedInv
  <2> QED BY <1>1, <1>3, <2>1, <2>2, <2>3, OwnFork DEF PassesChecks
<1> QED BY <1>4, <1>5

-----------------------------------------------------------------------------
\* One lemma per action: it preserves the inductive invariant.
LEMMA NewForkInfoInv ==
    ASSUME ForkInfoTrusted, IInv, NEW s \in Callers, NEW p \in Tips, NewForkInfo(s, p)
    PROVE  IInv'
<1>1. /\ p \in height_map \cup {GENESIS_CHALLENGE} /\ Free(s)
      /\ p \in full_blocks \cup {GENESIS_CHALLENGE}
  BY DEF NewForkInfo, IInv, MemInv
<1>2. ASSUME ~ CallersRecheckFork PROVE PointShared(FreshForkInfo(p), current_peak)
  <2>1. height_map = Anc[current_peak]
    BY <1>1, <1>2, FreeAlone DEF IInv, MemInv, MemoryOf
  <2> QED BY <1>1, <2>1, FreshShared, StoredFacts
<1>3. /\ fork_info' = [fork_info EXCEPT ![s] = FreshForkInfo(p)]
      /\ UNCHANGED <<database, height_map, peak_height, pc, adding>>
      /\ block_records' \subseteq full_blocks
  BY DEF NewForkInfo, memory, IInv, MemInv
<1>4. /\ FreshForkInfo(p) \in ForkInfos /\ Exact(FreshForkInfo(p))
      /\ FreshForkInfo(p).peak_hash \in full_blocks \cup {GENESIS_CHALLENGE}
  BY <1>1, FreshExact
<1> QED BY <1>1, <1>2, <1>3, <1>4, ChangeFork

LEMMA RunContainedBlockInv ==
    ASSUME ForkInfoTrusted, IInv, NEW s \in Callers, NEW b \in Blocks, RunContainedBlock(s, b)
    PROVE  IInv'
<1> DEFINE fj == IncludeSpends(fork_info[s], b)
<1>1. Free(s) /\ b \in full_blocks /\ fork_info[s].peak_hash = prev_hash[b]
  BY DEF RunContainedBlock, ContainsBlock, IInv, MemInv
<1>2. fj \in ForkInfos /\ Exact(fj) /\ fj.peak_hash = b
  BY <1>1, OwnFork, IncludeExact, StoredFacts
<1>3. ~ CallersRecheckFork => PointShared(fj, current_peak)
  BY <1>1, OwnFork, IncludeShared, StoredFacts DEF IInv, SharedInv
<1>4. /\ fork_info' = [fork_info EXCEPT ![s] = fj]
      /\ UNCHANGED <<database, height_map, peak_height, pc, adding>>
      /\ block_records' \subseteq full_blocks
  BY DEF RunContainedBlock, memory, IInv, MemInv, IncludeSpends
<1> HIDE DEF fj
<1> QED BY <1>1, <1>2, <1>3, <1>4, ChangeFork

LEMMA SkipBlockInv ==
    ASSUME ForkInfoTrusted, IInv, NEW s \in Callers, NEW b \in Blocks, SkipBlock(s, b)
    PROVE  IInv'
<1> DEFINE fj == IF ContainsBlock(b) THEN FreshForkInfo(b) ELSE IncludeSpends(fork_info[s], b)
<1>1. /\ Free(s) /\ b \in full_blocks /\ fork_info[s].peak_hash = prev_hash[b]
      /\ b \in Tips
  BY ParentChain DEF SkipBlock, Free, IInv, MemInv
<1>2. fj \in ForkInfos /\ Exact(fj) /\ fj.peak_hash = b
  BY <1>1, OwnFork, FreshExact, IncludeExact, StoredFacts
<1>3. ~ CallersRecheckFork => PointShared(fj, current_peak)
  <2>1. ContainsBlock(b) => b \in Anc[current_peak]
    BY DEF ContainsBlock, SkipBlock, IInv, MemInv, MemoryOf
  <2>2. ContainsBlock(b) => PointShared(FreshForkInfo(b), current_peak)
    BY <1>1, <2>1, FreshShared, StoredFacts
  <2>3. ~ CallersRecheckFork => PointShared(IncludeSpends(fork_info[s], b), current_peak)
    BY <1>1, OwnFork, IncludeShared, StoredFacts DEF IInv, SharedInv
  <2> QED BY <2>2, <2>3
<1>4. /\ fork_info' = [fork_info EXCEPT ![s] = fj]
      /\ UNCHANGED <<database, height_map, peak_height, pc, adding>>
      /\ block_records' \subseteq full_blocks
  BY <1>1 DEF SkipBlock, IInv, MemInv, IncludeSpends
<1> HIDE DEF fj
<1> QED BY <1>1, <1>2, <1>3, <1>4, ChangeFork

LEMMA RefuseBlockInv ==
    ASSUME ForkInfoTrusted, IInv, NEW s \in Callers, NEW b \in Blocks, RefuseBlock(s, b)
    PROVE  IInv'
<1> DEFINE fj == FreshForkInfo(GENESIS_CHALLENGE)
<1>1. Free(s) /\ GENESIS_CHALLENGE \in Tips
  BY DEF RefuseBlock, MayAdd, Free, Tips
<1>2. fj \in ForkInfos /\ Exact(fj) /\ fj.peak_hash = GENESIS_CHALLENGE
  BY <1>1, FreshExact
<1>3. PointShared(fj, current_peak)
  BY <1>1, FreshShared, StoredFacts
<1>4. /\ fork_info' = [fork_info EXCEPT ![s] = fj]
      /\ UNCHANGED <<database, height_map, peak_height, pc, adding>>
      /\ block_records' \subseteq full_blocks
  BY DEF RefuseBlock, memory, IInv, MemInv
<1> HIDE DEF fj
<1> QED BY <1>1, <1>2, <1>3, <1>4, ChangeFork

LEMMA AlreadyHaveBlockInv ==
    ASSUME ForkInfoTrusted, IInv, NEW s \in Callers, NEW b \in Blocks, AlreadyHaveBlock(s, b)
    PROVE  IInv'
<1> DEFINE fi == ForkInfoFor(s, b)
           fj == IncludeSpends(fi, b)
<1>1. Free(s) /\ b \in full_blocks /\ MayAdd(s, b) /\ PassesChecks(s, b)
  BY DEF AlreadyHaveBlock, MayAdd, Free, Known, IInv, MemInv
<1>2. fi \in ForkInfos /\ Exact(fi) /\ fi.peak_hash = prev_hash[b] /\ PointShared(fi, current_peak)
  BY <1>1, ForkForExact
<1>3. /\ fork_info' = [fork_info EXCEPT ![s] = fj]
      /\ UNCHANGED <<database, height_map, peak_height, pc, adding>>
      /\ block_records' \subseteq full_blocks
  BY <1>1 DEF AlreadyHaveBlock, IInv, MemInv
<1> HIDE DEF fi
<1>4. fj \in ForkInfos /\ Exact(fj) /\ fj.peak_hash = b
  BY <1>1, <1>2, IncludeExact, StoredFacts
<1>5. PointShared(fj, current_peak)
  BY <1>1, <1>2, IncludeShared, StoredFacts
<1> HIDE DEF fj
<1> QED BY <1>1, <1>3, <1>4, <1>5, ChangeFork

LEMMA AddBlockInv ==
    ASSUME ForkInfoTrusted, IInv, NEW s \in Callers, NEW b \in Blocks, AddBlock(s, b)
    PROVE  IInv'
<1> DEFINE fi == ForkInfoFor(s, b)
           fj == IncludeSpends(fi, b)
<1>1. /\ pc = "idle" /\ MayAdd(s, b) /\ PassesChecks(s, b)
      /\ b \notin full_blocks /\ b \notin Malformed /\ ValidateBlockBody(fi, b)
  BY DEF AddBlock, MayAdd, Known, PassesChecks
<1>2. /\ fi \in ForkInfos /\ Exact(fi) /\ fi.peak_hash = prev_hash[b] /\ PointShared(fi, current_peak)
      /\ prev_hash[b] \in full_blocks \cup {GENESIS_CHALLENGE}
      /\ ValidChain(prev_hash[b])
      /\ prev_hash[b] = current_peak => fi.fork_height = height[current_peak]
  BY <1>1, ForkForExact
<1>3. /\ fork_info' = [fork_info EXCEPT ![s] = fj]
      /\ pc' = "transaction"
      /\ adding' = [caller |-> s, block |-> b, new_peak |-> BetterThanPeak(b)]
      /\ UNCHANGED <<full_blocks, in_main_chain, current_peak, confirmed_index, spent_index,
                     height_map, peak_height, block_records>>
  BY DEF AddBlock, database, memory
<1> HIDE DEF fi
<1>4. ValidBlock(b)
  <2>1. ValidateBlockBody(fi, b) <=> SpendsValid(b)
    BY <1>2, StoredFacts, ValidateExact DEF IInv, CoinStoreMatchesPeak, TypeOK
  <2> QED BY <1>1, <2>1 DEF ValidBlock
<1>5. ValidChain(b) /\ b \in Tips
  BY <1>2, <1>4, ParentChain DEF ValidChain
<1>6. fj \in ForkInfos /\ Exact(fj) /\ fj.peak_hash = b /\ fj.fork_height = fi.fork_height
  BY <1>2, <1>5, IncludeExact
<1>7. PointShared(fj, current_peak)
  BY <1>2, IncludeShared, StoredFacts
<1> HIDE DEF fj
<1>8. \A t \in Callers : fork_info'[t] = IF t = s THEN fj ELSE fork_info[t]
  BY <1>3 DEF IInv, TypeOK
<1>9. Fork' = fj /\ adding'.caller = s /\ adding'.block = b /\ adding'.new_peak = BetterThanPeak(b)
  BY <1>3, <1>8 DEF Fork
<1>b. BetterThanPeak(b) \in BOOLEAN /\ BetterThanPeak(b)' = BetterThanPeak(b)
  <2>1. get_peak' = get_peak
    BY <1>3 DEF get_peak, HashAt
  <2> QED BY <2>1 DEF BetterThanPeak
<1>10. TypeOK'
  BY <1>3, <1>5, <1>6, <1>b DEF IInv, TypeOK
<1>11. StoredBlocksValid' /\ PeakStored' /\ MainChainMatchesPeak' /\ CoinStoreMatchesPeak'
  BY <1>3 DEF IInv, StoredBlocksValid, PeakStored, MainChainMatchesPeak, CoinStoreMatchesPeak
<1>12. MemInv'
  BY <1>1, <1>3 DEF IInv, MemInv, MemoryOf
<1>13. ForksInv'
  <2> SUFFICES ASSUME NEW t \in Callers
               PROVE  /\ fork_info'[t].peak_hash \in full_blocks' \cup {GENESIS_CHALLENGE} \cup Pending(t)'
                      /\ Exact(fork_info'[t])
    BY <1>3 DEF ForksInv
  <2>1. CASE t = s
    BY <2>1, <1>3, <1>6, <1>8, <1>9 DEF Pending
  <2>2. CASE t # s
    BY <2>2, <1>1, <1>3, <1>8 DEF IInv, ForksInv, Pending
  <2> QED BY <2>1, <2>2
<1>14. SharedInv'
  BY <1>3, <1>7, <1>8 DEF IInv, SharedInv
<1>15. TxInv'
  <2>1. PointShared(Fork, current_peak)'
    BY <1>3, <1>7, <1>9 DEF PointShared
  <2>2. Fork'.fork_height <= height[prev_hash[b]]
    BY <1>2, <1>6, <1>9 DEF Exact
  <2>3. BetterThanPeak(adding.block)' = BetterThanPeak(b)
    BY <1>9, <1>b DEF BetterThanPeak
  <2> QED BY <1>1, <1>2, <1>3, <1>4, <1>6, <1>9, <1>b, <2>1, <2>2, <2>3 DEF TxInv
<1> QED BY <1>10, <1>11, <1>12, <1>13, <1>14, <1>15 DEF IInv

(***************************************************************************)
(* The transaction: whatever it does, it does it to the chain of the block.*)
(***************************************************************************)
\* In a transaction, applying the fork cannot raise, and leaves the coin store,
\* the main chain flags and the height map of the block that is added.
LEMMA TransactionFacts ==
    ASSUME IInv, pc = "transaction"
    PROVE  /\ get_peak = current_peak
           /\ ~ ReconsiderPeakRaises
           /\ CoinStoreOf(AddedConfirmed(BaseConfirmed, Fork.additions),
                          AddedSpent(BaseSpent, Fork.additions, Fork.removals), adding.block)
           /\ AddedConfirmed(BaseConfirmed, Fork.additions) \in [Coins -> Int]
           /\ AddedSpent(BaseSpent, Fork.additions, Fork.removals) \in [Coins -> Int]
           /\ {a \in in_main_chain : height[a] <= Fork.fork_height} \cup RecordsToAdd = Anc[adding.block]
           /\ UpdatedHeightMap = Anc[adding.block]
           /\ Anc[adding.block] \subseteq full_blocks \cup {adding.block}
<1> DEFINE p == current_peak
           b == adding.block
           fi == Fork
<1>1. /\ b \in Blocks /\ b \in Tips /\ p \in Tips
      /\ fi \in ForkInfos /\ Exact(fi) /\ fi.peak_hash = b
      /\ fi.fork_height <= height[prev_hash[b]]
      /\ PointShared(fi, p)
      /\ prev_hash[b] = p => fi.fork_height = height[p]
      /\ prev_hash[b] \in full_blocks \cup {GENESIS_CHALLENGE}
  BY ParentChain, StoredFacts DEF IInv, TxInv, TypeOK, ForksInv, Fork
<1>2. MemoryOf(p) /\ get_peak = p /\ in_main_chain = Anc[p]
  BY <1>1, GetPeak DEF IInv, MemInv, MainChainMatchesPeak
<1>3. ValidChain(p) /\ ValidChain(b)
  BY <1>1, StoredFacts, StoredChain DEF IInv, TxInv
<1>4. Anc[b] \subseteq full_blocks \cup {b} /\ Anc[b] = {b} \cup Anc[prev_hash[b]]
  BY <1>1, ParentChain, AncestryIsAChain DEF IInv, StoredBlocksValid
<1>5. PICK q \in Tips : /\ height[q] = fi.fork_height
                        /\ q \in Anc[b] \/ q = GENESIS_CHALLENGE
                        /\ q \in Anc[p] \/ q = GENESIS_CHALLENGE
  BY <1>1, SharedPoint
<1>6. /\ Anc[q] = {a \in Anc[p] : height[a] <= height[q]}
      /\ Anc[q] = {a \in Anc[b] : height[a] <= height[q]}
      /\ fi.block_hashes = {a \in Anc[b] : height[a] > height[q]}
  BY <1>1, <1>5, AncBelow DEF Exact
<1>7. /\ \A a \in Anc[p] : height[a] \in Nat
      /\ \A a \in Anc[b] : height[a] \in Nat
      /\ height[q] \in Int /\ height[b] \in Nat /\ height[p] \in Int
  BY <1>1, AncBlocks, ParentChain
<1>8. RecordsToAdd = fi.block_hashes
  <2>1. ASSUME height[b] = 0 PROVE fi.block_hashes = {b}
    <3>1. prev_hash[b] = GENESIS_CHALLENGE
      BY <1>1, <2>1, ParentChain, HeightsAndWeights DEF Tips
    <3>2. Anc[b] = {b} /\ fi.fork_height <= -1
      BY <3>1, <1>1, <1>4, AncestryIsAChain, HeightsAndWeights
    <3> QED BY <2>1, <3>2, <1>5, <1>6, <1>7
  <2> QED BY <2>1 DEF RecordsToAdd
<1>9. /\ BaseConfirmed \in [Coins -> Int] /\ BaseSpent \in [Coins -> Int]
      /\ CoinStoreOf(BaseConfirmed, BaseSpent, q)
  <2>0. /\ confirmed_index \in [Coins -> Int] /\ spent_index \in [Coins -> Int]
        /\ CoinStoreOf(confirmed_index, spent_index, p)
    BY DEF IInv, TypeOK, CoinStoreMatchesPeak
  <2>1. CASE RollsBack
    <3>1. /\ BaseConfirmed = RolledBackConfirmed(confirmed_index, height[q])
          /\ BaseSpent = RolledBackSpent(confirmed_index, spent_index, height[q])
      BY <2>1, <1>5 DEF BaseConfirmed, BaseSpent
    <3>2. /\ RolledBackConfirmed(confirmed_index, height[q]) \in [Coins -> Int]
          /\ RolledBackSpent(confirmed_index, spent_index, height[q]) \in [Coins -> Int]
      BY <2>0 DEF RolledBackConfirmed, RolledBackSpent, RestoredIndex, NoRow
    <3> QED BY <2>0, <3>1, <3>2, <1>1, <1>3, <1>5, RollbackCorrect
  <2>2. CASE ~ RollsBack
    <3>1. q = p
      <4>1. CASE p = GENESIS_CHALLENGE
        BY <4>1, <1>5, AncestryIsAChain
      <4>2. CASE p \in Blocks
        <5>1. height[q] = height[p] /\ height[p] \in Nat /\ p \in Anc[p]
          BY <2>2, <4>2, <1>1, <1>2, <1>5, ParentChain, TreeTyping DEF RollsBack
        <5>2. q # GENESIS_CHALLENGE
          BY <5>1, HeightsAndWeights
        <5>3. q \in Anc[p]
          BY <5>2, <1>5
        <5> QED BY <5>1, <5>3, <1>1, AncUnique
      <4> QED BY <4>1, <4>2, <1>1 DEF Tips
    <3> QED BY <2>0, <2>2, <3>1 DEF BaseConfirmed, BaseSpent
  <2> QED BY <2>1, <2>2
<1>10. /\ CoinStoreOf(AddedConfirmed(BaseConfirmed, fi.additions),
                      AddedSpent(BaseSpent, fi.additions, fi.removals), b)
       /\ ~ NewBlocksRaise(BaseConfirmed, BaseSpent, fi.additions, fi.removals)
  BY <1>1, <1>3, <1>5, <1>6, <1>9, ApplyCorrect DEF Exact
<1>11. /\ AddedConfirmed(BaseConfirmed, fi.additions) \in [Coins -> Int]
       /\ AddedSpent(BaseSpent, fi.additions, fi.removals) \in [Coins -> Int]
  BY <1>1, <1>9 DEF ForkInfos, AddedConfirmed, AddedSpent, UnspentIndex
<1>12. ~ ReconsiderPeakRaises
  BY <1>4, <1>6, <1>8, <1>10 DEF ReconsiderPeakRaises
<1>13. {a \in in_main_chain : height[a] <= fi.fork_height} \cup RecordsToAdd = Anc[b]
  BY <1>2, <1>5, <1>6, <1>7, <1>8
<1>14. UpdatedHeightMap = Anc[b]
  <2>0. UpdatedHeightMap =
           {a \in Anc[p] : /\ height[a] <= MaxOf(height[q], 0)
                           /\ \A r \in fi.block_hashes : height[r] # height[a]} \cup fi.block_hashes
    BY <1>2, <1>5, <1>8 DEF UpdatedHeightMap, MemoryOf
  <2>1. CASE height[q] >= 0
    <3>1. MaxOf(height[q], 0) = height[q]
      BY <2>1, <1>7 DEF MaxOf
    <3>2. {a \in Anc[p] : /\ height[a] <= MaxOf(height[q], 0)
                          /\ \A r \in fi.block_hashes : height[r] # height[a]} = Anc[q]
      BY <3>1, <1>6, <1>7
    <3> QED BY <2>0, <3>2, <1>6, <1>7
  <2>2. CASE height[q] < 0
    <3>1. MaxOf(height[q], 0) = 0
      BY <2>2, <1>7 DEF MaxOf
    <3>2. fi.block_hashes = Anc[b]
      BY <2>2, <1>6, <1>7
    <3>3. \E r \in fi.block_hashes : height[r] = 0
      BY <3>2, <1>1, <1>7, AncestryIsAChain
    <3>4. {a \in Anc[p] : /\ height[a] <= MaxOf(height[q], 0)
                          /\ \A r \in fi.block_hashes : height[r] # height[a]} = {}
      BY <3>1, <3>3, <1>7
    <3> QED BY <2>0, <3>2, <3>4
  <2> QED BY <2>1, <2>2, <1>7
<1> QED BY <1>2, <1>4, <1>10, <1>11, <1>12, <1>13, <1>14

LEMMA CommitInv ==
    ASSUME ForkInfoTrusted, IInv, Commit
    PROVE  IInv'
<1>1. /\ pc = "transaction" /\ pc' = "update"
      /\ full_blocks' = full_blocks \cup {adding.block}
      /\ block_records' = block_records \cup {adding.block}
      /\ UNCHANGED <<height_map, peak_height, fork_info, adding>>
  BY DEF Commit, CommitDatabase
<1>2. /\ adding.caller \in Callers /\ adding.block \in Blocks /\ ValidBlock(adding.block)
      /\ Fork.peak_hash = adding.block /\ adding.block \in Tips
      /\ adding.new_peak = BetterThanPeak(adding.block)
      /\ MemoryOf(current_peak)
  BY <1>1, ParentChain DEF IInv, TxInv, MemInv
<1>3. StoredBlocksValid'
  BY <1>1, <1>2, TransactionFacts DEF IInv, StoredBlocksValid
<1>4. Fork' = Fork /\ RecordsToAdd' = RecordsToAdd /\ UpdatedHeightMap' = UpdatedHeightMap
  BY <1>1 DEF Fork, RecordsToAdd, UpdatedHeightMap
<1>5. ForksInv'
  BY <1>1 DEF IInv, ForksInv, Pending
<1>6. TxInv'
  BY <1>1 DEF TxInv
<1>7. CASE adding.new_peak
  <2>1. /\ confirmed_index' = AddedConfirmed(BaseConfirmed, Fork.additions)
        /\ spent_index' = AddedSpent(BaseSpent, Fork.additions, Fork.removals)
        /\ in_main_chain' = {a \in in_main_chain : height[a] <= Fork.fork_height} \cup RecordsToAdd
        /\ current_peak' = adding.block
    BY <1>7 DEF Commit, CommitDatabase, ReconsiderPeak
  <2>2. in_main_chain' = Anc[adding.block] /\ Anc[adding.block] \subseteq Blocks
    BY <1>1, <1>2, <2>1, TransactionFacts, AncBlocks
  <2>3. TypeOK'
    BY <1>1, <1>2, <2>1, <2>2, TransactionFacts DEF IInv, TypeOK
  <2>4. PeakStored' /\ MainChainMatchesPeak' /\ CoinStoreMatchesPeak'
    BY <1>1, <1>2, <2>1, <2>2, TransactionFacts, TreeTyping
       DEF PeakStored, MainChainMatchesPeak, CoinStoreMatchesPeak
  <2>5. MemInv'
    BY <1>1, <1>2, <1>4, <1>7, <2>1, TransactionFacts DEF IInv, MemInv
  <2>6. SharedInv'
    <3> SUFFICES ASSUME ~ CallersRecheckFork, NEW s \in Callers
                 PROVE  PointShared(fork_info[s], adding.block)
      BY <1>1, <2>1 DEF SharedInv
    <3>1. s = adding.caller
      BY <1>2 DEF ForkInfoTrusted
    <3> QED BY <1>2, <3>1 DEF PointShared, Fork
  <2> QED BY <1>3, <1>5, <1>6, <2>3, <2>4, <2>5, <2>6 DEF IInv
<1>8. CASE ~ adding.new_peak
  <2>1. UNCHANGED <<confirmed_index, spent_index, in_main_chain, current_peak>>
    BY <1>8 DEF Commit, CommitDatabase
  <2>2. current_peak # GENESIS_CHALLENGE
    BY <1>1, <1>2, <1>8, TransactionFacts DEF BetterThanPeak
  <2>3. TypeOK' /\ PeakStored' /\ MainChainMatchesPeak' /\ CoinStoreMatchesPeak' /\ SharedInv'
    BY <1>1, <1>2, <2>1, <2>2
       DEF IInv, TypeOK, PeakStored, MainChainMatchesPeak, CoinStoreMatchesPeak, SharedInv
  <2>4. MemInv'
    BY <1>1, <1>2, <1>4, <1>8, <2>1 DEF IInv, MemInv, MemoryOf
  <2> QED BY <1>3, <1>5, <1>6, <2>3, <2>4 DEF IInv
<1> QED BY <1>7, <1>8

LEMMA TransactionFailsInv ==
    ASSUME ForkInfoTrusted, IInv, TransactionFails
    PROVE  IInv'
<1> DEFINE fj == FreshForkInfo(GENESIS_CHALLENGE)
<1>1. /\ pc = "transaction" /\ pc' = "idle" /\ adding' = NoCall
      /\ block_records' = block_records \ {adding.block}
      /\ fork_info' = [fork_info EXCEPT ![adding.caller] = fj]
      /\ UNCHANGED <<full_blocks, in_main_chain, current_peak, confirmed_index, spent_index,
                     height_map, peak_height>>
  BY DEF TransactionFails, RestoreMemory, database
<1>2. /\ fj \in ForkInfos /\ Exact(fj) /\ fj.peak_hash = GENESIS_CHALLENGE
      /\ GENESIS_CHALLENGE \in Tips
  BY FreshExact DEF Tips
<1>3. PointShared(fj, current_peak)
  BY <1>2, FreshShared, StoredFacts
<1> HIDE DEF fj
<1>4. \A t \in Callers : fork_info'[t] = IF t = adding.caller THEN fj ELSE fork_info[t]
  BY <1>1 DEF IInv, TypeOK
<1>5. TypeOK'
  BY <1>1, <1>2 DEF IInv, TypeOK, NoCall
<1>6. StoredBlocksValid' /\ PeakStored' /\ MainChainMatchesPeak' /\ CoinStoreMatchesPeak'
  BY <1>1 DEF IInv, StoredBlocksValid, PeakStored, MainChainMatchesPeak, CoinStoreMatchesPeak
<1>7. MemInv'
  BY <1>1 DEF IInv, MemInv, MemoryOf
<1>8. ForksInv'
  BY <1>1, <1>2, <1>4 DEF IInv, ForksInv, Pending
<1>9. SharedInv'
  BY <1>1, <1>3, <1>4 DEF IInv, SharedInv
<1>10. TxInv'
  BY <1>1 DEF TxInv
<1> QED BY <1>5, <1>6, <1>7, <1>8, <1>9, <1>10 DEF IInv

LEMMA UpdateMemoryInv ==
    ASSUME ForkInfoTrusted, IInv, UpdateMemory
    PROVE  IInv'
<1>1. /\ pc = "update" /\ pc' = "idle" /\ adding' = NoCall
      /\ UNCHANGED <<full_blocks, in_main_chain, current_peak, confirmed_index, spent_index>>
  BY DEF UpdateMemory, database
<1>2. MemoryOf(current_peak)' /\ block_records' \subseteq block_records
  <2>1. CASE adding.new_peak
    BY <1>1, <2>1 DEF UpdateMemory, MemoryOf, IInv, MemInv, CleanBlockRecords, CleanBlockRecord
  <2>2. CASE ~ adding.new_peak
    BY <1>1, <2>2 DEF UpdateMemory, memory, MemoryOf, IInv, MemInv
  <2> QED BY <2>1, <2>2
<1>3. /\ fork_info' \in [Callers -> ForkInfos]
      /\ \A t \in Callers : \/ fork_info'[t] = fork_info[t]
                            \/ fork_info'[t] = FreshForkInfo(current_peak)
  <2>1. fork_info' = fork_info \/ fork_info' = [fork_info EXCEPT ![adding.caller] = FreshForkInfo(current_peak)]
    BY <1>1 DEF UpdateMemory, IInv, MemInv
  <2>2. FreshForkInfo(current_peak) \in ForkInfos
    BY StoredFacts, FreshExact
  <2> QED BY <2>1, <2>2 DEF IInv, TypeOK
<1>4. TypeOK'
  BY <1>1, <1>2, <1>3, StoredFacts, AncBlocks DEF IInv, TypeOK, NoCall, MemoryOf, Tips
<1>5. StoredBlocksValid' /\ PeakStored' /\ MainChainMatchesPeak' /\ CoinStoreMatchesPeak'
  BY <1>1 DEF IInv, StoredBlocksValid, PeakStored, MainChainMatchesPeak, CoinStoreMatchesPeak
<1>6. MemInv'
  BY <1>1, <1>2, StoredFacts DEF IInv, MemInv, MemoryOf
<1>7. ForksInv'
  <2>1. /\ Exact(FreshForkInfo(current_peak))
        /\ FreshForkInfo(current_peak).peak_hash = current_peak
        /\ current_peak \in full_blocks \cup {GENESIS_CHALLENGE}
    BY StoredFacts, FreshExact DEF IInv, PeakStored
  <2> QED BY <1>1, <1>3, <2>1 DEF IInv, ForksInv, Pending
<1>8. SharedInv'
  <2>1. PointShared(FreshForkInfo(current_peak), current_peak)
    BY StoredFacts, FreshShared
  <2> QED BY <1>1, <1>3, <2>1 DEF IInv, SharedInv
<1>9. TxInv'
  BY <1>1 DEF TxInv
<1> QED BY <1>4, <1>5, <1>6, <1>7, <1>8, <1>9 DEF IInv

LEMMA CrashInv ==
    ASSUME IInv, Crash
    PROVE  IInv'
<1> DEFINE fj == FreshForkInfo(GENESIS_CHALLENGE)
<1>1. /\ pc' = "down" /\ height_map' = {} /\ peak_height' = -1 /\ block_records' = {}
      /\ fork_info' = [s \in Callers |-> fj] /\ adding' = NoCall
      /\ UNCHANGED <<full_blocks, in_main_chain, current_peak, confirmed_index, spent_index>>
  BY DEF Crash, database
<1>2. /\ fj \in ForkInfos /\ Exact(fj) /\ fj.peak_hash = GENESIS_CHALLENGE
      /\ GENESIS_CHALLENGE \in Tips
  BY FreshExact DEF Tips
<1>3. PointShared(fj, current_peak)
  BY <1>2, FreshShared, StoredFacts
<1> HIDE DEF fj
<1>4. TypeOK'
  BY <1>1, <1>2 DEF IInv, TypeOK, NoCall
<1>5. StoredBlocksValid' /\ PeakStored' /\ MainChainMatchesPeak' /\ CoinStoreMatchesPeak'
  BY <1>1 DEF IInv, StoredBlocksValid, PeakStored, MainChainMatchesPeak, CoinStoreMatchesPeak
<1>6. MemInv' /\ ForksInv' /\ SharedInv' /\ TxInv'
  BY <1>1, <1>2, <1>3 DEF IInv, MemInv, ForksInv, SharedInv, TxInv, Pending
<1> QED BY <1>4, <1>5, <1>6 DEF IInv

LEMMA LoadChainFromStoreInv ==
    ASSUME IInv, LoadChainFromStore
    PROVE  IInv'
<1>1. /\ pc = "down" /\ pc' = "idle"
      /\ height_map' = Anc[current_peak] /\ peak_height' = height[current_peak]
      /\ block_records' \subseteq in_main_chain
      /\ UNCHANGED <<full_blocks, in_main_chain, current_peak, confirmed_index, spent_index,
                     fork_info, adding>>
  BY DEF LoadChainFromStore, database
<1>2. TypeOK'
  BY <1>1, StoredFacts, AncBlocks DEF IInv, TypeOK
<1>3. StoredBlocksValid' /\ PeakStored' /\ MainChainMatchesPeak' /\ CoinStoreMatchesPeak'
  BY <1>1 DEF IInv, StoredBlocksValid, PeakStored, MainChainMatchesPeak, CoinStoreMatchesPeak
<1>4. MemInv'
  BY <1>1, StoredFacts DEF IInv, MainChainMatchesPeak, MemInv, MemoryOf
<1>5. ForksInv' /\ SharedInv' /\ TxInv'
  BY <1>1 DEF IInv, ForksInv, SharedInv, TxInv, Pending
<1> QED BY <1>2, <1>3, <1>4, <1>5 DEF IInv

LEMMA InitInv == Init => IInv
<1> SUFFICES ASSUME Init PROVE IInv
  OBVIOUS
<1> DEFINE fj == FreshForkInfo(GENESIS_CHALLENGE)
<1>1. /\ fj \in ForkInfos /\ Exact(fj) /\ fj.peak_hash = GENESIS_CHALLENGE
      /\ GENESIS_CHALLENGE \in Tips
  BY FreshExact DEF Tips
<1>2. PointShared(fj, GENESIS_CHALLENGE)
  BY <1>1, FreshShared
<1>3. fork_info = [s \in Callers |-> fj]
  BY DEF Init
<1> HIDE DEF fj
<1>4. TypeOK
  BY <1>1, <1>3 DEF Init, TypeOK, NoCall, EmptyDict, NoRow
<1>5. StoredBlocksValid /\ PeakStored /\ MainChainMatchesPeak
  BY AncestryIsAChain DEF Init, StoredBlocksValid, PeakStored, MainChainMatchesPeak
<1>6. CoinStoreMatchesPeak
  BY AncestryIsAChain DEF Init, CoinStoreMatchesPeak, CoinStoreOf, EmptyDict
<1>7. MemInv
  BY AncestryIsAChain, HeightsAndWeights DEF Init, MemInv, MemoryOf
<1>8. ForksInv /\ SharedInv /\ TxInv
  BY <1>1, <1>2, <1>3 DEF Init, ForksInv, SharedInv, TxInv, Pending
<1> QED BY <1>4, <1>5, <1>6, <1>7, <1>8 DEF IInv

\* A stuttering step changes nothing the invariant mentions.
LEMMA StutterInv ==
    ASSUME IInv, UNCHANGED vars
    PROVE  IInv'
<1>1. UNCHANGED <<full_blocks, in_main_chain, current_peak, confirmed_index, spent_index,
                  height_map, peak_height, block_records, fork_info, pc, adding>>
  BY DEF vars, database, memory
<1>2. Fork' = Fork /\ get_peak' = get_peak
  BY <1>1 DEF Fork, get_peak, HashAt
<1>3. TypeOK' /\ StoredBlocksValid' /\ PeakStored' /\ MainChainMatchesPeak' /\ CoinStoreMatchesPeak'
  BY <1>1 DEF IInv, TypeOK, StoredBlocksValid, PeakStored, MainChainMatchesPeak, CoinStoreMatchesPeak
<1>4. MemInv'
  BY <1>1, <1>2 DEF IInv, MemInv, MemoryOf, UpdatedHeightMap, RecordsToAdd
<1>5. ForksInv' /\ SharedInv'
  BY <1>1 DEF IInv, ForksInv, SharedInv, Pending
<1>6. TxInv'
  BY <1>1, <1>2 DEF IInv, TxInv, BetterThanPeak, PointShared
<1> QED BY <1>3, <1>4, <1>5, <1>6 DEF IInv

\* The invariant is inductive.
LEMMA StepInv ==
    ASSUME ForkInfoTrusted, IInv, [Next]_vars
    PROVE  IInv'
<1>1. ASSUME NEW s \in Callers, NEW p \in Tips, NewForkInfo(s, p) PROVE IInv'
  BY <1>1, NewForkInfoInv
<1>2. ASSUME NEW s \in Callers, NEW b \in Blocks, RunContainedBlock(s, b) PROVE IInv'
  BY <1>2, RunContainedBlockInv
<1>3. ASSUME NEW s \in Callers, NEW b \in Blocks, SkipBlock(s, b) PROVE IInv'
  BY <1>3, SkipBlockInv
<1>4. ASSUME NEW s \in Callers, NEW b \in Blocks, RefuseBlock(s, b) PROVE IInv'
  BY <1>4, RefuseBlockInv
<1>5. ASSUME NEW s \in Callers, NEW b \in Blocks, AlreadyHaveBlock(s, b) PROVE IInv'
  BY <1>5, AlreadyHaveBlockInv
<1>6. ASSUME NEW s \in Callers, NEW b \in Blocks, AddBlock(s, b) PROVE IInv'
  BY <1>6, AddBlockInv
<1>7. CASE Commit
  BY <1>7, CommitInv
<1>8. CASE TransactionFails
  BY <1>8, TransactionFailsInv
<1>9. CASE UpdateMemory
  BY <1>9, UpdateMemoryInv
<1>10. CASE Crash
  BY <1>10, CrashInv
<1>11. CASE LoadChainFromStore
  BY <1>11, LoadChainFromStoreInv
<1>12. CASE UNCHANGED vars
  BY <1>12, StutterInv
<1> QED BY <1>1, <1>2, <1>3, <1>4, <1>5, <1>6, <1>7, <1>8, <1>9, <1>10, <1>11, <1>12 DEF Next

-----------------------------------------------------------------------------
\* What the invariant says of validation and of the transaction
LEMMA InvariantImplies ==
    ASSUME ForkInfoTrusted, IInv
    PROVE  /\ MemoryMatchesStore
           /\ BodyValidationExact
           /\ ReorgNeverRaises
           /\ ForkInfoExact
<1>1. MemoryMatchesStore
  BY DEF IInv, MemInv, MemoryOf, MemoryMatchesStore
<1>2. BodyValidationExact
  <2> SUFFICES ASSUME NEW s \in Callers, NEW b \in Blocks, MayAdd(s, b), PassesChecks(s, b)
               PROVE  ValidateBlockBody(ForkInfoFor(s, b), b) <=> SpendsValid(b)
    BY DEF BodyValidationExact
  <2>1. /\ ForkInfoFor(s, b) \in ForkInfos
        /\ Exact(ForkInfoFor(s, b))
        /\ ForkInfoFor(s, b).peak_hash = prev_hash[b]
        /\ PointShared(ForkInfoFor(s, b), current_peak)
        /\ ValidChain(prev_hash[b])
    BY ForkForExact
  <2>2. /\ confirmed_index \in [Coins -> Int] /\ spent_index \in [Coins -> Int]
        /\ CoinStoreOf(confirmed_index, spent_index, current_peak)
    BY DEF IInv, TypeOK, CoinStoreMatchesPeak
  <2> QED BY <2>1, <2>2, StoredFacts, ValidateExact
<1>3. ReorgNeverRaises
  BY TransactionFacts DEF ReorgNeverRaises
<1>4. ForkInfoExact
  BY DEF IInv, ForksInv, Exact, ForkInfoExact
<1> QED BY <1>1, <1>2, <1>3, <1>4

\* The inductive invariant is an invariant.
THEOREM Invariance == ASSUME ForkInfoTrusted PROVE Spec => []IInv
<1>1. Init => IInv
  BY InitInv
<1>2. IInv /\ [Next]_vars => IInv'
  BY StepInv
<1> QED BY <1>1, <1>2, PTL DEF Spec

\* Every variable keeps its type.
THEOREM TypeCorrect == ASSUME ForkInfoTrusted PROVE Spec => []TypeOK
<1>1. IInv => TypeOK
  BY DEF IInv
<1> QED BY <1>1, Invariance, PTL

\* However often blocks are undone and redone, by whichever caller, and
\* wherever the process fails or crashes, the coin_record table is that of the
\* stored peak's chain.
THEOREM CoinStoreCorrect == ASSUME ForkInfoTrusted PROVE Spec => []CoinStoreMatchesPeak
<1>1. IInv => CoinStoreMatchesPeak
  BY DEF IInv
<1> QED BY <1>1, Invariance, PTL

\* The in_main_chain flags are the ancestry of the stored peak.
THEOREM MainChainCorrect == ASSUME ForkInfoTrusted PROVE Spec => []MainChainMatchesPeak
<1>1. IInv => MainChainMatchesPeak
  BY DEF IInv
<1> QED BY <1>1, Invariance, PTL

\* With no add_block() in progress the height map and _peak_height are those of
\* the stored peak.
THEOREM MemoryCorrect == ASSUME ForkInfoTrusted PROVE Spec => []MemoryMatchesStore
<1>1. IInv => MemoryMatchesStore
  BY InvariantImplies
<1> QED BY <1>1, Invariance, PTL

\* Only blocks that are valid on their own chain are ever stored, with all of
\* their ancestors.
THEOREM StoredCorrect == ASSUME ForkInfoTrusted PROVE Spec => []StoredBlocksValid
<1>1. IInv => StoredBlocksValid
  BY DEF IInv
<1> QED BY <1>1, Invariance, PTL

\* validate_block_body(), which sees only the coin store of the main chain and
\* the coins of the fork, decides exactly as the block's own chain does.
THEOREM ValidationCorrect == ASSUME ForkInfoTrusted PROVE Spec => []BodyValidationExact
<1>1. IInv => BodyValidationExact
  BY InvariantImplies
<1> QED BY <1>1, Invariance, PTL

\* _reconsider_peak() never raises on a fork that has been validated.
THEOREM ReorgSafe == ASSUME ForkInfoTrusted PROVE Spec => []ReorgNeverRaises
<1>1. IInv => ReorgNeverRaises
  BY InvariantImplies
<1> QED BY <1>1, Invariance, PTL

\* The ForkInfo a caller holds describes exactly the blocks between its fork
\* height and its peak, also after the transaction of its last block failed.
THEOREM ForkInfoCorrect == ASSUME ForkInfoTrusted PROVE Spec => []ForkInfoExact
<1>1. IInv => ForkInfoExact
  BY InvariantImplies
<1> QED BY <1>1, Invariance, PTL

\* Only the commit of a transaction changes the database.
LEMMA DatabaseSteps ==
    ASSUME [Next]_vars
    PROVE  Commit \/ UNCHANGED database
BY DEF Next, vars, NewForkInfo, RunContainedBlock, SkipBlock, RefuseBlock, AlreadyHaveBlock,
       AddBlock, TransactionFails, UpdateMemory, Crash, LoadChainFromStore

\* What a commit does to the stored blocks and the peak
LEMMA CommitFacts ==
    ASSUME IInv, Commit
    PROVE  /\ adding.block \in Blocks \ full_blocks
           /\ ValidBlock(adding.block)
           /\ prev_hash[adding.block] \in full_blocks \cup {GENESIS_CHALLENGE}
           /\ full_blocks' = full_blocks \cup {adding.block}
           /\ current_peak' = IF adding.new_peak THEN adding.block ELSE current_peak
           /\ adding.new_peak <=>
                 \/ current_peak = GENESIS_CHALLENGE
                 \/ /\ height[adding.block] # 0
                    /\ \/ weight[adding.block] > weight[current_peak]
                       \/ /\ weight[adding.block] = weight[current_peak]
                          /\ total_iters[adding.block] < total_iters[current_peak]
<1>1. pc = "transaction"
  BY DEF Commit
<1>2. get_peak = current_peak
  BY <1>1, TransactionFacts
<1>3. adding.new_peak \in BOOLEAN /\ adding.new_peak = BetterThanPeak(adding.block)
  BY <1>1 DEF IInv, TypeOK, TxInv
<1>4. /\ adding.block \in Blocks \ full_blocks
      /\ ValidBlock(adding.block)
      /\ prev_hash[adding.block] \in full_blocks \cup {GENESIS_CHALLENGE}
  BY <1>1 DEF IInv, TxInv
<1>5. /\ full_blocks' = full_blocks \cup {adding.block}
      /\ current_peak' = IF adding.new_peak THEN adding.block ELSE current_peak
  BY DEF Commit, CommitDatabase, ReconsiderPeak
<1>6. adding.new_peak <=> BetterThanPeak(adding.block)
  BY <1>3
<1> QED BY <1>2, <1>4, <1>5, <1>6 DEF BetterThanPeak

\* No stored block is ever better than the stored peak.
THEOREM PeakCorrect == ASSUME ForkInfoTrusted PROVE Spec => []PeakIsBest
<1>1. Init => PeakIsBest
  BY DEF Init, PeakIsBest
<1>2. IInv /\ PeakIsBest /\ [Next]_vars => PeakIsBest'
  <2> SUFFICES ASSUME IInv, PeakIsBest, [Next]_vars PROVE PeakIsBest'
    OBVIOUS
  <2>1. CASE UNCHANGED database
    BY <2>1 DEF database, PeakIsBest
  <2>2. CASE Commit
    <3>1. /\ full_blocks \subseteq Blocks /\ current_peak \in Tips
          /\ GENESIS_CHALLENGE \notin Blocks
          /\ \A b \in Blocks : weight[b] \in Nat /\ total_iters[b] \in Nat
          /\ current_peak = GENESIS_CHALLENGE => full_blocks = {}
      BY TreeTyping DEF IInv, TypeOK, PeakStored
    <3> QED BY <2>2, <3>1, CommitFacts DEF PeakIsBest, Tips
  <2> QED BY <2>1, <2>2, DatabaseSteps
<1> QED BY <1>1, <1>2, Invariance, PTL DEF Spec

\* The record of the peak stays in the cache: with the invariant, inductive.
PeakCached ==
    /\ pc # "down" => get_peak \in block_records \cup {GENESIS_CHALLENGE}
    /\ pc = "update" => adding.block \in block_records

\* After a step that leaves the memory of the stored peak, get_peak() is it.
LEMMA GetPeakNow == IInv /\ pc \in {"idle", "transaction"} => get_peak = current_peak
BY GetPeak, StoredFacts DEF IInv, MemInv

LEMMA PeakCachedStep ==
    ASSUME IInv, IInv', PeakCached, [Next]_vars
    PROVE  PeakCached'
<1>1. (IInv /\ pc \in {"idle", "transaction"} => get_peak = current_peak)'
  BY GetPeakNow, PTL
<1>2. ASSUME UNCHANGED <<height_map, peak_height, pc, adding>>, block_records \subseteq block_records'
      PROVE  PeakCached'
  BY <1>2 DEF PeakCached, get_peak, HashAt
<1>3. ASSUME NEW s \in Callers, NEW p \in Tips, NewForkInfo(s, p) PROVE PeakCached'
  BY <1>2, <1>3 DEF NewForkInfo, memory
<1>4. ASSUME NEW s \in Callers, NEW b \in Blocks,
             RunContainedBlock(s, b) \/ SkipBlock(s, b) \/ RefuseBlock(s, b) \/ AlreadyHaveBlock(s, b)
      PROVE  PeakCached'
  BY <1>2, <1>4 DEF RunContainedBlock, SkipBlock, RefuseBlock, AlreadyHaveBlock, memory
<1>5. ASSUME NEW s \in Callers, NEW b \in Blocks, AddBlock(s, b) PROVE PeakCached'
  BY <1>5 DEF AddBlock, MayAdd, memory, PeakCached, get_peak, HashAt
<1>6. CASE Commit
  BY <1>6 DEF Commit, PeakCached, get_peak, HashAt
<1>7. CASE TransactionFails
  <2>1. /\ pc = "transaction" /\ pc' = "idle" /\ current_peak' = current_peak
        /\ block_records' = block_records \ {adding.block}
    BY <1>7 DEF TransactionFails, RestoreMemory, database
  <2>2. get_peak = current_peak /\ get_peak' = current_peak
    BY <1>1, <2>1, GetPeakNow
  <2>3. adding.block # current_peak
    BY <2>1, TreeTyping DEF IInv, TxInv, PeakStored
  <2> QED BY <2>1, <2>2, <2>3 DEF PeakCached
<1>8. CASE UpdateMemory
  <2>1. /\ pc = "update" /\ pc' = "idle" /\ current_peak' = current_peak
    BY <1>8 DEF UpdateMemory, database
  <2>2. get_peak' = current_peak
    BY <1>1, <2>1
  <2>3. CASE adding.new_peak
    <3>1. current_peak = adding.block /\ adding.block \in block_records /\ height[adding.block] \in Nat
      BY <2>1, <2>3, ParentChain, StoredFacts DEF PeakCached, IInv, MemInv
    <3>2. \/ block_records' = block_records
          \/ block_records' = CleanBlockRecords(block_records, height[adding.block])
      BY <1>8, <2>3 DEF UpdateMemory
    <3>3. adding.block \in block_records'
      BY <3>1, <3>2, CacheSizeAssumption DEF CleanBlockRecords, CleanBlockRecord
    <3> QED BY <2>1, <2>2, <3>1, <3>3 DEF PeakCached
  <2>4. CASE ~ adding.new_peak
    BY <1>8, <2>1, <2>4 DEF UpdateMemory, memory, PeakCached, get_peak, HashAt
  <2> QED BY <2>3, <2>4
<1>9. CASE Crash
  BY <1>9 DEF Crash, PeakCached
<1>10. CASE LoadChainFromStore
  <2>1. /\ pc' = "idle" /\ current_peak' = current_peak
        /\ block_records' = {r \in Anc[current_peak] : height[r] >= height[current_peak] - BLOCKS_CACHE_SIZE}
    BY <1>10 DEF LoadChainFromStore, database, IInv, MainChainMatchesPeak
  <2>2. get_peak' = current_peak
    BY <1>1, <2>1
  <2>3. current_peak \in Blocks => current_peak \in Anc[current_peak] /\ height[current_peak] \in Nat
    BY ParentChain
  <2> QED BY <2>1, <2>2, <2>3, StoredFacts, CacheSizeAssumption DEF PeakCached, Tips
<1>11. CASE UNCHANGED vars
  BY <1>2, <1>11 DEF vars, memory
<1> QED BY <1>3, <1>4, <1>5, <1>6, <1>7, <1>8, <1>9, <1>10, <1>11 DEF Next

\* A running node finds its peak, and every block of its height map, in the
\* database, and the record of the peak in the cache, whatever was trimmed.
THEOREM PeakFound == ASSUME ForkInfoTrusted PROVE Spec => []PeakIsAvailable
<1>1. Init => PeakCached
  BY DEF Init, PeakCached, get_peak
<1>2. IInv /\ IInv' /\ PeakCached /\ [Next]_vars => PeakCached'
  BY PeakCachedStep
<1>3. IInv /\ PeakCached => PeakIsAvailable
  BY DEF IInv, MemInv, PeakCached, PeakIsAvailable
<1> QED BY <1>1, <1>2, <1>3, Invariance, PTL DEF Spec

\* The coins a reader finds unspent are those of the peak's chain.
LEMMA UnspentExact == IInv => Unspent = Abstract!UnspentAt(current_peak)
<1> SUFFICES ASSUME IInv PROVE Unspent = Abstract!UnspentAt(current_peak)
  OBVIOUS
<1>1. current_peak \in Tips /\ ValidChain(current_peak)
  BY StoredFacts
<1>2. \A a \in Anc[current_peak] : height[a] \in Nat /\ a \in Blocks
  BY <1>1, AncBlocks
<1>3. \A c \in Coins : /\ confirmed_index[c] # NoRow
                            <=> \E a \in Anc[current_peak] : c \in Additions(a)
  BY <1>2 DEF IInv, CoinStoreMatchesPeak, CoinStoreOf, NoRow
<1>4. \A c \in Coins : spent_index[c] <= 0 <=> \A a \in Anc[current_peak] : c \notin removals[a]
  <2> SUFFICES ASSUME NEW c \in Coins
               PROVE  spent_index[c] <= 0 <=> \A a \in Anc[current_peak] : c \notin removals[a]
    OBVIOUS
  <2>1. ASSUME NEW a \in Anc[current_peak], c \in removals[a] PROVE spent_index[c] > 0
    <3>1. spent_index[c] = height[a]
      BY <2>1 DEF IInv, CoinStoreMatchesPeak, CoinStoreOf
    <3>2. height[a] # 0
      BY <2>1, <1>2, CoinCreation
    <3> QED BY <3>1, <3>2, <1>2
  <2>2. ASSUME \A a \in Anc[current_peak] : c \notin removals[a] PROVE spent_index[c] <= 0
    BY <2>2 DEF IInv, CoinStoreMatchesPeak, CoinStoreOf, UnspentIndex
  <2>3. spent_index[c] \in Int
    BY DEF IInv, TypeOK
  <2> QED BY <2>1, <2>2, <2>3
<1> QED BY <1>3, <1>4 DEF Unspent, Abstract!UnspentAt, Abstract!Additions, Additions

\* Blockchain implements ChainState: through its database a reader sees only
\* valid blocks being stored and the peak moving to the better one, together
\* with the unspent coins of that peak.
THEOREM Refinement == ASSUME ForkInfoTrusted PROVE Spec => ImplementsChainState
<1>1. Init => Abstract!Init
  BY DEF Init, Abstract!Init, Unspent, EmptyDict, NoRow
<1>2. ASSUME IInv, IInv', [Next]_vars
      PROVE  [Abstract!Next]_<<full_blocks, current_peak, Unspent>>
  <2>1. CASE UNCHANGED database
    BY <2>1 DEF database, Unspent
  <2>2. CASE Commit
    <3>1. Unspent' = Abstract!UnspentAt(current_peak')
      <4>1. (IInv => Unspent = Abstract!UnspentAt(current_peak))'
        BY UnspentExact, PTL
      <4> QED BY <1>2, <4>1
    <3>2. Abstract!ValidBlock(adding.block)
      BY <1>2, <2>2, CommitFacts DEF Abstract!ValidBlock, Abstract!SpendsValid, Abstract!Additions,
            Abstract!ProperAnc, ValidBlock, SpendsValid, Additions, ProperAnc
    <3>3. adding.new_peak <=> Abstract!Better(adding.block, current_peak)
      <4>1. height[adding.block] # 0 <=> prev_hash[adding.block] # GENESIS_CHALLENGE
        BY <1>2, <2>2, CommitFacts, ParentChain, HeightsAndWeights, TreeTyping DEF Tips
      <4> QED BY <1>2, <2>2, <4>1, CommitFacts DEF Abstract!Better
    <3>4. current_peak' = IF Abstract!Better(adding.block, current_peak) THEN adding.block ELSE current_peak
      BY <1>2, <2>2, <3>3, CommitFacts
    <3>5. Abstract!StoreBlock(adding.block)
      BY <1>2, <2>2, <3>1, <3>2, <3>4, CommitFacts DEF Abstract!StoreBlock
    <3> QED BY <1>2, <2>2, <3>5, CommitFacts DEF Abstract!Next
  <2> QED BY <1>2, <2>1, <2>2, DatabaseSteps
<1> QED BY <1>1, <1>2, Invariance, PTL DEF Spec, ImplementsChainState, Abstract!Spec
==============================================================================
