------------------------------ MODULE BlockTree ------------------------------
(***************************************************************************)
(* The data every chain component talks about: a finite tree of blocks,    *)
(* and the coins those blocks create and spend.                            *)
(*                                                                         *)
(* A block is identified with its header hash.  Hashes commit to the whole *)
(* ancestry of a block, so the tree never changes while the node runs; what*)
(* changes is which of its blocks the node has stored and which one is the *)
(* peak.  The tree is therefore a constant, and the state machines over it *)
(* are in the modules that extend this one.                                *)
(*                                                                         *)
(* A coin is identified with its coin id, the hash of (parent coin id,     *)
(* puzzle hash, amount).  Hence "has the same puzzle hash and amount as its*)
(* parent" is a property of the coin alone (SameAsParent).  A block that is*)
(* not a transaction block creates and spends nothing.                     *)
(*                                                                         *)
(* Each property of the tree that the code establishes without the coin    *)
(* store (header validation, reward claims, context-free rules of the body)*)
(* is either an assumption below or, for blocks that break such a rule,    *)
(* membership in Malformed.                                                *)
(***************************************************************************)
EXTENDS Integers

CONSTANTS
    Blocks,             \* header hashes
    GENESIS_CHALLENGE,  \* the prev_hash of a block at height 0
    prev_hash,          \* Blocks -> Blocks \cup {GENESIS_CHALLENGE}
    height,             \* header height; -1 for GENESIS_CHALLENGE
    weight,             \* accumulated difficulty
    total_iters,        \* accumulated VDF iterations
    Anc,                \* the chain that ends in a block, the block included
    Malformed           \* blocks that break a rule that needs no coin record

CONSTANTS
    Coins,              \* coin ids
    coin_parent,        \* parent_coin_info: the coin whose spend creates a coin
    SameAsParent,       \* coins with the puzzle hash and amount of their parent
    tx_additions,       \* coins the spends of a block create
    reward_coins,       \* reward coins a block incorporates
    removals            \* coins a block spends

Tips == Blocks \cup {GENESIS_CHALLENGE}

\* Every coin a block creates.
Additions(b) == tx_additions[b] \cup reward_coins[b]

ProperAnc(b) == Anc[b] \ {b}

ASSUME TreeTyping ==
    /\ GENESIS_CHALLENGE \notin Blocks
    /\ prev_hash \in [Blocks -> Tips]
    /\ height \in [Tips -> Int]
    /\ weight \in [Blocks -> Nat]
    /\ total_iters \in [Blocks -> Nat]
    /\ Anc \in [Tips -> SUBSET Blocks]
    /\ Malformed \subseteq Blocks

ASSUME CoinTyping ==
    /\ coin_parent \in [SameAsParent -> Coins]
    /\ SameAsParent \subseteq Coins
    /\ tx_additions \in [Blocks -> SUBSET Coins]
    /\ reward_coins \in [Blocks -> SUBSET Coins]
    /\ removals \in [Blocks -> SUBSET Coins]

\* Heights count blocks from the genesis block, and weight grows with every
\* block because difficulty is positive.
ASSUME HeightsAndWeights ==
    /\ height[GENESIS_CHALLENGE] = -1
    /\ \A b \in Blocks : /\ height[b] \in Nat
                         /\ height[b] = height[prev_hash[b]] + 1
                         /\ prev_hash[b] # GENESIS_CHALLENGE
                               => weight[prev_hash[b]] < weight[b]

\* Anc[b] is the path from b down to its genesis block: prev_hash leads out
\* of it only at the genesis block, and it has one block per height.
ASSUME AncestryIsAChain ==
    /\ Anc[GENESIS_CHALLENGE] = {}
    /\ \A b \in Blocks :
         /\ Anc[b] = {b} \cup Anc[prev_hash[b]]
         /\ \A a \in Anc[b] : Anc[a] \subseteq Anc[b] /\ height[a] <= height[b]
         /\ \A a1, a2 \in Anc[b] : height[a1] = height[a2] => a1 = a2
         /\ \A h \in 0..height[b] : \E a \in Anc[b] : height[a] = h

\* A coin is created by a spend of its parent in the same block, or it is a
\* reward.  The parent of a reward coin is derived from the height of the
\* block it rewards, so it is never a coin and no chain claims it twice.
ASSUME CoinCreation ==
    /\ \A b \in Blocks, c \in SameAsParent :
         c \in tx_additions[b] => coin_parent[c] \in removals[b]
    /\ \A a, b \in Blocks : reward_coins[a] \cap tx_additions[b] = {}
    /\ \A b \in Blocks : reward_coins[b] \cap SameAsParent = {}
    /\ \A b \in Blocks : height[b] = 0 => removals[b] = {}

(***************************************************************************)
(* What it means for a block to be valid, said without fork points, coin   *)
(* stores or caches: along the block's own chain, every coin it spends has *)
(* been created and none has been spent before.  This is the reference the *)
(* incremental, fork-aware validation of the code is compared with.        *)
(***************************************************************************)
SpendsValid(b) ==
    \A c \in removals[b] :
        /\ \E a \in Anc[b] : c \in Additions(a)
        /\ \A a \in ProperAnc(b) : c \notin removals[a]

ValidBlock(b) == b \notin Malformed /\ SpendsValid(b)

\* Coin ids are hashes that commit to the parent coin.  If a block creates a
\* coin its chain has created before, then following parents inside the block
\* ends in a coin the block takes from its chain and that the chain has spent
\* before.  So a block that extends a valid chain and takes no spent coin from
\* it creates only new coins.
ASSUME CoinIdsCommitToParents ==
    \A b \in Blocks :
        ( /\ \A a \in ProperAnc(b) : SpendsValid(a)
          /\ \A c \in removals[b] \ Additions(b) :
                \A a \in ProperAnc(b) : c \notin removals[a] )
        => \A a \in ProperAnc(b) : Additions(a) \cap Additions(b) = {}
==============================================================================
