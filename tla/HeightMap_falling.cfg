\* A reorganisation that lowers the peak, and one back.
CONSTANTS
    Blocks <- FallingBlocks
    GENESIS_CHALLENGE <- GEN
    prev_hash <- FallingPrev
    height <- MCheight
    weight <- FallingWeight
    total_iters <- MCiters
    Anc <- MCAnc
    Malformed = {}
    Coins = {}
    coin_parent <- NoParents
    SameAsParent = {}
    tx_additions <- NoCoins
    reward_coins <- NoCoins
    removals <- NoCoins
    SubEpochBlocks <- FallingSubEpochs
    Zeros = "zeros"
    Missing = Missing
    FLUSH_AFTER = 2
SPECIFICATION Spec
INVARIANTS
    HeightToHashInSync
