\* The summaries after a restart.
CONSTANTS
    Blocks <- RisingBlocks
    GENESIS_CHALLENGE <- GEN
    prev_hash <- RisingPrev
    height <- MCheight
    weight <- RisingWeight
    total_iters <- MCiters
    Anc <- MCAnc
    Malformed = {}
    Coins = {}
    coin_parent <- NoParents
    SameAsParent = {}
    tx_additions <- NoCoins
    reward_coins <- NoCoins
    removals <- NoCoins
    SubEpochBlocks <- RisingSubEpochs
    Zeros = "zeros"
    Missing = Missing
    FLUSH_AFTER = 2
SPECIFICATION Spec
INVARIANT
    SummariesInSync
