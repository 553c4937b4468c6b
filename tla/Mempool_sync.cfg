CONSTANTS
    Blocks <- MCBlocks
    GENESIS_CHALLENGE <- GEN
    prev_hash <- MCprev
    height <- MCheight
    weight <- MCweight
    total_iters <- MCiters
    Anc <- MCAnc
    Malformed <- MCMalformed
    Coins <- MCCoins
    coin_parent <- MCparent
    SameAsParent <- MCSameAsParent
    tx_additions <- MCadditions
    reward_coins <- MCrewards
    removals <- MCremovals
    TxBlocks <- MCTxBlocks
    singleton <- MCsingleton
    amount <- MCamount
    Txs <- MCTxs
    coin_spends <- MCspends
    fee <- MCfee
    cost <- MCcost
    assert_height <- MCassert_height
    assert_before_height <- MCbefore
    ff <- MCff
    NoCoin = NoCoin
    NoHeight = 99
    max_size_in_cost = 3
    max_block_clvm_cost = 2
    expires_soon = 3
    nonzero_fee_minimum_fpc = 1
    MEMPOOL_MIN_FEE_INCREASE = 1
    MEMPOOL_ITEM_FEE_LIMIT = 10
    SQLITE_INT_MAX = 9
    SPEND_PENALTY_COST = 1
    cache_max_total_cost = 2
    cache_max_size = 1
    seen_cache_size = 1
    Handlers = {h1}
    OneBlockSyncs = TRUE
SPECIFICATION Spec
INVARIANT ItemsFitPeak
CHECK_DEADLOCK FALSE
