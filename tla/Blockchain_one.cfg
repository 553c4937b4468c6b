\* One caller at a time: the code as it is, with crashes and failures.
CONSTANTS
    Blocks <- AllBlocks
    GENESIS_CHALLENGE <- GEN
    prev_hash <- MCprev
    height <- MCheight
    weight <- MCweight
    total_iters <- MCiters
    Anc <- MCAnc
    Malformed <- MCMalformed
    Coins <- MCCoins
    coin_parent <- MCparent
    SameAsParent <- MCSameAsParent
    tx_additions <- MCadditions
    reward_coins <- MCrewards
    removals <- MCremovals
    Callers = {s1}
    BLOCKS_CACHE_SIZE = 1
    CallersRecheckFork = FALSE
SPECIFICATION Spec
INVARIANTS
    TypeOK
    CoinStoreMatchesPeak
    MainChainMatchesPeak
    MemoryMatchesStore
    PeakIsAvailable
    StoredBlocksValid
    PeakIsBest
    BodyValidationExact
    ReorgNeverRaises
    ForkInfoExact
PROPERTIES
    ImplementsChainState
