\* One caller, which may be cancelled while its RELEASE runs.
CONSTANTS
    Blocks <- ThreeBranches
    GENESIS_CHALLENGE <- GEN
    prev_hash <- MCprev
    height <- MCheight
    weight <- MCweight
    total_iters <- MCiters
    Anc <- MCAnc
    Malformed <- MCMalformed
    Coins <- MCCoins
    coin_parent <- MCparent
    SameAsParent <- MCSameAsParent
    tx_additions <- MCadditions
    reward_coins <- MCrewards
    removals <- MCremovals
    Callers = {s1}
    BLOCKS_CACHE_SIZE = 1
    CallersRecheckFork = FALSE
SPECIFICATION SpecWithCancel
INVARIANT
    MemoryMatchesStore
