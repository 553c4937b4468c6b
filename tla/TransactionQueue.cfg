CONSTANTS
    p1 = p1
    p2 = p2
    p3 = p3
    cheap = cheap
    unknown = unknown
    Peers <- MCPeers
    Entries <- MCEntries
    spend_name <- MCName
    advertised_fee <- MCFee
    advertised_cost <- MCCost
    max_tx_clvm_cost = 2
    peer_size_limit = 2
    cleanup_period = 2
    max_handlers = 1
    HighBound = 1
    QueuedBound = 3
    Watched <- MCWatched
SPECIFICATION Spec
INVARIANTS
    TypeOK
    QueueLengthExact
    BacklogReachable
    DeficitBounded
    CostFairness
PROPERTIES
    SelectionEnds
    PeerServed
