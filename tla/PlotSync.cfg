CONSTANTS
    Plots <- MCPlots
    batch_size = 1
    MaxClock = 2
    MaxInbox = 2
    MaxChanges = 1
    MaxCloses = 1
SPECIFICATION Spec
INVARIANTS
    TypeOK
    FarmerInSync
    DeltaIsPrefix
PROPERTIES
    FinalizedIsApplied
    SyncEnds
CHECK_DEADLOCK FALSE
