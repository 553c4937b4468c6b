CONSTANTS
    Tasks = {t1, t2, t3, t4}
    Priorities <- BlockchainMutexPriority
    NoTask = NoTask
SPECIFICATION Spec
INVARIANTS
    TypeOK
    MutualExclusion
    NoLostWakeup
PROPERTIES
    HandedToFirst
    BestPriorityServed
