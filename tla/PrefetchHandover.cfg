SPECIFICATION FairSpec
CONSTANTS
    a = a
    b = b
    Branch = {a, b}
    Trunk = a
    StartHeight = 5
    MaxHeight = 7
    MaxDepth = 2
    BulkGap = 2
    CheckEvery = 2
    MaxReorgDepth = 4
    MaxReorgs = 2
    MaxFaults = 1
INVARIANTS
    TypeOK
    Lockstep
    FrontierSafe
PROPERTIES
    ImplementsChainIndex
    EveryTakeReturns
    ShutdownJoins
    EventuallyIndexed
CHECK_DEADLOCK FALSE
