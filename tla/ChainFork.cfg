SPECIFICATION FairSpec
CONSTANTS
    a = a
    b = b
    Branch = {a, b}
    Trunk = a
    MaxHeight = 6
    DDHeight = 3
    EpochLength = 2
    AssetHeight = 1
    StoreNonAsset = TRUE
    BatchSize = 2
    BulkGap = 1
    CheckEvery = 2
    PruneAge = 2
    PruneInterval = 2
    PruneTables = {"exchange", "utxo", "vote"}
    RateLeniency = 0
    TrackChoices = {TRUE}
    SilentHeights = {}
    ShorterReorgs = FALSE
    MaxReorgDepth = 3
    MaxReorgs = 2
    MaxFaults = 0
    MaxClearFails = 0
    MaxStops = 0
INVARIANTS
    OnePath
    SummaryKept
PROPERTIES
    ImplementsChainIndex
    RewindStaysAbovePruned
    EventuallyIndexed
