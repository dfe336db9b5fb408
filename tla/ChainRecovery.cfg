SPECIFICATION FairSpec
CONSTANTS
    a = a
    b = b
    Branch = {a, b}
    Trunk = a
    MaxHeight = 5
    DDHeight = 3
    EpochLength = 2
    AssetHeight = 1
    StoreNonAsset = TRUE
    BatchSize = 2
    BulkGap = 1
    CheckEvery = 2
    PruneAge <- NoPruning
    PruneInterval = 2
    PruneTables = {"exchange", "utxo", "vote"}
    RateLeniency = 0
    TrackChoices = {FALSE, TRUE}
    SilentHeights = {}
    ShorterReorgs = FALSE
    MaxReorgDepth = 2
    MaxReorgs = 0
    MaxFaults = 1
    MaxClearFails = 0
    MaxStops = 2
INVARIANTS
    NothingLeftOpen
    AssetRowsDurable
    MarkerRecorded
PROPERTIES
    EventuallyIndexed
