SPECIFICATION Spec
CONSTANTS
    a = a
    b = b
    Branch = {a, b}
    Trunk = a
    MaxHeight = 6
    DDHeight = 3
    EpochLength = 2
    AssetHeight = 3
    StoreNonAsset = FALSE
    BatchSize = 2
    BulkGap = 1
    CheckEvery = 2
    PruneAge = 1
    PruneInterval = 2
    PruneTables = {"exchange", "utxo", "vote"}
    RateLeniency = 0
    TrackChoices = {FALSE, TRUE}
    SilentHeights = {4}
    ShorterReorgs = TRUE
    MaxReorgDepth = 3
    MaxReorgs = 1
    MaxFaults = 1
    MaxClearFails = 1
    MaxStops = 1
INVARIANTS
    TypeOK
    NoGap
    OracleComplete
