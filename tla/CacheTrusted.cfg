SPECIFICATION FairSpec
CONSTANTS
    holdings = holdings
    listassets = listassets
    stats = stats
    a1 = a1
    a2 = a2
    Keys = {holdings, listassets, stats}
    Threads = {1, 2}
    Addresses = {a1, a2}
    Watches <- Watching
    OnNewAsset = {listassets}
    GoodFor <- Lifetime
    Sizes <- SomeSizes
    EntryOverhead = 1
    MaxCacheSize = 4
    MaxTxs = 1
    MaxUndone = 1
INVARIANTS
    Accounted
    FreshWhileQuiet
PROPERTIES
    EveryAnswerExpires
CHECK_DEADLOCK FALSE
