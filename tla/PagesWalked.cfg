SPECIFICATION FairSpec
CONSTANTS
    mint = mint
    mirror = mirror
    n1 = n1
    c0 = c0
    c1 = c1
    c2 = c2
    c3 = c3
    c4 = c4
    c5 = c5
    Cids = {c0, c1, c2, c3, c4, c5}
    Adders = {mint}
    Clients = {n1}
    Batches <- SomeBatches
    Removals = {{c1}, {c3}}
    Imported <- Snapshot
    ImportedDone <- SnapshotDone
    PinFails = {}
    Faults = {"mark"}
    StartPage = 1
    PageCap = 2
    MaxPage = 4
    MaxRestarts = 1
INVARIANTS
    NothingBehind
PROPERTIES
    PinnedInTheEnd
CHECK_DEADLOCK FALSE
