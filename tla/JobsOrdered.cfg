SPECIFICATION FairSpec
CONSTANTS
    w1 = w1
    w2 = w2
    Worker = {w1, w2}
    Backlog <- MixedBacklog
    Kinds <- DomainsAndWaits
    MaxJobs = 4
    RetryDelay = 1
    DownloadTimeout = 2
    MaxTimeouts = 1
    MaxThrows = 1
    MaxBusy = 1
    MaxRestarts = 1
INVARIANTS
    InOrder
    Exclusive
    CallbackRuns
PROPERTIES
    Drained
