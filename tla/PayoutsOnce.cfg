SPECIFICATION Spec
CONSTANTS
    p1 = p1
    p2 = p2
    n1 = n1
    n2 = n2
    n3 = n3
    n4 = n4
    a1 = a1
    a2 = a2
    a3 = a3
    Pools = {p1}
    Nodes = {n1, n2, n3, n4}
    AddressOf <- Shared
    Invalid = {a3}
    Weightings <- Uneven
    Balances <- Funds
    Percent = 0
    FixedSpend = 15
    FeeBase = 2
    FeePerOutput = 1
    Dust = 2
    Period = 2
    Automatic = {p1}
    Unreachable = {}
    Faults = {"read", "guard", "record", "abort"}
    MaxTime = 3
    MaxBatches = 2
    MaxRows = 4
INVARIANTS
    OncePerGuardedPeriod
    LedgerSound
    Affordable
    SpendUnlocked
CHECK_DEADLOCK FALSE
