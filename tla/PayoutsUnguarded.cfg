SPECIFICATION Spec
CONSTANTS
    p1 = p1
    p2 = p2
    n1 = n1
    n2 = n2
    n3 = n3
    n4 = n4
    a1 = a1
    a2 = a2
    a3 = a3
    Pools = {p1}
    Nodes = {n1}
    AddressOf <- Apart
    Invalid = {}
    Weightings <- Single
    Balances <- Plenty
    Percent = 0
    FixedSpend = 15
    FeeBase = 2
    FeePerOutput = 1
    Dust = 2
    Period = 2
    Automatic = {p1}
    Unreachable = {}
    Faults = {"guard", "record"}
    MaxTime = 4
    MaxBatches = 3
    MaxRows = 9
INVARIANT OncePerPeriod
CHECK_DEADLOCK FALSE
