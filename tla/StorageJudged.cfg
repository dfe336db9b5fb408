SPECIFICATION FairSpec
CONSTANTS
    p1 = p1
    p2 = p2
    p3 = p3
    f1 = f1
    f2 = f2
    Peers = {p1}
    Cids = {f1, f2}
    Before <- HashOrder
    Seniority <- FirstSeen
    Replicas = 1
    MaxPaidNodes = 1
    LegacyFactor = 500
    Workers = {1, 2}
    Asking = {p1}
    MaxChallenges = 3
    MaxRounds = 0
    Faults = {"lost", "lostproof", "unreadable", "restart"}
INVARIANTS
    FoldedOnce
PROPERTIES
    OnlyForTheLost
    EveryChallengeClosed
CHECK_DEADLOCK FALSE
