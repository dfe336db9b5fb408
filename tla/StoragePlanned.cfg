SPECIFICATION Spec
CONSTANTS
    p1 = p1
    p2 = p2
    p3 = p3
    f1 = f1
    f2 = f2
    Peers = {p1, p2, p3}
    Cids = {f1, f2}
    Before <- HashOrder
    Seniority <- FirstSeen
    Replicas = 1
    MaxPaidNodes = 2
    LegacyFactor = 500
    Workers = {1}
    Asking = {p1}
    MaxChallenges = 1
    MaxRounds = 4
    Faults = {"cut"}
PROPERTIES
    OnlyItsFilesMove
CHECK_DEADLOCK FALSE
