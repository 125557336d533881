SPECIFICATION ClientFairSpec
CONSTANTS
    Jobs = {j1}
    Ambiguous = {}
    MaxParts = 1
    Workers = {w1}
    Passes = {p1, p2}
    Clients = {c1}
    None = None
    Outcomes = {"Completed"}
    MaxCrashes = 1
    MaxDeaths = 1
    MaxLosses = 1
    MaxSuspicions = 1
    MaxDbErrors = 0
CHECK_DEADLOCK FALSE
PROPERTY QueuedIsReported
PROPERTY WatchEnds
