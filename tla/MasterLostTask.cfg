SPECIFICATION FairSpec
CONSTANTS
    Jobs = {j1}
    Ambiguous = {}
    MaxParts = 1
    Workers = {w1, w2}
    Passes = {p1}
    None = None
    Outcomes = {"Completed", "Failed"}
    MaxCrashes = 0
    MaxDeaths = 1
    MaxLosses = 0
    MaxSuspicions = 0
    MaxDbErrors = 0
PROPERTY LostTaskIsRescheduled
