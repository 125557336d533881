SPECIFICATION FairSpec
CONSTANTS
    Jobs = {j1}
    Ambiguous = {}
    MaxParts = 2
    Workers = {w1}
    Passes = {p1}
    None = None
    Outcomes = {"Completed", "Failed"}
    MaxCrashes = 0
    MaxDeaths = 0
    MaxLosses = 0
    MaxSuspicions = 0
    MaxDbErrors = 0
PROPERTY JobTerminates
