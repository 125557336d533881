SPECIFICATION Spec
CONSTANTS
    Jobs = {j1}
    Ambiguous = {j1}
    MaxParts = 1
    Workers = {w1, w2}
    Passes = {p1, p2}
    None = None
    Outcomes = {"Completed", "Failed"}
    MaxCrashes = 1
    MaxDeaths = 1
    MaxLosses = 1
    MaxSuspicions = 1
    MaxDbErrors = 1
SYMMETRY Symmetry
CHECK_DEADLOCK FALSE
INVARIANT NoTaskStranded
INVARIANT NothingForgotten
INVARIANT RowsConsistent
PROPERTY ResultsKept
PROPERTY TableSpec
