SPECIFICATION ClientSpec
CONSTANTS
    Jobs = {j1}
    Ambiguous = {j1}
    MaxParts = 2
    Workers = {w1}
    Passes = {p1, p2}
    Clients = {c1}
    None = None
    Outcomes = {"Completed"}
    MaxCrashes = 1
    MaxDeaths = 0
    MaxLosses = 0
    MaxSuspicions = 0
    MaxDbErrors = 0
SYMMETRY Symmetry
INVARIANT SucceededHasResults
INVARIANT StatusDurable
INVARIANT AcknowledgedSurvives
INVARIANT OutputsStay
INVARIANT CountedOnce
PROPERTY SucceededIsFinal
