SPECIFICATION FilesSpec
CONSTANTS
    r1 = r1
    r2 = r2
    r3 = r3
    Requests = {r1, r2, r3}
    Tasks = {0, 1}
    TaskOf <- MCTaskOf
    None = None
    NoFile = NoFile
    MaxParallel = 2
    RetryLimit = 1
    Jobs <- MCJobs
    MaxDrops = 1
CHECK_DEADLOCK FALSE
INVARIANT InFlightExact
INVARIANT ParallelBound
INVARIANT RetriesExhausted
INVARIANT CurrentTaskReal
INVARIANT AloneExact
INVARIANT OtherPartitionsUntouched
INVARIANT SpillReclaimed
PROPERTY EveryRequestReported
