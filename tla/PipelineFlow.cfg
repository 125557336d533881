SPECIFICATION Spec
CONSTANTS
    n1 = n1
    n2 = n2
    n3 = n3
    ghost = ghost
    NodeSeq <- MCNodeSeq
    Ids = {n1, n2, n3, ghost}
    Kinds = {"Read", "Map", "Join", "ReduceByKey", "ShuffleByKey"}
    MaxEdges = 3
    Partitions = 2
    Partition = 1
    MaxBuckets = 2
    Missing = Missing
    NoFile = NoFile
CHECK_DEADLOCK FALSE
INVARIANT EachNodeOnce
INVARIANT TopologicalOrder
INVARIANT DataflowExact
INVARIANT CollisionFails
INVARIANT ReportedFileWritten
