SPECIFICATION Spec
CONSTANTS
    NumeralOf <- MCNumeralOf
    DecimalOf <- MCDecimalOf
    LowerOf <- MCLowerOf
    Jobs <- MCJobs
    Totals = {1, 2, 3}
    Hashes <- MCHashes
CHECK_DEADLOCK FALSE
INVARIANT PartitionTransparent
INVARIANT ReduceMatchesReference
INVARIANT JoinMatchesReference
INVARIANT KeysColocated
