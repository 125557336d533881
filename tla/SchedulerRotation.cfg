SPECIFICATION Spec
CONSTANTS
    Workers = {w1, w2, w3}
    None = None
    NoPick = NoPick
    Metrics <- MCMetrics
    Interval = 1
    Delay = 1
SYMMETRY Symmetry
INVARIANT QueueSound
INVARIANT SelectContract
INVARIANT FairRotation
INVARIANT DetectionBound
INVARIANT NoFalseSuspicion
INVARIANT AdvertisedAddressUsed
