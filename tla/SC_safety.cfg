SPECIFICATION Spec
CONSTANTS
    N = 2
    ChanCap = 3
    MaxPos = 3
    MaxId = 2
    MaxTimeouts = 1
    MaxCycleErrors = 1
    MaxRequests = 0
    MayShutdown = FALSE
CONSTRAINT Within
INVARIANT TypeOK
INVARIANT InOrder
INVARIANT PreBarrierIncluded
INVARIANT SameCycleExact
INVARIANT OffsetCoversState
INVARIANT FreshCut
PROPERTY IdsAdvance
