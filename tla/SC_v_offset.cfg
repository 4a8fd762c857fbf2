SPECIFICATION Spec
CONSTANTS
    N = 1
    ChanCap = 2
    MaxPos = 2
    MaxId = 1
    MaxTimeouts = 0
    MaxCycleErrors = 0
    MaxRequests = 0
    MayShutdown = FALSE
INVARIANT OffsetIsCut
