SPECIFICATION FairSpec
CONSTANTS
    N = 2
    ChanCap = 1
    MaxPos = 1
    MaxId = 1
    MaxTimeouts = 0
    MaxCycleErrors = 0
    MaxRequests = 1
    MayShutdown = TRUE
PROPERTY AlignmentEnds
 
PROPERTY ShutdownReturns
CHECK_DEADLOCK FALSE
