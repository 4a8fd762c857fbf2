SPECIFICATION Spec
CONSTANTS
    N = 2
    QueueCap = 3
    MaxPos = 3
    MaxEpoch = 2
    MaxFaults = 3
    Deployments <- SafeDeployments
INVARIANT TypeOK
INVARIANT AtMostOnce
INVARIANT ManifestFirst
INVARIANT NoHoles
INVARIANT SuccessCovers
INVARIANT CommittedIsVisible
 
