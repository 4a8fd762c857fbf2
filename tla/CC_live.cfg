SPECIFICATION FairSpec
CONSTANTS
    N = 2
    QueueCap = 2
    MaxPos = 1
    MaxEpoch = 2
    MaxFaults = 2
    Deployments <- LiveDeployments
PROPERTY CheckpointEnds
PROPERTY EpochsCommit
