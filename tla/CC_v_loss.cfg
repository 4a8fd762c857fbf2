SPECIFICATION Spec
CONSTANTS
    N = 1
    QueueCap = 3
    MaxPos = 1
    MaxEpoch = 1
    MaxFaults = 1
    Deployments <- LossDeployments
INVARIANT NoLoss
