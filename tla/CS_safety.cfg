SPECIFICATION Spec
CONSTANTS
    MaxId = 3
    MaxVer = 4
    MaxCrashes = 2
    MaxFaults = 1
    Deployments <- SafeDeployments
INVARIANT OneSnapshot
INVARIANT LatestKept
PROPERTY AckedSurvives
PROPERTY DamageCostsOne
