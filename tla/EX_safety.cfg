SPECIFICATION Spec
CONSTANTS
    MinTs <- MCMinTs
    MaxTs <- MCMaxTs
    Deployments <- MCDeployments
    MaxBatch = 2
 
INVARIANT RowsCountedOnce
INVARIANT PairsOnce
INVARIANT WindowOnce
INVARIANT OnlyClosedEmitted
INVARIANT SessionsExact
INVARIANT AcceptedAreOpen
PROPERTY WatermarkAdvances
CHECK_DEADLOCK FALSE
