CONSTANTS
    t1 = t1
    t2 = t2
    Threads = {t1, t2}
    First = t1
    Cap = 4
    Quota <- Pushes
    Deployments <- Owned
    NoItem = NoItem
    NoThread = NoThread

SPECIFICATION LiveSpec

INVARIANTS
    ExclusiveSlot
    AcceptedKept
    DisconnectIsFinal

PROPERTIES
    ImplementsFifo
    PushReturns
    Delivered
    RecvReturns
