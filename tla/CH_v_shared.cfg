CONSTANTS
    t1 = t1
    t2 = t2
    Threads = {t1, t2}
    First = t1
    Cap = 4
    Quota <- Pushes
    Deployments <- Shared
    NoItem = NoItem
    NoThread = NoThread

SPECIFICATION Spec

INVARIANTS AcceptedKept
