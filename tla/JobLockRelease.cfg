SPECIFICATION FairSpec
CONSTANTS
    w1 = w1
    j1 = j1
    NoLease = NoLease
    Worker = {w1}
    Job = {j1}
    Tick = {1, 2}
    Unstable = {w1}
    Crashable = {w1}
    Forking = {}
PROPERTIES LockReleased NeverBlockedByOwnRun
CHECK_DEADLOCK FALSE
