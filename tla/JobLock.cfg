SPECIFICATION Spec
CONSTANTS
    w1 = w1
    w2 = w2
    w3 = w3
    j1 = j1
    NoLease = NoLease
    Worker = {w1, w2, w3}
    Job = {j1}
    Tick = {1}
    Unstable = {w3}
    Crashable = {w3}
    Forking = {}
SYMMETRY Symmetry
INVARIANTS TypeOK LockInvariant OverlapOnlyAfterLapse ReliableExclusion
PROPERTIES LockOutlivesShell NeverBlockedByOwnRun LockSpec
CHECK_DEADLOCK FALSE
