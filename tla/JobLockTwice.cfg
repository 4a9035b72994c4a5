SPECIFICATION Spec
CONSTANTS
    w1 = w1
    w2 = w2
    j1 = j1
    NoLease = NoLease
    Worker = {w1, w2}
    Job = {j1}
    Tick = {1}
    Unstable = {}
    Crashable = {}
    Forking = {}
INVARIANTS OncePerTick
CHECK_DEADLOCK FALSE
