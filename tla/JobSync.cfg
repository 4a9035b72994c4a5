SPECIFICATION FairSpec
CONSTANTS
    j1 = j1
    j2 = j2
    v1 = v1
    Garbage = Garbage
    NoJob = NoJob
    Job = {j1, j2}
    Val = {v1}
    MaxRev = 3
    EventCap = 2
INVARIANTS TypeOK Replica InOrder
PROPERTIES JobsArrive KillsArrive
