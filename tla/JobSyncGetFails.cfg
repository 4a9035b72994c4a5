SPECIFICATION FairSpec
CONSTANTS
    j1 = j1
    v1 = v1
    Garbage = Garbage
    NoJob = NoJob
    Job = {j1}
    Val = {v1}
    MaxRev = 2
    EventCap = 2
PROPERTIES EveryWorkerSyncs
