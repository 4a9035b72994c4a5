SPECIFICATION FairSpec
CONSTANTS
    j1 = j1
    l1 = l1
    l2 = l2
    l3 = l3
    NaN = NaN
    NoJob = NoJob
    Garbage = Garbage
    None = None
    MaxReq = 2
    Job = {j1}
    Log = {l1, l2, l3}
    JobOf <- Owners
    StartTime <- Starts
    Decodes <- Decodable
    Asked <- Requests
    Param <- Params
    FirstBatch = 1
    MaxForeign = 1
INVARIANTS TypeOK AtMostOnce PagesCover
PROPERTIES Linearizable Answered
CHECK_DEADLOCK FALSE
