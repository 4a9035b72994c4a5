SPECIFICATION FairNodeSpec
CONSTANTS
    j1 = j1
    BadExpr = BadExpr
    NoJob = NoJob
    Garbage = Garbage
    Job = {j1}
    Val <- EverySecond
    MaxTime = 3
    EventCap = 2
    ResultCap = 1
    MaxRev = 2
    Forking <- FirstForks
INVARIANTS PlanIsStored KillActsOnce
PROPERTIES StartsOnMatch KillEndsRun DueHandled
