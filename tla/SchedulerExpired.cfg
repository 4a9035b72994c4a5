SPECIFICATION Spec
CONSTANTS
    j1 = j1
    BadExpr = BadExpr
    NoJob = NoJob
    Job = {j1}
    Expr <- Expiring
    MaxTime = 3
    EventCap = 2
    ResultCap = 1
PROPERTIES StartsOnMatch
