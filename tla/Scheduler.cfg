SPECIFICATION Spec
CONSTANTS
    j1 = j1
    j2 = j2
    BadExpr = BadExpr
    NoJob = NoJob
    Job = {j1, j2}
    Expr <- Recurring
    MaxTime = 3
    EventCap = 2
    ResultCap = 2
SYMMETRY Symmetry
INVARIANTS TypeOK SingleFlight NoOversleep PlanFollowsEtcd
PROPERTIES TickAccounted
