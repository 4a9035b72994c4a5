SPECIFICATION FairSpec
CONSTANTS
    w1 = w1
    ip1 = ip1
    ip2 = ip2
    lo = lo
    l1 = l1
    l2 = l2
    l3 = l3
    NoIP = NoIP
    NoLease = NoLease
    NoKey = NoKey
    Worker = {w1}
    IP = {lo, ip1, ip2}
    Interfaces <- Single
    Lease = {l1, l2, l3}
    MaxRenewals = 2
    MaxFaults = 1
PROPERTIES AliveListed
CHECK_DEADLOCK FALSE
