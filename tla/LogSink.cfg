SPECIFICATION FairSpec
CONSTANTS
    MaxLogs = 6
    ChanCap = 2
    BatchSize = 2
INVARIANTS TypeOK Accounted InOrder CommitUnderway
PROPERTIES TableSpec LogSettled
CHECK_DEADLOCK FALSE
