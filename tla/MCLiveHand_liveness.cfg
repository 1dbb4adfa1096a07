SPECIFICATION FairSpec
CONSTANTS
    Proc = {p1}
    Thread = {t1, t2}
    Requests <- LongHand
    MaxEpoch = 3
    Faults = {"crash"}
CHECK_DEADLOCK FALSE
PROPERTIES
    WonHandIsArchived
    ExpiredHandIsArchived
    RecoveryEndsHand
