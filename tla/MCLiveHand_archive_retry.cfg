SPECIFICATION FairSpec
CONSTANTS
    Proc = {p1}
    Thread = {t1, t2}
    Requests <- ShortHand
    MaxEpoch = 3
    Faults = {"archive"}
CHECK_DEADLOCK FALSE
PROPERTIES
    ExpiredHandIsArchived
