SPECIFICATION FairSpec
CONSTANTS
    Proc = {p1}
    Thread = {t1, t2}
    Requests <- LongHand
    MaxEpoch = 3
    Faults = {}
CHECK_DEADLOCK FALSE
PROPERTIES
    PassedOutHandAborts
