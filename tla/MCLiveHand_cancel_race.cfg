SPECIFICATION Spec
CONSTANTS
    Proc = {p1}
    Thread = {t1, t2}
    Requests <- ShortHand
    MaxEpoch = 3
    Faults = {"cancel"}
CHECK_DEADLOCK FALSE
INVARIANTS
    TerminatedWithoutResult
