SPECIFICATION Spec
CONSTANTS
    Proc = {p1}
    Thread = {t1, t2}
    Requests <- ShortHand
    MaxEpoch = 3
    Faults = {"ambiguous", "lostAck", "archive", "crash", "cancel", "evict"}
SYMMETRY Symmetry
CHECK_DEADLOCK FALSE
INVARIANTS
    AckedDurable
    HandFollowsLog
    ExpiryKeepsProgress
    HandInv
