SPECIFICATION Spec
CONSTANTS
    Proc = {p1, p2}
    Thread = {t1, t2}
    Requests <- RaceHand
    MaxEpoch = 3
    Faults = {"ambiguous", "archive", "crash", "lostAck"}
SYMMETRY Symmetry
CHECK_DEADLOCK FALSE
INVARIANTS
    PublishedIsCommitted
    OwnerIsCurrent
    OwnerAppendAccepted
    SingleOwner
    ArchiveAgrees
    RecoveryAccepts
PROPERTIES
    LedgerSpec
