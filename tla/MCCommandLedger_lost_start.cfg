SPECIFICATION Spec
CONSTANTS
    owner = owner
    guest = guest
    roomID = roomID
    other = other
    theHand = theHand
    Actor = {owner, guest}
    Aggregate = {roomID, other}
    Hand = {theHand}
    Thread = {t1, t2}
    Requests <- StartRequests
    Faults = {"ambiguous"}
SYMMETRY Symmetry
CHECK_DEADLOCK FALSE
PROPERTIES
    OnlyUnusedSeedsReleased
