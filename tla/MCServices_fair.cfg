SPECIFICATION FairServicesSpec
CONSTANTS
    Parts = {"commands", "deals", "policy", "hub", "timers"}
    owner = owner
    guest = guest
    roomID = roomID
    other = other
    theHand = theHand
    Actor = {owner, guest}
    Aggregate = {roomID, other}
    Hand = {theHand}
    Accounts = {"o", "a", "b", "c"}
    Owner = "o"
    HandIDs = {"h1", "h2"}
    FairHands = {"h", "g"}
    Attended = {"h"}
    Fragile = {"h"}
    Lead = 1
    MaxTime = 1
    Deals <- SmallDeals
    Samples <- WideSamples
    Scores = {0, 1, 3}
    SessionIDs = {1}
    Slots = {1, 2}
    MaxPasswords = 1
    MaxTokens = 3
    Instances = {"i", "j"}
    People = {"a", "b"}
    Sockets = {"s", "t"}
    QueueSize = 1
    MaxPerUser = 1
    Lines = {"s", "t"}
    LineQueue = 1
    MaxMoves = 2
    MaxHand = 2
    Profiles = {"x"}
    Roles = {"r"}
    Resources = {"s"}
    Callers = {"c", "d"}
    MaxWrites = 2
    Thread = {t1, t2, t3}
    Requests <- StartRequests
    Faults = {"error", "refuse"}
    MaxCalls = 1
    MaxFailures = 1
    MaxVersion = 1
    MaxMishaps = 1
    Users = {"p"}
    MaxConnections = 2
    MaxActions = 2
CHECK_DEADLOCK FALSE
INVARIANTS
    HandsKeepSeeds
    NoSeedLeaks
PROPERTIES
    TransactionsEnd
    HandsLeaveFairnessUnlessBlocked
    PolicyReachesInstances
    HubCloses
    LateHandsEndUnlessBlocked
