SPECIFICATION ServicesSpec
CONSTANTS
    Parts = {"commands", "rooms", "deals", "games", "accounts", "policy", "hub", "news", "timers", "catalog"}
    owner = owner
    guest = guest
    roomID = roomID
    other = other
    theHand = theHand
    Actor = {owner, guest}
    Aggregate = {roomID, other}
    Hand = {theHand}
    Accounts = {"o", "a", "b", "c"}
    Owner = "o"
    HandIDs = {"h1", "h2"}
    FairHands = {"h", "g"}
    Attended = {"h"}
    Fragile = {}
    Lead = 1
    MaxTime = 1
    Deals <- SmallDeals
    Samples <- WideSamples
    Scores = {0, 1, 3}
    SessionIDs = {1}
    Slots = {1, 2}
    MaxPasswords = 1
    MaxTokens = 3
    Instances = {"i", "j"}
    People = {"a", "b"}
    Sockets = {"s", "t"}
    QueueSize = 1
    MaxPerUser = 1
    Lines = {"s", "t"}
    LineQueue = 1
    MaxMoves = 2
    MaxHand = 2
    Profiles = {"x"}
    Roles = {"r"}
    Resources = {"s"}
    Callers = {"c", "d"}
    MaxWrites = 2
    Thread = {t1, t2}
    Requests <- ChangeRequests
    Faults = {"ambiguous", "error", "release", "crash", "expire"}
    MaxCalls = 2
    MaxFailures = 0
    MaxVersion = 2
    MaxMishaps = 1
    Users = {"p", "q"}
    MaxConnections = 1
    MaxActions = 3
SYMMETRY Symmetry
CHECK_DEADLOCK FALSE
INVARIANTS
    ServicesTypeOK
    IInv
    AnswersAgree
    OutboxTellsHistory
    SequencesOrderCommands
    AggregatesRestore
    RoomAgreesWithHands
    ContributionsPrecedeBeacon
    AnalyzeMeetsRules
    GameIsFair
    TokensAreSpentOnce
    OldPasswordsKeepNoSession
    NewsArrives
    StaleCopiesAreExplained
PROPERTIES
    OnceSpec
    RevokedStaysRevoked
    ReloadsAreEnforced
    LastAdminStays
    TimersOnlyAdvance
