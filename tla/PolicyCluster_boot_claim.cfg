SPECIFICATION PolicySpec
CONSTANTS
    Instances = {"i", "j"}
    People = {"a", "b"}
    MaxVersion = 1
    MaxMishaps = 0
CHECK_DEADLOCK FALSE
INVARIANT
    ReadyEnforces
