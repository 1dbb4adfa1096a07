SPECIFICATION TimersSpec
CONSTANTS
    MaxHand = 2
    MaxActions = 3
CHECK_DEADLOCK FALSE
PROPERTIES
    LateHandsEnd
