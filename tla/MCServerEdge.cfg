SPECIFICATION FairSpec
CONSTANTS
    Requests = {r1, r2}
    Messages = {m1}
    Drivers = {"memory", "redis"}
    Skew = 1
    Padding = 2
    MaxTime = 6
    MaxLives = 2
INVARIANTS AcceptedOnce WorkKeepsStoreOpen
PROPERTIES ShutdownEnds
CHECK_DEADLOCK FALSE
