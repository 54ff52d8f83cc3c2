SPECIFICATION FairSpec
CONSTANTS
    q1 = q1
    q2 = q2
    k1 = k1
    k2 = k2
    Requests = {q1, q2}
    Keys = {k1, k2}
    Window <- ShortEndpointWindow
    Limit <- OneRunTwoDrafts
    MaxCost = 2
    MaxLag = 1
    MaxTime = 2
    MaxFaults = 1
INVARIANTS
    RatesHeld
    OneRunPerKey
PROPERTIES
    KeyIsFreed
CHECK_DEADLOCK FALSE
