SPECIFICATION Spec
CONSTANTS
    q1 = q1
    q2 = q2
    k1 = k1
    k2 = k2
    Requests = {q1, q2}
    Keys = {k1, k2}
    Window <- LongDraftWindow
    Limit <- OneDraft
    MaxCost = 1
    MaxLag = 0
    MaxTime = 2
    MaxFaults = 0
INVARIANT DraftRateHeld
CHECK_DEADLOCK FALSE
