CONSTANTS
    p = p
    g = g
    q1 = q1
    q2 = q2
    NoRun = NoRun
    Proposals <- OneProposal
    Agents <- OneAgent
    Requests <- TwoRequests
    MaxRoots = 1
    MaxAsks = 2
    MaxAttempts = 2
    RetryChainMax = 3
    SplitRoles = FALSE
    Faults <- FaultKinds
    MaxFaults = 1
    MaxCancels = 1
SPECIFICATION FairSpec
INVARIANTS
    EffectIsApproved
    OneNewRun
    EffectOnceUnlessCut
    ParkedIsAttended
    ApprovedNotAskedAgain
PROPERTIES
    DecisionIsFinal
    EventuallyNoneParked
    EventuallyCarriedOut
CHECK_DEADLOCK FALSE
