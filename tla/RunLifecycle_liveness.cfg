CONSTANTS
    light = light
    heavy = heavy
    NoRun = NoRun
    Roots <- TwoRoots
    HeavyRoots <- HeavyRoot
    AgentRoots <- HeavyRoot
    MaxConcurrentRuns = 2
    MaxLlmRuns = 1
    MaxAttempts = 1
    Faults <- AllButStranding
    MaxFaults = 1
    MaxCancels = 0
SPECIFICATION FairSpec
INVARIANTS
    PermitsBalance
PROPERTIES
    EventuallySettled
    EventuallyIdle
CHECK_DEADLOCK FALSE
