CONSTANTS
    light = light
    heavy = heavy
    NoRun = NoRun
    Roots <- OneRoot
    HeavyRoots <- OneRoot
    AgentRoots <- None
    MaxConcurrentRuns = 1
    MaxLlmRuns = 1
    MaxAttempts = 2
    Faults <- AllButSlow
    MaxFaults = 2
    MaxCancels = 1
SPECIFICATION FairSpec
INVARIANTS
    TypeOK
    CommandStartsOnce
    LineageBounded
    OneRecognisedChild
    LiveCommandIsVisible
    CompletedIsHonest
PROPERTIES
    EventuallySettledOrStranded
    ImplementsRunAttempts
CHECK_DEADLOCK FALSE
