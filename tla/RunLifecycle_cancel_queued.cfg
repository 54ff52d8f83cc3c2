CONSTANTS
    light = light
    heavy = heavy
    NoRun = NoRun
    Roots <- OneRoot
    HeavyRoots <- None
    AgentRoots <- None
    MaxConcurrentRuns = 1
    MaxLlmRuns = 1
    MaxAttempts = 1
    Faults <- None
    MaxFaults = 0
    MaxCancels = 1
SPECIFICATION Spec
INVARIANTS
    CancelledQueuedNeverStarts
CHECK_DEADLOCK FALSE
