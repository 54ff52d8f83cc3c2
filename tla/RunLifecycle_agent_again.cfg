CONSTANTS
    light = light
    heavy = heavy
    NoRun = NoRun
    Roots <- OneRoot
    HeavyRoots <- None
    AgentRoots <- OneRoot
    MaxConcurrentRuns = 1
    MaxLlmRuns = 1
    MaxAttempts = 1
    Faults <- Deploys
    MaxFaults = 1
    MaxCancels = 0
SPECIFICATION Spec
INVARIANTS
    NeverReexecuted
CHECK_DEADLOCK FALSE
