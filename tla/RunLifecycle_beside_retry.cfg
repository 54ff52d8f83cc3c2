CONSTANTS
    light = light
    heavy = heavy
    NoRun = NoRun
    Roots <- OneRoot
    HeavyRoots <- None
    AgentRoots <- None
    MaxConcurrentRuns = 1
    MaxLlmRuns = 1
    MaxAttempts = 2
    Faults <- Deploys
    MaxFaults = 1
    MaxCancels = 0
SPECIFICATION Spec
INVARIANTS
    NeverRequeuedBesideRetry
CHECK_DEADLOCK FALSE
