CONSTANTS
    light = light
    heavy = heavy
    NoRun = NoRun
    Roots <- OneRoot
    HeavyRoots <- None
    AgentRoots <- None
    MaxConcurrentRuns = 1
    MaxLlmRuns = 1
    MaxAttempts = 2
    Faults <- DeploysAndLostWrites
    MaxFaults = 2
    MaxCancels = 0
SPECIFICATION Spec
INVARIANTS
    OneChildPerAttempt
CHECK_DEADLOCK FALSE
