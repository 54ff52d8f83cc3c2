SPECIFICATION Spec
CONSTANTS
    r1 = r1
    r2 = r2
    k1 = k1
    s1 = s1
    s2 = s2
    s3 = s3
    s4 = s4
    Runs = {r1, r2}
    Sandboxes = {s1, s2, s3, s4}
    Keys = {k1}
    KeyOf <- OneKey
    NoKey = NoKey
    NoSandbox = NoSandbox
    PoolSize = 1
    MaxAttempts = 2
    MaxCancels = 2
    MaxFaults = 3
INVARIANTS
    UsedByOne
    NoCommandLeftBehind
    CommandStartsOnce
    CancelledIsStopped
    NoSandboxLost
CHECK_DEADLOCK FALSE
