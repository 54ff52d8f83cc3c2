SPECIFICATION FairSpec
CONSTANTS
    QueueSize = 1
    BatchSize = 1
    MaxLogged = 3
    MaxFailures = 1
    NumParts = 1
    InboxSize = 1
    MaxReconnects = 1
    Clients <- SomeClients
    MaxRows <- RowsPerKind
INVARIANTS
    NothingLost
    DoneIsComplete
    RowsShownOnce
    PartsInOrder
    ClosedWithFinish
PROPERTIES
    ImplementsLogStore
    EventuallyStored
    EventuallyClosed
CHECK_DEADLOCK FALSE
