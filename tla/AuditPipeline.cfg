SPECIFICATION FairSpec
CONSTANTS
    MaxEvents = 3
    Rejected = {2}
    BatchSize = 2
    MaxAttempts = 3
    ListLimit = 1
    MaxStarts = 2
INVARIANTS
    TypeOK
    NothingSkipped
    StoredIsSettled
PROPERTIES
    TrailRefined
    EventsSettle
CHECK_DEADLOCK FALSE
