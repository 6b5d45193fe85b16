SPECIFICATION FairSpec
CONSTANTS
    N = 8
    ChunkSize = 2
    MaxAttempts = 2
INVARIANTS
    TypeOK
    CountsMatch
    ReportsHonest
    HalfServed
PROPERTIES
    SettledLeftAlone
    JobEnds
CHECK_DEADLOCK FALSE
