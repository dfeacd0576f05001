SPECIFICATION FairSpec
CONSTANTS
    MaxRuns = 2
    MaxReads = 1
    MaxVisits = 2
    MaxMoves = 5
    SettledWrites = TRUE
INVARIANTS
    PodIsPublished
PROPERTIES
    FileOutlivesItsCard
    WaitsEnd
CHECK_DEADLOCK FALSE
