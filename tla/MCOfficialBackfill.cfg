SPECIFICATION FairSpec
CONSTANTS
    Region = {"oblast", "hromada"}
    MAX_HISTORY_DAYS = 5
    CHUNK = 2
    OVERLAP = 2
    REFRESH = 1
    MaxNow = 7
    MaxCrashes = 2
INVARIANTS
    TypeOK
    NothingSkipped
PROPERTIES
    ProgressIsKept
    CatchesUp
