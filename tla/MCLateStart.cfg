SPECIFICATION Spec
CONSTANTS
    Region = {"oblast", "hromada"}
    MAX_HISTORY_DAYS = 5
    CHUNK = 2
    OVERLAP = 2
    REFRESH = 1
    MaxNow = 7
    MaxCrashes = 2
INVARIANT
    CoveredIsKnown
