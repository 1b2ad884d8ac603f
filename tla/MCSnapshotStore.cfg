SPECIFICATION FairSpec
CONSTANTS
    Maps = {m1, m2}
    NoMap = NoMap
    SAVE_DELAY_SECONDS = 2
    RESTORE_MAX_AGE_SECONDS = 1
    MaxNow = 2
    MaxCrashes = 2
    MaxJumps = 1
INVARIANTS
    TypeOK
    DiskTellsTheTruth
PROPERTIES
    CleanStopKeepsTheMap
    EveryMapIsSaved
