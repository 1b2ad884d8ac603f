SPECIFICATION Spec
CONSTANTS
    MAX_HISTORY_DAYS = 3
    MAX_HISTORY_EPISODES = 2
    DAY = 2
    MaxTime = 5
INVARIANTS
    TypeOK
    ToldIsKnown
    RerunAddsNothing
PROPERTY
    BoundariesArePreserved
