SPECIFICATION Spec
CONSTANTS
    r1 = r1
    Region = {r1}
    MaxTime = 3
    StaleAfter = 1
    MaxJumps = 0
    Damage = TRUE
    Bridgeable = 1
INVARIANTS
    TypeOK
    NoSilentHole
    EpisodesTellTheTruth
    CompleteIsWatched
