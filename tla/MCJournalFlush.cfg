SPECIFICATION FairSpec
CONSTANTS
    r1 = r1
    Region = {r1}
    MaxTime = 1
    StaleAfter = 1
    MaxJumps = 2
    Damage = FALSE
    Bridgeable = 1
INVARIANT
    NoSilentHole
PROPERTY
    GapsReachTheDisk
