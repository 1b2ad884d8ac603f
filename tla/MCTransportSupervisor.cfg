SPECIFICATION FairSpec
CONSTANTS
    MaxVersion = 2
    Signature <- AlternatingSignature
    MaxWsFailures = 2
INVARIANTS
    TypeOK
    TasksInPosition
PROPERTIES
    HttpNeverRollsBack
    DroppedOnEvidence
    ServesTheFeed
    StartIsSeeded
CHECK_DEADLOCK FALSE
