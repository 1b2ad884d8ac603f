SPECIFICATION FairSpec
CONSTANTS
    oblast = oblast
    raion = raion
    Regions = {oblast, raion}
    NoId = NoId
    MAX_TREE_DEPTH = 2
    Forms = {form}
    Backfill = Backfill
    Refresh = Refresh
    Answers <- MCAnswers
    NoTree = NoTree
    NoEntry = NoEntry
    Missing = Missing
    MaxSubmits = 2
    MaxRestarts = 1
    MaxDays = 1
INVARIANTS
    TypeOK
    SetupFollowsEntry
    LegacyEntryIsTried
PROPERTIES
    UndoOnlyDuringReload
    ReloadsEnd
CHECK_DEADLOCK FALSE
