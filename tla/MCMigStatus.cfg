SPECIFICATION MigSpec
CONSTANTS
    StaleAfter = 5
    CheckAfter = 3
    WatchdogInterval = 1
    Timeout = 1
    PollInterval = 1
    MaxBackoff = 2
    MaxRetryAfter = 3
    StaleInterval = 1
    TickInterval = 1
    MaxFlights = 1
    MaxReloads = 1
INVARIANTS
    AllTypesOK
    RefreshedBeforeStale
    IssueTellsTheTruth
    SensorsAreCurrent
PROPERTIES
    OneTakeoffPerFlight
