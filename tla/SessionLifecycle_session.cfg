SPECIFICATION Spec
CONSTANTS
    e1 = e1
    e2 = e2
    e3 = e3
    c1 = c1
    c2 = c2
    Engines <- MCEngines
    Calls <- MCCalls
    NoEngine = NoEngine
    Kinds = {"baileys", "wwjs"}
    MaxAttempts = 1
    MaxRequests = 2
    MaxDrops = 1
    MaxLogins = 2
    MaxFaults = 1
CHECK_DEADLOCK FALSE
INVARIANTS
    TypeOK
    StopSticks
    RowTellsTheTruth
PROPERTIES
    OnlyOrphansRestoreLogins
    KeepsTrying
