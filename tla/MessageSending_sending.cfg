SPECIFICATION Spec
CONSTANTS
    Kinds = {"baileys", "wwjs"}
    Ops <- OneOfEachWay
    Batch <- BatchOfThree
    SaveEvery = 2
    Requests = 2
    MaxEngines = 1
    MaxFaults = 1
    MaxRestarts = 1
INVARIANTS TypeOK NothingUnrecorded DoneMeansDone ProgressAddsUp
PROPERTIES CancelStops EverythingEnds
CHECK_DEADLOCK FALSE
