SPECIFICATION Spec
CONSTANTS
    Kinds = {"baileys", "wwjs"}
    Ops <- OneOfEachWay
    Batch <- BatchOfThree
    SaveEvery = 2
    Requests = 2
    MaxEngines = 2
    MaxFaults = 1
    MaxRestarts = 1

PROPERTY CancelStands
CHECK_DEADLOCK FALSE
