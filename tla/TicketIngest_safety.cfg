\* Fleet mode: two messages, each delivered up to twice, by two requests at once.
SPECIFICATION Spec
CONSTANTS
    brakes = brakes
    tyres = tyres
    r1 = r1
    r2 = r2
    None = None
    NumMessages = 2
    Requests = {r1, r2}
    Topics = {brakes, tyres}
    Plated = {tyres}
    Split <- MCSplit
    Mode = "fleet"
    Limit = 2
    MaxTimeouts = 1
    MaxFaults = 1
    MaxRestarts = 1
    MaxActs = 2
SYMMETRY RequestSymmetry
CHECK_DEADLOCK FALSE
INVARIANTS
    TypeOK
    NothingDropped
    StoredOnce
PROPERTIES
    StoredStays
