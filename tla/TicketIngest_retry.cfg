\* The doc's claim about a retry after a crash, at the classifier's default temperature.
SPECIFICATION Spec
CONSTANTS
    brakes = brakes
    tyres = tyres
    r1 = r1
    r2 = r2
    None = None
    NumMessages = 1
    Requests = {r1}
    Topics = {brakes, tyres}
    Plated = {tyres}
    Split <- MCSplit
    Mode = "plain"
    Limit = 3
    MaxTimeouts = 0
    MaxFaults = 0
    MaxRestarts = 1
    MaxActs = 0
CHECK_DEADLOCK FALSE
INVARIANTS
    NothingDropped
