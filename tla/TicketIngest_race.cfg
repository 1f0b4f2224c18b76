\* The doc's claim about racing requests of one message.
SPECIFICATION Spec
CONSTANTS
    brakes = brakes
    tyres = tyres
    r1 = r1
    r2 = r2
    None = None
    NumMessages = 2
    Requests = {r1, r2}
    Topics = {brakes, tyres}
    Plated = {tyres}
    Split <- MCSplit
    Mode = "fleet"
    Limit = 3
    MaxTimeouts = 1
    MaxFaults = 0
    MaxRestarts = 0
    MaxActs = 0
CHECK_DEADLOCK FALSE
INVARIANTS
    RaceIsCaught
