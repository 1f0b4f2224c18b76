\* The doc's claim about a plate that already has an open ticket.
SPECIFICATION Spec
CONSTANTS
    brakes = brakes
    tyres = tyres
    r1 = r1
    r2 = r2
    None = None
    NumMessages = 2
    Requests = {r1, r2}
    Topics = {brakes, tyres}
    Plated = {tyres}
    Split <- MCSplit
    Mode = "fleet"
    Limit = 3
    MaxTimeouts = 0
    MaxFaults = 0
    MaxRestarts = 0
    MaxActs = 0
CHECK_DEADLOCK FALSE
PROPERTIES
    ThreadsIn
