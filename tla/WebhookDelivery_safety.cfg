\* One webhook that hears both events, overlapping ticks, faults, a restart, edits.
SPECIFICATION Spec
CONSTANTS
    w1 = w1
    w2 = w2
    t1 = t1
    t2 = t2
    None = None
    Webhooks = {w1}
    Timers = {t1, t2}
    NumEvents = 2
    Listens <- MCListens
    RetryCount = 2
    BatchSize = 1
    MaxFaults = 2
    MaxRestarts = 1
    MaxEdits = 2
SYMMETRY TimerSymmetry
CHECK_DEADLOCK FALSE
INVARIANTS
    TypeOK
    NoSilentLoss
    NoSpuriousDuplicate
PROPERTIES
    ImplementsLedger
    ReplayOldestFirst
