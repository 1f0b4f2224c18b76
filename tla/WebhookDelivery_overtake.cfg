\* The doc's claim about the order of deliveries, against the code.
SPECIFICATION Spec
CONSTANTS
    w1 = w1
    w2 = w2
    t1 = t1
    t2 = t2
    None = None
    Webhooks = {w1}
    Timers = {t1}
    NumEvents = 2
    Listens <- MCListens
    RetryCount = 2
    BatchSize = 2
    MaxFaults = 0
    MaxRestarts = 0
    MaxEdits = 0
CHECK_DEADLOCK FALSE
PROPERTIES
    KeptGoFirst
