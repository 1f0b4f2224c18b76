\* Fairness; one webhook, one failed database write or late answer, a restart.
SPECIFICATION FairSpec
CONSTANTS
    w1 = w1
    w2 = w2
    t1 = t1
    t2 = t2
    None = None
    Webhooks = {w1}
    Timers = {t1}
    NumEvents = 2
    Listens <- MCListens
    RetryCount = 1
    BatchSize = 1
    MaxFaults = 1
    MaxRestarts = 1
    MaxEdits = 0
CHECK_DEADLOCK FALSE
PROPERTIES
    KeptIsSettled
    OutagesEnd
