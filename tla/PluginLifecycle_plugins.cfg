SPECIFICATION Spec
CONSTANTS
    baileys = baileys
    filter = filter
    reply = reply
    log = log
    Plugins <- PluginSet
    Engine = baileys
    InFile = {filter}
    Rank <- Ranks
    OnLoad = {filter}
    Listens = {filter}
    Calls = {c1, c2}
    Events = {x1}
    MaxCalls = 3
    MaxThrows = 1
    MaxRestarts = 1
    MaxConfigs = 1
INVARIANTS TypeOK HooksFollowStatus EveryHandlerOnce ListenerIsCurrent NobodyMissed
CHECK_DEADLOCK FALSE
