SPECIFICATION Spec
CONSTANTS
    s1 = s1
    s2 = s2
    w1 = w1
    w2 = w2
    m1 = m1
    f1 = f1
    f2 = f2
    Rows = {s1, s2, w1, w2, m1}
    Files = {f1, f2}
    Table <- TableOf
    Of <- SessionOf
    First = {s1, w1, m1}
    Limit <- Limits
    Pinned = {}
    External = {}
    Sockets = {TRUE, FALSE}
    Edits = 2
    Saves = 2
    Restarts = 2
    Moves = 1
    Fails = 1
    Writes = 1
    Crashes = 1
    All = 6
INVARIANTS ImportKeeps
CHECK_DEADLOCK FALSE
