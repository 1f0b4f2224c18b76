\* Timestamps as SQLite gives them back.
SPECIFICATION Spec
CONSTANTS
    None = None
    Handlers = {h1}
    Sessions = {s1, s2}
    Payments = {p1, p2}
    Checkouts = {c1, c2}
    Period = 2
    GraceDays = 1
    FarDays = 2
    NearDays = 1
    WarnDays = 1
    FirstDay = 0
    FirstRenewal = 0
    EditDays = {0, 5}
    Before = {}
    ZoneKept = {FALSE}
    MaxDay = 2
    MaxTexts = 4
    MaxActs = 0
    MaxAll = 4
SYMMETRY BillingSymmetry
CHECK_DEADLOCK FALSE
INVARIANTS
    GraceEnds
