\* One client with two handlers at once, the timestamps with and without a zone.
SPECIFICATION Spec
CONSTANTS
    None = None
    Handlers = {h1, h2}
    Sessions = {s1, s2}
    Payments = {p1, p2}
    Checkouts = {c1, c2}
    Period = 2
    GraceDays = 1
    FarDays = 2
    NearDays = 1
    WarnDays = 1
    FirstDay = 1
    FirstRenewal = 0
    EditDays = {0, 5}
    Before = {0}
    ZoneKept = {FALSE, TRUE}
    MaxDay = 2
    MaxTexts = 3
    MaxActs = 1
    MaxAll = 3
SYMMETRY BillingSymmetry
CHECK_DEADLOCK FALSE
INVARIANTS
    TypeOK
    ConfirmedIsPaid
PROPERTIES
    RenewalMoves
    ResultFinal
