CONSTANTS
    o1 = o1
    o2 = o2
    x = x
    c1 = c1
    None = None
    Order = {o1, o2}
    Ref = {x}
    RefOf <- MCRefOf
    Total <- MCTotal
    MaxAmount = 2
    Entry = {e1, e2}
    Row <- MCRow
    Connection = {c1}
    Run = {r1}
    Config <- MCConfig
    PlatformPayout = {n1, n2}
    MaxPayouts = 2
    Report = {s1}
    Clerk = {t1, t2}
    Day <- MCDay
    CreatedOn <- MCCreatedOn
SPECIFICATION MCSpec
SYMMETRY Symmetry
CONSTRAINT OnePart
INVARIANTS
    TypeOK
    FindingsTrue
    CleanMeansClean
    PayoutsOnce
    PeriodsTile
    ReportsAddUp
CHECK_DEADLOCK FALSE
