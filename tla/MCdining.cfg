CONSTANTS
    None = None
    Process = {p1}
    SessionToken = {s1}
    MenuTTL = 1
    CartTTL = 1
    MaxTime = 3
    MaxFaults = 2
    Category = {k1}
    Item = {i1}
    x1 = x1
    mild = mild
    hot = hot
    Extra = {x1}
    Option = {mild, hot}
    ModifierOf <- MCModifierOf
    Named <- MCNamed
    Price = {1}
    Task = {r1, r2}
    r1 = r1
    r2 = r2
    Guest = {r1, r2}
    Quantity = {1, 2}
    MaxAsked = 3
    NoRow = NoRow
    Table = {b1}
    Number = {1, 2}
    Scan = {q1}
    Host = {r1, r2}
    MaxCodes = 3
    MaxHours = 2
    SessionHours = 1
SPECIFICATION DiningSpec
SYMMETRY Symmetry
INVARIANTS
    TypeOK
    MenusAge
    CartsHoldRequests
    CodesLead
CHECK_DEADLOCK FALSE
