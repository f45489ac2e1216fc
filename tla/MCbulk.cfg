SPECIFICATION LiveSpec
CONSTANTS
    None = None
    Order = {o1, o2}
    Request = {r1, r2}
    Intent = {}
    Cart = {c1}
    Methods = {"wallet"}
    StaffTargets = {"confirmed"}
    MaxBatch = 2
    Total = 1
PROPERTY EveryRequestEnds
CHECK_DEADLOCK FALSE
