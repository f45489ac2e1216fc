SPECIFICATION Spec
CONSTANTS
    None = None
    Order = {o1}
    Request = {r1, r2}
    Intent = {}
    Cart = {c1}
    Methods = {"cod"}
    StaffTargets = {"pending", "confirmed", "preparing", "ready", "served", "refunded"}
    MaxBatch = 1
    Total = 1
SYMMETRY Symmetry
INVARIANT NoStageSkipped
CHECK_DEADLOCK FALSE
