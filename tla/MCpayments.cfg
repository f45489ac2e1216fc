SPECIFICATION Spec
CONSTANTS
    None = None
    Order = {o1, o2}
    Request = {r1, r2}
    Intent = {i1}
    Cart = {c1}
    Methods = {"stripe", "paypal"}
    StaffTargets = {}
    MaxBatch = 1
    Total = 2
SYMMETRY Symmetry
INVARIANTS
    TypeOK
    PaidIsBacked
    RefundIsBacked
    DeadlockNeedsRefundOrBulk
PROPERTIES
    ImplementsLifecycle
    RecordsKept
CONSTRAINT Scene
CHECK_DEADLOCK FALSE
