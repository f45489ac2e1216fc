SPECIFICATION Spec
CONSTANTS
    None = None
    Order = {o1}
    Request = {r1, r2}
    Intent = {}
    Cart = {c1}
    Methods = {"wallet"}
    StaffTargets = {"confirmed"}
    MaxBatch = 1
    Total = 1
PROPERTY StateMachineObeyed
CHECK_DEADLOCK FALSE
