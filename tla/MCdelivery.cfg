SPECIFICATION LiveSpec
CONSTANTS
    Driver = {d1}
    Order = {o1}
    Assignment = {a1, a2}
    Task = {t1, t2}
    StaffStatuses = {"available", "on_break"}
    Reported = {"picked_up", "delivered", "cancelled"}
    MaxOrders = 1
    MaxSessions = 4
    None = None
INVARIANTS
    TypeOK
    CountsDeliveries
    CarriersAreBusy
    AssignedKnowsOrder
PROPERTIES
    StaleDriversLeave
