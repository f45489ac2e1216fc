SPECIFICATION LiveSpec
CONSTANTS
    None = None
    Order = {o1}
    Task = {t1}
    OtherStatuses = {}
    Answers = {"accept", "reject"}
    MaxBatch = 1
    MaxFailures = 1
PROPERTY AutoRejected
CHECK_DEADLOCK FALSE
