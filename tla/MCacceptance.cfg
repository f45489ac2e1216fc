SPECIFICATION LiveSpec
CONSTANTS
    None = None
    Order = {o1}
    Task = {t1, t2}
    OtherStatuses = {"CONFIRMED"}
    Answers = {"accept", "reject"}
    MaxBatch = 2
    MaxFailures = 1
INVARIANTS
    TypeOK
    RecordTellsTruth
    CustomerToldTruth
PROPERTIES
    ImplementsLifecycle
    AnsweredOrRejected
CHECK_DEADLOCK FALSE
