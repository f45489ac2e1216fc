SPECIFICATION Spec
CONSTANTS
    None = None
    Order = {o1, o2}
    Task = {t1, t2}
    OtherStatuses = {}
    Answers = {"accept"}
    MaxBatch = 2
    MaxFailures = 2
SYMMETRY Symmetry
CONSTRAINT WebhooksOnly
INVARIANT
    RecordTellsTruth
CHECK_DEADLOCK FALSE
