SPECIFICATION LiveSpec
CONSTANTS
    e1 = e1
    e2 = e2
    p1 = p1
    r1 = r1
    External = {e1, e2}
    Malformed = {e2}
    Paid = {e1}
    Platform = {p1}
    Merchant = {m1}
    Restaurant = {r1, r2}
    Connection = {c1, c2}
    MaxRows = 2
    Task = {t1, t2}
    MaxRetries = 2
    RestaurantOf <- MCRestaurantOf
    PlatformOf <- MCPlatformOf
    None = None
INVARIANTS
    TypeOK
    AnswersAreTrue
    TakenOnce
    RetriedFirst
PROPERTIES
    TakenAtLast
