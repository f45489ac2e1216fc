SPECIFICATION Spec
CONSTANTS
    Order = {o1, o2}
    Numbered = {o2}
    Screen = {s1, s2}
    Socket = {w1}
    Request = {r1}
    Room <- MCRoom
    OtherStatuses = {"CONFIRMED", "CANCELLED", "DELIVERED"}
    AskedRooms = {"kds"}
    Filters <- MCFilters
    None = None
SYMMETRY Symmetry
CONSTRAINT Two
INVARIANTS
    TypeOK
    ScreensTellTruth
    StagesInOrder
    RoomsMatchSockets
