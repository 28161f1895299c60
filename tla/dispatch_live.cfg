SPECIFICATION FairSpec
CONSTANTS
    o1 = o1
    o2 = o2
    d1 = d1
    d2 = d2
    h1 = h1
    h2 = h2
    w = w
    w2 = w2
    tm = tm
    r = r
    NoDriver = NoDriver
    NoProc = NoProc
    NoOrder = NoOrder
    NoTask = NoTask
    Order = {o1}
    Driver = {d1}
    ParkOrder = {}
    Roaming = {}
    Moves = {"driver_arriving"}
    Handlers = {h1}
    Dispatchers = {w}
    Timers = {tm}
    Recoverers = {}
    Instances = {}
    Attempts = 2
    MaxDrivers = 2
    MaxChains = 2
    FaultKinds = {}
    MaxFaults = 0
INVARIANTS
    NoLostSearch
PROPERTIES
    SearchEnds
    ReservationEnds
CHECK_DEADLOCK FALSE
