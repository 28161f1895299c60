SPECIFICATION Spec
CONSTANTS
    o1 = o1
    o2 = o2
    d1 = d1
    d2 = d2
    h1 = h1
    h2 = h2
    w = w
    w2 = w2
    tm = tm
    r = r
    NoDriver = NoDriver
    NoProc = NoProc
    NoOrder = NoOrder
    NoTask = NoTask
    Order = {o1}
    Driver = {d1}
    ParkOrder = {}
    Roaming = {}
    Moves = {"driver_arriving", "driver_waiting", "in_progress", "completed", "cancelled"}
    Handlers = {h1, h2}
    Dispatchers = {w}
    Timers = {tm}
    Recoverers = {}
    Instances = {{h1, h2, w, tm}}
    Attempts = 1
    MaxDrivers = 2
    MaxChains = 2
    FaultKinds = {"crash", "error", "expiry"}
    MaxFaults = 1
INVARIANTS
    TypeOK
    ReservationConsistent
PROPERTIES
    AgreementIsFinal
    ImplementsReservation
SYMMETRY Handling
CHECK_DEADLOCK FALSE
