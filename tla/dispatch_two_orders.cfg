SPECIFICATION Spec
CONSTANTS
    o1 = o1
    o2 = o2
    d1 = d1
    d2 = d2
    h1 = h1
    h2 = h2
    w = w
    w2 = w2
    tm = tm
    r = r
    NoDriver = NoDriver
    NoProc = NoProc
    NoOrder = NoOrder
    NoTask = NoTask
    Order = {o1, o2}
    Driver = {d1}
    ParkOrder = {o2}
    Roaming = {d1}
    Moves = {"driver_arriving", "cancelled"}
    Handlers = {h1, h2}
    Dispatchers = {w}
    Timers = {tm}
    Recoverers = {}
    Instances = {}
    Attempts = 1
    MaxDrivers = 2
    MaxChains = 1
    FaultKinds = {}
    MaxFaults = 0
INVARIANTS
    AcceptancesSerialised
    OneActiveOrderPerDriver
SYMMETRY Handling
CHECK_DEADLOCK FALSE
