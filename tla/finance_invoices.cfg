SPECIFICATION Spec
CONSTANTS
  o1 = o1
  o2 = o2
  o3 = o3
  d1 = d1
  d2 = d2
  k1 = k1
  p1 = p1
  p2 = p2
  y1 = y1
  y2 = y2
  i1 = i1
  i2 = i2
  Order = {o1, o2}
  Driver = {d1}
  Park = {k1}
  Proc = {p1, p2}
  Payout = {}
  Invoice = {i1, i2}
  NoPark = NoPark
  None = None
  DriverOf <- MCDriverOf
  ParkOf <- MCParkOf
  PriceOf <- MCPriceOf
  Rates = {1000}
  InitialRate = 1000
  FeeRate = 2000
  Amounts = {}
  Periods <- MCPeriods
  MaxClock = 3
SYMMETRY Symmetry
INVARIANTS
  NotOverbilled
PROPERTIES
  BilledOnce
