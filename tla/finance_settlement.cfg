SPECIFICATION Spec
CONSTANTS
  o1 = o1
  o2 = o2
  o3 = o3
  d1 = d1
  d2 = d2
  k1 = k1
  p1 = p1
  p2 = p2
  y1 = y1
  y2 = y2
  i1 = i1
  i2 = i2
  Order = {o1, o2, o3}
  Driver = {d1, d2}
  Park = {k1}
  Proc = {p1, p2}
  Payout = {y1, y2}
  Invoice = {}
  NoPark = NoPark
  None = None
  DriverOf <- MCDriverOf
  ParkOf <- MCParkOf
  PriceOf <- MCPriceOf
  Rates = {0, 1000}
  InitialRate = 1000
  FeeRate = 2000
  Amounts = {4500}
  Periods = {}
  MaxClock = 2
SYMMETRY Symmetry
INVARIANTS
  FinTypeOK
  BooksBalance
  AnswerIsOnRecord
  DriverLedgerRuns
PROPERTIES
  SettlementIsFinal
  ImplementsEarnings
