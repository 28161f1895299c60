\* One passenger, two quotes and two orders, two requests at a time, one change
\* of a tariff.
SPECIFICATION Spec
CONSTANTS
  u1 = u1  d1 = d1  d2 = d2  k1 = k1  k2 = k2  t1 = t1  t2 = t2  t3 = t3
  o1 = o1  o2 = o2  q1 = q1  q2 = q2  p1 = p1  p2 = p2
  Passenger = {u1}
  Driver = {d1}
  Park = {k1, k2}
  Tariff = {t1, t2, t3}
  Order = {o1, o2}
  Quote = {q1, q2}
  Proc = {p1, p2}
  None = None
  DriverPark <- MCDriverPark
  TariffPark <- MCTariffPark
  Priority <- MCPriority
  TermsOf <- MCTermsOf
  OtherTerms <- MCOtherTerms
  Reach <- MCReach
  Metres = 10000
  Seconds = 601
  MaxAmount = 1000000
  MaxUpdates = 1
SYMMETRY Symmetry
CHECK_DEADLOCK FALSE
INVARIANTS BookTypeOK QuoteIsSoldOnce ChargedAsQuoted
PROPERTY AssignedAtCurrentFare
