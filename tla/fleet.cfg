\* A driver, two parks, one of them with a car, an order and two invitations.
SPECIFICATION Spec
CONSTANTS
  d1 = d1  t1 = t1  t2 = t2  o1 = o1  i1 = i1  i2 = i2  p1 = p1  p2 = p2  c1 = c1
  Driver = {d1}
  Park = {t1, t2}
  Order = {o1}
  Invite = {i1, i2}
  Proc = {p1, p2}
  Car = {c1}
  CarPark <- FleetCarPark
  None = None
SYMMETRY Symmetric
CHECK_DEADLOCK FALSE
INVARIANTS FleetTypeOK ServesOwnPark InvitesAreCurrent HistoryIsAChain
PROPERTY AnsweredOnce
