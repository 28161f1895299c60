\* A booking the park has cancelled or the worker has expired.
SPECIFICATION Spec
CONSTANTS
  a = a  b = b  u1 = u1  u2 = u2  d1 = d1  d2 = d2
  Order = {a, b}
  Passenger = {u1}
  Driver = {d1}
  None = None
  Times = {0, 1}
  Before = 1
  After = 1
  MaxClock = 3
  MaxEdits = 1
  MaxFaults = 1
CHECK_DEADLOCK FALSE
INVARIANT ClosedBookingFreesPassenger
