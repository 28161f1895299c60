\* Two orders, each booked ahead or placed at once, two passengers and two drivers.
SPECIFICATION FairSpec
CONSTANTS
  a = a  b = b  u1 = u1  u2 = u2  d1 = d1  d2 = d2
  Order = {a, b}
  Passenger = {u1, u2}
  Driver = {d1, d2}
  None = None
  Times = {0, 1}
  Before = 1
  After = 1
  MaxClock = 3
  MaxEdits = 1
  MaxFaults = 1
CHECK_DEADLOCK FALSE
INVARIANTS SchedTypeOK RidesAreSingle NamedDriverServes
PROPERTIES SchedulingIsFinal LeavesSchedule
