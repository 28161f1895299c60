\* A user and a passenger, two codes, three tokens, two requests at once.
SPECIFICATION Spec
CONSTANTS
  u = u  c = c  t1 = t1  t2 = t2  t3 = t3  p1 = p1  p2 = p2
  User = {u}
  Passenger = {c}
  Token = {t1, t2, t3}
  Proc = {p1, p2}
  None = None
  MaxAttempts = 1
  MaxCodes = 2
SYMMETRY Symmetric
CHECK_DEADLOCK FALSE
INVARIANTS SessTypeOK OneLiveToken CodeOpensOneSession
PROPERTY EndedStaysEnded
