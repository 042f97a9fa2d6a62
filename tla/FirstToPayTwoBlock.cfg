CONSTANTS
  e1 = e1
  e2 = e2
  p1 = p1
  p2 = p2
  p3 = p3
  w1 = w1
  w2 = w2
  Events = {e1, e2}
  Payments = {p1, p2}
  Workers = {w1, w2}
  EventOf <- MCEventOf
  PaymentOf <- MCRace
  Downpayment <- MCDownpayment
  Full <- MCFull
  Counted = {e1, e2}
  Settled = {}
  WithDeadline = {e1, e2}
  MayCrash = FALSE
  None = None
SPECIFICATION Spec
INVARIANTS OneBlockingEvent
CHECK_DEADLOCK FALSE
