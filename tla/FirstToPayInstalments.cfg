CONSTANTS
  e1 = e1
  e2 = e2
  p1 = p1
  p2 = p2
  p3 = p3
  w1 = w1
  w2 = w2
  Events = {e1, e2}
  Payments = {p1, p2, p3}
  Workers = {w1, w2}
  EventOf <- MCEventOfInstalments
  PaymentOf <- MCInstalments
  Downpayment <- MCBothOrOther
  Full <- MCFull
  Counted = {}
  Settled = {e2}
  WithDeadline = {e1, e2}
  MayCrash = TRUE
  None = None
SPECIFICATION Spec
INVARIANTS BlockedIsPaid RefundedOnce
CHECK_DEADLOCK FALSE
