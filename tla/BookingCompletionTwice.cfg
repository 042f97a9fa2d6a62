CONSTANTS
  r1 = r1
  r2 = r2
  r3 = r3
  r4 = r4
  Requests = {r1, r2}
  KindOf <- MCCompletions
  Immediate = FALSE
  None = None
SPECIFICATION Spec
INVARIANTS OneEventPerSession
CHECK_DEADLOCK FALSE
