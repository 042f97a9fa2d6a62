CONSTANTS
  s1 = s1
  s2 = s2
  d1 = d1
  e1 = e1
  Sessions = {s1, s2}
  Dates = {d1}
  Tokens = {t1, t2}
  Requests = {r1, r2}
  Events = {e1}
  SessionOf <- MCSessionOf
  DateOf <- MCDateOf
  Timeout = 2
  None = None
SPECIFICATION FairSpec
INVARIANTS TypeOK OneActivePerDate
PROPERTIES ConfirmedAtBlock FinalStatus LeaseSpec RequestsReturn PendingSettles
