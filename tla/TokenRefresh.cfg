CONSTANTS
  t1 = t1
  t2 = t2
  r1 = r1
  r2 = r2
  Tabs = {t1, t2}
  Requests = {r1, r2}
  TabOf <- MCTabOf
  MaxToken = 2
SPECIFICATION FairSpec
INVARIANTS TypeOK
PROPERTIES FlightSpec FareAlike RequestsReturn
