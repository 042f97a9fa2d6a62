CONSTANTS
  r1 = r1
  r2 = r2
  r3 = r3
  r4 = r4
  Requests = {r1, r2, r3, r4}
  KindOf <- MCKinds
  Immediate = TRUE
  None = None
SPECIFICATION FairSpec
INVARIANTS TypeOK ChargesExclude LinksExist
PROPERTIES SettledForGood RequestsReturn
CHECK_DEADLOCK FALSE
