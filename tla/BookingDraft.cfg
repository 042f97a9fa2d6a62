CONSTANTS
  LastStep = 3
  MaxEdit = 1
  MaxRequests = 2
SPECIFICATION FairSpec
INVARIANTS TypeOK InStep PassedStepsSaved OfferMeaningful
PROPERTIES NextNeverCompletes BookedAsConfirmed PageReleased
CHECK_DEADLOCK FALSE
