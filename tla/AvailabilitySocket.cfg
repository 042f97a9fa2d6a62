SPECIFICATION FairSpec
CONSTANTS
  Dates = {d1}
  None = None
  Sockets = {s1, s2, s3, s4}

INVARIANTS TypeOK OneLive NeverStranded
PROPERTIES Reconnects Calms
CHECK_DEADLOCK FALSE
