CONSTANTS
  MaxRuns   = 1
  MaxQueue  = 1
  MaxTimers = 1
  Outcomes  = {"Complete"}

SPECIFICATION FairSpec

PROPERTY StartAnnounced
CHECK_DEADLOCK FALSE
