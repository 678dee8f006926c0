CONSTANTS
  MaxRuns   = 2
  MaxQueue  = 2
  MaxTimers = 1
  Outcomes  = {"Complete"}

SPECIFICATION FairSpec

INVARIANT StatusAgrees
INVARIANT SnackBarExplained
PROPERTY WaitingAnnounced
PROPERTY EndShown
CHECK_DEADLOCK FALSE
