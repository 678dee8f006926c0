CONSTANTS
  d1       = d1
  d2       = d2
  NoDevice = NoDevice
  Devices  <- OneDevice
  Validate = TRUE
  AllowDisconnect = FALSE
  Patient  = TRUE
  MaxRuns  = 2
  MaxStops = 2

SPECIFICATION FairSpec

INVARIANT OneRun
INVARIANT TargetPresent
INVARIANT OutcomeTornDown
INVARIANT InProgressBacked
PROPERTY StopSettles
CHECK_DEADLOCK FALSE
