CONSTANTS
  d1       = d1
  d2       = d2
  NoDevice = NoDevice
  Devices  <- OneDevice
  Validate = TRUE
  AllowDisconnect = FALSE
  Patient  = TRUE
  MaxRuns  = 2
  MaxStops = 0

SPECIFICATION FairSpec

PROPERTY KeepsLifecycle
CHECK_DEADLOCK FALSE
