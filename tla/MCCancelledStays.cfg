CONSTANTS
  d1       = d1
  d2       = d2
  NoDevice = NoDevice
  Devices  <- OneDevice
  Validate = FALSE
  AllowDisconnect = FALSE
  Patient  = TRUE
  MaxRuns  = 1
  MaxStops = 1

SPECIFICATION Spec

PROPERTY CancelledStays
