CONSTANTS
  NumOld       = 1
  MaxRuns      = 1
  MaxCrashes   = 0
  NoLimit      = NoLimit
  DeviceLimit  = 1
  SessionLimit = 0

SPECIFICATION Spec

INVARIANT LimitSurvives
