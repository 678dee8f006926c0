CONSTANTS
  Tests       <- MCTests
  ModuleTests <- MCModuleTests
  Pack        <- MCPack
  Level       <- MCLevel
  Gate        <- MCGate
  PilotPack   = FALSE
  NumModules  = 2
  Verdicts    <- MCVerdicts
  MaxStops    = 1
  MaxFaults   = 0

SPECIFICATION Spec

INVARIANT StopStopsContainers
