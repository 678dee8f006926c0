CONSTANTS
  Tests       <- MCTests
  ModuleTests <- MCModuleTests
  Pack        <- MCPack
  Level       <- MCLevel
  Gate        <- MCGate
  PilotPack   = TRUE
  NumModules  = 2
  Verdicts    <- MCVerdicts
  MaxStops    = 2
  MaxFaults   = 1

SPECIFICATION FairSpec

INVARIANT TypeOK
INVARIANT ReportComplete
INVARIANT ReportMatchesSession
INVARIANT EvidenceBacked
INVARIANT OneContainer
INVARIANT EveryTestAccounted
INVARIANT NothingLeftInProgress
INVARIANT OutcomeHasReport
PROPERTY KeepsFairContract
PROPERTY StoppingEnds
PROPERTY NetworkReleased
