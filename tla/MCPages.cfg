CONSTANTS
  Files          = {"f1", "f2"}
  CommonName     <- MCCommonName
  Defects        <- MCDefects
  Reports        = {"r1", "r2"}
  Shape          <- MCShape
  Texts          = {"a", "ab"}
  Part           <- MCPart
  Today          = 2
  Searches       = {"ab"}
  ResultChoices  = {{"Compliant"}}
  MaxFilters     = 2
  Ports          = {"p1", "p2"}
  Levels         = {"INFO", "DEBUG"}
  DEFAULT_LEVEL  = "INFO"
  Configurations <- MCConfigurations
  MaxEvents      = 3
  Macs           = {"", "a", "A", "b"}
  Lower          <- MCLower
  Answers        = {"x"}
  Repositories   <- MCRepositories
  MaxCalls       = 2
  ProfileNames   = {"n", "copy"}
  CopyName       <- MCCopyName
  RiskAnswers    = {"x"}
  StoredProfiles <- MCStoredProfiles
  MaxSavings     = 2
  Fleet          = {"d1", "d2", "d3"}
  Outdated       = {"d3"}
  Offered        <- MCOffered
  Knows          <- MCKnows
  MaxStarts      = 2
  Boxes          = 3
  NoneBox        = 3
  Assessments    = {"p", "q"}
  MaxTimers      = 2
  MaxAnswers     = 1

SPECIFICATION MCSpec

INVARIANT CertificatesAgree
INVARIANT ReportsAgree
INVARIANT SettingsSound
INVARIANT DevicesAgree
INVARIANT ProfilesAgree
INVARIANT RunsAsChosen
INVARIANT QuestionsAgree
PROPERTY EditsKept
CHECK_DEADLOCK FALSE
