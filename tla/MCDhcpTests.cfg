CONSTANTS
  Tests      <- MCDhcpOrder
  TestRanges <- MCDhcpRanges
  MaxFailed  = 2

SPECIFICATION FairSpec

INVARIANT ServesFile
INVARIANT FailoverBySecondary
PROPERTY NetworkRestored
