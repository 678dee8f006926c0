CONSTANTS
  NumOld       = 2
  MaxRuns      = 1
  MaxCrashes   = 1
  NoLimit      = NoLimit
  DeviceLimit  = 1
  SessionLimit = 0
  Files        = {"f1", "f2"}
  Names        = {"n1", "n2"}
  Loaders      = {1, 2}
  Spellings   <- MCSpellings
  Lower       <- MCLower
  MaxSaves     = 5

SPECIFICATION StoresSpec

INVARIANT ListedHasFolder
INVARIANT ConfigCurrent
INVARIANT NewestKept
INVARIANT ListFollowsDisk
INVARIANT AnsweredKept
INVARIANT MemoryOnDisk
PROPERTY DeletesNamed
PROPERTY StoredApart
