CONSTANTS
  Rows = {1, 2, 3}
  Comuni = {1, 2}
  ComuneOf <- Owner
  Hours = 4
  LongestRun = 1
  Notice = 4
  FirstDay = 1
  LastDay = 7
  Moves <- FewMoves
  Settings <- FewSettings
  MaxFaults = 1
  NULL = NULL
SPECIFICATION Spec
INVARIANT TypeOK
INVARIANT ResentOnlyIfCut
INVARIANT OverdueIsTold
INVARIANT AnnouncedInTime
CHECK_DEADLOCK FALSE
