CONSTANTS
  Days <- MCDays
  Today <- MCToday
  NULL = NULL
SPECIFICATION Spec
INVARIANT MissingCardsNeedTwentyDays
CHECK_DEADLOCK FALSE
