CONSTANTS
  Days <- MCDays
  Today <- MCToday
  NULL = NULL
SPECIFICATION Spec
INVARIANT AcceptedIsInterval
INVARIANT FirstPlanHasNotice
INVARIANT PreferredDateCanBeUpdated
INVARIANT EmptyPlanErasesNothing
CHECK_DEADLOCK FALSE
