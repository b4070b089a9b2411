CONSTANTS
  c1 = c1  c2 = c2  r1 = r1  a1 = a1  n1 = n1
  NULL = NULL
  Garbled = Garbled
  Comuni = {c1, c2}
  Ranges = {r1}
  Ats = {a1}
  Notes = {n1}
  Files <- OneFile
  Slots = 2
  MaxClicks = 4
  MaxLosses = 1
SPECIFICATION FairSpec
INVARIANT TypeOK
INVARIANT PlansShownAreSaved
INVARIANT CommentsShownAreSaved
PROPERTY SpinnerStops
CHECK_DEADLOCK FALSE
