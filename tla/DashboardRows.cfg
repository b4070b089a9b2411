CONSTANTS
  Inputs <- UpToFour
  NULL = NULL
SPECIFICATION Spec
INVARIANT TypeOK
INVARIANT ChartsAscend
INVARIANT ChartsAreHistory
INVARIANT FiguresAgree
CHECK_DEADLOCK FALSE
