CONSTANTS
  NULL = NULL
  Comuni <- TwoComuni
  Dates <- OneDate
  Editions <- TwoEditions
  MaxFetches = 2
  MaxFaults = 1
SPECIFICATION Spec
INVARIANT IPProvenienzaIsBound
