CONSTANTS
  NULL = NULL
  Comuni <- TwoComuni
  Dates <- OneDate
  Editions <- TwoEditions
  MaxFetches = 2
  MaxFaults = 1
SPECIFICATION FairSpec
INVARIANT TypeOK
INVARIANT ComuniAreAnEdition
INVARIANT AnomalieAreAnEdition
INVARIANT DoubledOnlyIfMisread
PROPERTY EditionsArrive
PROPERTY ImportsGoOn
