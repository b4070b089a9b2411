CONSTANTS
  w1 = w1  w2 = w2
  c1 = c1  c2 = c2  c3 = c3
  mario = mario  anna = anna  capo = capo  acme = acme  beta = beta
  NULL = NULL
  Users = {mario, anna, capo}
  Admins = {capo}
  FirstDay <- Day0
  Fornitori = {acme, beta}
  Writers <- AcmeWrites
  Moves <- MixedMoves
  CheckLists <- MixedCheckLists
  Days <- FewDays
  LastDay <- Day1
  Comuni = {c1, c2}
  Workers <- OneWorker
  Requests <- MixedRequests
  Limit = 1
  Faults = FALSE
SPECIFICATION FairSpec
INVARIANT TypeOK
INVARIANT OkMeansSaved
INVARIANT RefusedSavesNothing
INVARIANT OneRowPerComune
PROPERTY MovedPlansStartAhead
PROPERTY ReplacesWhatItJudged
PROPERTY EveryRequestAnswered
