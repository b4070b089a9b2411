CONSTANTS
  w1 = w1  w2 = w2
  c1 = c1  c2 = c2  c3 = c3
  mario = mario  anna = anna  capo = capo  acme = acme  beta = beta
  NULL = NULL
  Users = {mario, anna, capo}
  Admins = {capo}
  FirstDay <- Day0
  Fornitori = {acme}
  Writers <- AcmeOnly
  Moves = {}
  CheckLists = {}
  Days <- FewDays
  LastDay <- Day0
  Comuni = {c1, c2, c3}
  Workers <- TwoWorkers
  Requests <- RacingRequests
  Limit = 1
  Faults = FALSE
SPECIFICATION Spec
INVARIANT OneRowPerComune
