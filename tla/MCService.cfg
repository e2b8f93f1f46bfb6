CONSTANTS
  p = p
  q = q
  u = u
  t1 = t1
  t2 = t2
  Threads = {t1, t2}
  Questions <- MCQuestions
  Unanswerable = {u}
  Cost <- MCCost
  Key <- MCKey
  MaxCalls = 1
  MaxCost = 2
  CacheOn = TRUE
  MaxBilled = 3
  NoFile = NoFile
  Torn = Torn
  None = None
SPECIFICATION Spec
INVARIANTS TypeOK CallsBounded NoForeignCeiling SpendExact ServedOwn BilledOnce
SYMMETRY Swap
