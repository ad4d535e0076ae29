SPECIFICATION FairAdapterSpec
CONSTANTS
  t1 = t1
  t2 = t2
  t3 = t3
  w1 = w1
  NoWorker = NoWorker
  NoCaller = NoCaller
  Tasks = {t1, t2, t3}
  Callers = {t1, t2}
  Workers = {w1}
  Capable <- CapableOwn
  Rank <- RankOne
  Loads = {0}
  MaxRetries = 2
  Budget = 2
INVARIANTS
  SuccessIsReal
  ReturnsTheDecision
PROPERTIES
  CallerReturns
