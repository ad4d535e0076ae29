SPECIFICATION AdapterSpec
CONSTANTS
  t1 = t1
  t2 = t2
  t3 = t3
  w1 = w1
  NoWorker = NoWorker
  NoCaller = NoCaller
  Tasks = {t1, t2, t3}
  Callers = {t1, t2}
  Workers = {w1}
  Capable <- CapableAll
  Rank <- RankOne
  Loads = {0}
  MaxRetries = 1
  Budget = 2
INVARIANTS
  RunsBounded
