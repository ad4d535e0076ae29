SPECIFICATION FairSpec
CONSTANTS
  t1 = t1
  t2 = t2
  w1 = w1
  w2 = w2
  NoWorker = NoWorker
  Tasks = {t1, t2}
  Workers = {w1, w2}
  Capable <- CapableTwo
  Rank <- RankTwo
  Loads = {0}
  MaxRetries = 2
INVARIANTS
  TaskInOnePlace
  AssignmentIsCurrent
  OneOutcomePerAttempt
  ResultMatchesStatus
PROPERTIES
  EventuallyDecided
  QueueOrderStable
  ImplementsLifecycle
