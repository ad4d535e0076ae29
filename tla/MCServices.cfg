SPECIFICATION Spec
CONSTANTS
  Calls = {c1}
  Limit = 1
  MaxResults = 2
  MaxItems = 3
  NoFile = NoFile
  Words = {"a", "b"}
  MaxWords = 3
  MaxRuns = 2
  Ids = {i1}
  Endpoints = {e1, e2}
  Interval = 2
  Timeout = 4
  Latency = 1
  Patience = 2
  MaxStarts = 2
  Requests = {q1, q2}
  Records <- MCRecords
  MaxRows = 2
  MaxOpens = 2
INVARIANTS
  DistanceIsLeast
  FailuresAreCounted
  AnsweredWritesLast
  ReportsInStep
  LiveWorkerIsOffered
PROPERTY
  NewestAreRead
CHECK_DEADLOCK FALSE
