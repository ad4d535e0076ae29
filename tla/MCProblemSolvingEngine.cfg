SPECIFICATION Spec
CONSTANTS
  MaxIterations = 3
  MaxSteps = 2
  MaxQuestions = 2
  MaxSolves = 1
INVARIANTS
  AttemptsInOrder
  CompletedIsVerified
  RecordIsOutcome
PROPERTIES
  NoActionAfterCancel
CHECK_DEADLOCK FALSE
