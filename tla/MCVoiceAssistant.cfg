SPECIFICATION Spec
CONSTANT MaxTurns = 2
INVARIANT TurnsAreCompleted
INVARIANT ReleasedAtEnd
PROPERTY StoppedStays
PROPERTY InterruptKept
