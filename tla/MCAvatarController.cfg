SPECIFICATION AvatarSpec
CONSTANTS
  Duration <- MCDuration
  SuccessTicks = 1
  Speeches = {0, 1}
  Points <- MCPoints
  MaxQueue = 2
INVARIANTS
  PoseOnlyWhileThinking
  EndedIsStill
  MouthFollowsSpeech
CHECK_DEADLOCK FALSE
