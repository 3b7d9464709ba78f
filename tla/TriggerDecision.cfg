CONSTANTS
  NumPlayers = 2
  BucketSize = 2
  Checks = {"scope"}
  Span = 1
  MaxChanges = 2
SPECIFICATION FrameSpec
INVARIANT FireIsJustified
INVARIANT SteadyTargetIsFiredAt
