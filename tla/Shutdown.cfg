CONSTANTS
  NumChildren = 3
  Opener = 2
  Forked = {h1, h2}
  MaxMappings = 2
SPECIFICATION ShutdownSpec
INVARIANT LivesWhileReachable
INVARIANT NothingLeft
PROPERTY ExitIsNoticed
\* The launcher ends.
CHECK_DEADLOCK FALSE
