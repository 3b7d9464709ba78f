CONSTANTS
  MaxGames = 2
  TickRange = 2
  MaxFaults = 2
SPECIFICATION Spec
INVARIANT LatestIsLastRead
PROPERTY FireEnds
PROPERTY FireReturns
