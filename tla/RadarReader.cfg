CONSTANTS
  KnownMaps = {"de_dust2"}
  MaxGames = 2
  TickRange = 3
  MaxFaults = 2
SPECIFICATION Spec
INVARIANT CompareIsAhead
PROPERTY KeepsLiveProcess
PROPERTY GoneIsShown
PROPERTY Recovers
\* The task returns when the assets cannot be loaded.
CHECK_DEADLOCK FALSE
