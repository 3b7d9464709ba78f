CONSTANTS
  Pids = {1, 2}
  MaxStarts = 3
  MaxModules = 3
  FirstCapacity = 1
SPECIFICATION Spec
INVARIANT OneProcess
INVARIANT OnlyGamesRead
PROPERTY AttachesToTheGame
