CONSTANTS
  NumSlots = 3
  NumPlaces = 2
  MaxChanges = 2
  MaxFailures = 1
SPECIFICATION SnapshotSpec
INVARIANT ListFollowsGame
INVARIANT PhaseFollowsGame
