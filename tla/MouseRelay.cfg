CONSTANTS
  NumMice = 2
  Buttons = {"left", "side"}
  Left = "left"
  Binding = "side"
  HeldAtStart = {"side"}
  MaxReports = 2
  MaxToggles = 2
SPECIFICATION Spec
PROPERTY FireEnds
PROPERTY CommandsHandled
INVARIANT LeftHasTwoHolders
INVARIANT OffReleasesEverything
INVARIANT GrabFollowsSwitch
INVARIANT FireNeedsHold
INVARIANT NothingStuck
CHECK_DEADLOCK FALSE
