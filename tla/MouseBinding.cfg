CONSTANTS
  Programs = {p1, p2}
  Mice = {m1, m2}
  Keys = {"side", "forward"}
  Supported = {"side"}
  Names = {"trigger", "side_a"}
  MaxDeaths = 1
SPECIFICATION Spec
INVARIANT BindingsKept
PROPERTY LearnersLetGo
\* All programs end.
CHECK_DEADLOCK FALSE
