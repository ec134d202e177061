SPECIFICATION Spec
CONSTANTS
  Pins = {p1, p2}
  Displaying = {p1}
  Choices = {c1, c2}
  MaxRoutes = 2
  MaxDrift = 1
  None = None
PROPERTIES
  SelectionRestarts
CHECK_DEADLOCK FALSE
