SPECIFICATION Spec
CONSTANTS
  c1 = c1
  c2 = c2
  c3 = c3
  c4 = c4
  Calls = {c1, c2, c3, c4}
  CallKinds = {"login", "refresh", "forgot", "reset"}
  MaxFailures = 0
  None = None
SYMMETRY Symmetric
PROPERTIES
  ResetEndsSessions
CHECK_DEADLOCK FALSE
