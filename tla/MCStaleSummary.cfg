SPECIFICATION Spec
CONSTANTS
  r1 = r1
  r2 = r2
  r3 = r3
  r4 = r4
  w1 = w1
  w2 = w2
  Requests = {r1, r2}
  Workers = {w1, w2}
  Operations = {"upload", "addVersion"}
  MaxFaults = 0
  Attempts = 2
  Nothing = Nothing
SYMMETRY Symmetric
INVARIANTS
  ReadySummaryIsCurrent
CHECK_DEADLOCK FALSE
