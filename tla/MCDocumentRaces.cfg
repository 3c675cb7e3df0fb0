SPECIFICATION Spec
CONSTANTS
  r1 = r1
  r2 = r2
  r3 = r3
  r4 = r4
  w1 = w1
  w2 = w2
  Requests = {r1, r2, r3}
  Workers = {w1, w2}
  Operations = {"upload", "addVersion", "revert", "reprocess", "remove", "restore", "archive", "unarchive"}
  MaxFaults = 1
  Attempts = 2
  Nothing = Nothing
SYMMETRY Symmetric
INVARIANTS
  HistoryContiguous
  CurrentIsLatest
  VersionsHaveBytes
  AtMostOneRun
  OrphansExplained
PROPERTIES
  ImplementsVersionHistory
CHECK_DEADLOCK FALSE
