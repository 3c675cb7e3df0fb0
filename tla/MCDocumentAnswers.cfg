SPECIFICATION MCSpec
CONSTANTS
  r1 = r1
  r2 = r2
  r3 = r3
  w1 = w1
  reasoner = reasoner
  plain = plain
  Requests = {r1, r2, r3}
  Workers = {w1}
  Operations = {"upload", "addVersion", "revert", "reprocess", "remove", "restore", "archive", "unarchive"}
  MaxFaults = 2
  Attempts = 2
  Nothing = Nothing
  Models = {reasoner, plain}
  TextModel = plain
  VisionModel = reasoner
  NoModel = NoModel
  Refuses = {plain}
  HideReasoning = TRUE
  OcrEnabled = TRUE
  MaxPages = 2
  MaxRateLimitRetries = 1
PROPERTIES
  RequestsFinish
  AcceptedJobSettles
  ImplementsLifecycle
CHECK_DEADLOCK FALSE
