SPECIFICATION BFairSpec
CONSTANTS
  c1 = c1
  c2 = c2
  c3 = c3
  b1 = b1
  b2 = b2
  Calls = {c1, c2, c3}
  Tabs = {b1, b2}
  CallKinds = {"login", "refresh", "logout", "forgot", "reset"}
  OutsideKinds = {"refresh"}
  Pages <- VisitedPages
  Readers = {b1}
  MaxSent = 3
  MaxFailures = 1
  None = None
INVARIANTS
  OneSuccessor
  TabsNeverSignOut
  JarSurvivesTabs
  SignOutEnds
PROPERTIES
  ImplementsSession
  CallsAreAnswered
CHECK_DEADLOCK FALSE
