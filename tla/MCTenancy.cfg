SPECIFICATION PartSpec
CONSTANTS
  Tasks = {request, job}
  Companies = {acme, globex}
  Ids = {x, y}
  Founded = {acme}
  MaxNesting = 1
  Mixes <- MCMixes
  None = none
  Screens = {"approvals", "trail", "search"}
  Asks = {"all", "some"}
  Blank = "blank"
  FirstRows = 2
  PageSize = 1
  MaxOffset = 1
  MaxRequests = 3
  MaxChanges = 1
  MaxRefusals = 1
  Chores <- MCChores
  TagNames = {"red"}
  NewTag = "new"
  MaxAsks = 4
  MaxAlterations = 1
  MaxRefused = 1
SYMMETRY Symmetric
INVARIANTS
  OnlyOwnRowsGiven
  ShownIsAsked
  PagesJoin
  QueueCurrent
  WaitsForSomething
  PageCatchesUp
PROPERTIES
  TouchesOnlyItsOwn
  SavesWhatWasChosen
CHECK_DEADLOCK FALSE
