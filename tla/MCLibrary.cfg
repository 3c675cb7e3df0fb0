SPECIFICATION PSpec
CONSTANTS
  c1 = c1
  c2 = c2
  c3 = c3
  f1 = f1
  f2 = f2
  n1 = n1
  n2 = n2
  d1 = d1
  d2 = d2
  d3 = d3
  t1 = t1
  t2 = t2
  Calls = {c1, c2, c3}
  Mixes <- MCMixes
  OldFolders = {f1, f2}
  Names = {n1, n2}
  Docs = {d1, d2, d3}
  Tags = {t1, t2}
  MaxFolderDepth = 3
  MaxStatusChanges = 1
  Newest <- MCNewest
  PageSize = 1
  MaxAsks = 5
  Plans <- MCPlans
  Root = Root
  None = None
SYMMETRY Symmetric
INVARIANTS
  NothingDetached
  ReplacementReplaces
  NoneSkipped
  OwnWorkShows
PROPERTIES
  NothingSweptAlong
  FrozenStays
  BatchWasTicked
CHECK_DEADLOCK FALSE
