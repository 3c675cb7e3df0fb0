SPECIFICATION Spec
CONSTANTS
  c1 = c1
  c2 = c2
  c3 = c3
  s1 = s1
  s2 = s2
  s3 = s3
  me = me
  pat = pat
  k1 = k1
  ask = ask
  Calls = {c1, c2, c3}
  Mixes <- MCMixes
  Streams = {s1, s2, s3}
  People = {me, pat}
  DocOwner = pat
  Approvers = {me, pat}
  Moderators = {pat}
  Me = me
  Said = {k1}
  Asked = ask
  MaxStatusChanges = 1
  None = None
SYMMETRY Symmetric
INVARIANTS
  ListenersHear
  BadgeCurrent
  ThreadCurrent
  AnswersStand
PROPERTIES
  GoneIsLeftAlone
CHECK_DEADLOCK FALSE
