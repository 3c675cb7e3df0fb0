SPECIFICATION CompanySpec
CONSTANTS
  c1 = c1
  c2 = c2
  c3 = c3
  ann = ann
  bob = bob
  link1 = link1
  link2 = link2
  Calls = {c1, c2, c3}
  CallKinds = {"setRoles", "invite", "revoke", "accept", "register"}
  People = {ann, bob}
  Roles = {"Owner", "Member"}
  Owner = "Owner"
  Inviters = {"Owner"}
  Home = "home"
  Sent = {link1, link2}
  None = None
  Rounds <- MCRounds
SYMMETRY Symmetric
INVARIANTS
  OneLiveLink
  OneAcceptance
  OwnerSurvives
  StaffCurrent
PROPERTIES
  RevokedIsFinal
CHECK_DEADLOCK FALSE
