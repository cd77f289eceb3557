SPECIFICATION ApplicationSpec
CONSTANTS
  User = {u1, u2, u3}
  Role = {admin, supervisor}
  Admin = admin
  FirstAdmins = {u1, u2}
  Handler = {h1, h2}
  NoJob = noJob
  Question = {q1, q2}
  Limit = 3
  MaxRounds = 1
  MaxDay = 1
  RefreshSeconds = 3
  StaleSeconds = 6
  RequestSeconds = 2
  Person = {1, 2, 3}
  PersonGroup = {"user", "admin"}
  NotListed = "none"
  UserLists <- ApprovedLists
  DocName = {n1}
  Librarian = {a1}
  NoDoc = noDoc
  MaxUploads = 2
  MaxSyncs = 2
INVARIANTS
  AllTypesOK
  AdminRemainsIfSerial
  OneRoleUnlessCrossed
  BudgetHolds
  NoEventForgotten
  SyncSettles
  DoneMeansServed
SYMMETRY Symmetry
CHECK_DEADLOCK FALSE
