CONSTANTS
  r1 = r1
  r2 = r2
  UserNames = {"root", "alice"}
  GroupNames = {"admin", "staff"}
  Root = "root"
  Admin = "admin"
  Servers = {1}
  Rules = {"net"}
  Requests = {r1}
  MaxId <- SmallKeys
  Subjects <- SomeSubjects
  MaxPerms = 1
SPECIFICATION Spec
CHECK_DEADLOCK FALSE
PROPERTIES
  DeleteOwnMemberships
