CONSTANTS
  r1 = r1
  r2 = r2
  UserNames = {"root", "alice"}
  GroupNames = {"admin", "staff"}
  Root = "root"
  Admin = "admin"
  Servers = {1}
  Rules = {"net"}
  Requests = {r1, r2}
  MaxId <- SmallKeys
  Subjects <- SomeSubjects
  MaxPerms = 2
SPECIFICATION Spec
SYMMETRY RequestSymmetry
CHECK_DEADLOCK FALSE
INVARIANTS
  TypeOK
  GroupCascade
  PermissionsAgree

  
