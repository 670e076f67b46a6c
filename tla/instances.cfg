CONSTANTS
  alice = alice
  bob = bob
  s1 = s1
  e1 = e1
  e2 = e2
  v1 = v1
  ip1 = ip1
  ip2 = ip2
  Servers = {s1}
  Users <- Everybody
  Disabled <- OnlyBob
  Cert <- OwnCert
  Addresses = {ip1}
  Viewers = {v1}
  Editors = {e1, e2}
  MaxLog = 2
  MaxInputs = 3
SPECIFICATION Spec
SYMMETRY EditorSymmetry
INVARIANTS
  TypeOK
  
  LogsKept
PROPERTIES
  ReadersUndisturbed
  KicksTheRightUser
