CONSTANTS
  alice = alice
  bob = bob
  ip1 = ip1
  ip2 = ip2
  n1 = n1
  None = None
  Users <- WithMfa
  MfaUsers <- WithMfa
  IPs = {ip1}
  Networks = {n1}
  Requests = {1}
  Faults <- OnlyOverlap
SPECIFICATION Spec
INVARIANTS
  OfflineReclaims
