CONSTANTS
  s1 = s1
  s2 = s2
  Users = {"bob"}
  MfaUsers = {"bob"}
  Servers = {s1, s2}
  Auths = {a1}
  Clearers = {c1, c2}
  Interval = 2
  MaxEntries = 1
  MaxTime = 5
  MaxMemoryEvents = 2
  MaxEvents = 3
SPECIFICATION Spec
SYMMETRY ServerSymmetry
INVARIANTS
  EventsAreNewest
  
  ClearLeavesTrace
PROPERTIES
  AttemptsSpaced
