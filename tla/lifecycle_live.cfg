SPECIFICATION FairSpec
CONSTANTS
  s1 = s1
  s2 = s2
  p1 = p1
  p2 = p2
  p3 = p3
  Server <- MCServer
  Pid <- MCPid
  NoPid = NoPid
  Free = Free
  Foreign = Foreign
  Faults = {"recover_fails"}
PROPERTIES
  WatchdogRestarts
  TermExits
