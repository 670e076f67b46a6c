SPECIFICATION Spec
CONSTANTS
  s1 = s1
  s2 = s2
  p1 = p1
  p2 = p2
  p3 = p3
  Server <- MCServer
  Pid <- MCPid
  NoPid = NoPid
  Free = Free
  Foreign = Foreign
  Faults = {"start_fails", "pid_reuse"}
SYMMETRY Symmetry
INVARIANTS
  TypeOK
  NoOrphan
  DeletedIsForgotten
PROPERTIES
  StopIsFinal
  ImplementsSupervisor
