CONSTANTS
  Names = {a, b}
  Passwords = {p, q}
  Secrets = {s}
  Browsers = {b1}
  Updates = {u1}
  Logins = {l1}
  MemoryRuntime = FALSE
  MaxId = 2
  MaxUsers = 1
  MaxFields = 1
SPECIFICATION Spec
SYMMETRY Alike
CHECK_DEADLOCK FALSE
INVARIANTS
  
  SessionOwner
