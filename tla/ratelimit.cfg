CONSTANTS
  None = None
  Users = {alice}
  Slots = {ip1}
  Plans = {plan}
  Terms <- OnlyStrict
  Policies = {0, 2}
  MaxTime = 3
  MaxBytes = 2
  MaxActs = 2
SPECIFICATION Spec
INVARIANTS
  TypeOK
  RecordMatchesKernel
  ChargedOnce
