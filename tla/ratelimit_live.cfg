CONSTANTS
  None = None
  Users = {alice}
  Slots = {ip1}
  Plans = {plan}
  Terms <- OnlyHasty
  Policies = {0}
  MaxTime = 2
  MaxBytes = 2
  MaxActs = 1
SPECIFICATION FairSpec
PROPERTIES
  RefusedIsCut
  ExpiredIsEnded
  LimitArrives
