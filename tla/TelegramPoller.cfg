CONSTANTS
  Updates = {0, 1}
  o1 = o1
  o2 = o2
  o3 = o3
  Owners = {o1, o2, o3}
  NoOwner = NoOwner
  Times = {1, 2, 3}
  MaxFailures = 2
  DoneLimit = 1
  DoneAge = 1
  DeadLimit = 1
  DeadAge = 1
  PruneBatch = 1
  CanExpire = TRUE
SPECIFICATION Spec
SYMMETRY OwnerSymmetry
INVARIANTS
  NothingLost
  OffsetDurable
  ClaimHeld
  TaintedProcessesStop
PROPERTIES
  ImplementsDelivery
