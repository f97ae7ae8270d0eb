CONSTANTS
  Updates = {0, 1}
  o1 = o1
  o2 = o2
  o3 = o3
  Owners = {o1, o2}
  NoOwner = NoOwner
  Times = {1, 2, 3, 4}
  MaxFailures = 3
  DoneLimit = 1
  DoneAge = 0
  DeadLimit = 0
  DeadAge = 0
  PruneBatch = 1
  CanExpire = FALSE
SPECIFICATION FairSpec
PROPERTIES
  ImplementsJournal
  CalmSettles
