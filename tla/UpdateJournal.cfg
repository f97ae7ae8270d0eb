CONSTANTS
  Updates = {0, 1, 2}
  o1 = o1
  o2 = o2
  Owners = {o1, o2}
  NoOwner = NoOwner
  Times = {1, 2, 3}
  MaxFailures = 3
  DoneLimit = 1
  DoneAge = 1
  DeadLimit = 1
  DeadAge = 1
  PruneBatch = 1
SPECIFICATION JournalSpec
SYMMETRY OwnerSymmetry
INVARIANTS
  Safe
PROPERTIES
  TerminalRowsAreFinal
  OffsetsAdvanceWithOutcome
  DeadIsEarned
