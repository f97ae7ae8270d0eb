SPECIFICATION Spec
CONSTANTS
  n1 = n1
  f1 = f1
  f2 = f2
  tg = tg
  rc = rc
  Nothing = Nothing
  Names <- MCNames
  Files <- MCFiles
  Uploaders <- MCUploaders
  Scanners <- MCScanners
  SweepBatch = 1
  MaxFaults = 2
INVARIANTS
  StorageSafe
  VerdictsBelongToFiles
  ImportsShow
  ScansTakeTurns
