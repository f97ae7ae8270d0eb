SPECIFICATION Spec
CONSTANTS
  w1 = w1
  Workers <- MCWorkers
  SpecialPhases = {"probe"}
  MaxScopes = 2
  PipeSize = 1
  ReportEvery = 1
  NormalQuiet = 1
  ProbeQuiet = 2
  LongQuiet = 2
  StartupGrace = 5
  NormalStale = 3
  ProbeStale = 4
  LongStale = 4
  MaxDelay = 2
INVARIANTS
  SnapshotsTellTruth
  OneGeneration
  DelaysBackOff
  StallsFound
PROPERTIES
  HealthyNotKilled
