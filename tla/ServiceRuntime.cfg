CONSTANTS
  Processes = {p1, p2}
  Databases = {d1, d2}
  Bots = {b1}
  Workers = {telegram, playback}
  Telegram = telegram
  Reporter = reporter
  NoProcess = NoProcess
SPECIFICATION FairSpec
CHECK_DEADLOCK FALSE
INVARIANTS
  LocksCoverUse
  StatusTellsTruth
PROPERTIES
  ProcessEnds
