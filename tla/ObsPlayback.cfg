CONSTANTS
  t1 = t1
  t2 = t2
  Tracks = {t1, t2}
  Foreign = Foreign
  Nothing = Nothing
  EventBuffer = 1
  MaxSuperseded = 1
  MaxUnread = 1
  MaxFaults = 1
SPECIFICATION FairSpec
INVARIANTS
  BeliefIsLastOrder
  HealthyPlaybackIsKept
PROPERTIES
  OneAheadOfRecovery
  MusicGoesOn
