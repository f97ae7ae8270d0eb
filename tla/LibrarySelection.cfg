SPECIFICATION Spec
CONSTANTS
  Loops <- MCLoops
  Themes = {"cafe", "study"}
  Instants <- MCInstants
  MaxCandidates = 2
  MaxStops = 1
  MaxMoves = 2
  Nothing = Nothing
INVARIANTS
  ExpiredLoopNeverStays
  OverridesExpire
PROPERTIES
  SelectionSurvives
  PromisesStand
