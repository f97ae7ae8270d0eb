\* Three slow stops of rejected candidates use up the fail-closed budget.
SPECIFICATION Spec
CONSTANTS
  Loops <- MCLoops
  Themes = {"cafe", "study"}
  Instants <- MCInstants
  MaxCandidates = 3
  MaxStops = 3
  MaxMoves = 1
  Nothing = Nothing
PROPERTIES
  FailedSelectionRestores
