SPECIFICATION Spec
CONSTANTS
  Run <- Runs
  MaxRuns = 3
  Screen <- Screens
CHECK_DEADLOCK FALSE
INVARIANTS
  InsideMaps
  FailureUndone
  PictureIsFile
PROPERTIES
  Returns
