SPECIFICATION FairSpec
CONSTANTS
  Executors = {e1, e2, e3}
  Remote = {e1, e2, e3}
  Throws <- MCThrows
  MaxCrashes = 1
PROPERTIES
  StepEnds
CHECK_DEADLOCK FALSE
