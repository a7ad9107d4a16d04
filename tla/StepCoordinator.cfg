SPECIFICATION FairSpec
CONSTANTS
  Executors = {e1, e2, e3}
  Remote = {e1, e2, e3}
  Throws <- MCThrows
  MaxCrashes = 2
INVARIANTS
  QuietWhenSent
  NoDanglingAction
  AliveIsAwaited
PROPERTIES
  NoNewRegularExecutor
  ImplementsContract
  StepEndsUnlessLost
CHECK_DEADLOCK FALSE
