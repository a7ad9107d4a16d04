SPECIFICATION Spec
CONSTANTS
  Ahead <- MCAhead
  Day = 2
  HalfDay = 1
  RetryDelay = 3
  CheckDelay = 5
  RecheckDelay = 0
  MaxRequests = 3
  MaxCrashes = 0
INVARIANT ReminderComesFirst
CHECK_DEADLOCK FALSE
