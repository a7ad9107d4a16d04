SPECIFICATION FairSpec
CONSTANTS
  Ahead <- MCAhead
  Day = 2
  HalfDay = 1
  RetryDelay = 3
  CheckDelay = 5
  RecheckDelay = 0
  MaxRequests = 3
  MaxCrashes = 1
INVARIANTS DestructionIsWatched NoStrayReminder
PROPERTIES CreatorIsTold JobsGoWithInstance
CHECK_DEADLOCK FALSE
