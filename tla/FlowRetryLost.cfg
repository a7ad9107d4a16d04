SPECIFICATION Spec
CONSTANTS
  Steps <- MCSteps
  RescueSteps <- MCRescue
  PhaseOf <- MCPhaseOf
  PrecedingPhases <- MCPrecedingPhases
  RetryCount <- MCRetryCount
  IgnoreFail <- MCIgnoreFail
  OnSuccess = "Ready"
  RestoreEnvStatus = "none"
  Faults = {"retry"}
  MaxFaults = 1
INVARIANTS
  SuccessMeansAllOver
CHECK_DEADLOCK FALSE
