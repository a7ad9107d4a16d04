SPECIFICATION FairSpec
CONSTANTS
  Steps <- MCSteps
  RescueSteps <- MCRescue
  PhaseOf <- MCPhaseOf
  PrecedingPhases <- MCPrecedingPhases
  RetryCount <- MCRetryCount
  IgnoreFail <- MCIgnoreFail
  OnSuccess = "Ready"
  RestoreEnvStatus = "none"
  Faults = {"onFlowStart", "prepare", "retry", "onStepFinish", "rescue", "onFlowFinish"}
  MaxFaults = 1
PROPERTIES
  ImplementsContract
  FinishIsFinal
  FlowFinishes
CHECK_DEADLOCK FALSE
