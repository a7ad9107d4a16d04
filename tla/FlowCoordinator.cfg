\* Up to two exceptions of the calls that start the flow, prepare a step or take a result.
SPECIFICATION Spec
CONSTANTS
  Steps <- MCSteps
  RescueSteps <- MCRescue
  PhaseOf <- MCPhaseOf
  PrecedingPhases <- MCPrecedingPhases
  RetryCount <- MCRetryCount
  IgnoreFail <- MCIgnoreFail
  OnSuccess = "Ready"
  RestoreEnvStatus = "none"
  Faults = {"onFlowStart", "prepare", "onStepFinish"}
  MaxFaults = 2
INVARIANTS
  TypeOK
  OneCoordinatorPerStep
  PhaseOrder
  QuietAtFinish
  SuccessMeansAllOver
  OutcomeRecorded
  RescueOnFailure
PROPERTIES
  NothingNewAfterInterrupt
CHECK_DEADLOCK FALSE
