------------------------- MODULE MCStepCoordinator -------------------------
(***************************************************************************)
(* Instances of StepCoordinator for TLC: every callback of the plugin may  *)
(* throw.                                                                  *)
(***************************************************************************)
EXTENDS StepCoordinator

MCThrows == {"onStepStart", "onActionFinish", "getStepResult"}
=============================================================================
