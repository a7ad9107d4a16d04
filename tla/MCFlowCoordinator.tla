-------------------------- MODULE MCFlowCoordinator --------------------------
(***************************************************************************)
(* Instances of FlowCoordinator for TLC: two steps of one phase (a with a  *)
(* retry, b with its failure ignored), a step of the next phase, and a     *)
(* rescue step.                                                            *)
(***************************************************************************)
EXTENDS FlowCoordinator

MCSteps  == {"a", "b", "c"}
MCRescue == {"r"}
MCPhaseOf == [s \in MCSteps |-> IF s = "c" THEN "deploy" ELSE "provision"]
MCPrecedingPhases == [s \in MCSteps |-> IF s = "c" THEN {"provision"} ELSE {}]
MCRetryCount == [s \in MCSteps |-> IF s = "a" THEN 1 ELSE 0]
MCIgnoreFail == {"b"}
=============================================================================
