---------------------------- MODULE FlowContract ----------------------------
(***************************************************************************)
(* What the flow of a workflow promises of the rows of the workflow and of *)
(* its instance.  FlowCoordinator implements it step by step, and every    *)
(* flow of InstanceLifecycle, where the flow is a few steps of one actor   *)
(* among requests, readers and crashes, keeps it too.                      *)
(***************************************************************************)
CONSTANT MayLose  \* storing the outcome may fail, which is only logged

VARIABLES
  row,        \* the status of the workflow in the store
  env,        \* the status of its instance in the store
  signal,     \* what the flow will report: Success until something interrupts it
  over,       \* onFlowFinish has returned
  onSuccess,  \* the status of the instance after a success
  restore     \* the status a read-only workflow gives back, or "none"

vars == <<row, env, signal, over, onSuccess, restore>>

Signal == {"Success", "Cancel", "TimeOut", "Fail"}

Init == row = "Requested" /\ env = "Busy" /\ signal = "Success" /\ ~ over

\* The status only goes forward, and never back from the Warning of an ignored failure.
Forward ==
  CASE row = "Requested" -> {"Requested", "Executing"}
    [] row = "Executing" -> {"Executing", "Warning"}
    [] OTHER             -> {row}

\* The first interruption decides what is reported.
Reportable == IF signal = "Success" THEN Signal ELSE {signal}

\* A step of the flow that is not its last: the instance stays Busy.
Proceed ==
  /\ ~ over /\ ~ over'
  /\ row' \in Forward
  /\ signal' \in Reportable
  /\ UNCHANGED <<env, onSuccess, restore>>

FinalStatus(reported, status) ==
  CASE reported = "Success" -> IF status = "Warning" THEN "Warning" ELSE "Succeed"
    [] reported = "Cancel"  -> "Canceled"
    [] OTHER                -> "Failed"

FinalEnv(reported) ==
  IF restore # "none" THEN restore ELSE IF reported = "Success" THEN onSuccess ELSE "Broken"

\* The last step: both rows get the outcome of what the flow reports ...
Record ==
  /\ ~ over /\ over'
  /\ \E reported \in Reportable, status \in Forward \ {"Requested"} :
        row' = FinalStatus(reported, status) /\ env' = FinalEnv(reported)

\* ... or neither does: a flow that never loaded its workflow has nothing to record.
Lose ==
  /\ ~ over /\ over'
  /\ row' \in Forward
  /\ MayLose \/ row' = "Requested"
  /\ UNCHANGED env

Next == Proceed \/ Record \/ Lose

\* After the last step the flow changes nothing.
Spec == Init /\ [][Next]_vars
=============================================================================
