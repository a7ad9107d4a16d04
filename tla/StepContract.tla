---------------------------- MODULE StepContract ----------------------------
(***************************************************************************)
(* What a step coordinator owes the flow that started it, and what         *)
(* FlowCoordinator assumes of each of its children: one StepResult, after  *)
(* an interruption the result "interrupt", and a row of the store that     *)
(* agrees with the result.  StepCoordinator implements it.                 *)
(***************************************************************************)
VARIABLES
  state,   \* started, running, failing (onStepStart threw), interrupting, ended
  beaten,  \* an interrupting Beat waits in the mailbox
  row,     \* the status of the step in the store
  sent     \* the result sent to the flow, or "none"

vars == <<state, beaten, row, sent>>

Result == {"ok", "failed", "throwable", "interrupt"}

TypeOK ==
  /\ state \in {"started", "running", "failing", "interrupting", "ended"}
  /\ beaten \in BOOLEAN
  /\ row \in {"Requested", "Executing", "Succeed", "Failed", "Canceled"}
  /\ sent \in Result \cup {"none"}

Init == state = "started" /\ beaten = FALSE /\ row = "Requested" /\ sent = "none"

\* The flow interrupts; a step that has ended no longer hears it.
Beat == /\ ~ beaten /\ state # "interrupting"
        /\ beaten' = (state # "ended")
        /\ UNCHANGED <<state, row, sent>>

End(r) == state' = "ended" /\ sent' = r

\* Start, which also ends a step that has nothing to execute.
Start ==
  /\ state = "started"
  /\ \/ state' = "running" /\ row' = "Executing" /\ UNCHANGED <<beaten, sent>>
     \/ state' = "failing" /\ row' = "Canceled" /\ UNCHANGED <<beaten, sent>>
     \/ End("ok") /\ row' = "Succeed" /\ beaten' = FALSE
     \/ End("failed") /\ row' = "Failed" /\ beaten' = FALSE
     \/ End("throwable") /\ row' \in {"Executing", "Canceled"} /\ beaten' = FALSE

Finish ==
  /\ \/ state = "running" /\ End("ok") /\ row' = "Succeed"
     \/ state = "running" /\ End("failed") /\ row' = "Failed"
     \/ state \in {"running", "failing"} /\ End("throwable") /\ UNCHANGED row
  /\ beaten' = FALSE

\* The Beat is read, which also ends a step that has nothing to wait for.
Interrupt ==
  /\ state \in {"running", "failing"} /\ beaten
  /\ beaten' = FALSE
  /\ row' = "Canceled"
  /\ \/ state' = "interrupting" /\ UNCHANGED sent
     \/ End("interrupt")

Interrupted ==
  /\ state = "interrupting"
  /\ End("interrupt")
  /\ UNCHANGED <<beaten, row>>

Next == Beat \/ Start \/ Finish \/ Interrupt \/ Interrupted

Spec == Init /\ [][Next]_vars
=============================================================================
