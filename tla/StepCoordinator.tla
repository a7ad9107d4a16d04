--------------------------- MODULE StepCoordinator ---------------------------
(***************************************************************************)
(* The execution of one step: the actor StepCoordinator with its           *)
(* SafeStepCoordinator and GenesisStepCoordinator wrappers, and the        *)
(* executor actors that are its children.  What a plugin's coordinator     *)
(* decides (which actions to execute next, success or failure, an          *)
(* exception) is a free choice.                                            *)
(***************************************************************************)
EXTENDS Integers, Sequences, FiniteSets

CONSTANTS
  Executors,  \* the executors this step may start, in all
  Remote,     \* the ones that stand for an agent
  Throws,     \* the plugin calls that may throw: a subset of PluginCall
  MaxCrashes  \* how many executor actors may die of an exception in their receive

\* onStepInterrupt may throw as well, which is the same as returning no executor.
PluginCall == {"onStepStart", "onActionFinish", "getStepResult"}

ASSUME StepAssumption ==
  Remote \subseteq Executors /\ Throws \subseteq PluginCall /\ MaxCrashes \in Nat

VARIABLES
  behaviour,
  regularExecutors, signalExecutors, \* the executors waited for
  executorFailures, \* recorded by the supervisor strategy
  exceptionalResult,
  mailbox,          \* of the step coordinator
  exec,             \* executor -> state of its actor
  execBeaten,       \* executors with an unread interrupting Beat
  action,           \* executor -> its ActionTracking row
  row,              \* the step's row
  startThrew,       \* onStepStart threw
  signalled,        \* the flow has sent its Beat
  sent              \* the result sent to the flow, or "none"

coordinatorVars == <<behaviour, regularExecutors, signalExecutors, exceptionalResult,
                     action, row, startThrew, sent>>
vars == <<coordinatorVars, executorFailures, mailbox, exec, execBeaten, signalled>>

ExecState == {"new", "started", "running", "done", "crashed"}
Alive     == {e \in Executors : exec[e] \in {"started", "running"}}
Fresh     == {e \in Executors : exec[e] = "new"}

Message == [type : {"Start", "Beat"}]
           \cup [type : {"ActionResult", "Delayed", "Terminated"}, from : Executors]

-----------------------------------------------------------------------------
(* Calls into the plugin through the Safe and Genesis wrappers.  `batch` is *)
(* the executors the call returned: started, with their actions tracked.    *)

Tracked(rows, batch) == [e \in Executors |-> IF e \in batch THEN "Executing" ELSE rows[e]]

StartExecutors(batch, beaten) ==
  /\ exec' = [e \in Executors |-> IF e \in batch THEN "started" ELSE exec[e]]
  /\ execBeaten' = beaten

\* Variant: the tracking row of the action is not ended.
OnActionFinishUntracked(e, known, batch) ==
  /\ batch \subseteq Fresh
  /\ action' = Tracked(action, batch)
  /\ \/ UNCHANGED exceptionalResult
     \/ "onActionFinish" \in Throws /\ batch = {} /\ exceptionalResult' = TRUE

\* onActionFinish(result): end the action of e (if it is known), then ask the plugin.
OnActionFinish(e, known, batch) ==
  LET ended == IF known THEN [action EXCEPT ![e] = "Ended"] ELSE action
  IN  /\ batch \subseteq Fresh
      /\ action' = Tracked(ended, batch)
      /\ \/ UNCHANGED exceptionalResult
         \/ "onActionFinish" \in Throws /\ batch = {} /\ exceptionalResult' = TRUE

\* cancelRunningActions.
CancelRunning == [e \in Executors |-> IF action[e] = "Executing" THEN "Canceled" ELSE action[e]]

\* attemptToRegularFinish, with the result of getStepResult.
AttemptToRegularFinish(regular) ==
  /\ regularExecutors' = regular
  /\ \/ /\ regular # {}
        /\ UNCHANGED <<behaviour, sent>>
     \/ /\ regular = {}
        /\ behaviour' = "ignoreBeat"
        /\ sent' \in IF exceptionalResult' THEN {"throwable"}
                     ELSE {"ok", "failed"} \cup
                          (IF "getStepResult" \in Throws THEN {"throwable"} ELSE {})

\* The status getStepResult stores, next to the status the handler stored before.
Stored(before) ==
  CASE sent' = "ok" -> "Succeed" [] sent' = "failed" -> "Failed" [] OTHER -> before

\* Variant: the regular executors are not waited for.
AttemptToSignalFinishAlone(regular, signal) ==
  /\ regularExecutors' = regular
  /\ signalExecutors' = signal
  /\ IF signal = {}
     THEN behaviour' = "ignoreBeat" /\ sent' = "interrupt"
     ELSE behaviour' = "interrupted" /\ UNCHANGED sent

\* attemptToSignalFinish.
AttemptToSignalFinish(regular, signal) ==
  /\ regularExecutors' = regular
  /\ signalExecutors' = signal
  /\ IF regular \cup signal = {}
     THEN behaviour' = "ignoreBeat" /\ sent' = "interrupt"
     ELSE behaviour' = "interrupted" /\ UNCHANGED sent

-----------------------------------------------------------------------------
(* The actor: one message per step. *)

Receive(type) ==
  /\ mailbox # <<>>
  /\ Head(mailbox).type = type
  /\ mailbox' = Tail(mailbox)

From == Head(mailbox).from

\* Start: Executing and the first executors; if the plugin throws, the executors of
\* onStepInterrupt(Fail), whose exception counts as none.
HandleStart ==
  /\ behaviour = "receive" /\ Receive("Start")
  /\ \E batch \in SUBSET Fresh :
        /\ action' = Tracked(action, batch)
        /\ StartExecutors(batch, execBeaten)
        /\ startThrew' \in IF "onStepStart" \in Throws THEN BOOLEAN ELSE {FALSE}
        /\ exceptionalResult' = startThrew'
        /\ AttemptToRegularFinish(batch)
        /\ row' = Stored(IF startThrew' THEN "Canceled" ELSE "Executing")
  /\ UNCHANGED <<signalExecutors, executorFailures, signalled>>

\* A result in the regular state.
HandleActionResult ==
  /\ behaviour = "receive" /\ Receive("ActionResult")
  /\ \E batch \in SUBSET Fresh :
        /\ OnActionFinish(From, TRUE, batch)
        /\ StartExecutors(batch, execBeaten)
        /\ AttemptToRegularFinish((regularExecutors \ {From}) \cup batch)
        /\ row' = Stored(row)
  /\ UNCHANGED <<signalExecutors, executorFailures, startThrew, signalled>>

\* Terminated in the regular state: a recorded failure counts as a failed action.
HandleTerminated ==
  /\ behaviour = "receive" /\ Receive("Terminated")
  /\ From \in executorFailures
  /\ \E batch \in SUBSET Fresh :
        /\ OnActionFinish(From, From \in regularExecutors, batch)
        /\ StartExecutors(batch, execBeaten)
        /\ AttemptToRegularFinish((regularExecutors \ {From}) \cup batch)
        /\ row' = Stored(row)
  /\ UNCHANGED <<signalExecutors, executorFailures, startThrew, signalled>>

\* Variant: the interruption forgets the executors it has beaten.
HandleBeatForgetful ==
  /\ behaviour = "receive" /\ Receive("Beat")
  /\ \E batch \in SUBSET Fresh :
        /\ action' = Tracked(CancelRunning, batch)
        /\ StartExecutors(batch, execBeaten \cup regularExecutors)
        /\ AttemptToSignalFinish({}, signalExecutors \cup batch)
  /\ row' = "Canceled"
  /\ UNCHANGED <<exceptionalResult, executorFailures, startThrew, signalled>>

\* Variant: the interruption is not stored.
HandleBeatUnstored ==
  /\ behaviour = "receive" /\ Receive("Beat")
  /\ \E batch \in SUBSET Fresh :
        /\ action' = Tracked(CancelRunning, batch)
        /\ StartExecutors(batch, execBeaten \cup regularExecutors)
        /\ AttemptToSignalFinish(regularExecutors, signalExecutors \cup batch)
  /\ UNCHANGED <<row, exceptionalResult, executorFailures, startThrew, signalled>>

\* The interrupting Beat: pass it on, cancel the rows, start what onStepInterrupt returns.
HandleBeat ==
  /\ behaviour = "receive" /\ Receive("Beat")
  /\ \E batch \in SUBSET Fresh :
        /\ action' = Tracked(CancelRunning, batch)
        /\ StartExecutors(batch, execBeaten \cup regularExecutors)
        /\ AttemptToSignalFinish(regularExecutors, signalExecutors \cup batch)
  /\ row' = "Canceled"
  /\ UNCHANGED <<exceptionalResult, executorFailures, startThrew, signalled>>

\* Variant: what the plugin returns is added to the regular executors.
InterruptedActionResultRegular ==
  /\ behaviour = "interrupted" /\ Receive("ActionResult")
  /\ \E batch \in SUBSET Fresh :
        /\ OnActionFinish(From, TRUE, batch)
        /\ StartExecutors(batch, execBeaten)
        /\ AttemptToSignalFinish((regularExecutors \ {From}) \cup batch, signalExecutors \ {From})
  /\ UNCHANGED <<row, executorFailures, startThrew, signalled>>

\* Variant: only signal executors are expected to answer.
InterruptedActionResultOfSignal ==
  /\ behaviour = "interrupted" /\ Receive("ActionResult")
  /\ \E batch \in SUBSET Fresh :
        /\ OnActionFinish(From, TRUE, batch)
        /\ StartExecutors(batch, execBeaten)
        /\ AttemptToSignalFinish(regularExecutors, (signalExecutors \ {From}) \cup batch)
  /\ UNCHANGED <<row, executorFailures, startThrew, signalled>>

\* A result when interrupted, of a regular executor (DelayedExecutorInterrupt) or of one
\* started by the interruption; what the plugin returns is always a signal executor.
InterruptedActionResult ==
  /\ behaviour = "interrupted" /\ Receive("ActionResult")
  /\ \E batch \in SUBSET Fresh :
        /\ OnActionFinish(From, TRUE, batch)
        /\ StartExecutors(batch, execBeaten)
        /\ AttemptToSignalFinish(regularExecutors \ {From}, (signalExecutors \ {From}) \cup batch)
  /\ UNCHANGED <<row, executorFailures, startThrew, signalled>>

\* Terminated when interrupted: handleTermination(a, signalExecutors), whoever a was.
InterruptedTerminated ==
  /\ behaviour = "interrupted" /\ Receive("Terminated")
  /\ From \in executorFailures
  /\ \E batch \in SUBSET Fresh :
        /\ OnActionFinish(From, From \in signalExecutors, batch)
        /\ StartExecutors(batch, execBeaten)
        /\ AttemptToSignalFinish(regularExecutors, (signalExecutors \ {From}) \cup batch)
  /\ UNCHANGED <<row, executorFailures, startThrew, signalled>>

\* 'Delayed when interrupted, and whatever reaches a coordinator that has sent its result.
DropMessage ==
  /\ \/ behaviour = "interrupted" /\ Receive("Delayed")
     \/ behaviour = "ignoreBeat" /\ \E type \in {"Beat", "ActionResult", "Delayed", "Terminated"} : Receive(type)
  /\ UNCHANGED <<coordinatorVars, executorFailures, exec, execBeaten, signalled>>

HandleMessage == HandleStart \/ HandleActionResult \/ HandleTerminated \/ HandleBeat
                 \/ InterruptedActionResult \/ InterruptedTerminated \/ DropMessage

\* FlowCoordinator.beatCoordinators: at most once.
Signal ==
  /\ ~ signalled /\ sent = "none"
  /\ signalled' = TRUE
  /\ mailbox' = Append(mailbox, [type |-> "Beat"])
  /\ UNCHANGED <<coordinatorVars, executorFailures, exec, execBeaten>>

-----------------------------------------------------------------------------
(* The executor actors, as their parent sees them. *)

Send(type, e) == mailbox' = Append(mailbox, [type |-> type, from |-> e])

ExecStart(e) ==
  /\ exec[e] = "started"
  /\ exec' = [exec EXCEPT ![e] = "running"]
  /\ UNCHANGED <<coordinatorVars, executorFailures, mailbox, execBeaten, signalled>>

\* The action ended (or threw): its result; from then on the actor ignores beats.
ExecFinish(e) ==
  /\ exec[e] = "running"
  /\ exec' = [exec EXCEPT ![e] = "done"]
  /\ execBeaten' = execBeaten \ {e}
  /\ Send("ActionResult", e)
  /\ UNCHANGED <<coordinatorVars, executorFailures, signalled>>

\* An interrupting Beat: answered with ExecutorInterrupt, or with 'Delayed by an executor
\* that must finish first.
ExecRespond(e) ==
  /\ exec[e] = "running" /\ e \in execBeaten
  /\ execBeaten' = execBeaten \ {e}
  /\ \/ exec' = [exec EXCEPT ![e] = "done"] /\ Send("ActionResult", e)
     \/ UNCHANGED exec /\ Send("Delayed", e)
  /\ UNCHANGED <<coordinatorVars, executorFailures, signalled>>

\* An exception in the actor's receive: when it starts (an agent cannot be looked up) or in
\* canRespond.  The supervisor strategy notes it and stops the actor.
ExecCrash(e) ==
  /\ Cardinality(executorFailures) < MaxCrashes
  /\ exec[e] = "started" \/ (exec[e] = "running" /\ e \in execBeaten)
  /\ exec' = [exec EXCEPT ![e] = "crashed"]
  /\ execBeaten' = execBeaten \ {e}
  /\ executorFailures' = executorFailures \cup {e}
  /\ Send("Terminated", e)
  /\ UNCHANGED <<coordinatorVars, signalled>>

\* The watcher of an agent reports whatever reaches it before its PoisonPill: the result of
\* an agent it has given up, or that it gives up one whose result is on its way.
\* Bound: one result of an executor is unread at a time; the order in which results are read
\* is as free as without it.
ExecRepeat(e) ==
  /\ e \in Remote /\ exec[e] = "done"
  /\ ~ \E i \in DOMAIN mailbox : mailbox[i].type = "ActionResult" /\ mailbox[i].from = e
  /\ Send("ActionResult", e)
  /\ UNCHANGED <<coordinatorVars, executorFailures, exec, execBeaten, signalled>>

-----------------------------------------------------------------------------
Init ==
  /\ behaviour = "receive"
  /\ regularExecutors = {} /\ signalExecutors = {} /\ executorFailures = {}
  /\ exceptionalResult = FALSE
  /\ mailbox = <<[type |-> "Start"]>>
  /\ exec = [e \in Executors |-> "new"]
  /\ execBeaten = {}
  /\ action = [e \in Executors |-> "absent"]
  /\ row = "Requested" /\ startThrew = FALSE
  /\ signalled = FALSE /\ sent = "none"

Next ==
  \/ HandleMessage \/ Signal
  \/ \E e \in Executors : ExecStart(e) \/ ExecFinish(e) \/ ExecRespond(e) \/ ExecCrash(e) \/ ExecRepeat(e)

Spec == Init /\ [][Next]_vars

\* Messages are handled, an executor starts, reads its beats, and ends (the contract of an
\* action; FlowCoordinator does not rely on it).
FairSpec == /\ Spec
            /\ WF_vars(HandleMessage)
            /\ \A e \in Executors : WF_vars(ExecStart(e)) /\ WF_vars(ExecFinish(e))

-----------------------------------------------------------------------------
TypeOK ==
  /\ behaviour \in {"receive", "interrupted", "ignoreBeat"}
  /\ regularExecutors \subseteq Executors /\ signalExecutors \subseteq Executors
  /\ executorFailures \subseteq Executors
  /\ exceptionalResult \in BOOLEAN
  /\ mailbox \in Seq(Message)
  /\ exec \in [Executors -> ExecState]
  /\ execBeaten \subseteq Executors
  /\ action \in [Executors -> {"absent", "Executing", "Ended", "Canceled"}]
  /\ row \in {"Requested", "Executing", "Succeed", "Failed", "Canceled"}
  /\ startThrew \in BOOLEAN /\ signalled \in BOOLEAN
  /\ sent \in {"none", "ok", "failed", "throwable", "interrupt"}

\* "Called when all started action executors was finished and no more executors was
\* started": a step only reports, in any way, when none of its executors is at work.
QuietWhenSent == sent # "none" => Alive = {}

\* No action of a step that has reported is shown as running.
NoDanglingAction == sent # "none" => \A e \in Executors : action[e] # "Executing"

\* An executor is waited for exactly once, as regular or as signal executor, and as long as
\* it is alive the coordinator waits for it.
AliveIsAwaited ==
  /\ regularExecutors \cap signalExecutors = {}
  /\ Alive \subseteq regularExecutors \cup signalExecutors

\* After an interruption only the interruption's own executors are added.
NoNewRegularExecutor ==
  [][behaviour = "interrupted" => regularExecutors' \subseteq regularExecutors]_vars

\* "In a case of interruption all currently executed StepCoordinator would be interrupted":
\* an interrupted step whose executors end reports to the flow.
StepEnds == [](behaviour = "interrupted" => <>(sent # "none"))

\* Where StepEnds fails: a dead executor is waited for forever.  Without one, every
\* interrupted step reports, crashes of executors or not.
StepEndsUnlessLost == []<>(regularExecutors \cap executorFailures = {}) => StepEnds

\* The abstract promise to the flow.
ContractState ==
  IF sent # "none" THEN "ended"
  ELSE IF behaviour = "interrupted" THEN "interrupting"
  ELSE IF row = "Requested" THEN "started"
  ELSE IF startThrew THEN "failing"
  ELSE "running"

Contract == INSTANCE StepContract WITH
  state  <- ContractState,
  beaten <- \E i \in DOMAIN mailbox : mailbox[i].type = "Beat" /\ sent = "none"

ImplementsContract == Contract!Spec
=============================================================================
