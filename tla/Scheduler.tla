------------------------------ MODULE Scheduler ------------------------------
(***************************************************************************)
(* The scheduled jobs of one instance: its automatic destruction, with a   *)
(* reminder before it and a check after it, and one workflow to be run     *)
(* later.  The jobs and their triggers are rows of Quartz; a job that has  *)
(* fired runs on a worker thread, reads the status of the instance and     *)
(* acts on it later, while users schedule, withdraw and request workflows. *)
(*                                                                         *)
(* EnvironmentJobServiceImpl, SchedulingServiceImpl and the four job       *)
(* classes are modelled; Quartz is as they use it: a trigger that fires    *)
(* for the last time stays, without a next date, until its job ends.       *)
(* Recurring (cron) triggers are left out.  Time is counted in ticks, from *)
(* now: a trigger holds the ticks left.                                    *)
(***************************************************************************)
EXTENDS Naturals, FiniteSets

CONSTANTS
  Ahead,          \* how far ahead, in ticks, a user may schedule
  Day, HalfDay,   \* the leads of the reminder
  RetryDelay,     \* RESCHEDULE_DELAY_MIN of WorkflowExecutionJob
  CheckDelay,     \* from the destruction to the check of it
  RecheckDelay,   \* between two checks
  MaxRequests,    \* bound: how often users schedule or request something
  MaxCrashes      \* bound: how often the backend crashes

ASSUME SchedulerAssumption ==
  /\ Ahead \subseteq Nat \ {0}
  /\ Day \in Nat \ {0} /\ HalfDay \in Nat /\ HalfDay <= Day
  /\ RetryDelay \in Nat \ {0} /\ CheckDelay \in Nat \ {0} /\ RecheckDelay \in Nat
  /\ MaxRequests \in Nat /\ MaxCrashes \in Nat

Job == {"workflow", "destruction", "notification", "check"}

VARIABLES
  flow,       \* the workflow under way: an instance with one is Busy
  destroyed,  \* the instance is Destroyed
  event,      \* the flow that destroyed it has still to publish EnvDestroyed
  mark,       \* an operator's setEnvStatus(Destroyed) has published EnvDestroyed
  trigger,    \* job -> its trigger
  running,    \* job -> what its execution knows of the status of the instance
  asked,      \* somebody wants the instance destroyed on a date
  told,       \* what the creator was told since it was asked for
  lost,       \* a crash hit an execution of the check
  requests, crashes

vars == <<flow, destroyed, event, mark, trigger, running, asked, told, lost, requests, crashes>>
instance == <<flow, destroyed, event>>

Trigger == [state : {"absent", "waiting", "complete"}, left : Nat, fired : BOOLEAN]
NoTrigger == [state |-> "absent", left |-> 0, fired |-> FALSE]
At(n)     == [state |-> "waiting", left |-> n, fired |-> FALSE]

Status == IF destroyed THEN "Destroyed" ELSE IF flow = "none" THEN "Ready" ELSE "Busy"

TypeOK ==
  /\ flow \in {"none", "ordinary", "destroy"} /\ destroyed \in BOOLEAN
  /\ event \in BOOLEAN /\ mark \in BOOLEAN
  /\ trigger \in [Job -> Trigger]
  /\ running \in [Job -> {"no", "started", "Ready", "Busy", "Destroyed"}]
  /\ asked \in BOOLEAN /\ told \in {"nothing", "failed", "destroyed"} /\ lost \in BOOLEAN
  /\ requests \in Nat /\ crashes \in Nat

Init ==
  /\ flow \in {"none", "ordinary"} /\ destroyed = FALSE /\ event = FALSE /\ mark = FALSE
  /\ trigger = [j \in Job |-> NoTrigger] /\ running = [j \in Job |-> "no"]
  /\ asked = FALSE /\ told = "nothing" /\ lost = FALSE /\ requests = 0 /\ crashes = 0

-----------------------------------------------------------------------------
(* The service. *)

without(jobs) == [j \in Job |-> IF j \in jobs THEN NoTrigger ELSE trigger[j]]

Pending(j) == trigger[j].state = "waiting"   \* it has a next fire date

DestructionJobs == {"destruction", "notification", "check"}

\* Variant: the reminder is not withdrawn.
reminderKept == {"destruction", "check"}

\* removeScheduledDestruction deletes these jobs.
ofDestruction == DestructionJobs

\* The dates of the jobs of a destruction n ticks ahead.  toDays rounds down.
datesOf(n) ==
  LET days == n \div Day
      lead == IF days > 2 THEN Day ELSE HalfDay
  IN  [j \in IF days > 1 THEN DestructionJobs ELSE DestructionJobs \ {"notification"} |->
         CASE j = "destruction"  -> n
           [] j = "notification" -> n - lead
           [] j = "check"        -> n + CheckDelay]

Ask == requests < MaxRequests /\ requests' = requests + 1

\* scheduleDestructionJobs.  Quartz refuses a job that it already has; the exception rolls
\* the transaction back.
scheduleDestruction ==
  /\ Ask
  /\ \E n \in Ahead :
       LET kept  == IF Pending("destruction") THEN without(ofDestruction) ELSE trigger
           dates == datesOf(n)
       IN  /\ \A j \in DOMAIN dates : kept[j].state = "absent"
           /\ trigger' = [j \in Job |-> IF j \in DOMAIN dates THEN At(dates[j]) ELSE kept[j]]
  /\ asked' = TRUE /\ told' = "nothing" /\ lost' = FALSE
  /\ UNCHANGED <<instance, mark, running, crashes>>

removeScheduledDestruction ==
  /\ asked
  /\ trigger' = without(ofDestruction) /\ asked' = FALSE
  /\ UNCHANGED <<instance, mark, running, told, lost, requests, crashes>>

\* scheduleWorkflow replaces the job; removeJob deletes it.
scheduleWorkflow ==
  /\ Ask
  /\ \E n \in Ahead : trigger' = [trigger EXCEPT !["workflow"] = At(n)]
  /\ UNCHANGED <<instance, mark, running, asked, told, lost, crashes>>

removeJob ==
  /\ trigger["workflow"].state # "absent"
  /\ trigger' = without({"workflow"})
  /\ UNCHANGED <<instance, mark, running, asked, told, lost, requests, crashes>>

\* Variant: jobs without a next date are removed too.
allJobs == Job

\* removeAllScheduledJobs: only workflow executions with a next date are listed, and that of
\* the destruction takes the reminder and the check with it.
listed == (IF Pending("destruction") THEN DestructionJobs ELSE {})
            \cup (IF Pending("workflow") THEN {"workflow"} ELSE {})

-----------------------------------------------------------------------------
(* The instance, as the other modules describe it. *)

requestWorkflow ==
  /\ Ask /\ Status = "Ready"
  /\ flow' \in {"ordinary", "destroy"}
  /\ UNCHANGED <<destroyed, event, mark, trigger, running, asked, told, lost, crashes>>

onFlowFinish ==
  /\ flow # "none" /\ flow' = "none"
  /\ destroyed' \in IF flow = "destroy" THEN BOOLEAN ELSE {FALSE}
  /\ event' = destroyed'
  /\ UNCHANGED <<mark, trigger, running, asked, told, lost, requests, crashes>>

publishEnvDestroyed ==
  /\ event /\ event' = FALSE
  /\ trigger' = without(listed)
  /\ UNCHANGED <<flow, destroyed, mark, running, asked, told, lost, requests, crashes>>

\* GenesisRestService.setEnvStatus publishes first and looks at the instance afterwards: a
\* change that is refused has removed the jobs.
markPublishes ==
  /\ Ask /\ ~mark /\ mark' = TRUE
  /\ trigger' = without(listed)
  /\ asked' = IF Pending("destruction") THEN FALSE ELSE asked
  /\ UNCHANGED <<instance, running, told, lost, crashes>>

setEnvStatus ==
  /\ mark /\ mark' = FALSE
  /\ destroyed' = (destroyed \/ Status # "Busy")
  /\ UNCHANGED <<flow, event, trigger, running, asked, told, lost, requests, crashes>>

-----------------------------------------------------------------------------
(* Jobs. *)

Due(j) == Pending(j) /\ trigger[j].left = 0

\* Quartz fires a trigger; an execution is much shorter than the time between two of them.
fire(j) ==
  /\ Due(j) /\ running[j] = "no"
  /\ trigger' = [trigger EXCEPT ![j] = [state |-> "complete", left |-> 0, fired |-> TRUE]]
  /\ running' = [running EXCEPT ![j] = "started"]
  /\ UNCHANGED <<instance, mark, asked, told, lost, requests, crashes>>

\* execute reads the instance.
execute(j) ==
  /\ running[j] = "started"
  /\ running' = [running EXCEPT ![j] = Status]
  /\ UNCHANGED <<instance, mark, trigger, asked, told, lost, requests, crashes>>

\* The trigger of a job that has ended goes, unless it has a next date by now.
ended(j) == IF Pending(j) THEN trigger ELSE without({j})

\* rescheduleJob replaces a trigger and answers null when there is none.
rescheduled(j, delay) ==
  IF trigger[j].state = "absent" THEN trigger ELSE [trigger EXCEPT ![j] = At(delay)]

Ends(j) == running' = [running EXCEPT ![j] = "no"]

\* Variant: a destroyed instance is waited for like a busy one.
destroyedIsBusy(status) == status \in {"Busy", "Destroyed"}

postponed(status) == status = "Busy"

\* WorkflowExecutionJob.  A request that is refused is mailed to the creator; its exception
\* stays inside the Try.
executeWorkflow(j) ==
  /\ j \in {"workflow", "destruction"} /\ running[j] \in {"Ready", "Busy", "Destroyed"}
  /\ Ends(j)
  /\ \/ postponed(running[j]) /\ trigger' = rescheduled(j, RetryDelay) /\ flow' = flow
     \/ running[j] = "Destroyed" /\ ~postponed(running[j]) /\ trigger' = ended(j) /\ flow' = flow
     \/ /\ running[j] = "Ready" /\ trigger' = ended(j)
        /\ \/ flow' = flow
           \/ /\ Status = "Ready"
              /\ flow' = IF j = "destruction" THEN "destroy" ELSE "ordinary"
  /\ UNCHANGED <<destroyed, event, mark, asked, told, lost, requests, crashes>>

notifyExpiration ==
  /\ running["notification"] \in {"Ready", "Busy", "Destroyed"}
  /\ Ends("notification") /\ trigger' = ended("notification")
  /\ UNCHANGED <<instance, mark, asked, told, lost, requests, crashes>>

\* checkState: no trigger, or one that never fired.
notUnderWay == ~trigger["destruction"].fired

\* Variant: a busy instance is not checked again.
checkedOnce(status) ==
  IF status = "Ready" /\ ~notUnderWay
    THEN trigger' = rescheduled("check", RecheckDelay) /\ told' = told
    ELSE /\ trigger' = ended("check")
         /\ told' = CASE status = "Destroyed" -> "destroyed"
                      [] status = "Ready"     -> "failed"
                      [] OTHER                -> told

\* What DestructionStatusCheckJob does about the status it read.
checkState(status) ==
  IF status = "Busy" \/ (status = "Ready" /\ ~notUnderWay)
    THEN trigger' = rescheduled("check", RecheckDelay) /\ told' = told
    ELSE /\ trigger' = ended("check")
         /\ told' = IF status = "Destroyed" THEN "destroyed" ELSE "failed"

executeCheck ==
  /\ running["check"] \in {"Ready", "Busy", "Destroyed"}
  /\ Ends("check") /\ checkState(running["check"])
  /\ UNCHANGED <<instance, mark, asked, lost, requests, crashes>>

-----------------------------------------------------------------------------
\* A minute passes; Quartz fires what is due first.
Tick ==
  /\ \E j \in Job : Pending(j)
  /\ \A j \in Job : ~Due(j)
  /\ trigger' = [j \in Job |-> IF Pending(j) THEN [trigger[j] EXCEPT !.left = @ - 1] ELSE trigger[j]]
  /\ UNCHANGED <<instance, mark, running, asked, told, lost, requests, crashes>>

\* The backend stops and starts: Quartz removes the triggers that were complete, the
\* housekeeping fails the workflow under way before the scheduler starts.
Crash ==
  /\ crashes < MaxCrashes /\ crashes' = crashes + 1
  /\ trigger' = [j \in Job |-> IF Pending(j) THEN trigger[j] ELSE NoTrigger]
  /\ running' = [j \in Job |-> "no"]
  /\ lost' = (lost \/ trigger["check"].state = "complete")
  /\ flow' = "none" /\ event' = FALSE /\ mark' = FALSE
  /\ UNCHANGED <<destroyed, asked, told, requests>>

Jobs ==
  \/ \E j \in Job : fire(j) \/ execute(j) \/ executeWorkflow(j)
  \/ notifyExpiration \/ executeCheck

Users == scheduleDestruction \/ removeScheduledDestruction \/ scheduleWorkflow \/ removeJob
           \/ requestWorkflow \/ markPublishes

Next == Users \/ Jobs \/ onFlowFinish \/ publishEnvDestroyed \/ setEnvStatus \/ Tick \/ Crash

Spec == Init /\ [][Next]_vars

\* Quartz fires what is due and its workers run what was fired; time passes; a workflow ends
\* (FlowCoordinator) and its thread goes on to publish.
Fairness ==
  /\ \A j \in Job : WF_vars(fire(j)) /\ WF_vars(execute(j)) /\ WF_vars(executeWorkflow(j))
  /\ WF_vars(notifyExpiration) /\ WF_vars(executeCheck)
  /\ WF_vars(Tick) /\ WF_vars(onFlowFinish) /\ WF_vars(publishEnvDestroyed)

FairSpec == Spec /\ Fairness

-----------------------------------------------------------------------------
(* Properties. *)

\* Until the creator has been told how it went, a destruction that was asked for has its
\* check in Quartz, through postponements, workflows in the way and restarts; only a crash
\* in the middle of the check itself loses it.
DestructionIsWatched ==
  asked /\ told = "nothing" /\ ~destroyed /\ ~lost => trigger["check"].state # "absent"

\* Nobody is reminded of a destruction that was withdrawn.
NoStrayReminder == Pending("notification") => asked

\* The creator of an instance that somebody wanted destroyed is told, in the end, that it is
\* destroyed or that it is not.
CreatorIsTold ==
  (asked /\ told = "nothing") ~> (told # "nothing" \/ ~asked \/ destroyed \/ lost)

\* The jobs of an instance go with it: none of them keeps coming back for one that is gone.
JobsGoWithInstance == destroyed ~> (\A j \in Job : trigger[j].state = "absent")

\* What the reminder says: the instance will be destroyed, later than the reminder is sent.
\* The code breaks this: a destruction that has just fired and finds the instance busy
\* replaces the trigger of the one that a user has scheduled for a later date meanwhile.
ReminderComesFirst ==
  Pending("notification") =>
    Pending("destruction") /\ trigger["notification"].left < trigger["destruction"].left
=============================================================================
