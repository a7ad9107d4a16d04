# Genesis: specifications of the workflow engine and of its user interface

This directory models the parts of OpenGenesis that its users rely on without seeing them: the
backend that takes a request for a workflow of an instance (an environment), runs its steps
on actors and remote agents, records what became of it, and destroys instances on schedule;
and, in the browser, the pollers, the session and the forms. The models are TLA+ modules,
checked with TLC on small instances; the theorems about the flow coordinator, the life of an
instance, its scheduled jobs, remote agents and the user interface are proved with TLAPS for
every value of the constants.

In the paths below `B` stands for `src/backend/src/main/scala/com/griddynamics/genesis`, `U` for
`src/ui/src/main/resources/genesis/app`.

## 1. Inventory

| Component | State | Operations | Interacts with |
|---|---|---|---|
| **Flow coordinator** `B/workflow/actor/FlowCoordinator.scala`, `B/core/GenesisFlowCoordinator.scala` | live step coordinators, signal, current `receive`; steps to start, finished steps, retry counters; rows of the workflow and its steps | `Start`, `Beat(signal)`, `StepResult`; `onFlowStart`, `onStepFinish`, `onFlowFinish`, `rescueCoordinators` | children (step coordinators) by messages; beat source; store |
| **Step coordinator** `B/workflow/actor/StepCoordinator.scala`, `B/core/GenesisStepCoordinator.scala` | regular and signal executors, recorded failures, pending exception; rows of the step and its actions | `Start`, `Beat`, `ActionResult`, `Terminated`; plugin callbacks `onStepStart`, `onActionFinish`, `onStepInterrupt`, `getStepResult` | its flow, its executors, the plugin, store |
| **Action executor** `B/workflow/actor/ActionExecutor.scala` | the executor, subscription to beats | `Start`, `Beat(Success)` polls `getResult`, `Beat(signal)` asks `canRespond` | its step, beat source |
| **Beat source** `B/workflow/actor/BeatSource.scala` | subscribers, one-time subscribers with their delays | `beat`, `subscribe`, `subscribeOnce`, their inverses, `tryToFinish` | flow and executors |
| **Request broker** `B/bean/RequestBroker.scala` | none | `createEnv`, `requestWorkflow`, `destroyEnv`, `cancelWorkflow`, `setEnvStatus` | store, dispatcher |
| **Request dispatcher** `B/bean/RequestDispatcher.scala` | map of the coordinators of instances | `startWorkflow`, `cancelWorkflow`, `sortByPhase`, `applyIds` | templates, store, flows |
| **Store service** `B/service/impl/StoreService.scala` | tables of instances, workflows, steps, actions, machines; optimistic versions | transactions of the operations above | database, caches |
| **Caches** `src/util/.../cache/Cache.scala` | cached rows, templates, repositories | `fromCache`, `withEvict` | store, templates, users |
| **Housekeeping** `B/service/impl/HouseKeepingService.scala` | none | `markExecutingWorkflowsAsFailed`, the shutdown hook | store, broker |
| **Remote agents** `B/workflow/actor/AgentCommunicatingActor.scala`, `src/agent-commons/.../FrontActor.scala`, `ExecutorActor.scala` | the executor watched, the last pong, tries per host; executors on the agents | search an agent, submit and resubmit a task, `Start`, ping, beat, result, timeout | step coordinator, remote actor systems |
| **Scheduler** `B/scheduler/*` | Quartz jobs and triggers, failed jobs | schedule and withdraw a workflow or the destruction; run, remind, check | broker, store, mail, `EnvDestroyed` |
| **Loan of servers** `B/service/impl/ServersLoanServiceImpl.scala` | borrowed machines | loan, release | store, credentials |
| **Provisioning** `src/commons/.../provision/*` | machines being created | create, check, destroy | step coordinator, clouds |
| **Step log buffer** `src/util/.../logging/LoggerActor.scala` | buffered lines | log, flush | store |
| **Pages and pollers** `U/router.js`, `U/utils/poller.js`, `U/app.js`, `U/modules/*` | current view and the job views in it, active pollers and their timers, the error dialog | follow a link, open a project of the jobs dashboard, first answer, poll, fail, be refused | REST resources, the session |
| **Session** `U/utils/inactivity.coffee`, `U/app.js` | time since the last activity, warning, alarms | tick, activity, OK, alarm, shutdown | pollers |
| **Forms** `U/modules/common/variables.js`, `U/modules/createenv.js` | values, options, disabled selects, requests under way, overlay | change a value, change the configuration, answer, fail | templates on the server |
| Templates, REST, pages of records, users and directories, plugins | records, caches | evaluation, translation, calls to outside systems | all of the above |

### What is hard, and what makes each part correct

* *Flow coordinator.* Results, signals, the timeout and its own restarts arrive in any order;
  calls into the store fail between the steps of a handler. Correct: phases are respected, a
  step is not run twice at once nor more often than its retries allow, nothing starts after an
  interruption, the flow ends once, quietly, with the outcome its steps had, rescue steps run
  for failures only, and every flow ends.
* *Step coordinator.* Executors of the step and executors of its interruption overlap, answer
  late, or die. Correct: one result, when nothing is at work, with rows that agree with it.
* *Broker, dispatcher, store, housekeeping, workflow cache.* Requests race with each other,
  with changes of the instance's status, with the end of a workflow and with a crash; rows are
  read in one transaction and written in another. Correct: at most one workflow under way, the
  instance Busy exactly as long, an outcome that stays, nothing orphaned.
* *Remote agents.* Lost, late and repeated answers, agents that die. Correct: an action is
  started at most once however often its task was sent, and its step hears of it in the end.
* *Scheduler.* Jobs against an instance that is busy, gone or being destroyed, and against the
  users who move them. Correct: a scheduled destruction happens or is reported, is announced
  before, and its jobs go with the instance.
* *Pages and session.* Answers that come after their view was closed, replaced or the session
  ended, polls that open views of their own, requests refused, alarms nobody cancels. Correct:
  what polls is on the screen, what is on the screen is polled, an idle session ends and a used
  one does not.
* *Forms.* Answers in any order, defaults that set off further requests, variables the server
  disables, two graphs: what it computes options from, and what the form clears. Correct: the
  options shown are those for the values shown, and the page is usable again.
* *Beat source.* Correct: a subscriber hears every beat until it unsubscribes and nothing
  afterwards; the source ends with its flow.
* *Loan of servers.* Correct: a server is released as often as it was borrowed.
* *Provisioning.* Correct: no machine is left behind by a failed or interrupted step.
* *Step log buffer.* Correct: lines are stored in order and none is lost on a flush.

`PROJECT.json` lists every component with its status, and every place of the code where one
of these can go wrong (`hazards`) with the properties that watch it.

## 2. Modules and how they correspond to the code

| Module | Models |
|---|---|
| `FlowCoordinator` | the flow actor, `SafeFlowCoordinator`, `GenesisFlowCoordinator` with its traits `StepIgnore`, `StepRestart`, the rows of one workflow |
| `FlowContract` | what a flow promises of the rows of its workflow and its instance |
| `FlowCoordinatorProofs` | theorems about `FlowCoordinator`: how a flow ends, the order and the number of attempts of its steps |
| `FlowOutcomeProofs` | theorems about it: what it has done, stored and reported when it is over, and that it implements `FlowContract` |
| `StepContract` | what a step promises its flow |
| `StepCoordinator` | the step actor, `SafeStepCoordinator`, `GenesisStepCoordinator`, its executors as it sees them |
| `StepCoordinatorProofs` | theorems about it, and that it implements `StepContract` |
| `InstanceLifecycle` | broker, dispatcher, store and cache of workflows, housekeeping, for one instance |
| `InstanceLifecycleProofs` | theorems about it |
| `RemoteAgent` | the actor that has an action run by a remote agent, the agents and the network |
| `RemoteAgentProofs` | theorems about it |
| `Scheduler` | the scheduled jobs of one instance, Quartz as they use it |
| `SchedulerProofs` | theorems about it |
| `SessionExpiry` | the inactivity tracker and its dialogs |
| `PagePollers` | navigation, the job views of the jobs dashboard, first requests, pollers and failed requests |
| `UserInterface` | the two together: one browser |
| `UserInterfaceProofs` | theorems about it |
| `VariablesForm` | the form with dependent variables, and which of them the server answers with |
| `VariablesFormProofs` | theorems about it |
| `MC*` | the constants of the runs |

**FlowCoordinator.** An actor handles one message at a time, so each message handler is one
action: `HandleStart`, `HandleBeat`, `HandleStepResult`, `InterruptedStepResult`,
`DropMessage`, `HandlePoisonPill`. `behaviour` is the actor's current `receive`. Calls into
`GenesisFlowCoordinator` are operators that return the set of outcomes of the call: the
instruction (`Left(Fail)` or `Right(steps)`), the fields and rows left behind, and whether a
fault was spent. With `Faults = {}` nothing throws; each kind named in `Faults` lets the
corresponding call throw, at any point where rows are half written, up to `MaxFaults` times in
a behaviour. An exception that escapes `rescueCoordinators` restarts the actor
(`RestartActor`): children stopped, fields reset, mailbox and coordinator object kept. The
children are seen as the contract describes them (`StepStart`, `StepFinish`, `StepInterrupt`,
`StepInterrupted`). `Init` has a second form, a cancellation in the mailbox ahead of `Start`,
because the dispatcher publishes the coordinator before it starts it.

**StepContract and StepCoordinator.** The two modules split flow and step so that neither has to
carry the other's state. `StepContract` is the promise: a step starts (or fails to), runs, may
be interrupted, and sends one result, with the row of the step agreeing. `StepCoordinator` is
the code; `ImplementsContract` is the refinement, under the mapping `ContractState`, checked as
a property and proved. What a plugin answers is free: any executors, any result, an exception
from any callback named in `Throws`. An executor may answer an interruption at once or with
`'Delayed`, and its actor may die of an exception (`ExecCrash`, at most `MaxCrashes` times) in
the places where the code does not catch one. One that watches a remote agent (`Remote`) may
report a second time: its poison pill waits behind whatever its mailbox already holds
(`ExecRepeat`).

**FlowContract.** The same split one level up. The contract knows four things: the status of
the workflow and of its instance, the signal, and whether the flow is over. A flow proceeds
(the status only goes forward, the instance stays Busy), and then records the outcome of its
signal in both rows, or in neither. `FlowCoordinator` is the code behind it, where a flow is
steps, phases, retries and faults; `InstanceLifecycle` is the world around it, where a flow is
four steps between reads and writes that may be stale. The first implements the contract
(`ImplementsContract`), and every flow of the second keeps it (`FlowsKeepContract`): what the
lifecycle takes a flow to do is no less than what the coordinator may do, and nothing that
clients, readers and crashes do to the rows meanwhile makes it break its promise.

**InstanceLifecycle.** One instance. A transaction commits in one step; what a thread reads
before it is a step of its own, so every window between a read and a write is there. A row has
a version; a full update succeeds only on the version read (`RequestWorkflow`,
`UpdateWorkflow`, `FinishWorkflow`), a partial one ignores it (`SetEnvStatus`, `Restart`). A
client is a request thread or a scheduler job between its calls; `flow` is the coordinator of a
workflow, its steps reduced to "stores a result, maybe with an ignored failure". Workflows that
ended before the behaviour starts are left out of `Init`, so few identities are enough.

**RemoteAgent.** One action. The actor takes one mail at a time (`submit`, `executorFound`,
`beat`, `actionResult`, `checkStatus`, ...), in its two behaviours; the future of an agent
search completes outside of it (`doSubmit`), whenever it likes. The agents create an executor
per task they get; every message to or from them arrives, late perhaps, or is lost; an executor
may die. `period` is the actor's timeout: what is scheduled to arrive in one does, and
`sincePong` counts them in place of `lastPongReceived`.

**Scheduler.** One instance with its four jobs. A trigger is absent, waiting for a date, or
complete: fired for the last time, its job still running. A job that has fired reads the status
of the instance (`execute`) and acts on it in a later step (`executeWorkflow`, `executeCheck`,
`notifyExpiration`), so that users and workflows come in between. Dates are ticks from now;
`datesOf` computes those of the reminder and the check. `markPublishes` and `setEnvStatus` are
the two halves of an operator's change of status, `onFlowFinish` and `publishEnvDestroyed` those
of the end of a destroying workflow. `Crash` is a restart: Quartz keeps what waits and drops
what had fired.

**SessionExpiry, PagePollers, UserInterface.** The session counts ticks of 5 seconds; `alarms`
holds what is left to each timer that was set, since none is ever cancelled. A page is a *view*
with a phase (creating, loading, retrying, ready, failed) and a kind, which says what it polls
and how; a poller has the `active` flag of the code and a `chain`: what its next turn waits
for. The two differ on purpose: stopping a poller clears the flag only, a refusal breaks the
chain only. A project opened on the jobs dashboard is a view inside its page, a *job view*, with
a page (`host`) and a `project` of its own. Two requests come before it exists (creating) and
one before its poller starts (loading). `subviews` are those that their page knows and closes;
a new one takes the place of the one it has for the project (`jobViewCreated`). A click asks for
one (`clickProject`); a poll of the page that brings new numbers asks for all of `opened` again
(`checkUpdates`, kind renewed), whether or not the page or the session is still there. `opened`
gets an entry with each request, as in the code, and so doubles with each refresh. `early` keeps
what the properties have to except: the views closed before their first answer and those asked
for by a page that was closed. `UserInterface` composes the two modules over one clock; their
steps are joined where the code joins them, in `UserActs`, `Clock` and `Alarm`. It remembers the
jobs dashboards that the end of the session met in the middle of a refresh (`caught`) and
whether the user has done something since (`stirred`).

**VariablesForm.** What the server computes an option list from is kept in the place of the
list (its *context*), so that "these options are stale" can be said. A `Template` says where a
variable stands, what its options are computed from (`declared`), which others its `disabled`
closure reads (`links`), whether it has one (`lockable`) or a default, and whether it has
options when the form is first shown. The server answers with the variables whose declared
parents all have a value (`resolved`), in the order of the template (`orders`), and never looks
at the links; the form clears and asks again along both (`children`). For each variable of an
answer the server chooses whether it has options, a default, and whether it is disabled; one
that is disabled keeps its attribute (`enableChecked`) but gets its options and fires its
default like the others (`build`), which is why an answer can send requests of its own. `Init`
is the form as rendered from what `workflowDesc` has computed from the defaults: dependents may
have options already, and show `Please select` or a default.

An answer is handled one variable after the other, with one item operator (`changeItem`,
`configItem`) and a recursive function that hands the form on (`changeHandled`,
`configHandled`). Two history fields tell what cannot be seen on the form. `overlapped`: a
request was overtaken, by a user who changed something while it was under way, or by a default
that cleared a value it had been sent with (links make that possible: the server lists what the
form has just cleared). `kept`: the selects that the last answer to a configuration left as they
were, since they have no options now or are not listed, being below a disabled variable, whose
value is not sent; and those rendered with options for defaults that are not shown.

The definitions are tied to the source lines they translate in `PROJECT.json` (`map`). An
operator whose comment begins with *Variant* is not part of any specification: it is a wrong
form of the definition after it, kept to show that a property notices the difference.

## 3. Runs

| Run | Instance | Shows |
|---|---|---|
| `flow_safety` | phases {a, b} then {c}; a has one retry, b's failure is ignored; rescue step r; up to 2 faults in start, preparation, result | phases are respected, one coordinator per step, rescue, outcome, quiet end, no failed flow reports success, nothing new after an interruption |
| `flow_liveness` | the same, 1 fault of any kind, fairness | every flow finishes, once and for good; refinement of `FlowContract` |
| `step_safety` | 3 executors, any of them remote, 2 crashes, exceptions from every callback, fairness | one quiet result, no action row left executing, refinement of `StepContract`, an interrupted step reports unless it waits for a dead executor |
| `lifecycle_safety` | 2 clients, 1 reader, 2 workflow identities of kinds create/regular, read-only and destroy, ignored failures, 1 crash | one workflow at a time, Busy meanwhile, no orphan, every flow within `FlowContract`, outcomes final, two known reasons for a leftover Busy |
| `remote_agent` | 2 agents, 1 try that is not too many, 2 executors, 2 queued mails, fairness | an action starts once, tries are bounded, no stop without a word, an answer in the end but for two mishaps |
| `scheduler` | destruction 1 or 4 ticks ahead, 3 requests, 1 crash, fairness | the check outlives everything, no stray reminder, the creator is told, jobs go with the instance |
| `ui_session` | 2 pages of any kind but a jobs dashboard, timeout 2, grace 1, requests of 1 tick, fairness | sessions end when and only when they should, the list keeps asking, no poller dies unnoticed |
| `ui_pages` | a jobs dashboard or a list and the page after it, 2 job views of one project, timeout 2, grace 1, requests of 1 tick | which pollers outlive what they belong to, and which an ended session |
| `ui_forms` | 4 variables, 4 shapes of dependencies in 3 orders each, 2 options, 2 configurations, 2 changes by the user, fairness | options fit the values shown, the overlay lifts |
| `flow_retry_lost`, `step_crash_interrupted`, `scheduler_postpone` | smaller instances of the above | the three findings of section 5 |

*Why these bounds are enough to be interesting.* Two steps in a phase give concurrency inside
a phase, a third in the next phase gives order between phases; one retry already mixes two
attempts of a step; the rescue step runs next to interrupted regular steps. Two faults let one
failure hit the handling of another. Three executors are a regular one, one started by its
result and one started by the interruption. Two clients make every race of two requests; in
`MCMaxResults` three results are what a stale cached row needs: one to write Warning, one whose
update a reader overlaps, one that fails on what it cached. Two identities suffice because a
third workflow finds the instance as the second did.

Two agents and two executors are the least for a second reference to come late; the third
submission is the one that is refused. Three requests let a destruction be scheduled, withdrawn
or moved, and meet a workflow; one date is too near for a reminder, the other far enough. Two
pages are one that is closed and the one that follows it. Two job views are one that a click
opened and one that takes its place, after another click or a poll; with the page they make each
way in which a poller is left behind, and a third would be closed or replaced as the second was.
The proofs of section 4 cover any number of each. Jobs and sessions are split in two runs
because the product of all kinds of pages with two job views is out of TLC's reach. The four
templates are a diamond (a child reached twice) one side of which may be disabled; two roots
with a common child, shown with options although only one root has a default, or with both; and
two siblings of which one looks at the other. Each stands with parents first, children first and
mixed. Two changes give a nested request below an answered one and a configuration after a
default below a disabled variable; the proofs cover any template and any number of changes. The
bounds by name: `MaxFaults`, `MaxCrashes`, one unread result per executor (the guard of
`ExecRepeat`), `MaxResults`, `MaxTries` (a constant of the code, 10), `MaxExecutors`, `MaxMail`
(the clock waits for a full mailbox), `MaxRequests`, `MaxPages`, `MaxJobViews`, `MaxProjects`,
`Opens`, `RequestTimeout`, `MaxActs`, and `IdleBound`, which no reachable state of the session
attains (`SessionInv`, proved).

*Deadlock* is not checked in any run: a flow, a step and an agent's actor really stop when they
have reported; an instance that is Destroyed, or out of identities, has nothing left to do; a
browser that has left the page is gone; and a form waits for its user.

*Fairness.* `FlowCoordinator!Fairness`: a mailbox that is not empty is served (Akka's
dispatcher), the one-time subscription fires (the beat source is driven by a scheduler),
`unsubscribeOnce` is served, a child starts and answers an interruption, and a rescue step
ends. It says nothing about regular steps: they may run for ever, and the flow must end all the
same. That rescue steps end is an assumption the code needs: the interruption never reaches
them, and the timeout has no effect on an interrupted flow. `StepCoordinator!FairSpec`:
messages are handled, executors start and end. `RemoteFairness`: futures complete, mails are
taken, the clock runs, a message arrives or is lost, and a job that runs ends; nothing is said
for any single message arriving. `Scheduler!Fairness`: Quartz fires what is due and runs what it
fired, time passes, workflows end (which `flow_liveness` shows). `UIFairness`: timers fire and a
request is answered or times out (`$.ajaxSetup`); users owe nothing. `VariablesForm!FairSpec`:
answers or timeouts. `InstanceLifecycle` has safety only.

## 4. Proofs

`FlowCoordinatorProofs` holds for any set of steps, any phases, retries, rescue steps, and any
number of faults of every kind, from the assumption `FlowAssumption` alone:

* `TypeCorrect`: `Spec => []TypeOK`. Not only shape: retry counters stay natural because
  `RestartStep` is guarded.
* `BookkeepingCorrect`: `Spec => [](TypeOK /\ Bookkeeping)`, the inductive invariant.
* `QuietAtFinishCorrect`: the flow ends only when none of its coordinators is at work.
* `FinishIsFinalCorrect`: it ends once, and no later step changes what it stored.
* `NothingNewAfterInterruptCorrect`: an interrupted flow starts nothing, keeps its signal.

`QuietAtFinish` is not inductive: that the flow finishes when its two sets are empty says
nothing of children outside them. `Bookkeeping` closes the gap with four facts: a live child is
in one of the sets (`Awaited`); a result in the mailbox comes from a child that has ended
(`ResultsOfTheDead`), so removing its sender keeps `Awaited`; a child is always a new actor
(`AttemptsCounted`), so starting one cannot revive a sender of a waiting result; a finished
flow has empty sets and hears nothing (`FinishedIsDeaf`). The proof has lemmas for the pieces
the handlers share (`StartCoordinators`, `AttemptToFinish`, `ProcessFlowInstruction`, reading
and appending messages), then one step per action. The restart by the supervisor keeps the
invariant because it stops the children it forgets. TLC checked each inductive invariant on the
run of its module before it was proved; the runs themselves keep only the properties.

The second part of `FlowCoordinatorProofs`, on the order of the steps, holds under the same
assumption, for the same flows and faults:

* `OrderCorrect`: the inductive invariant `TypeOK /\ Bookkeeping /\ Order`.
* `PhaseOrderCorrect`, `OneCoordinatorPerStepCorrect`: `PhaseOrder`, `OneCoordinatorPerStep`.

What the actor knows lags behind what its children do, so `Order` speaks of the coordinators it
has yet to hear from: those at work and those whose result waits in the mailbox. A step has one
of them at most (`OneUnheard`); such a step is neither to start nor finished, and all that
precedes it is finished (`UnheardInOrder`); the row of a finished step, and the one a waiting
result is about, say what the result says, because only a step at work writes its row and none
of these is (`RowsAgree`); attempts and retries left add up to no more than allowed
(`AttemptsAddUp`); and `Start` comes before anything has begun (`StartIsFirst`), without which
`onFlowStart` could insert the row of a finished step again. What the calls into
`GenesisFlowCoordinator` may answer is one predicate, `Lawful`, proved of `onFlowStart` and
`onStepFinish` with every fault; `HandlerKeepsOrder` then covers every handler that follows or
drops such an answer, the rescue and the restart of the actor included.

`FlowOutcomeProofs` says what a flow that ends has done. The calls of a flow may fail,
and some failures make each of these properties false; so each theorem names the kinds of
`Faults` it excludes, and holds with any number of all the others:

* `SuccessMeansAllOverCorrect`, without `retry` (finding 1) and `rescue`: a Success has every
  regular step behind it. A flow would end early if no step were at work while some are left:
  `NoStepLost` says that each step is to start, awaited or finished, and a last lemma that of the
  steps to start one can go. The latter is `PhasesAcyclic`, the one assumption added here: what
  `FlowStepsTemplate` throws unless (`FlowStepsTemplate.scala:47`).
* `OutcomeRecordedCorrect`, without `onFlowFinish` and `rescue`: the rows say how the flow ended.
  `WarningFits` follows the row of the workflow: Warning exactly when an ignored failure is among
  the finished steps, and a step that has failed is finished or still awaited, so that the last
  result cannot be missed.
* `RescueOnFailureCorrect`, without `rescue` and the calls whose exception is itself a reason to
  fail (`onFlowStart`, `prepare`, `onStepFinish`; where one of these was met the property claims
  nothing of the cause): a failed flow has a cause and has started its rescue steps once. That
  the step was out of attempts needs the sum of `Order` to be exact (`AttemptsExact`); that
  nothing else failed the flow needs to know what may wait in the mailbox (`MailFits`) and that
  no interruption is out before the actor is interrupted.

`rescue` is excluded from these because it restarts the actor, which forgets its signal (section
5). All three rest on `SignalFits`, which ties the signal to the behaviour of the actor.

* `ImplementsContractCorrect`: the refinement of `FlowContract`, with no fault excluded: a flow
  that lies about its outcome after a restart still ends once, leaves the instance Busy until
  then, and stores in both rows what it reports, or in neither. The contract is stated of what
  is reported, so that the three theorems above are exactly what it leaves open.

`StepCoordinatorProofs` holds for any executors, any answers and exceptions of the plugin, and
any number of crashes, from `StepAssumption` alone:

* `TypeCorrect`, `BookkeepingCorrect`: `TypeOK` and the inductive invariant `TypeOK /\
  Bookkeeping`.
* `AliveIsAwaitedCorrect`, `QuietWhenSentCorrect`, `NoDanglingActionCorrect`,
  `NoNewRegularExecutorCorrect`: the run's properties of that name.
* `ImplementsContractCorrect`: the refinement of `StepContract`, which is what the theorems about
  the flow assume of its children.

That no executor is at work when the result goes is not inductive: `ExecutorsAwaited` adds that
an executor whose action is Executing is awaited and that none is awaited before it is started;
`ReportsOfTheEnded` that a report comes from an executor that is over, so that removing its
sender is safe; `BehaviourFits` that the coordinator that has sent awaits nobody.
`StartComesFirst` ties the row of the step to the Start in the mailbox, and `OneBeat` says that
an interruption comes once. The refinement shows, action by action, a step of the contract or a
stutter: the contract knows whether an interruption is on its way, which here is a Beat
somewhere in the mailbox, so each handler has to show what it does to that Beat
(`ReadingKeepsTheBeat`).

`InstanceLifecycleProofs` holds for any clients, readers and workflows, any subset of the kinds,
and any number of step results and crashes, from `LifecycleAssumption` alone:

* `TypeCorrect`, `OneUnderWayCorrect`, `UnderWayIsBusyCorrect`, `NoOrphanCorrect`: the
  invariants of that name.
* `BookkeepingCorrect`: the rest of the inductive invariant
  `TypeOK /\ OneUnderWay /\ UnderWayIsBusy /\ NoOrphan /\ Bookkeeping`.
* `FlowsKeepContractCorrect`: every flow keeps the contract that `FlowOutcomeProofs` shows
  `FlowCoordinator` to implement. It needs `FlowsKnowRows` beside the invariant: a flow that runs
  knows the Warning its row has, so that the outcome cannot drop it, whatever the cache said.
* `OutcomeIsFinalCorrect`: a final status stays, and an instance that a workflow destroyed stays
  Destroyed. For the latter, `NothingReaches`: once the instance is destroyed no client holds a
  version it could still update, since `finishWorkflow` raised it, and no change of status leads
  out of Destroyed.
* `BusyIsExplainedCorrect`: `BusyIsExplained`, also while the backend is down. It needs that only
  a flow of a read-only workflow restores what was read (`RestoreIsReadOnly`), and that whoever
  ends a workflow, the dispatcher, its flow or housekeeping, releases the instance.

`OneUnderWay` needs more than itself: a request that has read the instance before another one
committed must fail. `RequestIsCurrent` says why it does, the version it read is the current
one only if nothing is under way; it is kept because every full update raises the version and
because no partial update happens while something is under way (`UnderWayIsBusy`, and for that
the legality of the change a client has asked for). `OwnedWorkflows` says that a workflow being
started is one client's, so that `Dispatch` and `Launch` find it Requested; `RowOfFlow` ties
the status of a row to the place of its flow, whatever the cache made the flow believe;
`CacheOfFlow` bounds that belief: a cached row that `findWorkflow` trusts is a Warning the
workflow already has, so a stale one can fail an update but cannot take a status back;
`DownIsEmpty` is what housekeeping starts from. The proof has one lemma for a step of a client
that owns nothing (`ClientStepInv`), one for the insertion of a workflow (`InsertInv`) and one
for a step on the workflow under way (`WorkflowStepInv`); each action is an instance of one of
them.

`UserInterfaceProofs` holds for any timeouts and any number of pages, job views and projects,
from `TimesAssumption`, `PagesAssumption` and `AnswersBeforeEnd`:

* `UIInvariant`: the inductive invariant `UIInv`.
* `PollersAreExplained`, `FailuresSilenceNobody`, `EndOfSessionIsSilent`, `GraceIsGiven`: the
  properties `LeakExplained`, `OnlyRefusalSilences`, `EndedIsSilent`, `EndsOnlyAfterGrace`.

A leak is explained because a view that still loads is on the screen or in `early`, and a job
view that is still to be created belongs to the current page or is in `early` (`LoadingPlaced`);
closing or replacing a view puts it there, and so does a poll of a closed page that asks for new
ones. That an ended session is silent rests on time: a view that the user asked for and that
loads was asked for no longer ago than its requests can last, and asking was activity
(`LoadingIsRecent`), so none is loading when the session ends, provided two requests in a row
take less than the timeout and the grace: 60 seconds against 16 minutes in the code, and the one
assumption that is about the values of the constants. Job views renewed by a poll have no such
user behind them; what `QuietWhenEnded` says of them is that those still loading, and the polls
still out that could ask for more, belong to a dashboard that was refreshing when the session
ended (`caught`). That a session ends on an idle user only rests on `AlarmsTellTime`: what is
left to an alarm tells how long the user can have been idle.

`SchedulerProofs` holds for any dates, delays, numbers of requests and of crashes:

* `SchedulerInvariant`: the inductive invariant `IInv`.
* `WatchIsKept`, `RemindersAreWithdrawn`: `DestructionIsWatched` and `NoStrayReminder`.

Both properties are inductive together with one more fact, `EventIsDeserved`: an instance with a
workflow under way is not destroyed, and `EnvDestroyed` is only owed by the flow of a destroyed
one, so that the jobs it removes are not missed. Most steps are covered by what any end of a job
owes, `Harmless`: the check stays, unless nobody waits for it, and no reminder appears that was
not there.

`RemoteAgentProofs` holds for any agents, tries, executors and bound on the mailbox, from
`RemoteAssumption` (the constants are natural numbers):

* `RemoteInvariant`: the inductive invariant `IInv`.
* `ActionStartsOnce`, `TriesAreBounded`, `StopsWithAWord`: the run's invariants `StartedOnce`,
  `TriesBounded` and `NoSilentStop`.

`NoSilentStop` needs the history of the executor to be readable from the state: `Fits` says what
a queued mail stands for (a result, that the executor watched never runs again; a pill, that the
supervisor was told), `StartIsFirst` that no second Start can follow, and `OnlyWatchedRuns` that
an executor whose reference came too late stays idle. The steps fall into those of the server
(`ServerKeeps`) and those of the agents and the network (`AgentKeeps`).

`VariablesFormProofs` holds for any finite set of variables, any templates, whatever is declared,
linked, disabled, preset or shown at first, any options, any configurations and any number of
changes, from `FormAssumption` (the variables are finitely many; option values are numbers, of
which there is a first):

* `FormInvariant`: the inductive invariant `IInv`.
* `OptionsFitCorrect`: the run's invariant `OptionsFit`.

`OptionsFit` speaks of a form at rest; `Sound` says what holds on the way there, until a request
is overtaken. Options outside `kept` fit the values shown (`Fits`). A change under way
(`Pending`) was sent with nothing of what it cleared; wherever its answer can bring options, the
values it was sent with are shown still, and bringing them cannot change a value that is shown
(`OpenAt`); and what has been built again below the changed variable has parents with values
(`Grounded`). So filling a select makes nothing stale, whichever comes first in the answer: what
has options computed from it has them for the value it shows. A default that fires clears what
is below it, which is where it could do harm: either no request was sent with a value from
there, and everything that was counted on stays (`Cleared`, `Changed`), or the form is
`overlapped`. `Filled` and `ItemInTurn` follow one variable of the answer through both. A
request for a new configuration is the only one (`Configuring`), and is sent with the values
that are not disabled; its answer is followed through `Partway`, which says of each variable
what it is before and after its turn, and `Reconfigured` draws the conclusion for all.

The two answers are recursive functions over the variables of the answer. That such a function
satisfies its equation is proved (`RunExists`, `ChangeSteps`, `ConfigSteps`), and what holds
after each variable by induction over the set of positions (`UpTo`, from the well-foundedness
of the natural numbers in `WellFoundedInduction`), which needs no operator as a parameter.

Attempts to prove it have twice shown the property to say too much, beyond the bounds of the run
each time and confirmed by TLC on larger ones: an overlap must not be forgotten at the next
change, and what the answer to a configuration leaves alone may not fit any more (`kept`).

Only model-checked: every liveness property, which is out of the prover's reach: that flows
finish (`FlowFinishes`), steps end (`StepEndsUnlessLost`), actions are answered
(`ActionAnswered`), the creator of an instance is told (`CreatorIsTold`) and its jobs go with it
(`JobsGoWithInstance`), abandoned sessions end (`AbandonedSessionEnds`), the list keeps asking
(`ListKeepsAsking`) and the overlay lifts (`OverlayLifts`).

## 5. Findings

Each is a run that must be violated; the quoted line and the consequence are in `PROJECT.json`.

1. `flow_retry_lost`: a retry whose coordinator cannot be created is dropped, and the flow
   reports success.
2. `step_crash_interrupted`: a regular executor that dies in an interrupted step is waited for
   for ever.
3. `scheduler_postpone`: a destruction that fires on a busy instance overwrites the later date
   a user has set meanwhile, and the instance is destroyed within minutes.

The models also contain weak spots that the passing properties name as exceptions:

* An exception while rescue steps are stored restarts the flow actor, which has forgotten the
  failure (`rescue` in `Faults`; left out of `flow_safety`).
* An operator who marks an instance Destroyed while a request for it is on its way may see it
  Busy again: the mark is a partial update and leaves the version alone
  (`StoreService.scala:269`), so that the request passes the optimistic lock. `OutcomeIsFinal`
  speaks of instances destroyed by a workflow only.
* An instance may stay Busy with no workflow under way (`BusyIsExplained`): a read-only workflow
  puts back a Busy that was read too early (`B/bean/RequestBroker.scala:141`); housekeeping does
  not find a workflow in Warning (`HouseKeepingService.scala:53`); the cache is evicted before
  the commit and a stale row comes back (`Cache.scala:49`).
* A search for an agent that fails, and a `Start` that is lost, leave an action without an
  answer: `mishap` in `ActionAnswered`.
* A page closed before its first answer leaves a poller behind, and so does a job view that is
  closed or replaced while it fetches (`early` in `LeakExplained`): `onClose` stops the `@poll`
  it has by then, none (`U/modules/dashboard/jobs.coffee:54-58, 91-93`). A poll of the jobs
  dashboard that was out when the page was closed may open its projects again, behind the next
  page (130-136, 180). The same after the end of the session: a dashboard that it meets in the
  middle of a refresh starts pollers again, with nobody at the keyboard (`caught` in
  `EndedIsSilent`).
* A request refused twice ends a poller that still counts as active (`rejected` in
  `OnlyRefusalSilences`).
* A crash while the check of a destruction runs loses it: `lost` in `DestructionIsWatched`.
* A new configuration leaves stale options in the selects that its answer does not renew (`kept`
  in `OptionsFit`): variables without options are not looked at (`variables.js:258`), and those
  below a disabled variable are not listed, since the value of a disabled select is not sent
  (241-245). The server may disable a variable and still give it options and a default (307-310),
  so that selects the user can change stand below it. A page may also be rendered with options
  computed from defaults that no select shows.
* Options may be stale as well when a request was overtaken (`overlapped`): by a user who changes
  something while a nested request is under way and the overlay already gone, or by a default
  that clears a value sent with another request, below a variable that the server lists because
  it does not know the links.

Seen while modelling, outside what the properties state: the exception of a refused scheduled
request stays in its `Try`, so that `FailedJobsListener` never hears of it
(`WorkflowExecutionJob.scala:35-49`); a refused change to Destroyed has already removed the jobs
(`GenesisRestService.scala:99`); a destruction that was moved counts as not run and is reported
as a failure (`DestructionStatusCheckJob.scala:27-42`), and its next check comes after 300 ms
(line 48, seconds used as milliseconds); a destruction scheduled while the check of a former one
is pending is refused as a duplicate; the first option of a select shows without a `change`, so
its descendants stay disabled; `@opened` of the jobs dashboard doubles at each re-rendering, and
with it the requests of the next (`U/modules/dashboard/jobs.coffee:154`, 180); a new template is
not drawn once a form is there (`U/modules/createenv.js:245`); a late answer of `project.fetch`
replaces a page opened since (`U/router.js:83`).

## 6. What the models leave out

* Flow: the phases can be ordered (`PhasesAcyclic`), because `FlowStepsTemplate` throws otherwise
  while the coordinator is constructed (that is `DispatchFails` of `InstanceLifecycle`);
  `Beat(Rescue)` is never sent by the code; results of a class other than
  `GenesisStepResult`; failures of the store inside step and action rows.
* Step: the polling of `getResult` by beats and the text of results. A `cleanUp` that throws is
  an executor that ends.
* Lifecycle: attributes and servers of the instance; requests refused by validation (no
  effect); the shutdown hook; expiry of cached rows, which only makes them fresher; reads
  through the cache of rows that are not believed later. Which coordinator the dispatcher's map
  holds when a cancellation arrives is left open. Housekeeping is taken to succeed before the
  first request is served; the scheduler's fixed start-up delay is the hazard listed for it.
* Remote agents: which agent is chosen (any), their health and configuration; a late answer is
  an answer given late, so messages between one pair are not reordered.
* Scheduler: recurring triggers, the list of failed jobs, mails that cannot be sent, jobs of
  several instances. An execution is taken to be shorter than the time between two firings.
* User interface: the other dashboards and the agents page are one kind of page, and the agents
  count as a page of their own from the click on; the content of pages; the browser's own
  history and reload; `pollServerStatus` (`U/app.js:296-308`), which asks every 5 seconds
  whether a lost connection is back, session or no session, is no poller and not modelled; the
  retried request of a page is not told apart from a first one by its age. Forms: groups, text
  inputs, validation, the keyboard under the overlay; the dialog that runs a workflow with
  values saved before (`variables.js:220-230`), which the page for a new instance never is. A
  default is the first option.
* Not modelled: see the components in `PROJECT.json`. Loan of servers, the step log buffer and
  the provisioning of machines are in the plan; the evaluation of Groovy templates, users and
  directories, pages of records and the plugins beyond "may answer anything" keep records or
  call outside systems, and hold no protocol of their own.
* Much of the JavaScript of the repository is vendored: `r.js`, jQuery and its plugins, Backbone,
  require.js, moment and underscore are seven eighths of its lines. They are not the program's
  own logic and are modelled only as far as the modules above use them, and the core of the
  program is in Scala and CoffeeScript. A share of mapped JavaScript lines is therefore no
  measure of what is covered.

## 7. Plan

Done, in order of importance: `FlowCoordinator` with proofs, `StepContract` and
`StepCoordinator` with proofs, `InstanceLifecycle` with proofs, `FlowContract` between the two
with proofs, `UserInterface` with proofs, `RemoteAgent` with proofs, `Scheduler` with proofs,
`VariablesForm` with proofs.

1. `InstanceLifecycle`: the map of coordinators with its two-step cancellation; an abstract
   instance (Ready, Busy, ended) it implements, and which `Scheduler` takes its `flow` from.
2. `ActionExecutor` and `BeatSource`: polling, `'Delayed`, subscription and the end of the
   source; the executor, local or `RemoteAgent`, refines what `StepCoordinator` assumes of it.
3. `AgentStatusTracker`: the health of agents and the choice of one; recurring triggers.
4. `ServersLoan`, `LoggerActor`, `ProvisionVms`: one module each, as small as their properties.
5. `PhaseSort`: `sortByPhase` and `applyIds` against a reference definition of a linear
   extension, over all small phase graphs.
6. Proofs about what is added; of the present modules every safety property is proved.
