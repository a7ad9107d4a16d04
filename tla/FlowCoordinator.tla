--------------------------- MODULE FlowCoordinator ---------------------------
(***************************************************************************)
(* The execution of one workflow: the actor FlowCoordinator, the decisions *)
(* it asks GenesisFlowCoordinator for, and the rows both leave in the      *)
(* store.  The step coordinators the actor starts are its children; they   *)
(* appear here by what they owe their parent (one StepResult each) and are *)
(* modelled themselves in StepCoordinator.                                 *)
(*                                                                         *)
(* The flow actor handles one message of its mailbox per step, and a       *)
(* handler runs to completion.  Step coordinators, the BeatSource that     *)
(* holds the timeout and the dispatcher that forwards a cancellation run   *)
(* concurrently and only append to the mailbox.                            *)
(***************************************************************************)
EXTENDS Integers, Sequences, FiniteSets

CONSTANTS
  Steps,            \* the regular steps (flowSteps)
  RescueSteps,      \* the onError steps (rescueSteps)
  PhaseOf,          \* step -> the phase it belongs to
  PrecedingPhases,  \* step -> the phases that must be over before it starts
  RetryCount,       \* step -> how many times a failed attempt is repeated
  IgnoreFail,       \* the steps whose failure does not fail the flow
  OnSuccess,        \* onFlowFinishSuccess: Ready, or Destroyed
  RestoreEnvStatus, \* status given back by a read-only workflow, or "none"
  Faults,           \* which calls may throw or fail: a subset of FaultKind
  MaxFaults         \* how many of them may do so in one behaviour

AllSteps  == Steps \cup RescueSteps
FaultKind == {"onFlowStart", "prepare", "retry", "onStepFinish", "rescue", "onFlowFinish"}
EnvStatus == {"Ready", "Busy", "Destroyed", "Broken"}

ASSUME FlowAssumption ==
  /\ Steps \cap RescueSteps = {}
  /\ PrecedingPhases \in [Steps -> SUBSET {PhaseOf[s] : s \in Steps}]
  /\ RetryCount \in [Steps -> Nat]
  /\ IgnoreFail \subseteq AllSteps
  /\ OnSuccess \in EnvStatus \ {"Busy"}
  /\ RestoreEnvStatus \in EnvStatus \cup {"none"}
  /\ Faults \subseteq FaultKind
  /\ MaxFaults \in Nat

\* successionMap of FlowStepsTemplate: of any steps that are left, some can go first.
SuccessionMapExists ==
  \A left \in SUBSET Steps : left # {} =>
    \E s \in left : PrecedingPhases[s] \cap {PhaseOf[t] : t \in left} = {}

\* Otherwise the constructor throws CyclicFlowException, and there is no coordinator.
ASSUME PhasesAcyclic == SuccessionMapExists

VARIABLES
  behaviour,         \* the actor's current receive
  finishSignal,
  stepCoordinators,  \* live regular children
  finalCoordinators, \* live rescue children
  mailbox,           \* of the flow actor, in order of arrival
  genesis,           \* fields of GenesisFlowCoordinator
  db,                \* the rows of this workflow and its instance
  child,             \* step coordinator -> its state
  attempts,          \* step -> number of coordinators started for it
  beaten,            \* children with an unread interrupting Beat
  timer,             \* the subscribeOnce of the flow timeout in the BeatSource
  cancelled,         \* the dispatcher has forwarded a Cancel
  flowFinish,        \* the signal onFlowFinish was called with, or "none"
  faults             \* faults spent so far

actorVars == <<behaviour, finishSignal, stepCoordinators, finalCoordinators>>
childVars == <<child, attempts, beaten>>
vars == <<actorVars, mailbox, genesis, db, childVars, timer, cancelled, flowFinish, faults>>

Signal      == {"Success", "Cancel", "TimeOut", "Fail"}
Result      == {"ok", "failed", "throwable", "interrupt"}
Coordinator == AllSteps \X (Nat \ {0})

Message == [type : {"Start", "PoisonPill"}]
           \cup [type : {"Beat"}, signal : Signal \ {"Success"}]
           \cup [type : {"StepResult"}, from : Coordinator, result : Result]

StepStatus     == {"absent", "Requested", "Executing", "Succeed", "Failed", "Canceled"}
WorkflowStatus == {"Requested", "Executing", "Warning", "Succeed", "Failed", "Canceled"}

Genesis == [ loaded        : BOOLEAN,         \* workflow # null
             stepsToStart  : SUBSET Steps,
             finishedSteps : SUBSET AllSteps,
             retryMap      : [Steps -> Nat] ]

DB == [ workflow      : WorkflowStatus,
        stepsFinished : Nat,
        env           : EnvStatus,
        steps         : [AllSteps -> StepStatus] ]

Alive  == {c \in DOMAIN child : child[c] \in {"started", "running", "failing", "interrupting"}}
StepOf(c) == c[1]

ChildState == {"started", "running", "failing", "interrupting", "finished", "threw", "killed"}

-----------------------------------------------------------------------------
(* GenesisFlowCoordinator.  Each of its calls is the set of outcomes it may *)
(* have: the instruction it returns (Left(Fail), or Right with the steps to *)
(* start), the fields and the rows it leaves, and the faults it met.        *)

Outcome == [ signal  : {"none", "Fail"}, start : SUBSET Steps,
             genesis : Genesis, db : DB, cost : {0, 1} ]

Right(start, g, d) == [signal |-> "none", start |-> start, genesis |-> g, db |-> d, cost |-> 0]
Left(g, d, cost)   == [signal |-> "Fail", start |-> {}, genesis |-> g, db |-> d, cost |-> cost]

\* Variant: a phase is over as soon as its steps are started.
ReachableByStart(g) ==
  {s \in g.stepsToStart : PrecedingPhases[s] \cap {PhaseOf[t] : t \in g.stepsToStart} = {}}

\* Both spellings of detectReachableSteps: the partition and the retry counters.
Reachable(g) ==
  LET unfinishedPhases == {PhaseOf[s] : s \in Steps \ g.finishedSteps}
  IN  {s \in g.stepsToStart : PrecedingPhases[s] \cap unfinishedPhases = {}}

\* Variant: the reachable steps stay in stepsToStart.
DetectReachableAgain(g) ==
  [g EXCEPT !.retryMap = [s \in Steps |-> IF s \in Reachable(g) THEN RetryCount[s] ELSE @[s]]]

DetectReachable(g) ==
  [g EXCEPT !.stepsToStart = @ \ Reachable(g),
            !.retryMap = [s \in Steps |-> IF s \in Reachable(g) THEN RetryCount[s] ELSE @[s]]]

\* Variant: the steps that could be prepared are started without the one that could not.
CreateWhatIsPossible(g, d) ==
  {Right(Reachable(g), DetectReachable(g), d)}
  \cup {[Right(Reachable(g) \ {s}, DetectReachable(g), [d EXCEPT !.steps[s] = "Canceled"]) EXCEPT !.cost = 1] :
          s \in IF "prepare" \in Faults THEN Reachable(g) ELSE {}}

\* One step that cannot be built (Failed) or whose coordinator cannot be created
\* (Canceled) turns the whole batch into Left(Fail).
Unprepared(d, steps) ==
  {[d EXCEPT !.steps[s] = "Failed"] : s \in steps}
  \cup {[d EXCEPT !.steps[s] = "Canceled"] : s \in steps}

CreateReachableStepCoordinators(g, d) ==
  {Right(Reachable(g), DetectReachable(g), d)}
  \cup IF "prepare" \in Faults
       THEN {Left(DetectReachable(g), e, 1) : e \in Unprepared(d, Reachable(g))}
       ELSE {}

\* Insertion of step rows.
PersistSteps(d, steps) ==
  [d EXCEPT !.steps = [s \in AllSteps |-> IF s \in steps THEN "Requested" ELSE @[s]]]

OnFlowStart(g, d) ==
  LET started == [d EXCEPT !.workflow = "Executing", !.env = "Busy"]
      loaded  == [g EXCEPT !.loaded = TRUE]
  IN  CreateReachableStepCoordinators(loaded, PersistSteps(started, Steps))
      \cup IF "onFlowStart" \in Faults
           THEN {Left(g, d, 1)} \cup {Left(loaded, PersistSteps(started, p), 1) : p \in SUBSET Steps}
           ELSE {}

\* Variant: a later success overwrites the Warning.
CountStepForgetsWarning(s, r, g, d) ==
  CreateReachableStepCoordinators(
    [g EXCEPT !.finishedSteps = @ \cup {s}],
    [d EXCEPT !.stepsFinished = @ + 1, !.workflow = IF r = "failed" THEN "Warning" ELSE "Executing"])

\* GenesisFlowCoordinatorBase.onStepFinish: count the step, note an ignored failure.
CountStep(s, r, g, d) ==
  CreateReachableStepCoordinators(
    [g EXCEPT !.finishedSteps = @ \cup {s}],
    [d EXCEPT !.stepsFinished = @ + 1, !.workflow = IF r = "failed" THEN "Warning" ELSE @])

\* StepRestart.onStepFinish: spend a retry; a coordinator that cannot be created
\* again is left out of the Right.
RestartStep(s, g, d) ==
  LET spent == [g EXCEPT !.retryMap[s] = @ - 1]
  IN  {Right({s}, spent, d)}
      \cup IF "retry" \in Faults
           THEN {[Right({}, spent, [d EXCEPT !.steps[s] = "Canceled"]) EXCEPT !.cost = 1]}
           ELSE {}

\* Variant: the retry counter is compared with >= 0.
OnStepFinishRetryAtZero(s, r, g, d) ==
  CASE r \in {"throwable", "interrupt"}  -> {Left(g, d, 0)}
    [] r = "failed" /\ s \in Steps /\ g.retryMap[s] >= 0 -> RestartStep(s, g, d)
    [] OTHER                             -> CountStep(s, r, g, d)

\* onStepFinish(result) with its traits: holder, restart, ignore, base.
OnStepFinish(s, r, g, d) ==
  (CASE r \in {"throwable", "interrupt"}                         -> {Left(g, d, 0)}
     [] r = "failed" /\ s \in Steps /\ g.retryMap[s] > 0         -> RestartStep(s, g, d)
     [] r = "failed" /\ s \notin IgnoreFail
                     /\ ~ (s \in Steps /\ g.retryMap[s] > 0)     -> {Left(g, d, 0)}
     [] OTHER                                                    -> CountStep(s, r, g, d))
  \cup IF "onStepFinish" \in Faults THEN {Left(g, d, 1)} ELSE {}

\* The statuses onFlowFinish writes.  Without a loaded workflow the handler dies on a
\* null and, like a failed update, is only logged.
FinalStatus(signal, d) ==
  CASE signal = "Success" -> IF d.workflow = "Warning" THEN "Warning" ELSE "Succeed"
    [] signal = "Cancel"  -> "Canceled"
    [] OTHER              -> "Failed"

FinalEnv(signal) ==
  IF RestoreEnvStatus # "none" THEN RestoreEnvStatus
  ELSE IF signal = "Success" THEN OnSuccess ELSE "Broken"

\* Variant: the two rows are stored one after the other, and the second update may fail.
OnFlowFinishApart(signal, g, d) ==
  {[db |-> IF g.loaded THEN [d EXCEPT !.workflow = FinalStatus(signal, d), !.env = FinalEnv(signal)] ELSE d,
    cost |-> 0]}
  \cup IF "onFlowFinish" \in Faults /\ g.loaded
       THEN {[db |-> [d EXCEPT !.env = FinalEnv(signal)], cost |-> 1]} ELSE {}

OnFlowFinish(signal, g, d) ==
  (IF g.loaded
   THEN {[db |-> [d EXCEPT !.workflow = FinalStatus(signal, d), !.env = FinalEnv(signal)], cost |-> 0]}
   ELSE {[db |-> d, cost |-> 0]})
  \cup IF "onFlowFinish" \in Faults THEN {[db |-> d, cost |-> 1]} ELSE {}

-----------------------------------------------------------------------------
(* The flow actor. *)

Spend(cost) == /\ faults + cost <= MaxFaults
               /\ faults' = faults + cost

\* startCoordinators: a new child per step, with Start in its mailbox.
NewCoordinators(steps) == {<<s, attempts[s] + 1>> : s \in steps}

StartCoordinators(steps) ==
  /\ child' = [c \in DOMAIN child \cup NewCoordinators(steps) |->
                 IF c \in NewCoordinators(steps) THEN "started" ELSE child[c]]
  /\ attempts' = [s \in AllSteps |-> IF s \in steps THEN attempts[s] + 1 ELSE attempts[s]]

\* Variant: rescue coordinators are not waited for.
AttemptToFinishWithoutFinal(signal, next, regular, final, g, d, cost) ==
  /\ finishSignal' = signal
  /\ stepCoordinators' = regular /\ finalCoordinators' = final
  /\ genesis' = g
  /\ IF regular = {}
     THEN /\ \E out \in OnFlowFinish(signal, g, d) : db' = out.db /\ Spend(cost + out.cost)
          /\ flowFinish' = signal /\ behaviour' = "ignoreBeat"
     ELSE db' = d /\ Spend(cost) /\ behaviour' = next /\ UNCHANGED flowFinish

\* Variant: the actor does not become deaf to beats when the flow is finished.
AttemptToFinishStillListening(signal, next, regular, final, g, d, cost) ==
  /\ finishSignal' = signal
  /\ stepCoordinators' = regular /\ finalCoordinators' = final
  /\ genesis' = g
  /\ behaviour' = next
  /\ IF regular \cup final = {}
     THEN /\ \E out \in OnFlowFinish(signal, g, d) : db' = out.db /\ Spend(cost + out.cost)
          /\ flowFinish' = signal
     ELSE db' = d /\ Spend(cost) /\ UNCHANGED flowFinish

\* attemptToFinish, the last call of every handler: with no child left the flow is
\* finished with the signal, otherwise the actor goes on as `next`.
AttemptToFinish(signal, next, regular, final, g, d, cost) ==
  /\ finishSignal' = signal
  /\ stepCoordinators' = regular
  /\ finalCoordinators' = final
  /\ genesis' = g
  /\ \/ /\ regular \cup final = {}
        /\ \E out \in OnFlowFinish(signal, g, d) :
              /\ db' = out.db
              /\ Spend(cost + out.cost)
        /\ flowFinish' = signal
        /\ behaviour' = "ignoreBeat"
     \/ /\ regular \cup final # {}
        /\ db' = d
        /\ Spend(cost)
        /\ behaviour' = next
        /\ UNCHANGED flowFinish

\* interruptFlow: beat the regular children (never the rescue ones) and interrupt.
InterruptFlow(signal, regular, final, g, d, cost) ==
  /\ beaten' = beaten \cup (regular \cap Alive)
  /\ AttemptToFinish(signal, "interrupted", regular, final, g, d, cost)

\* rescueCoordinators throws outside SafeFlowCoordinator when there is no workflow, when
\* a row exists already or when the store fails: the supervisor restarts the actor, its
\* children are stopped, its fields are initial again and only the mailbox survives.
RestartActor(g, d, cost) ==
  /\ behaviour' = "receive"
  /\ finishSignal' = "Success"
  /\ stepCoordinators' = {}
  /\ finalCoordinators' = {}
  /\ child' = [c \in DOMAIN child |-> IF c \in Alive THEN "killed" ELSE child[c]]
  /\ beaten' = {}
  /\ genesis' = g
  /\ db' = d
  /\ Spend(cost)
  /\ UNCHANGED <<attempts, flowFinish>>

RescuePersisted(d) == \E r \in RescueSteps : d.steps[r] # "absent"

\* startRescueCoordinators, then interruptFlow.
RescueFlow(o, regular, final) ==
  \/ /\ o.genesis.loaded /\ ~ RescuePersisted(o.db)
     /\ \/ /\ StartCoordinators(RescueSteps)
           /\ InterruptFlow("Fail", regular, final \cup NewCoordinators(RescueSteps),
                            o.genesis, PersistSteps(o.db, RescueSteps), o.cost)
        \/ /\ "prepare" \in Faults
           /\ InterruptFlow("Fail", regular, final, o.genesis,
                [o.db EXCEPT !.steps = [s \in AllSteps |-> IF s \in RescueSteps THEN "Canceled" ELSE @[s]]],
                o.cost + 1)
           /\ UNCHANGED <<child, attempts>>
        \/ /\ "rescue" \in Faults
           /\ \E p \in SUBSET RescueSteps : RestartActor(o.genesis, PersistSteps(o.db, p), o.cost + 1)
  \/ /\ ~ o.genesis.loaded \/ RescuePersisted(o.db)
     /\ RestartActor(o.genesis, o.db, o.cost)

ProcessFlowInstruction(o, regular, final) ==
  \/ /\ o.signal = "none"
     /\ StartCoordinators(o.start)
     /\ AttemptToFinish(finishSignal, "receive", regular \cup NewCoordinators(o.start), final,
                        o.genesis, o.db, o.cost)
     /\ UNCHANGED beaten
  \/ /\ o.signal = "Fail" /\ RescueSteps # {}
     /\ RescueFlow(o, regular, final)
  \/ /\ o.signal = "Fail" /\ RescueSteps = {}
     /\ InterruptFlow("Fail", regular, final, o.genesis, o.db, o.cost)
     /\ UNCHANGED <<child, attempts>>

\* The message at the head of the mailbox is of this type.
Receive(type) ==
  /\ mailbox # <<>>
  /\ Head(mailbox).type = type
  /\ mailbox' = Tail(mailbox)

\* Variant: the flow timeout is not armed.
HandleStartWithoutTimeOut ==
  /\ behaviour = "receive" /\ Receive("Start")
  /\ \E o \in OnFlowStart(genesis, db) :
        ProcessFlowInstruction(o, stepCoordinators, finalCoordinators)
  /\ UNCHANGED <<timer, cancelled>>

HandleStart ==
  /\ behaviour = "receive" /\ Receive("Start")
  /\ timer' = "armed"
  /\ \E o \in OnFlowStart(genesis, db) :
        ProcessFlowInstruction(o, stepCoordinators, finalCoordinators)
  /\ UNCHANGED cancelled

\* Variant: a signal from outside starts the rescue steps too.
HandleBeatWithRescue ==
  /\ behaviour = "receive" /\ Receive("Beat")
  /\ StartCoordinators(RescueSteps)
  /\ InterruptFlow(Head(mailbox).signal, stepCoordinators,
                   finalCoordinators \cup NewCoordinators(RescueSteps), genesis, db, 0)
  /\ UNCHANGED <<timer, cancelled>>

HandleBeat ==
  /\ behaviour = "receive" /\ Receive("Beat")
  /\ InterruptFlow(Head(mailbox).signal, stepCoordinators, finalCoordinators, genesis, db, 0)
  /\ UNCHANGED <<child, attempts, timer, cancelled>>

HandleStepResult ==
  /\ behaviour = "receive" /\ Receive("StepResult")
  /\ LET m == Head(mailbox) IN
     \E o \in OnStepFinish(StepOf(m.from), m.result, genesis, db) :
        ProcessFlowInstruction(o, stepCoordinators \ {m.from}, finalCoordinators \ {m.from})
  /\ UNCHANGED <<timer, cancelled>>

\* Variant: an interrupted flow follows the instruction of onStepFinish.
InterruptedStepResultFollowed ==
  /\ behaviour = "interrupted" /\ Receive("StepResult")
  /\ LET m == Head(mailbox) IN
     \E o \in OnStepFinish(StepOf(m.from), m.result, genesis, db) :
        ProcessFlowInstruction(o, stepCoordinators \ {m.from}, finalCoordinators \ {m.from})
  /\ UNCHANGED <<timer, cancelled>>

\* Interrupted: onStepFinish is still asked, for its effects; its answer is dropped.
InterruptedStepResult ==
  /\ behaviour = "interrupted" /\ Receive("StepResult")
  /\ LET m == Head(mailbox) IN
     \E o \in OnStepFinish(StepOf(m.from), m.result, genesis, db) :
        AttemptToFinish(finishSignal, "interrupted",
          stepCoordinators \ {m.from}, finalCoordinators \ {m.from}, o.genesis, o.db, o.cost)
  /\ UNCHANGED <<childVars, timer, cancelled>>

\* A second signal when interrupted; once finished, every beat, and a result or a Start
\* nobody handles any more.
DropMessage ==
  /\ \/ behaviour = "interrupted" /\ Receive("Beat")
     \/ behaviour = "ignoreBeat" /\ \E type \in {"Beat", "StepResult", "Start"} : Receive(type)
  /\ UNCHANGED <<actorVars, genesis, db, childVars, timer, cancelled, flowFinish, faults>>

HandlePoisonPill ==
  /\ behaviour # "stopped" /\ Receive("PoisonPill")
  /\ behaviour' = "stopped"
  /\ UNCHANGED <<finishSignal, stepCoordinators, finalCoordinators, genesis, db, childVars,
                 timer, cancelled, flowFinish, faults>>

HandleMessage == HandleStart \/ HandleBeat \/ HandleStepResult \/ InterruptedStepResult
                 \/ DropMessage \/ HandlePoisonPill

-----------------------------------------------------------------------------
(* The step coordinators, as their parent sees them. *)

Send(m) == mailbox' = Append(mailbox, m)

StepVars == <<actorVars, genesis, attempts, timer, cancelled, flowFinish, faults>>

\* onStepStart; if it throws, the step is cancelled and can only report the throwable.
StepStart(c) ==
  /\ child[c] = "started"
  /\ \E state \in {"running", "failing"} :
        /\ child' = [child EXCEPT ![c] = state]
        /\ db' = [db EXCEPT !.steps[StepOf(c)] = IF state = "running" THEN "Executing" ELSE "Canceled"]
  /\ UNCHANGED <<StepVars, mailbox, beaten>>

\* getStepResult writes Succeed or Failed; for a coordinator that threw it writes nothing.
StepFinish(c, r) ==
  /\ \/ child[c] = "running"
     \/ child[c] = "failing" /\ r = "throwable"
  /\ child' = [child EXCEPT ![c] = IF r = "throwable" THEN "threw" ELSE "finished"]
  /\ beaten' = beaten \ {c}
  /\ Send([type |-> "StepResult", from |-> c, result |-> r])
  /\ db' = CASE r = "ok"     -> [db EXCEPT !.steps[StepOf(c)] = "Succeed"]
             [] r = "failed" -> [db EXCEPT !.steps[StepOf(c)] = "Failed"]
             [] OTHER        -> db
  /\ UNCHANGED StepVars

\* The interrupting Beat is read: onStepInterrupt.
StepInterrupt(c) ==
  /\ child[c] \in {"running", "failing"} /\ c \in beaten
  /\ child' = [child EXCEPT ![c] = "interrupting"]
  /\ beaten' = beaten \ {c}
  /\ db' = [db EXCEPT !.steps[StepOf(c)] = "Canceled"]
  /\ UNCHANGED <<StepVars, mailbox>>

StepInterrupted(c) ==
  /\ child[c] = "interrupting"
  /\ child' = [child EXCEPT ![c] = "finished"]
  /\ Send([type |-> "StepResult", from |-> c, result |-> "interrupt"])
  /\ UNCHANGED <<StepVars, db, beaten>>

-----------------------------------------------------------------------------
(* The dispatcher and the BeatSource. *)

\* RequestDispatcher.cancelWorkflow forgets the coordinator, so it signals once.
Cancel ==
  /\ ~ cancelled
  /\ cancelled' = TRUE
  /\ mailbox' = IF behaviour = "stopped" THEN mailbox
                ELSE Append(mailbox, [type |-> "Beat", signal |-> "Cancel"])
  /\ UNCHANGED <<actorVars, genesis, db, childVars, timer, flowFinish, faults>>

TimeOut ==
  /\ timer = "armed"
  /\ timer' = "fired"
  /\ Send([type |-> "Beat", signal |-> "TimeOut"])
  /\ UNCHANGED <<actorVars, genesis, db, childVars, cancelled, flowFinish, faults>>

\* unsubscribeOnce, called by attemptToFinish, with the PoisonPill of its callback.
UnsubscribeOnce ==
  /\ behaviour = "ignoreBeat" /\ timer # "removed"
  /\ timer' = "removed"
  /\ Send([type |-> "PoisonPill"])
  /\ UNCHANGED <<actorVars, genesis, db, childVars, cancelled, flowFinish, faults>>

-----------------------------------------------------------------------------
\* The dispatcher puts the coordinator in its map before it calls start(), so a request
\* to cancel may be forwarded ahead of Start.
Init ==
  /\ behaviour = "receive" /\ finishSignal = "Success"
  /\ stepCoordinators = {} /\ finalCoordinators = {}
  /\ cancelled \in BOOLEAN
  /\ mailbox = IF cancelled THEN <<[type |-> "Beat", signal |-> "Cancel"], [type |-> "Start"]>>
               ELSE <<[type |-> "Start"]>>
  /\ genesis = [loaded |-> FALSE, stepsToStart |-> Steps, finishedSteps |-> {},
                retryMap |-> [s \in Steps |-> 0]]
  /\ db = [workflow |-> "Requested", stepsFinished |-> 0, env |-> "Busy",
           steps |-> [s \in AllSteps |-> "absent"]]
  /\ child = [c \in {} |-> "started"] /\ attempts = [s \in AllSteps |-> 0] /\ beaten = {}
  /\ timer = "off" /\ flowFinish = "none" /\ faults = 0

Next ==
  \/ HandleMessage
  \/ \E c \in DOMAIN child : StepStart(c) \/ StepInterrupt(c) \/ StepInterrupted(c)
  \/ \E c \in DOMAIN child, r \in {"ok", "failed", "throwable"} : StepFinish(c, r)
  \/ Cancel \/ TimeOut \/ UnsubscribeOnce

Spec == Init /\ [][Next]_vars

\* A mailbox that is not empty is served, a child starts and answers an interruption,
\* the timer fires, and a rescue step ends.  A regular step may run forever.
Fairness ==
  /\ WF_vars(HandleMessage)
  /\ WF_vars(\E c \in DOMAIN child : StepStart(c) \/ StepInterrupt(c) \/ StepInterrupted(c))
  /\ WF_vars(\E c \in DOMAIN child, r \in {"ok", "failed", "throwable"} :
               StepOf(c) \in RescueSteps /\ StepFinish(c, r))
  /\ WF_vars(TimeOut)
  /\ WF_vars(UnsubscribeOnce)

FairSpec == Spec /\ Fairness

-----------------------------------------------------------------------------
TypeOK ==
  /\ behaviour \in {"receive", "interrupted", "ignoreBeat", "stopped"}
  /\ finishSignal \in Signal
  /\ DOMAIN child \subseteq Coordinator
  /\ child \in [DOMAIN child -> ChildState]
  /\ stepCoordinators \subseteq DOMAIN child
  /\ finalCoordinators \subseteq DOMAIN child
  /\ beaten \subseteq DOMAIN child
  /\ attempts \in [AllSteps -> Nat]
  /\ mailbox \in Seq(Message)
  /\ genesis \in Genesis
  /\ db \in DB
  /\ timer \in {"off", "armed", "fired", "removed"}
  /\ cancelled \in BOOLEAN
  /\ flowFinish \in Signal \cup {"none"}
  /\ faults \in 0..MaxFaults

Finished == flowFinish # "none"

\* A regular step is behind the flow: succeeded, or failed for good and ignored.
Over(s) == /\ \A c \in Alive : StepOf(c) # s
           /\ db.steps[s] = "Succeed" \/ (s \in IgnoreFail /\ db.steps[s] = "Failed")

\* "Each step is executed after all previous was completed": while a coordinator of a
\* regular step is alive, every step of its preceding phases is over in the store and has
\* no coordinator left.
PhaseOrder ==
  \A c \in Alive, t \in Steps :
    StepOf(c) \in Steps /\ PhaseOf[t] \in PrecedingPhases[StepOf(c)] => Over(t)

\* A step never has two live coordinators, and is attempted at most RetryCount + 1 times
\* (a rescue step once).
OneCoordinatorPerStep ==
  /\ \A c, d \in Alive : StepOf(c) = StepOf(d) => c = d
  /\ \A s \in AllSteps : attempts[s] <= 1 + (IF s \in Steps THEN RetryCount[s] ELSE 0)

\* onFlowFinish is only called when no step coordinator, regular or rescue, is at work.
QuietAtFinish == Finished => Alive = {}

\* The bookkeeping QuietAtFinish and FinishIsFinal rest on (inductive with TypeOK): the
\* actor's two sets hold every child at work, a finished actor waits for nobody and hears
\* nothing, a result comes from a child that has ended, and a child is a new actor.
Awaited == Alive \subseteq stepCoordinators \cup finalCoordinators

FinishedIsDeaf ==
  Finished => /\ behaviour \in {"ignoreBeat", "stopped"}
              /\ stepCoordinators \cup finalCoordinators = {}

Dead == DOMAIN child \ Alive

ResultsOfTheDead ==
  \A i \in 1..Len(mailbox) : mailbox[i].type = "StepResult" => mailbox[i].from \in Dead

AttemptsCounted == \A c \in DOMAIN child : c[2] <= attempts[StepOf(c)]

Bookkeeping == Awaited /\ FinishedIsDeaf /\ ResultsOfTheDead /\ AttemptsCounted

\* A flow that reports Success has every regular step over.
SuccessMeansAllOver == flowFinish = "Success" => \A s \in Steps : Over(s)

\* The stored outcome is the outcome: Warning exactly when a failure was ignored, and no
\* finished flow leaves its instance Busy.  A flow cancelled before its Start has loaded
\* no workflow and can record nothing.
OutcomeRecorded ==
  Finished /\ genesis.loaded =>
    /\ db.env = FinalEnv(flowFinish)
    /\ db.workflow \in {"Succeed", "Warning", "Failed", "Canceled"}
    /\ db.workflow = "Warning" <=>
         flowFinish = "Success" /\ \E s \in IgnoreFail : db.steps[s] = "Failed"

\* Calls whose exception is itself a reason to fail, and may leave no rescue step to start.
FailingCalls == {"onFlowStart", "prepare", "onStepFinish"}

\* A flow that none of these has failed fails only for a cause, and its rescue steps have run
\* to their end by then; no rescue step is ever started for a cancelled, timed out or
\* successful flow.
RescueOnFailure ==
  /\ flowFinish = "Fail" =>
       \/ /\ \A r \in RescueSteps : attempts[r] = 1
          /\ \/ \E s \in Steps \ IgnoreFail : db.steps[s] = "Failed" /\ attempts[s] = RetryCount[s] + 1
             \/ \E c \in DOMAIN child : child[c] = "threw"
       \/ faults > 0 /\ Faults \cap FailingCalls # {}
  /\ (\E r \in RescueSteps : attempts[r] > 0) => finishSignal = "Fail"

\* "All not started StepCoordinators wouldn't be started": from the interruption on no
\* regular step begins and the signal that ended the flow stays the one reported.
NothingNewAfterInterrupt ==
  [][behaviour = "interrupted" => /\ attempts' = attempts
                                  /\ finishSignal' = finishSignal]_vars

\* onFlowFinish is called once, and what it stored is the last word on this workflow.
FinishIsFinal ==
  [][Finished => UNCHANGED <<flowFinish, db>>]_vars

\* What the flow promises of the rows of its workflow and instance.
Contract == INSTANCE FlowContract WITH
  row <- db.workflow, env <- db.env, signal <- finishSignal, over <- Finished,
  onSuccess <- OnSuccess, restore <- RestoreEnvStatus, MayLose <- "onFlowFinish" \in Faults

ImplementsContract == Contract!Spec

\* Every flow is finished, even if its regular steps never answer: the timeout interrupts
\* them.
FlowFinishes == <>Finished
=============================================================================
