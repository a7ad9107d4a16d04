--------------------------- MODULE FlowOutcomeProofs ---------------------------
(***************************************************************************)
(* Theorems about what a flow that FlowCoordinator finished has done, left *)
(* in the store and reported, for every flow.  The outcomes are as told    *)
(* while the calls a theorem names do not fail (FlowCoordinator says what  *)
(* their failure does); FlowContract is implemented whatever fails.        *)
(***************************************************************************)
EXTENDS FlowCoordinatorProofs

\* Without a restart the actor's behaviour tells its signal: it reports Success as long as
\* nothing interrupted it, and no rescue step exists until then.
SignalFits ==
  /\ behaviour = "receive" =>
       finishSignal = "Success" /\ finalCoordinators = {} /\ ~ RescuePersisted(db)
  /\ behaviour = "interrupted" => finishSignal # "Success"
  /\ Finished => flowFinish = finishSignal
  /\ ~ genesis.loaded => DOMAIN child = {}

-----------------------------------------------------------------------------
(* What the calls into GenesisFlowCoordinator answer, in full. *)

LEMMA CreateAnswer ==
  ASSUME NEW g \in Genesis, NEW d \in DB, NEW o \in CreateReachableStepCoordinators(g, d)
  PROVE  /\ o.genesis = DetectReachable(g) /\ o.genesis.loaded = g.loaded
         /\ o.db.workflow = d.workflow /\ o.db.env = d.env
         /\ o.signal = "none" => o.start = Reachable(g) /\ o.db = d
         /\ "prepare" \notin Faults => o.signal = "none"
<1>1. DetectReachable(g).loaded = g.loaded
  BY DEF DetectReachable, Genesis
<1>2. CASE o = Right(Reachable(g), DetectReachable(g), d)
  BY <1>1, <1>2 DEF Right
<1>3. CASE "prepare" \in Faults /\ \E e \in Unprepared(d, Reachable(g)) : o = Left(DetectReachable(g), e, 1)
  <2>1. PICK e \in Unprepared(d, Reachable(g)) : o = Left(DetectReachable(g), e, 1)
    BY <1>3
  <2>2. e.workflow = d.workflow /\ e.env = d.env
    BY <2>1 DEF Unprepared, DB
  <2> QED BY <1>1, <1>3, <2>1, <2>2 DEF Left
<1> QED BY <1>2, <1>3 DEF CreateReachableStepCoordinators

LEMMA OnFlowStartAnswer ==
  ASSUME TypeOK, NEW o \in OnFlowStart(genesis, db)
  PROVE  \/ /\ o.signal = "Fail" /\ o.genesis = genesis /\ o.db = db
            /\ "onFlowStart" \in Faults
         \/ /\ o.genesis.loaded /\ o.db.workflow = "Executing" /\ o.db.env = "Busy"
            /\ \/ o.signal = "Fail" /\ {"onFlowStart", "prepare"} \cap Faults # {}
               \/ \E g \in Genesis :
                    /\ g.stepsToStart = genesis.stepsToStart
                    /\ g.finishedSteps = genesis.finishedSteps
                    /\ g.retryMap = genesis.retryMap
                    /\ o.genesis = DetectReachable(g)
                    /\ o.signal = "none" /\ o.start = Reachable(g)
                    /\ \A s \in Steps : o.db.steps[s] = "Requested"
<1> DEFINE begun  == [db EXCEPT !.workflow = "Executing", !.env = "Busy"]
           loaded == [genesis EXCEPT !.loaded = TRUE]
<1>1. genesis \in Genesis /\ db \in DB
  BY DEF TypeOK
<1>2. /\ loaded \in Genesis /\ begun \in DB /\ loaded.loaded
      /\ begun.workflow = "Executing" /\ begun.env = "Busy"
  BY <1>1 DEF Genesis, DB, WorkflowStatus, EnvStatus
<1>3. /\ loaded.stepsToStart = genesis.stepsToStart /\ loaded.finishedSteps = genesis.finishedSteps
      /\ loaded.retryMap = genesis.retryMap
  BY <1>1 DEF Genesis
<1>4. o \in OnFlowStart(genesis, db)
  OBVIOUS
<1>5. \/ o \in CreateReachableStepCoordinators(loaded, PersistSteps(begun, Steps))
      \/ "onFlowStart" \in Faults /\ o = Left(genesis, db, 1)
      \/ "onFlowStart" \in Faults /\ \E p \in SUBSET Steps : o = Left(loaded, PersistSteps(begun, p), 1)
  BY <1>4 DEF OnFlowStart
<1> HIDE DEF begun, loaded
<1>6. ASSUME NEW p
      PROVE  /\ PersistSteps(begun, p) \in DB
             /\ PersistSteps(begun, p).workflow = "Executing" /\ PersistSteps(begun, p).env = "Busy"
             /\ \A s \in Steps \cap p : PersistSteps(begun, p).steps[s] = "Requested"
  <2>1. PersistSteps(begun, p) \in DB
    BY <1>2, PersistStepsType
  <2>2. PersistSteps(begun, p).workflow = "Executing" /\ PersistSteps(begun, p).env = "Busy"
    BY <1>2 DEF PersistSteps, DB
  <2>3. \A s \in AllSteps \cap p : PersistSteps(begun, p).steps[s] = "Requested"
    BY <1>2 DEF PersistSteps, DB
  <2> QED BY <2>1, <2>2, <2>3 DEF AllSteps
<1>7. CASE o \in CreateReachableStepCoordinators(loaded, PersistSteps(begun, Steps))
  <2>1. o \in Outcome
    BY <1>2, <1>6, <1>7, CreateType
  <2>2. /\ o.genesis = DetectReachable(loaded) /\ o.genesis.loaded = loaded.loaded
        /\ o.db.workflow = PersistSteps(begun, Steps).workflow
        /\ o.db.env = PersistSteps(begun, Steps).env
        /\ o.signal = "none" => o.start = Reachable(loaded) /\ o.db = PersistSteps(begun, Steps)
        /\ "prepare" \notin Faults => o.signal = "none"
    <3>1. PersistSteps(begun, Steps) \in DB
      BY <1>6
    <3> QED BY <1>2, <1>7, <3>1, CreateAnswer
  <2>3. o.signal \in {"none", "Fail"}
    BY <2>1 DEF Outcome
  <2>4. CASE o.signal = "none"
    BY <1>2, <1>3, <1>6, <2>2, <2>4
  <2>5. CASE o.signal = "Fail"
    BY <1>2, <1>6, <2>2, <2>5
  <2> QED BY <2>3, <2>4, <2>5
<1>8. CASE "onFlowStart" \in Faults /\ o = Left(genesis, db, 1)
  BY <1>8 DEF Left
<1>9. CASE "onFlowStart" \in Faults /\ \E p \in SUBSET Steps : o = Left(loaded, PersistSteps(begun, p), 1)
  <2>1. PICK p \in SUBSET Steps : o = Left(loaded, PersistSteps(begun, p), 1)
    BY <1>9
  <2> QED BY <1>2, <1>6, <1>9, <2>1 DEF Left
<1> QED BY <1>5, <1>7, <1>8, <1>9

\* A result makes the flow fail, its step start again, or its step count.
Fails(o, s, r) ==
  /\ o.signal = "Fail" /\ o.start = {} /\ o.genesis = genesis /\ o.db = db
  /\ \/ "onStepFinish" \in Faults
     \/ r \in {"throwable", "interrupt"}
     \/ r = "failed" /\ s \notin IgnoreFail /\ ~ (s \in Steps /\ genesis.retryMap[s] > 0)

Restarts(o, s, r) ==
  /\ r = "failed" /\ s \in Steps /\ genesis.retryMap[s] > 0
  /\ o.signal = "none" /\ o.genesis.loaded = genesis.loaded
  /\ o.genesis.stepsToStart = genesis.stepsToStart
  /\ o.genesis.finishedSteps = genesis.finishedSteps
  /\ o.genesis.retryMap[s] = genesis.retryMap[s] - 1
  /\ \A t \in Steps \ {s} : o.genesis.retryMap[t] = genesis.retryMap[t]
  /\ o.db.workflow = db.workflow /\ o.db.env = db.env
  /\ \A t \in AllSteps \ {s} : o.db.steps[t] = db.steps[t]
  /\ \/ o.start = {s} /\ o.db = db
     \/ o.start = {} /\ "retry" \in Faults /\ o.db.steps[s] = "Canceled"

Counts(o, s, r) ==
  /\ r = "ok" \/ (r = "failed" /\ s \in IgnoreFail)
  /\ \E g \in Genesis, d \in DB :
       /\ g.loaded = genesis.loaded /\ g.stepsToStart = genesis.stepsToStart
       /\ g.finishedSteps = genesis.finishedSteps \cup {s} /\ g.retryMap = genesis.retryMap
       /\ d.steps = db.steps
       /\ d.workflow = IF r = "failed" THEN "Warning" ELSE db.workflow
       /\ d.env = db.env
       /\ o \in CreateReachableStepCoordinators(g, d)

LEMMA OnStepFinishAnswer ==
  ASSUME TypeOK, NEW s \in AllSteps, NEW r \in Result, NEW o \in OnStepFinish(s, r, genesis, db)
  PROVE  Fails(o, s, r) \/ Restarts(o, s, r) \/ Counts(o, s, r)
<1>1. genesis \in Genesis /\ db \in DB
  BY DEF TypeOK
<1>2. CASE o = Left(genesis, db, 1) /\ "onStepFinish" \in Faults
  BY <1>2 DEF Left, Fails
<1>3. CASE /\ o = Left(genesis, db, 0)
           /\ \/ r \in {"throwable", "interrupt"}
              \/ r = "failed" /\ s \notin IgnoreFail /\ ~ (s \in Steps /\ genesis.retryMap[s] > 0)
  BY <1>3 DEF Left, Fails
<1>4. CASE r = "failed" /\ s \in Steps /\ genesis.retryMap[s] > 0 /\ o \in RestartStep(s, genesis, db)
  <2> DEFINE spent == [genesis EXCEPT !.retryMap[s] = @ - 1]
             lost  == [db EXCEPT !.steps[s] = "Canceled"]
  <2>1. \/ o = Right({s}, spent, db)
        \/ "retry" \in Faults /\ o = [Right({}, spent, lost) EXCEPT !.cost = 1]
    BY <1>4 DEF RestartStep
  <2>2. /\ spent.loaded = genesis.loaded /\ spent.finishedSteps = genesis.finishedSteps
        /\ spent.stepsToStart = genesis.stepsToStart
        /\ spent.retryMap[s] = genesis.retryMap[s] - 1
        /\ \A t \in Steps \ {s} : spent.retryMap[t] = genesis.retryMap[t]
    BY <1>1, <1>4 DEF Genesis
  <2>3. /\ lost.workflow = db.workflow /\ lost.env = db.env /\ lost.steps[s] = "Canceled"
        /\ \A t \in AllSteps \ {s} : lost.steps[t] = db.steps[t]
    BY <1>1 DEF DB
  <2> HIDE DEF spent, lost
  <2> QED BY <1>4, <2>1, <2>2, <2>3 DEF Right, Restarts
<1>5. CASE /\ r = "ok" \/ (r = "failed" /\ s \in IgnoreFail)
           /\ o \in CountStep(s, r, genesis, db)
  <2> DEFINE g == [genesis EXCEPT !.finishedSteps = @ \cup {s}]
             d == [db EXCEPT !.stepsFinished = @ + 1,
                             !.workflow = IF r = "failed" THEN "Warning" ELSE @]
  <2>1. o \in CreateReachableStepCoordinators(g, d)
    BY <1>5 DEF CountStep
  <2>2. /\ g \in Genesis /\ g.loaded = genesis.loaded /\ g.stepsToStart = genesis.stepsToStart
        /\ g.finishedSteps = genesis.finishedSteps \cup {s} /\ g.retryMap = genesis.retryMap
    BY <1>1 DEF Genesis
  <2>3. /\ d \in DB /\ d.steps = db.steps /\ d.env = db.env
        /\ d.workflow = IF r = "failed" THEN "Warning" ELSE db.workflow
    <3>1. ASSUME NEW n \in Nat, NEW w \in WorkflowStatus
          PROVE  /\ [db EXCEPT !.stepsFinished = n, !.workflow = w] \in DB
                 /\ [db EXCEPT !.stepsFinished = n, !.workflow = w].steps = db.steps
                 /\ [db EXCEPT !.stepsFinished = n, !.workflow = w].workflow = w
                 /\ [db EXCEPT !.stepsFinished = n, !.workflow = w].env = db.env
      BY <1>1, Zenon DEF DB
    <3>2. db.stepsFinished + 1 \in Nat
      BY <1>1 DEF DB
    <3>3. (IF r = "failed" THEN "Warning" ELSE db.workflow) \in WorkflowStatus
      BY <1>1 DEF DB, WorkflowStatus
    <3> QED BY <3>1, <3>2, <3>3
  <2> HIDE DEF g, d
  <2> QED BY <1>5, <2>1, <2>2, <2>3 DEF Counts
<1> QED BY <1>2, <1>3, <1>4, <1>5 DEF OnStepFinish, Result

-----------------------------------------------------------------------------
(* What the actor does with an instruction. *)

LEMMA AttemptToFinishCases ==
  ASSUME NEW signal, NEW next, NEW regular, NEW final, NEW g, NEW d \in DB, NEW cost,
         AttemptToFinish(signal, next, regular, final, g, d, cost)
  PROVE  /\ finishSignal' = signal /\ genesis' = g
         /\ stepCoordinators' = regular /\ finalCoordinators' = final
         /\ db'.steps = d.steps
         /\ \/ /\ regular \cup final = {}
               /\ flowFinish' = signal /\ behaviour' = "ignoreBeat"
               /\ "onFlowFinish" \notin Faults /\ g.loaded =>
                    db'.workflow = FinalStatus(signal, d) /\ db'.env = FinalEnv(signal)
            \/ /\ regular \cup final # {}
               /\ db' = d /\ behaviour' = next /\ UNCHANGED flowFinish
<1>1. /\ finishSignal' = signal /\ genesis' = g
      /\ stepCoordinators' = regular /\ finalCoordinators' = final
  BY DEF AttemptToFinish
<1>2. db'.steps = d.steps
  BY AttemptToFinishRows
<1>3. CASE regular \cup final = {}
  <2>1. PICK out \in OnFlowFinish(signal, g, d) : db' = out.db
    BY <1>3 DEF AttemptToFinish
  <2>2. flowFinish' = signal /\ behaviour' = "ignoreBeat"
    BY <1>3 DEF AttemptToFinish
  <2> DEFINE e == [d EXCEPT !.workflow = FinalStatus(signal, d), !.env = FinalEnv(signal)]
  <2>3. e.workflow = FinalStatus(signal, d) /\ e.env = FinalEnv(signal)
    BY DEF DB
  <2> HIDE DEF e
  <2>4. "onFlowFinish" \notin Faults /\ g.loaded => out.db = e
    BY <2>1 DEF OnFlowFinish, e
  <2> QED BY <1>1, <1>2, <1>3, <2>1, <2>2, <2>3, <2>4
<1>4. CASE regular \cup final # {}
  BY <1>1, <1>2, <1>4 DEF AttemptToFinish
<1> QED BY <1>3, <1>4

(* A coordinator that becomes interrupted no longer receives, finished or not. *)
LEMMA InterruptLeavesReceive ==
  ASSUME NEW signal, NEW regular, NEW final, NEW g, NEW d, NEW cost,
         AttemptToFinish(signal, "interrupted", regular, final, g, d, cost)
  PROVE  behaviour' # "receive"
<1>1. behaviour' = "ignoreBeat" \/ behaviour' = "interrupted"
  BY DEF AttemptToFinish
<1> QED BY <1>1

\* What the answer of a call becomes: the flow goes on, or it is interrupted.
Continued(o, regular, final) ==
  /\ o.signal = "none" /\ StartCoordinators(o.start) /\ UNCHANGED beaten
  /\ AttemptToFinish(finishSignal, "receive", regular \cup NewCoordinators(o.start), final,
                     o.genesis, o.db, o.cost)

\* `rescue` are the rescue steps whose coordinators were started.
Interrupted(o, regular, final) ==
  /\ o.signal = "Fail"
  /\ \E rescue \in SUBSET RescueSteps, d \in DB, cost \in Nat :
       /\ StartCoordinators(rescue)
       /\ InterruptFlow("Fail", regular, final \cup NewCoordinators(rescue), o.genesis, d, cost)
       /\ d.workflow = o.db.workflow
       /\ \A t \in Steps : d.steps[t] = o.db.steps[t]
       /\ rescue = RescueSteps \/ "prepare" \in Faults
       /\ rescue # {} => o.genesis.loaded

LEMMA InstructionCases ==
  ASSUME TypeOK, "rescue" \notin Faults, NEW o \in Outcome, ~ RescuePersisted(o.db),
         NEW regular, NEW final, ProcessFlowInstruction(o, regular, final)
  PROVE  \/ Continued(o, regular, final)
         \/ Interrupted(o, regular, final)
         \/ o.signal = "Fail" /\ ~ o.genesis.loaded /\ RestartActor(o.genesis, o.db, o.cost)
<1>1. /\ o.db \in DB /\ o.cost \in Nat /\ o.cost + 1 \in Nat
      /\ \A t \in Steps : t \notin RescueSteps
  BY FlowAssumption DEF Outcome
<1>2. ASSUME UNCHANGED <<child, attempts>>
      PROVE  StartCoordinators({}) /\ NewCoordinators({}) = {}
  <2>1. NewCoordinators({}) = {}
    BY DEF NewCoordinators
  <2>2. child' = [c \in DOMAIN child |-> child[c]] /\ attempts' = [s \in AllSteps |-> attempts[s]]
    BY <1>2 DEF TypeOK
  <2> QED BY <2>1, <2>2 DEF StartCoordinators
<1>3. CASE o.signal = "none"
  BY <1>3 DEF ProcessFlowInstruction, Continued
<1>4. CASE o.signal = "Fail" /\ RescueSteps = {}
  <2>1. /\ InterruptFlow("Fail", regular, final, o.genesis, o.db, o.cost)
        /\ UNCHANGED <<child, attempts>>
    BY <1>4 DEF ProcessFlowInstruction
  <2>2. final \cup NewCoordinators({}) = final
    BY <1>2, <2>1
  <2> QED BY <1>1, <1>2, <1>4, <2>1, <2>2 DEF Interrupted
<1>5. CASE o.signal = "Fail" /\ RescueSteps # {}
  <2>1. RescueFlow(o, regular, final)
    BY <1>5 DEF ProcessFlowInstruction
  <2>2. CASE /\ o.genesis.loaded /\ StartCoordinators(RescueSteps)
             /\ InterruptFlow("Fail", regular, final \cup NewCoordinators(RescueSteps),
                              o.genesis, PersistSteps(o.db, RescueSteps), o.cost)
    <3>1. PersistSteps(o.db, RescueSteps) \in DB
      BY <1>1, PersistStepsType
    <3>2. /\ PersistSteps(o.db, RescueSteps).workflow = o.db.workflow
          /\ \A t \in Steps : PersistSteps(o.db, RescueSteps).steps[t] = o.db.steps[t]
      BY <1>1 DEF PersistSteps, DB, AllSteps
    <3> QED BY <1>1, <1>5, <2>2, <3>1, <3>2 DEF Interrupted
  <2>3. CASE /\ "prepare" \in Faults
             /\ InterruptFlow("Fail", regular, final, o.genesis,
                  [o.db EXCEPT !.steps = [s \in AllSteps |-> IF s \in RescueSteps THEN "Canceled" ELSE @[s]]],
                  o.cost + 1)
             /\ UNCHANGED <<child, attempts>>
    <3> DEFINE d == [o.db EXCEPT !.steps = [s \in AllSteps |-> IF s \in RescueSteps THEN "Canceled" ELSE @[s]]]
    <3>1. d \in DB /\ d.workflow = o.db.workflow /\ \A t \in Steps : d.steps[t] = o.db.steps[t]
      BY <1>1 DEF DB, StepStatus, AllSteps
    <3>2. InterruptFlow("Fail", regular, final, o.genesis, d, o.cost + 1)
      BY <2>3
    <3> HIDE DEF d
    <3>3. final \cup NewCoordinators({}) = final
      BY <1>2, <2>3
    <3> QED BY <1>1, <1>2, <1>5, <2>3, <3>1, <3>2, <3>3 DEF Interrupted
  <2>4. CASE ~ o.genesis.loaded /\ RestartActor(o.genesis, o.db, o.cost)
    BY <1>5, <2>4
  <2> QED BY <2>1, <2>2, <2>3, <2>4 DEF RescueFlow
<1> QED BY <1>3, <1>4, <1>5 DEF Outcome

\* Until a rescue step has a row, every child is of a regular step.
LEMMA RegularChildren ==
  ASSUME TypeOK, Bookkeeping, Order, ~ RescuePersisted(db), NEW c \in DOMAIN child
  PROVE  StepOf(c) \in Steps
<1>1. StepOf(c) \in AllSteps /\ c[2] \in Nat \ {0} /\ c[2] <= attempts[StepOf(c)]
  BY DEF TypeOK, Coordinator, StepOf, Bookkeeping, AttemptsCounted
<1>2. ASSUME StepOf(c) \in RescueSteps PROVE FALSE
  <2>1. attempts[StepOf(c)] \in Nat /\ attempts[StepOf(c)] <= 1
    BY <1>1, <1>2 DEF TypeOK, Order, AttemptsAddUp
  <2>2. attempts[StepOf(c)] = 1
    BY <1>1, <2>1
  <2> QED BY <1>2, <2>2 DEF Order, AttemptsAddUp, RescuePersisted
<1> QED BY <1>1, <1>2 DEF AllSteps

-----------------------------------------------------------------------------
(* SignalFits is an invariant while the store keeps the rescue steps' rows. *)

LEMMA InstructionKeepsSignal ==
  ASSUME TypeOK, Bookkeeping, SignalFits, "rescue" \notin Faults, behaviour = "receive",
         NEW o \in Outcome, \A t \in RescueSteps : o.db.steps[t] = db.steps[t],
         o.genesis.loaded \/ (o.signal = "Fail" /\ DOMAIN child = {}),
         NEW regular, NEW final, final = {}, ProcessFlowInstruction(o, regular, final)
  PROVE  SignalFits'
<1>1. /\ finishSignal = "Success" /\ ~ RescuePersisted(db) /\ ~ RescuePersisted(o.db)
      /\ ~ Finished /\ o.db \in DB
  BY DEF SignalFits, RescuePersisted, Bookkeeping, FinishedIsDeaf, Outcome
<1>2. CASE Continued(o, regular, final)
  <2>1. /\ finishSignal' = finishSignal /\ genesis' = o.genesis /\ finalCoordinators' = final
        /\ db'.steps = o.db.steps /\ (Finished' => flowFinish' = finishSignal)
        /\ behaviour' # "interrupted"
    BY <1>1, <1>2, AttemptToFinishCases DEF Continued, Finished
  <2>2. ~ RescuePersisted(db')
    BY <1>1, <2>1 DEF RescuePersisted
  <2>3. o.genesis.loaded
    BY <1>2 DEF Continued
  <2> QED BY <1>1, <2>1, <2>2, <2>3 DEF SignalFits
<1>3. CASE Interrupted(o, regular, final)
  <2>1. PICK rescue \in SUBSET RescueSteps, d \in DB, cost \in Nat :
          /\ StartCoordinators(rescue)
          /\ InterruptFlow("Fail", regular, final \cup NewCoordinators(rescue), o.genesis, d, cost)
          /\ rescue # {} => o.genesis.loaded
    BY <1>3 DEF Interrupted
  <2>2. /\ finishSignal' = "Fail" /\ genesis' = o.genesis /\ behaviour' # "receive"
        /\ (Finished' => flowFinish' = finishSignal')
    <3>1. AttemptToFinish("Fail", "interrupted", regular, final \cup NewCoordinators(rescue),
                          o.genesis, d, cost)
      BY <2>1 DEF InterruptFlow
    <3>2. /\ finishSignal' = "Fail" /\ genesis' = o.genesis
          /\ \/ flowFinish' = "Fail" /\ behaviour' = "ignoreBeat"
             \/ behaviour' = "interrupted" /\ UNCHANGED flowFinish
      <4>1. d \in DB
        BY <2>1
      <4>2. finishSignal' = "Fail" /\ genesis' = o.genesis
        BY <3>1, <4>1, AttemptToFinishCases
      <4>3. \/ flowFinish' = "Fail" /\ behaviour' = "ignoreBeat"
            \/ behaviour' = "interrupted" /\ UNCHANGED flowFinish
        BY <3>1, <4>1, AttemptToFinishCases
      <4> QED BY <4>2, <4>3
    <3> QED BY <1>1, <3>2 DEF Finished
  <2>3. ~ o.genesis.loaded => DOMAIN child' = {}
    BY <2>1 DEF StartCoordinators, NewCoordinators
  <2> QED BY <2>2, <2>3 DEF SignalFits
<1>4. CASE o.signal = "Fail" /\ ~ o.genesis.loaded /\ RestartActor(o.genesis, o.db, o.cost)
  BY <1>1, <1>4 DEF RestartActor, SignalFits, Finished
<1> QED BY <1>1, <1>2, <1>3, <1>4, InstructionCases

\* A result is handled by a loaded workflow, and asked about while receiving is only that of
\* a regular step.
LEMMA ResultFits ==
  ASSUME TypeOK, Bookkeeping, Order, SignalFits, Receive("StepResult")
  PROVE  /\ Head(mailbox).from \in DOMAIN child \cap Dead /\ genesis.loaded
         /\ IsResult(1) /\ Head(mailbox) = mailbox[1] /\ Head(mailbox).from \in Unheard
         /\ StepOf(Head(mailbox).from) \in AllSteps /\ Head(mailbox).result \in Result
         /\ behaviour = "receive" => StepOf(Head(mailbox).from) \in Steps
<1>1. /\ StepOf(Head(mailbox).from) \in AllSteps /\ Head(mailbox).result \in Result
      /\ Head(mailbox).from \in Dead
  BY ReceiveType, ReceiveFromTheDead DEF Bookkeeping
<1>2. Head(mailbox).from \in DOMAIN child
  BY <1>1 DEF Dead
<1>3. genesis.loaded
  BY <1>2 DEF SignalFits
<1>4. behaviour = "receive" => StepOf(Head(mailbox).from) \in Steps
  BY <1>2, RegularChildren DEF SignalFits
<1>5. Head(mailbox) = mailbox[1] /\ 1 \in 1..Len(mailbox)
  <2>1. mailbox \in Seq(Message) /\ mailbox # <<>>
    BY DEF TypeOK, Receive
  <2> QED BY <2>1
<1>6. IsResult(1)
  BY <1>5 DEF IsResult, Receive
<1> QED BY <1>1, <1>2, <1>3, <1>4, <1>5, <1>6, UnheardOf

\* The call that a result leads to keeps the workflow loaded and the rows of rescue steps.
LEMMA ResultAnswer ==
  ASSUME TypeOK, Bookkeeping, Order, SignalFits, Receive("StepResult"),
         NEW o \in OnStepFinish(StepOf(Head(mailbox).from), Head(mailbox).result, genesis, db)
  PROVE  /\ o \in Outcome /\ Lawful(o, {StepOf(Head(mailbox).from)}) /\ o.genesis.loaded
         /\ \/ Fails(o, StepOf(Head(mailbox).from), Head(mailbox).result)
            \/ Restarts(o, StepOf(Head(mailbox).from), Head(mailbox).result)
            \/ Counts(o, StepOf(Head(mailbox).from), Head(mailbox).result)
<1> DEFINE s == StepOf(Head(mailbox).from)
           r == Head(mailbox).result
<1>1. o \in Outcome /\ Lawful(o, {s})
  BY ResultIsLawful
<1>2. s \in AllSteps /\ r \in Result /\ genesis.loaded
  BY ResultFits
<1> HIDE DEF s, r
<1>3. Fails(o, s, r) \/ Restarts(o, s, r) \/ Counts(o, s, r)
  BY <1>2, OnStepFinishAnswer DEF s, r
<1>4. o.genesis.loaded
  BY <1>2, <1>3, CreateAnswer DEF Fails, Restarts, Counts
<1> QED BY <1>1, <1>3, <1>4 DEF s, r

\* What Start leads to.
LEMMA StartAnswer ==
  ASSUME TypeOK, Bookkeeping, Order, Receive("Start"), NEW o \in OnFlowStart(genesis, db)
  PROVE  /\ o \in Outcome /\ Lawful(o, {}) /\ DOMAIN child = {}
         /\ genesis.stepsToStart = Steps /\ genesis.finishedSteps = {}
<1>1. Head(mailbox) = mailbox[1] /\ 1 \in 1..Len(mailbox)
  <2>1. mailbox \in Seq(Message) /\ mailbox # <<>>
    BY DEF TypeOK, Receive
  <2> QED BY <2>1
<1>2. genesis.finishedSteps = {} /\ genesis.stepsToStart = Steps /\ DOMAIN child = {} /\ UnheardInOrder
  BY <1>1 DEF Order, StartIsFirst, Receive
<1>3. o \in Outcome
  BY OnFlowStartType DEF TypeOK
<1> QED BY <1>2, <1>3, OnFlowStartIsLawful

\* The steps that a child takes by itself, for the variables of the flow actor.
ChildStep(c) == StepStart(c) \/ StepInterrupt(c) \/ StepInterrupted(c)
                \/ \E r \in {"ok", "failed", "throwable"} : StepFinish(c, r)

LEMMA ChildStepFacts ==
  ASSUME TypeOK, NEW c \in DOMAIN child, ChildStep(c)
  PROVE  /\ UNCHANGED <<actorVars, genesis, attempts, flowFinish>>
         /\ c \in Alive /\ DOMAIN child' = DOMAIN child /\ Alive' \subseteq Alive
         /\ db'.workflow = db.workflow /\ db'.env = db.env
         /\ \A t \in AllSteps \ {StepOf(c)} : db'.steps[t] = db.steps[t]
         /\ db'.steps[StepOf(c)] = "Failed" => StepFinish(c, "failed") \/ db' = db
<1>1. UNCHANGED <<actorVars, genesis, attempts, flowFinish>> /\ DOMAIN child' = DOMAIN child
  BY DEF ChildStep, StepStart, StepInterrupt, StepInterrupted, StepFinish, StepVars, actorVars
<1>2. c \in Alive
  BY DEF ChildStep, StepStart, StepInterrupt, StepInterrupted, StepFinish, Alive
<1>3. \E state : child' = [child EXCEPT ![c] = state]
  BY DEF ChildStep, StepStart, StepInterrupt, StepInterrupted, StepFinish
<1>4. Alive' \subseteq Alive
  BY <1>2, <1>3 DEF Alive, TypeOK
<1>5. \/ db' = db
      \/ \E status \in {"Executing", "Canceled", "Succeed"} : db' = [db EXCEPT !.steps[StepOf(c)] = status]
      \/ StepFinish(c, "failed") /\ db' = [db EXCEPT !.steps[StepOf(c)] = "Failed"]
  <2>1. CASE StepStart(c)
    BY <2>1 DEF StepStart
  <2>2. CASE StepInterrupt(c)
    BY <2>2 DEF StepInterrupt
  <2>3. CASE StepInterrupted(c)
    BY <2>3 DEF StepInterrupted
  <2>4. ASSUME NEW r \in {"ok", "failed", "throwable"}, StepFinish(c, r)
        PROVE  \/ db' = db
               \/ db' = [db EXCEPT !.steps[StepOf(c)] = "Succeed"]
               \/ StepFinish(c, "failed") /\ db' = [db EXCEPT !.steps[StepOf(c)] = "Failed"]
    BY <2>4 DEF StepFinish
  <2> QED BY <2>1, <2>2, <2>3, <2>4 DEF ChildStep
<1>6. db \in DB /\ StepOf(c) \in AllSteps
  BY StepRowType DEF TypeOK, StepStatus
<1>7. /\ db'.workflow = db.workflow /\ db'.env = db.env
      /\ \A t \in AllSteps \ {StepOf(c)} : db'.steps[t] = db.steps[t]
      /\ db'.steps[StepOf(c)] = "Failed" => StepFinish(c, "failed") \/ db' = db
  BY <1>5, <1>6 DEF DB
<1> QED BY <1>1, <1>2, <1>3, <1>4, <1>7

\* The steps that leave the actor's fields, the rows and the children as they are, except
\* that the actor may stop: one message is dropped, or a signal or a pill arrives.
Bystander ==
  /\ UNCHANGED <<finishSignal, stepCoordinators, finalCoordinators, genesis, db, child, attempts,
                 beaten, flowFinish>>
  /\ behaviour' \in {behaviour, "stopped"}
  /\ \/ UNCHANGED mailbox
     \/ mailbox # <<>> /\ mailbox' = Tail(mailbox)
     \/ \E m \in Message : /\ m.type \in {"Beat", "PoisonPill"}
                           /\ m.type = "Beat" => m.signal # "Fail"
                           /\ mailbox' = Append(mailbox, m)

LEMMA NextCases ==
  ASSUME [Next]_vars
  PROVE  \/ HandleStart \/ HandleBeat \/ HandleStepResult \/ InterruptedStepResult
         \/ \E c \in DOMAIN child : ChildStep(c)
         \/ Bystander
<1>1. CASE HandleMessage
  BY <1>1 DEF HandleMessage, DropMessage, HandlePoisonPill, Receive, Bystander, actorVars, childVars
<1>2. CASE Cancel \/ TimeOut \/ UnsubscribeOnce
  <2>1. /\ [type |-> "Beat", signal |-> "Cancel"] \in Message
        /\ [type |-> "Beat", signal |-> "TimeOut"] \in Message
        /\ [type |-> "PoisonPill"] \in Message
    BY DEF Message, Signal
  <2>2. \/ UNCHANGED mailbox
        \/ \E m \in Message : /\ m.type \in {"Beat", "PoisonPill"}
                              /\ m.type = "Beat" => m.signal # "Fail"
                              /\ mailbox' = Append(mailbox, m)
    BY <1>2, <2>1 DEF Cancel, TimeOut, UnsubscribeOnce, Send
  <2>3. /\ UNCHANGED <<finishSignal, stepCoordinators, finalCoordinators, genesis, db, child,
                       attempts, beaten, flowFinish>>
        /\ behaviour' \in {behaviour, "stopped"}
    BY <1>2 DEF Cancel, TimeOut, UnsubscribeOnce, actorVars, childVars
  <2> QED BY <2>2, <2>3 DEF Bystander
<1>3. CASE UNCHANGED vars
  BY <1>3 DEF vars, Bystander, actorVars, childVars
<1> QED BY <1>1, <1>2, <1>3 DEF Next, ChildStep

LEMMA InitSignal == Init => SignalFits
BY DEF Init, SignalFits, Finished, RescuePersisted, AllSteps

LEMMA NextSignal ==
  ASSUME "rescue" \notin Faults, TypeOK, Bookkeeping, Order, SignalFits, [Next]_vars
  PROVE  SignalFits'
<1>finished. behaviour \in {"receive", "interrupted"} => ~ Finished
  BY DEF Bookkeeping, FinishedIsDeaf
<1>1. CASE HandleStart
  <2>1. PICK o \in OnFlowStart(genesis, db) :
          ProcessFlowInstruction(o, stepCoordinators, finalCoordinators)
    BY <1>1 DEF HandleStart
  <2>2. o \in Outcome /\ Lawful(o, {}) /\ DOMAIN child = {}
    BY <1>1, StartAnswer DEF HandleStart
  <2>3. o.genesis.loaded \/ o.signal = "Fail"
    BY OnFlowStartAnswer
  <2>4. behaviour = "receive" /\ finalCoordinators = {}
    BY <1>1 DEF HandleStart, SignalFits
  <2> QED BY <2>1, <2>2, <2>3, <2>4, InstructionKeepsSignal DEF Lawful
<1>2. CASE HandleBeat
  <2>1. Head(mailbox) \in Message /\ Head(mailbox).type = "Beat"
    BY <1>2, ReceiveType DEF HandleBeat, Receive
  <2>2. Head(mailbox).signal \in Signal \ {"Success"}
    BY <2>1 DEF Message
  <2>3. /\ AttemptToFinish(Head(mailbox).signal, "interrupted", stepCoordinators, finalCoordinators,
                           genesis, db, 0)
        /\ UNCHANGED child /\ db \in DB /\ ~ Finished
    BY <1>2, <1>finished DEF HandleBeat, InterruptFlow, TypeOK
  <2>4. /\ finishSignal' = Head(mailbox).signal /\ genesis' = genesis /\ behaviour' # "receive"
        /\ (Finished' => flowFinish' = finishSignal')
    BY <2>3, AttemptToFinishCases DEF Finished
  <2> QED BY <2>2, <2>3, <2>4 DEF SignalFits
<1>3. CASE HandleStepResult
  <2>1. PICK o \in OnStepFinish(StepOf(Head(mailbox).from), Head(mailbox).result, genesis, db) :
          ProcessFlowInstruction(o, stepCoordinators \ {Head(mailbox).from},
                                    finalCoordinators \ {Head(mailbox).from})
    BY <1>3 DEF HandleStepResult
  <2>2. o \in Outcome /\ Lawful(o, {StepOf(Head(mailbox).from)}) /\ o.genesis.loaded
    BY <1>3, ResultAnswer DEF HandleStepResult
  <2>3. behaviour = "receive" /\ finalCoordinators \ {Head(mailbox).from} = {}
    BY <1>3 DEF HandleStepResult, SignalFits
  <2> QED BY <2>1, <2>2, <2>3, InstructionKeepsSignal DEF Lawful
<1>4. CASE InterruptedStepResult
  <2>1. PICK o \in OnStepFinish(StepOf(Head(mailbox).from), Head(mailbox).result, genesis, db) :
          AttemptToFinish(finishSignal, "interrupted", stepCoordinators \ {Head(mailbox).from},
                          finalCoordinators \ {Head(mailbox).from}, o.genesis, o.db, o.cost)
    BY <1>4 DEF InterruptedStepResult
  <2>2. o \in Outcome /\ o.genesis.loaded
    BY <1>4, ResultAnswer DEF InterruptedStepResult
  <2>3. behaviour = "interrupted" /\ ~ Finished /\ finishSignal # "Success" /\ o.db \in DB
    BY <1>4, <1>finished, <2>2 DEF InterruptedStepResult, SignalFits, Outcome
  <2>4. /\ finishSignal' = finishSignal /\ genesis' = o.genesis /\ behaviour' # "receive"
        /\ (Finished' => flowFinish' = finishSignal')
    BY <2>1, <2>3, AttemptToFinishCases DEF Finished
  <2> QED BY <2>2, <2>3, <2>4 DEF SignalFits
<1>5. ASSUME NEW c \in DOMAIN child, ChildStep(c) PROVE SignalFits'
  <2>1. /\ UNCHANGED <<actorVars, genesis, flowFinish>> /\ DOMAIN child' = DOMAIN child
        /\ \A t \in AllSteps \ {StepOf(c)} : db'.steps[t] = db.steps[t]
    BY <1>5, ChildStepFacts
  <2>2. behaviour = "receive" => ~ RescuePersisted(db')
    <3>1. behaviour = "receive" => StepOf(c) \in Steps
      BY RegularChildren DEF SignalFits
    <3> QED BY <2>1, <3>1, FlowAssumption DEF SignalFits, RescuePersisted, AllSteps
  <2> QED BY <2>1, <2>2 DEF SignalFits, Finished, actorVars
<1>6. CASE Bystander
  BY <1>6 DEF Bystander, SignalFits, Finished, RescuePersisted
<1> QED BY <1>1, <1>2, <1>3, <1>4, <1>5, <1>6, NextCases

-----------------------------------------------------------------------------
(* Success: no step is lost. *)

AwaitedStep(s) == \E c \in stepCoordinators : StepOf(c) = s

\* Until the flow is interrupted every step is to start, awaited or finished; and a flow is
\* only reported successful with all of them finished.
NoStepLost ==
  /\ behaviour = "receive" /\ genesis.loaded =>
       \A s \in Steps : s \in genesis.stepsToStart \cup genesis.finishedSteps \/ AwaitedStep(s)
  /\ flowFinish = "Success" => Steps \subseteq genesis.finishedSteps

\* What is reachable leaves the steps to start, and when nothing is, nothing is left.
LEMMA ReachableAccounts ==
  ASSUME NEW g \in Genesis
  PROVE  /\ g.stepsToStart \cup g.finishedSteps \subseteq
              DetectReachable(g).stepsToStart \cup DetectReachable(g).finishedSteps \cup Reachable(g)
         /\ Steps \subseteq g.stepsToStart \cup g.finishedSteps /\ Reachable(g) = {} =>
              Steps \subseteq DetectReachable(g).finishedSteps
<1>1. /\ DetectReachable(g).finishedSteps = g.finishedSteps
      /\ DetectReachable(g).stepsToStart = g.stepsToStart \ Reachable(g)
  BY DetectReachableFacts
<1>2. ASSUME Steps \subseteq g.stepsToStart \cup g.finishedSteps, Reachable(g) = {}
      PROVE  Steps \subseteq g.finishedSteps
  <2> DEFINE left == Steps \ g.finishedSteps
  <2>1. SUFFICES ASSUME left # {} PROVE FALSE
    OBVIOUS
  <2>2. PICK s \in left : PrecedingPhases[s] \cap {PhaseOf[t] : t \in left} = {}
    BY <2>1, PhasesAcyclic DEF SuccessionMapExists
  <2>3. s \in g.stepsToStart
    BY <1>2
  <2>4. s \in Reachable(g)
    BY <2>2, <2>3 DEF Reachable
  <2> QED BY <1>2, <2>4
<1> QED BY <1>1, <1>2

LEMMA InstructionLosesNoStep ==
  ASSUME TypeOK, Bookkeeping, SignalFits, "rescue" \notin Faults, behaviour = "receive",
         NEW o \in Outcome, \A t \in RescueSteps : o.db.steps[t] = db.steps[t],
         NEW regular, NEW final, ProcessFlowInstruction(o, regular, final),
         o.signal = "none" =>
           \A s \in Steps : \/ s \in o.genesis.stepsToStart \cup o.genesis.finishedSteps \cup o.start
                            \/ \E c \in regular : StepOf(c) = s,
         o.signal = "none" /\ regular = {} /\ o.start = {} => Steps \subseteq o.genesis.finishedSteps
  PROVE  NoStepLost'
<1>1. flowFinish = "none" /\ ~ RescuePersisted(o.db) /\ o.db \in DB
  BY DEF SignalFits, RescuePersisted, Bookkeeping, FinishedIsDeaf, Finished, Outcome
<1>2. CASE Continued(o, regular, final)
  <2> DEFINE new == NewCoordinators(o.start)
  <2>1. AttemptToFinish(finishSignal, "receive", regular \cup new, final, o.genesis, o.db, o.cost)
    BY <1>2 DEF Continued
  <2>2. /\ genesis' = o.genesis /\ stepCoordinators' = regular \cup new
        /\ \/ regular \cup new = {}
           \/ flowFinish' = flowFinish
    BY <1>1, <2>1, AttemptToFinishCases
  <2>3. ASSUME NEW s \in o.start PROVE \E c \in new : StepOf(c) = s
    <3>1. <<s, attempts[s] + 1>> \in new
      BY DEF NewCoordinators
    <3>2. StepOf(<<s, attempts[s] + 1>>) = s
      BY DEF StepOf
    <3> QED BY <3>1, <3>2
  <2> HIDE DEF new
  <2>4. ASSUME NEW s \in Steps
        PROVE  s \in genesis'.stepsToStart \cup genesis'.finishedSteps \/ AwaitedStep(s)'
    BY <1>2, <2>2, <2>3 DEF AwaitedStep, Continued
  <2>5. flowFinish' = "Success" => Steps \subseteq genesis'.finishedSteps
    <3>1. CASE regular \cup new = {}
      <4>1. regular = {} /\ o.start = {}
        BY <2>3, <3>1
      <4> QED BY <1>2, <2>2, <4>1 DEF Continued
    <3>2. CASE flowFinish' = flowFinish
      BY <1>1, <3>2
    <3> QED BY <2>2, <3>1, <3>2
  <2> QED BY <2>4, <2>5 DEF NoStepLost
<1>3. CASE Interrupted(o, regular, final)
  <2>1. PICK rescue \in SUBSET RescueSteps, d \in DB, cost \in Nat :
          InterruptFlow("Fail", regular, final \cup NewCoordinators(rescue), o.genesis, d, cost)
    BY <1>3 DEF Interrupted
  <2>2. AttemptToFinish("Fail", "interrupted", regular, final \cup NewCoordinators(rescue),
                        o.genesis, d, cost)
    BY <2>1 DEF InterruptFlow
  <2>3. \/ flowFinish' = "Fail" /\ behaviour' = "ignoreBeat"
        \/ behaviour' = "interrupted" /\ UNCHANGED flowFinish
    BY <2>2, AttemptToFinishCases
  <2> QED BY <1>1, <2>3 DEF NoStepLost
<1>4. CASE o.signal = "Fail" /\ ~ o.genesis.loaded /\ RestartActor(o.genesis, o.db, o.cost)
  BY <1>1, <1>4 DEF RestartActor, NoStepLost
<1> QED BY <1>1, <1>2, <1>3, <1>4, InstructionCases

LEMMA InitNoStepLost == Init => NoStepLost
BY DEF Init, NoStepLost

LEMMA NextNoStepLost ==
  ASSUME {"rescue", "retry"} \cap Faults = {},
         TypeOK, Bookkeeping, Order, SignalFits, NoStepLost, [Next]_vars
  PROVE  NoStepLost'
<1>1. CASE HandleStart
  <2>1. PICK o \in OnFlowStart(genesis, db) :
          ProcessFlowInstruction(o, stepCoordinators, finalCoordinators)
    BY <1>1 DEF HandleStart
  <2>2. /\ o \in Outcome /\ \A t \in RescueSteps : o.db.steps[t] = db.steps[t]
        /\ genesis.stepsToStart = Steps /\ genesis.finishedSteps = {}
    BY <1>1, StartAnswer DEF HandleStart, Lawful
  <2>3. ASSUME o.signal = "none"
        PROVE  /\ Steps \subseteq o.genesis.stepsToStart \cup o.genesis.finishedSteps \cup o.start
               /\ o.start = {} => Steps \subseteq o.genesis.finishedSteps
    <3>1. PICK g \in Genesis : /\ g.stepsToStart = genesis.stepsToStart
                               /\ g.finishedSteps = genesis.finishedSteps
                               /\ o.genesis = DetectReachable(g) /\ o.start = Reachable(g)
      BY <2>3, OnFlowStartAnswer
    <3> QED BY <2>2, <3>1, ReachableAccounts
  <2>4. behaviour = "receive"
    BY <1>1 DEF HandleStart
  <2> QED BY <2>1, <2>2, <2>3, <2>4, InstructionLosesNoStep
<1>2. CASE HandleBeat
  <2>1. Head(mailbox) \in Message /\ Head(mailbox).type = "Beat"
    BY <1>2, ReceiveType DEF HandleBeat, Receive
  <2>2. Head(mailbox).signal # "Success"
    BY <2>1 DEF Message
  <2>3. /\ AttemptToFinish(Head(mailbox).signal, "interrupted", stepCoordinators, finalCoordinators,
                           genesis, db, 0)
        /\ db \in DB /\ flowFinish = "none"
    BY <1>2 DEF HandleBeat, InterruptFlow, TypeOK, Bookkeeping, FinishedIsDeaf, Finished
  <2>4. /\ flowFinish' \in {"none", Head(mailbox).signal}
        /\ behaviour' # "receive"
    BY <2>3, AttemptToFinishCases
  <2> QED BY <2>2, <2>4 DEF NoStepLost
<1>3. CASE HandleStepResult
  <2> DEFINE from == Head(mailbox).from
             s == StepOf(from)
             regular == stepCoordinators \ {from}
  <2>1. PICK o \in OnStepFinish(s, Head(mailbox).result, genesis, db) :
          ProcessFlowInstruction(o, regular, finalCoordinators \ {from})
    BY <1>3 DEF HandleStepResult
  <2>2. /\ o \in Outcome /\ \A t \in RescueSteps : o.db.steps[t] = db.steps[t]
        /\ \/ Fails(o, s, Head(mailbox).result)
           \/ Restarts(o, s, Head(mailbox).result)
           \/ Counts(o, s, Head(mailbox).result)
    BY <1>3, ResultAnswer DEF HandleStepResult, Lawful
  <2>3. behaviour = "receive" /\ genesis.loaded
    BY <1>3, ResultFits DEF HandleStepResult
  <2>4. \A t \in Steps : \/ t \in genesis.stepsToStart \cup genesis.finishedSteps \cup {s}
                         \/ \E c \in regular : StepOf(c) = t
    BY <2>3 DEF NoStepLost, AwaitedStep
  <2> HIDE DEF from, s, regular
  <2>5. CASE Fails(o, s, Head(mailbox).result)
    BY <2>1, <2>2, <2>3, <2>5, InstructionLosesNoStep DEF Fails
  <2>6. CASE Restarts(o, s, Head(mailbox).result)
    <3>1. /\ o.start = {s} /\ o.genesis.stepsToStart = genesis.stepsToStart
          /\ o.genesis.finishedSteps = genesis.finishedSteps
      BY <2>6 DEF Restarts
    <3> QED BY <2>1, <2>2, <2>3, <2>4, <3>1, InstructionLosesNoStep
  <2>7. CASE Counts(o, s, Head(mailbox).result)
    <3>1. PICK g \in Genesis, d \in DB :
            /\ g.stepsToStart = genesis.stepsToStart
            /\ g.finishedSteps = genesis.finishedSteps \cup {s}
            /\ o \in CreateReachableStepCoordinators(g, d)
      BY <2>7 DEF Counts
    <3>2. o.genesis = DetectReachable(g) /\ (o.signal = "none" => o.start = Reachable(g))
      BY <3>1, CreateAnswer
    <3>3. g.stepsToStart \cup g.finishedSteps \subseteq
            o.genesis.stepsToStart \cup o.genesis.finishedSteps \cup Reachable(g)
      BY <3>2, ReachableAccounts
    <3>4. regular = {} => Steps \subseteq g.stepsToStart \cup g.finishedSteps
      BY <2>4, <3>1
    <3>5. o.signal = "none" /\ regular = {} /\ o.start = {} => Steps \subseteq o.genesis.finishedSteps
      BY <3>2, <3>4, ReachableAccounts
    <3>6. o.signal = "none" =>
            \A t \in Steps : \/ t \in o.genesis.stepsToStart \cup o.genesis.finishedSteps \cup o.start
                             \/ \E c \in regular : StepOf(c) = t
      BY <2>4, <3>1, <3>2, <3>3
    <3> QED BY <2>1, <2>2, <2>3, <3>5, <3>6, InstructionLosesNoStep
  <2> QED BY <2>2, <2>5, <2>6, <2>7
<1>4. CASE InterruptedStepResult
  <2>1. PICK o \in OnStepFinish(StepOf(Head(mailbox).from), Head(mailbox).result, genesis, db) :
          AttemptToFinish(finishSignal, "interrupted", stepCoordinators \ {Head(mailbox).from},
                          finalCoordinators \ {Head(mailbox).from}, o.genesis, o.db, o.cost)
    BY <1>4 DEF InterruptedStepResult
  <2>2. o.db \in DB /\ flowFinish = "none" /\ finishSignal # "Success"
    BY <1>4, ResultAnswer
       DEF InterruptedStepResult, Outcome, SignalFits, Bookkeeping, FinishedIsDeaf, Finished
  <2>3. flowFinish' \in {"none", finishSignal} /\ behaviour' # "receive"
    BY <2>1, <2>2, AttemptToFinishCases
  <2> QED BY <2>2, <2>3 DEF NoStepLost
<1>5. ASSUME NEW c \in DOMAIN child, ChildStep(c) PROVE NoStepLost'
  <2>1. UNCHANGED <<actorVars, genesis, flowFinish>>
    BY <1>5, ChildStepFacts
  <2> QED BY <2>1 DEF NoStepLost, AwaitedStep, actorVars
<1>6. CASE Bystander
  BY <1>6 DEF Bystander, NoStepLost, AwaitedStep
<1> QED BY <1>1, <1>2, <1>3, <1>4, <1>5, <1>6, NextCases

\* A flow that reports Success has every regular step behind it, succeeded or ignored, for
\* every acyclic set of phases, whatever calls fail except the restart of a step and the
\* writing of rescue steps (the first is the finding of the run flow_retry_lost).
THEOREM SuccessMeansAllOverCorrect ==
  ASSUME {"rescue", "retry"} \cap Faults = {}
  PROVE  Spec => []SuccessMeansAllOver
<1>1. Init => SignalFits /\ NoStepLost
  BY InitSignal, InitNoStepLost
<1>2. TypeOK /\ Bookkeeping /\ Order /\ SignalFits /\ NoStepLost /\ [Next]_vars
        => SignalFits' /\ NoStepLost'
  BY NextSignal, NextNoStepLost
<1>3. TypeOK /\ Bookkeeping /\ Order /\ NoStepLost => SuccessMeansAllOver
  <2> SUFFICES ASSUME TypeOK, Bookkeeping, Order, NoStepLost, flowFinish = "Success",
                      NEW s \in Steps
               PROVE  Over(s)
    BY DEF SuccessMeansAllOver
  <2>1. Alive = {}
    BY DEF Bookkeeping, Awaited, FinishedIsDeaf, Finished
  <2>2. s \in genesis.finishedSteps
    BY DEF NoStepLost
  <2> QED BY <2>1, <2>2 DEF Order, RowsAgree, Over
<1>4. Spec => [](TypeOK /\ Bookkeeping /\ Order)
  BY OrderCorrect
<1> QED BY <1>1, <1>2, <1>3, <1>4, PTL DEF Spec

-----------------------------------------------------------------------------
(* The stored outcome. *)

\* Until the flow is finished its workflow is Executing or Warning; until it is interrupted
\* Warning means a finished step failed, and the row of a failed step is of one that is
\* finished or starts again.
WarningFits ==
  /\ genesis.loaded /\ ~ Finished => db.workflow \in {"Executing", "Warning"}
  /\ behaviour = "receive" /\ genesis.loaded =>
       /\ db.workflow = "Warning" <=>
            \E s \in IgnoreFail \cap genesis.finishedSteps : db.steps[s] = "Failed"
       /\ \A s \in Steps : db.steps[s] = "Failed" => s \in genesis.finishedSteps \/ AwaitedStep(s)
  /\ OutcomeRecorded

\* Interrupted with any signal but Success, which is written with its own status.
LEMMA InterruptionIsRecorded ==
  ASSUME "onFlowFinish" \notin Faults, flowFinish = "none", NEW signal, signal \in Signal \ {"Success"},
         NEW regular, NEW final, NEW g, NEW d \in DB, NEW cost,
         AttemptToFinish(signal, "interrupted", regular, final, g, d, cost),
         g.loaded => d.workflow \in {"Executing", "Warning"}
  PROVE  WarningFits'
<1>1. genesis' = g /\ behaviour' # "receive"
  BY AttemptToFinishCases
<1>2. \/ flowFinish' = signal /\ (g.loaded => db'.workflow = FinalStatus(signal, d) /\ db'.env = FinalEnv(signal))
      \/ db' = d /\ flowFinish' = "none"
  BY AttemptToFinishCases
<1>3. FinalStatus(signal, d) \in {"Failed", "Canceled"}
  BY DEF FinalStatus
<1>4. CASE flowFinish' = signal /\ (g.loaded => db'.workflow = FinalStatus(signal, d) /\ db'.env = FinalEnv(signal))
  <2>1. OutcomeRecorded'
    <3>1. signal # "none" /\ signal # "Success"
      BY DEF Signal
    <3>2. genesis'.loaded => db'.env = FinalEnv(flowFinish') /\ db'.workflow \in {"Failed", "Canceled"}
      BY <1>1, <1>3, <1>4
    <3>3. FinalEnv(flowFinish)' = FinalEnv(flowFinish')
      BY DEF FinalEnv
    <3> QED BY <1>4, <3>1, <3>2, <3>3 DEF OutcomeRecorded
  <2>2. Finished'
    BY <1>4 DEF Finished, Signal
  <2> QED BY <1>1, <2>1, <2>2 DEF WarningFits
<1>5. CASE db' = d /\ flowFinish' = "none"
  BY <1>1, <1>5 DEF WarningFits, OutcomeRecorded, Finished
<1> QED BY <1>2, <1>4, <1>5

\* The same of the answer to a call: the steps it starts and `regular` are awaited then.
AnswerFits(o, regular) ==
  /\ o.db.workflow = "Warning" <=>
       \E s \in IgnoreFail \cap o.genesis.finishedSteps : o.db.steps[s] = "Failed"
  /\ \A s \in Steps : o.db.steps[s] = "Failed" =>
       \/ s \in o.genesis.finishedSteps \cup o.start
       \/ \E c \in regular : StepOf(c) = s

LEMMA InstructionIsRecorded ==
  ASSUME TypeOK, Bookkeeping, SignalFits, {"rescue", "onFlowFinish"} \cap Faults = {},
         behaviour = "receive",
         NEW o \in Outcome, \A t \in RescueSteps : o.db.steps[t] = db.steps[t],
         NEW regular, NEW final, ProcessFlowInstruction(o, regular, final),
         o.genesis.loaded => o.db.workflow \in {"Executing", "Warning"},
         o.signal = "none" => AnswerFits(o, regular)
  PROVE  WarningFits'
<1>1. /\ flowFinish = "none" /\ finishSignal = "Success" /\ o.db \in DB
      /\ \A t \in RescueSteps : o.db.steps[t] = "absent"
  BY DEF SignalFits, RescuePersisted, Bookkeeping, FinishedIsDeaf, Finished, Outcome
<1>2. ~ RescuePersisted(o.db)
  BY <1>1 DEF RescuePersisted
<1>3. CASE Continued(o, regular, final)
  <2> DEFINE new == NewCoordinators(o.start)
  <2>1. AttemptToFinish("Success", "receive", regular \cup new, final, o.genesis, o.db, o.cost)
    BY <1>1, <1>3 DEF Continued
  <2>2. genesis' = o.genesis /\ stepCoordinators' = regular \cup new /\ db'.steps = o.db.steps
    BY <1>1, <2>1, AttemptToFinishCases
  <2>3. \/ /\ (regular \cup new) \cup final = {} /\ flowFinish' = "Success" /\ behaviour' = "ignoreBeat"
           /\ o.genesis.loaded => db'.workflow = FinalStatus("Success", o.db) /\ db'.env = FinalEnv("Success")
        \/ db' = o.db /\ flowFinish' = "none"
    <3>1. \/ /\ (regular \cup new) \cup final = {}
             /\ flowFinish' = "Success" /\ behaviour' = "ignoreBeat"
             /\ "onFlowFinish" \notin Faults /\ o.genesis.loaded =>
                  db'.workflow = FinalStatus("Success", o.db) /\ db'.env = FinalEnv("Success")
          \/ db' = o.db /\ UNCHANGED flowFinish
      BY <1>1, <2>1, AttemptToFinishCases
    <3> QED BY <1>1, <3>1
  <2>4. ASSUME NEW s \in o.start PROVE \E c \in new : StepOf(c) = s
    <3>1. <<s, attempts[s] + 1>> \in new
      BY DEF NewCoordinators
    <3>2. StepOf(<<s, attempts[s] + 1>>) = s
      BY DEF StepOf
    <3> QED BY <3>1, <3>2
  <2> HIDE DEF new
  <2>5. CASE /\ (regular \cup new) \cup final = {} /\ flowFinish' = "Success" /\ behaviour' = "ignoreBeat"
             /\ o.genesis.loaded => db'.workflow = FinalStatus("Success", o.db) /\ db'.env = FinalEnv("Success")
    <3>1. regular = {} /\ o.start = {}
      BY <2>4, <2>5
    <3>2. \A s \in Steps : o.db.steps[s] = "Failed" => s \in o.genesis.finishedSteps
      BY <1>3, <3>1 DEF Continued, AnswerFits
    <3>3. \A s \in IgnoreFail : s \notin Steps => o.db.steps[s] # "Failed"
      BY <1>1, FlowAssumption DEF AllSteps
    <3>4. o.db.workflow = "Warning" <=> \E s \in IgnoreFail : o.db.steps[s] = "Failed"
      BY <1>3, <3>2, <3>3 DEF Continued, AnswerFits
    <3>5. FinalStatus("Success", o.db) = IF o.db.workflow = "Warning" THEN "Warning" ELSE "Succeed"
      BY DEF FinalStatus
    <3>6. genesis'.loaded =>
            /\ db'.env = FinalEnv(flowFinish') /\ db'.workflow \in {"Succeed", "Warning"}
            /\ db'.workflow = "Warning" <=> \E s \in IgnoreFail : db'.steps[s] = "Failed"
      BY <2>2, <2>5, <3>4, <3>5
    <3>7. FinalEnv(flowFinish)' = FinalEnv(flowFinish')
      BY DEF FinalEnv
    <3>8. OutcomeRecorded'
      BY <2>5, <3>6, <3>7 DEF OutcomeRecorded
    <3> QED BY <2>5, <3>8 DEF WarningFits, Finished
  <2>6. CASE db' = o.db /\ flowFinish' = "none"
    <3>1. \A s \in Steps : db'.steps[s] = "Failed" => s \in genesis'.finishedSteps \/ AwaitedStep(s)'
      BY <1>3, <2>2, <2>4, <2>6 DEF Continued, AnswerFits, AwaitedStep
    <3>2. genesis'.loaded => db'.workflow \in {"Executing", "Warning"}
      BY <2>2, <2>6
    <3>3. db'.workflow = "Warning" <=>
            \E s \in IgnoreFail \cap genesis'.finishedSteps : db'.steps[s] = "Failed"
      BY <1>3, <2>2, <2>6 DEF Continued, AnswerFits
    <3> QED BY <2>6, <3>1, <3>2, <3>3 DEF WarningFits, OutcomeRecorded, Finished
  <2> QED BY <2>3, <2>5, <2>6
<1>4. CASE Interrupted(o, regular, final)
  <2>1. PICK rescue \in SUBSET RescueSteps, d \in DB, cost \in Nat :
          /\ InterruptFlow("Fail", regular, final \cup NewCoordinators(rescue), o.genesis, d, cost)
          /\ d.workflow = o.db.workflow
    BY <1>4 DEF Interrupted
  <2>2. AttemptToFinish("Fail", "interrupted", regular, final \cup NewCoordinators(rescue),
                        o.genesis, d, cost)
    BY <2>1 DEF InterruptFlow
  <2>3. "onFlowFinish" \notin Faults /\ "Fail" \in Signal \ {"Success"}
    BY DEF Signal
  <2>4. o.genesis.loaded => d.workflow \in {"Executing", "Warning"}
    BY <2>1
  <2> QED BY <1>1, <2>2, <2>3, <2>4, InterruptionIsRecorded
<1>5. CASE o.signal = "Fail" /\ ~ o.genesis.loaded /\ RestartActor(o.genesis, o.db, o.cost)
  BY <1>1, <1>5 DEF RestartActor, WarningFits, OutcomeRecorded, Finished
<1> QED BY <1>2, <1>3, <1>4, <1>5, InstructionCases

LEMMA InitWarning == Init => WarningFits
BY DEF Init, WarningFits, OutcomeRecorded, Finished

\* What any result makes of the workflow's status.
LEMMA ResultKeepsExecuting ==
  ASSUME WarningFits, genesis.loaded, ~ Finished, NEW o, NEW s, NEW r,
         Fails(o, s, r) \/ Restarts(o, s, r) \/ Counts(o, s, r)
  PROVE  o.db.workflow \in {"Executing", "Warning"}
<1>1. db.workflow \in {"Executing", "Warning"}
  BY DEF WarningFits
<1>2. CASE Counts(o, s, r)
  <2>1. PICK g \in Genesis, d \in DB :
          /\ d.workflow = IF r = "failed" THEN "Warning" ELSE db.workflow
          /\ o \in CreateReachableStepCoordinators(g, d)
    BY <1>2 DEF Counts
  <2> QED BY <1>1, <2>1, CreateAnswer
<1> QED BY <1>1, <1>2 DEF Fails, Restarts

\* What a result of a regular step makes of the rows.
LEMMA ResultKeepsWarning ==
  ASSUME TypeOK, WarningFits, genesis.loaded, behaviour = "receive", NEW from,
         StepOf(from) \in Steps, StepOf(from) \notin genesis.finishedSteps, NEW r,
         r = "ok" => db.steps[StepOf(from)] = "Succeed",
         r = "failed" => db.steps[StepOf(from)] = "Failed",
         NEW o, Restarts(o, StepOf(from), r) \/ Counts(o, StepOf(from), r), o.signal = "none"
  PROVE  AnswerFits(o, stepCoordinators \ {from})
<1> DEFINE s == StepOf(from)
<1>1. /\ db.workflow = "Warning" <=>
           \E t \in IgnoreFail \cap genesis.finishedSteps : db.steps[t] = "Failed"
      /\ \A t \in Steps : db.steps[t] = "Failed" => t \in genesis.finishedSteps \/ AwaitedStep(t)
  BY DEF WarningFits
<1>2. \A t \in Steps : db.steps[t] = "Failed" =>
        \/ t \in genesis.finishedSteps \cup {s}
        \/ \E c \in stepCoordinators \ {from} : StepOf(c) = t
  BY <1>1 DEF AwaitedStep
<1>3. genesis.finishedSteps \subseteq AllSteps /\ s \in AllSteps
  BY DEF TypeOK, Genesis, AllSteps
<1>4. /\ s \in Steps /\ s \notin genesis.finishedSteps
      /\ (r = "ok" => db.steps[s] = "Succeed") /\ (r = "failed" => db.steps[s] = "Failed")
      /\ Restarts(o, s, r) \/ Counts(o, s, r)
  OBVIOUS
<1> HIDE DEF s
<1>5. CASE Restarts(o, s, r)
  <2>1. /\ o.db.workflow = db.workflow /\ o.genesis.finishedSteps = genesis.finishedSteps
        /\ \A t \in AllSteps \ {s} : o.db.steps[t] = db.steps[t]
        /\ o.start = {s} \/ o.db.steps[s] = "Canceled"
    BY <1>5 DEF Restarts
  <2>2. \A t \in genesis.finishedSteps : o.db.steps[t] = db.steps[t]
    BY <1>3, <1>4, <2>1
  <2>3. \A t \in Steps \ {s} : o.db.steps[t] = db.steps[t]
    BY <2>1 DEF AllSteps
  <2> QED BY <1>1, <1>2, <1>4, <2>1, <2>2, <2>3 DEF AnswerFits
<1>6. CASE Counts(o, s, r)
  <2>1. PICK g \in Genesis, d \in DB :
          /\ g.finishedSteps = genesis.finishedSteps \cup {s} /\ d.steps = db.steps
          /\ d.workflow = IF r = "failed" THEN "Warning" ELSE db.workflow
          /\ o \in CreateReachableStepCoordinators(g, d)
    BY <1>6 DEF Counts
  <2>2. o.db = d /\ o.genesis.finishedSteps = genesis.finishedSteps \cup {s}
    BY <2>1, CreateAnswer, DetectReachableFacts
  <2>3. r = "ok" \/ (r = "failed" /\ s \in IgnoreFail)
    BY <1>6 DEF Counts
  <2>4. o.db.workflow = "Warning" <=>
          \E t \in IgnoreFail \cap o.genesis.finishedSteps : o.db.steps[t] = "Failed"
    <3>1. CASE r = "failed"
      BY <1>4, <2>1, <2>2, <2>3, <3>1
    <3>2. CASE r = "ok"
      BY <1>1, <1>4, <2>1, <2>2, <3>2
    <3> QED BY <2>3, <3>1, <3>2
  <2> QED BY <1>2, <2>1, <2>2, <2>4 DEF AnswerFits
<1> QED BY <1>4, <1>5, <1>6 DEF s

LEMMA NextWarning ==
  ASSUME {"rescue", "onFlowFinish"} \cap Faults = {},
         TypeOK, Bookkeeping, Order, SignalFits, WarningFits, [Next]_vars
  PROVE  WarningFits'
<1>listening. behaviour \in {"receive", "interrupted"} => ~ Finished /\ flowFinish = "none"
  BY DEF Bookkeeping, FinishedIsDeaf, Finished
<1>faults. "onFlowFinish" \notin Faults
  OBVIOUS
<1>1. CASE HandleStart
  <2>1. PICK o \in OnFlowStart(genesis, db) :
          ProcessFlowInstruction(o, stepCoordinators, finalCoordinators)
    BY <1>1 DEF HandleStart
  <2>2. /\ o \in Outcome /\ \A t \in RescueSteps : o.db.steps[t] = db.steps[t]
        /\ genesis.stepsToStart = Steps /\ genesis.finishedSteps = {}
    BY <1>1, StartAnswer DEF HandleStart, Lawful
  <2>3. behaviour = "receive" /\ ~ Finished
    BY <1>1, <1>listening DEF HandleStart
  <2>4. o.genesis.loaded => o.db.workflow \in {"Executing", "Warning"}
    BY <2>3, OnFlowStartAnswer DEF WarningFits
  <2>5. ASSUME o.signal = "none"
        PROVE  /\ o.genesis.finishedSteps = {} /\ o.db.workflow = "Executing"
               /\ \A s \in Steps : o.db.steps[s] = "Requested"
    <3>1. PICK g \in Genesis : /\ g.finishedSteps = genesis.finishedSteps
                               /\ o.genesis = DetectReachable(g)
                               /\ \A s \in Steps : o.db.steps[s] = "Requested"
      BY <2>5, OnFlowStartAnswer
    <3>2. o.db.workflow = "Executing"
      BY <2>5, OnFlowStartAnswer
    <3> QED BY <2>2, <3>1, <3>2, DetectReachableFacts
  <2>6. o.signal = "none" => AnswerFits(o, stepCoordinators)
    BY <2>5 DEF AnswerFits
  <2> QED BY <2>1, <2>2, <2>3, <2>4, <2>6, InstructionIsRecorded
<1>2. CASE HandleBeat
  <2>1. Head(mailbox) \in Message /\ Head(mailbox).type = "Beat"
    BY <1>2, ReceiveType DEF HandleBeat, Receive
  <2>2. Head(mailbox).signal \in Signal \ {"Success"}
    BY <2>1 DEF Message
  <2>3. /\ AttemptToFinish(Head(mailbox).signal, "interrupted", stepCoordinators, finalCoordinators,
                           genesis, db, 0)
        /\ db \in DB /\ flowFinish = "none" /\ ~ Finished
    BY <1>2, <1>listening DEF HandleBeat, InterruptFlow, TypeOK
  <2>4. genesis.loaded => db.workflow \in {"Executing", "Warning"}
    BY <2>3 DEF WarningFits
  <2> QED BY <1>faults, <2>2, <2>3, <2>4, InterruptionIsRecorded
<1>3. CASE HandleStepResult
  <2> DEFINE from == Head(mailbox).from
             s == StepOf(from)
             r == Head(mailbox).result
             regular == stepCoordinators \ {from}
  <2>1. PICK o \in OnStepFinish(s, r, genesis, db) :
          ProcessFlowInstruction(o, regular, finalCoordinators \ {from})
    BY <1>3 DEF HandleStepResult
  <2>2. /\ o \in Outcome /\ \A t \in RescueSteps : o.db.steps[t] = db.steps[t]
        /\ Fails(o, s, r) \/ Restarts(o, s, r) \/ Counts(o, s, r)
    BY <1>3, ResultAnswer DEF HandleStepResult, Lawful
  <2>3. /\ behaviour = "receive" /\ genesis.loaded /\ s \in Steps /\ from \in Unheard
        /\ IsResult(1) /\ Head(mailbox) = mailbox[1] /\ 1 \in 1..Len(mailbox)
    BY <1>3, ResultFits DEF HandleStepResult, IsResult
  <2>4. /\ s \notin genesis.finishedSteps
        /\ (r = "ok" => db.steps[s] = "Succeed") /\ (r = "failed" => db.steps[s] = "Failed")
    BY <2>3 DEF Order, UnheardInOrder, RowsAgree
  <2> HIDE DEF from, r
  <2>5. o.db.workflow \in {"Executing", "Warning"}
    BY <1>listening, <2>2, <2>3, ResultKeepsExecuting
  <2>6. ASSUME o.signal = "none" PROVE AnswerFits(o, regular)
    <3>1. Restarts(o, s, r) \/ Counts(o, s, r)
      BY <2>2, <2>6 DEF Fails
    <3> QED BY <2>3, <2>4, <2>6, <3>1, ResultKeepsWarning
  <2> QED BY <2>1, <2>2, <2>3, <2>5, <2>6, InstructionIsRecorded
<1>4. CASE InterruptedStepResult
  <2>1. PICK o \in OnStepFinish(StepOf(Head(mailbox).from), Head(mailbox).result, genesis, db) :
          AttemptToFinish(finishSignal, "interrupted", stepCoordinators \ {Head(mailbox).from},
                          finalCoordinators \ {Head(mailbox).from}, o.genesis, o.db, o.cost)
    BY <1>4 DEF InterruptedStepResult
  <2>2. /\ o.db \in DB
        /\ \/ Fails(o, StepOf(Head(mailbox).from), Head(mailbox).result)
           \/ Restarts(o, StepOf(Head(mailbox).from), Head(mailbox).result)
           \/ Counts(o, StepOf(Head(mailbox).from), Head(mailbox).result)
    BY <1>4, ResultAnswer DEF InterruptedStepResult, Outcome
  <2>3. finishSignal \in Signal \ {"Success"} /\ ~ Finished /\ flowFinish = "none" /\ genesis.loaded
    BY <1>4, <1>listening, ResultFits DEF InterruptedStepResult, TypeOK, SignalFits
  <2>4. o.db.workflow \in {"Executing", "Warning"}
    BY <2>2, <2>3, ResultKeepsExecuting
  <2> QED BY <1>faults, <2>1, <2>2, <2>3, <2>4, InterruptionIsRecorded
<1>5. ASSUME NEW c \in DOMAIN child, ChildStep(c) PROVE WarningFits'
  <2>1. /\ UNCHANGED <<actorVars, genesis, flowFinish>> /\ c \in Alive
        /\ db'.workflow = db.workflow /\ db'.env = db.env
        /\ \A t \in AllSteps \ {StepOf(c)} : db'.steps[t] = db.steps[t]
    BY <1>5, ChildStepFacts
  <2>2. ~ Finished /\ ~ Finished'
    BY <2>1 DEF Bookkeeping, Awaited, FinishedIsDeaf, Finished
  <2>3. ASSUME behaviour = "receive", genesis.loaded
        PROVE  /\ db'.workflow = "Warning" <=>
                    \E s \in IgnoreFail \cap genesis.finishedSteps : db'.steps[s] = "Failed"
               /\ \A s \in Steps : db'.steps[s] = "Failed" => s \in genesis.finishedSteps \/ AwaitedStep(s)
    <3>1. StepOf(c) \in Steps /\ c \in stepCoordinators /\ c \in Unheard
      BY <2>1, <2>3, RegularChildren DEF SignalFits, Bookkeeping, Awaited, Unheard
    <3>2. StepOf(c) \notin genesis.finishedSteps /\ AwaitedStep(StepOf(c))
      BY <3>1 DEF Order, UnheardInOrder, AwaitedStep
    <3>3. \A t \in genesis.finishedSteps : db'.steps[t] = db.steps[t]
      BY <2>1, <3>2 DEF TypeOK, Genesis
    <3>4. \A t \in Steps : t = StepOf(c) \/ db'.steps[t] = db.steps[t]
      BY <2>1 DEF AllSteps
    <3>5. /\ db.workflow = "Warning" <=>
               \E s \in IgnoreFail \cap genesis.finishedSteps : db.steps[s] = "Failed"
          /\ \A s \in Steps : db.steps[s] = "Failed" => s \in genesis.finishedSteps \/ AwaitedStep(s)
      BY <2>3 DEF WarningFits
    <3> QED BY <2>1, <3>2, <3>3, <3>4, <3>5
  <2>4. OutcomeRecorded'
    BY <2>2 DEF OutcomeRecorded
  <2>5. genesis' = genesis /\ behaviour' = behaviour /\ stepCoordinators' = stepCoordinators
    BY <2>1 DEF actorVars
  <2>6. genesis'.loaded => db'.workflow \in {"Executing", "Warning"}
    BY <2>1, <2>2 DEF WarningFits
  <2>7. \A s : AwaitedStep(s)' <=> AwaitedStep(s)
    BY <2>5 DEF AwaitedStep
  <2> QED BY <2>3, <2>4, <2>5, <2>6, <2>7 DEF WarningFits
<1>6. CASE Bystander
  BY <1>6 DEF Bystander, WarningFits, AwaitedStep, OutcomeRecorded, Finished, FinalEnv
<1> QED BY <1>1, <1>2, <1>3, <1>4, <1>5, <1>6, NextCases

\* A finished flow leaves the outcome in the store: Warning exactly when the failure of a step
\* was ignored, and an instance that is no longer Busy, whatever calls fail but the last one
\* and the writing of rescue steps.
THEOREM OutcomeRecordedCorrect ==
  ASSUME {"rescue", "onFlowFinish"} \cap Faults = {}
  PROVE  Spec => []OutcomeRecorded
<1>1. Init => SignalFits /\ WarningFits
  BY InitSignal, InitWarning
<1>2. TypeOK /\ Bookkeeping /\ Order /\ SignalFits /\ WarningFits /\ [Next]_vars
        => SignalFits' /\ WarningFits'
  BY NextSignal, NextWarning
<1>3. WarningFits => OutcomeRecorded
  BY DEF WarningFits
<1>4. Spec => [](TypeOK /\ Bookkeeping /\ Order)
  BY OrderCorrect
<1> QED BY <1>1, <1>2, <1>3, <1>4, PTL DEF Spec

-----------------------------------------------------------------------------
(* Failure: its cause, and the rescue it leads to. *)

\* A step whose attempts are used up and that nobody will write about again, or a step
\* coordinator that threw.
Cause ==
  \/ \E s \in Steps \ IgnoreFail : /\ db.steps[s] = "Failed"
                                   /\ attempts[s] = RetryCount[s] + 1
                                   /\ \A c \in Unheard : StepOf(c) # s
  \/ \E c \in DOMAIN child : child[c] = "threw"

RescueFits ==
  /\ finishSignal = "Fail" => Cause /\ \A r \in RescueSteps : attempts[r] = 1
  /\ finishSignal # "Fail" => \A r \in RescueSteps : attempts[r] = 0

\* While a step is yet to be heard of, its attempts and the retries left add up exactly.
AttemptsExact ==
  \A c \in Unheard : StepOf(c) \in Steps =>
    attempts[StepOf(c)] + genesis.retryMap[StepOf(c)] = RetryCount[StepOf(c)] + 1

\* No signal from outside is Fail, a throwable comes from a child that threw, and nothing is
\* interrupted before the flow is.
MailFits ==
  \A i \in 1..Len(mailbox) :
    /\ mailbox[i].type = "Beat" => mailbox[i].signal # "Fail"
    /\ IsResult(i) /\ mailbox[i].result = "throwable" => child[mailbox[i].from] = "threw"
    /\ IsResult(i) /\ mailbox[i].result = "interrupt" => behaviour # "receive"

NotInterrupted ==
  behaviour = "receive" => beaten = {} /\ \A c \in DOMAIN child : child[c] # "interrupting"

FailureFits == RescueFits /\ AttemptsExact /\ MailFits /\ NotInterrupted

\* A message was read, and the children that threw are still known.
LEMMA ReadKeepsMail ==
  ASSUME TypeOK, ResultsOfTheDead, MailFits, mailbox # <<>>, mailbox' = Tail(mailbox),
         \A c \in DOMAIN child : child[c] = "threw" => child'[c] = "threw",
         behaviour' = "receive" => behaviour = "receive"
  PROVE  MailFits'
<1>1. /\ \A i \in 1..Len(mailbox') : i + 1 \in 2..Len(mailbox) /\ mailbox'[i] = mailbox[i + 1]
      /\ \A i \in 1..Len(mailbox') : IsResult(i)' <=> IsResult(i + 1)
      /\ Len(mailbox) \in Nat
  BY TailOfMailbox
<1>2. ASSUME NEW i \in 1..Len(mailbox')
      PROVE  /\ mailbox'[i].type = "Beat" => mailbox'[i].signal # "Fail"
             /\ IsResult(i)' /\ mailbox'[i].result = "throwable" => child'[mailbox'[i].from] = "threw"
             /\ IsResult(i)' /\ mailbox'[i].result = "interrupt" => behaviour' # "receive"
  <2>1. PICK j \in 2..Len(mailbox) : mailbox'[i] = mailbox[j] /\ (IsResult(i)' <=> IsResult(j))
    BY <1>1
  <2>2. j \in 1..Len(mailbox)
    BY <1>1
  <2>3. IsResult(j) => mailbox[j].from \in DOMAIN child
    BY <2>2 DEF ResultsOfTheDead, IsResult, Dead
  <2> QED BY <2>1, <2>2, <2>3 DEF MailFits
<1> QED BY <1>2 DEF MailFits

LEMMA AppendKeepsMail ==
  ASSUME TypeOK, ResultsOfTheDead, MailFits, NEW m \in Message, mailbox' = Append(mailbox, m),
         \A c \in DOMAIN child : child[c] = "threw" => child'[c] = "threw",
         behaviour' = "receive" => behaviour = "receive",
         m.type = "Beat" => m.signal # "Fail",
         m.type = "StepResult" =>
           /\ m.result = "throwable" => child'[m.from] = "threw"
           /\ m.result = "interrupt" => behaviour' # "receive"
  PROVE  MailFits'
<1>1. /\ mailbox'[Len(mailbox')] = m
      /\ \A i \in 1..Len(mailbox') : i = Len(mailbox') \/ i \in 1..Len(mailbox)
      /\ \A i \in 1..Len(mailbox) : mailbox'[i] = mailbox[i] /\ (IsResult(i)' <=> IsResult(i))
  BY AppendToMailbox
<1>2. ASSUME NEW i \in 1..Len(mailbox')
      PROVE  /\ mailbox'[i].type = "Beat" => mailbox'[i].signal # "Fail"
             /\ IsResult(i)' /\ mailbox'[i].result = "throwable" => child'[mailbox'[i].from] = "threw"
             /\ IsResult(i)' /\ mailbox'[i].result = "interrupt" => behaviour' # "receive"
  <2>1. CASE i = Len(mailbox')
    BY <1>1, <2>1 DEF IsResult
  <2>2. CASE i \in 1..Len(mailbox)
    <3>1. IsResult(i) => mailbox[i].from \in DOMAIN child
      BY <2>2 DEF ResultsOfTheDead, IsResult, Dead
    <3> QED BY <1>1, <2>2, <3>1 DEF MailFits
  <2> QED BY <1>1, <2>1, <2>2
<1> QED BY <1>2 DEF MailFits

\* Nothing changes but who is yet to be heard of.
LEMMA QuietKeepsFailure ==
  ASSUME FailureFits, MailFits', Unheard' \subseteq Unheard,
         UNCHANGED <<finishSignal, genesis, attempts>>,
         \A c \in DOMAIN child : c \in DOMAIN child' /\ (child[c] = "threw" => child'[c] = "threw"),
         \A s \in Steps : db'.steps[s] = db.steps[s] \/ \E c \in Unheard : StepOf(c) = s,
         NotInterrupted'
  PROVE  FailureFits'
<1>1. Cause => Cause'
  <2>1. CASE \E s \in Steps \ IgnoreFail : /\ db.steps[s] = "Failed"
                                           /\ attempts[s] = RetryCount[s] + 1
                                           /\ \A c \in Unheard : StepOf(c) # s
    BY <2>1 DEF Cause
  <2>2. CASE \E c \in DOMAIN child : child[c] = "threw"
    BY <2>2 DEF Cause
  <2> QED BY <2>1, <2>2 DEF Cause
<1>2. RescueFits'
  BY <1>1 DEF FailureFits, RescueFits
<1>3. AttemptsExact'
  BY DEF FailureFits, AttemptsExact
<1> QED BY <1>2, <1>3 DEF FailureFits

\* A child's own step.
LEMMA ChildStepKeepsFailure ==
  ASSUME TypeOK, Bookkeeping, FailureFits, NEW c \in DOMAIN child, ChildStep(c)
  PROVE  FailureFits'
<1>1. /\ UNCHANGED <<actorVars, genesis, attempts>>
      /\ c \in Alive /\ DOMAIN child' = DOMAIN child /\ Alive' \subseteq Alive
      /\ \A t \in AllSteps \ {StepOf(c)} : db'.steps[t] = db.steps[t]
  BY ChildStepFacts
<1>2. \A d \in DOMAIN child : d # c => child'[d] = child[d]
  BY DEF ChildStep, StepStart, StepInterrupt, StepInterrupted, StepFinish, TypeOK
<1>3. child[c] # "threw"
  BY <1>1 DEF Alive
<1>4. c \in Unheard /\ ResultsOfTheDead
  BY <1>1 DEF Unheard, Bookkeeping
<1>5. \/ UNCHANGED mailbox
      \/ \E r \in Result :
           /\ mailbox' = Append(mailbox, [type |-> "StepResult", from |-> c, result |-> r])
           /\ r = "throwable" => child'[c] = "threw"
           /\ r = "interrupt" => child[c] = "interrupting"
  <2>1. CASE StepStart(c) \/ StepInterrupt(c)
    BY <2>1 DEF StepStart, StepInterrupt
  <2>2. CASE StepInterrupted(c)
    BY <2>2 DEF StepInterrupted, Send, Result
  <2>3. ASSUME NEW r \in {"ok", "failed", "throwable"}, StepFinish(c, r)
        PROVE  /\ mailbox' = Append(mailbox, [type |-> "StepResult", from |-> c, result |-> r])
               /\ r = "throwable" => child'[c] = "threw"
               /\ r \in Result /\ r # "interrupt"
    BY <2>3 DEF StepFinish, Send, Result, TypeOK
  <2> QED BY <2>1, <2>2, <2>3 DEF ChildStep
<1>6. Unheard' \subseteq Unheard /\ MailFits'
  <2>1. CASE UNCHANGED mailbox
    <3>1. Unheard' \subseteq Unheard
      BY <1>1, <2>1 DEF Unheard, IsResult
    <3>2. \A i \in 1..Len(mailbox) : IsResult(i) => mailbox[i].from \in DOMAIN child
      BY <1>4 DEF ResultsOfTheDead, IsResult, Dead
    <3>3. behaviour' = behaviour
      BY <1>1 DEF actorVars
    <3>4. MailFits'
      BY <1>2, <1>3, <2>1, <3>2, <3>3 DEF FailureFits, MailFits, IsResult
    <3> QED BY <3>1, <3>4
  <2>2. CASE \E r \in Result :
               /\ mailbox' = Append(mailbox, [type |-> "StepResult", from |-> c, result |-> r])
               /\ r = "throwable" => child'[c] = "threw"
               /\ r = "interrupt" => child[c] = "interrupting"
    <3>1. PICK r \in Result :
            /\ mailbox' = Append(mailbox, [type |-> "StepResult", from |-> c, result |-> r])
            /\ r = "throwable" => child'[c] = "threw"
            /\ r = "interrupt" => child[c] = "interrupting"
      BY <2>2
    <3> DEFINE m == [type |-> "StepResult", from |-> c, result |-> r]
    <3>2. m \in Message /\ m.type = "StepResult" /\ m.from = c /\ m.result = r
      BY DEF Message, TypeOK
    <3>3. mailbox' = Append(mailbox, m)
      BY <3>1
    <3> HIDE DEF m
    <3>4. /\ mailbox'[Len(mailbox')] = m
          /\ \A i \in 1..Len(mailbox') : i = Len(mailbox') \/ i \in 1..Len(mailbox)
          /\ \A i \in 1..Len(mailbox) : mailbox'[i] = mailbox[i] /\ (IsResult(i)' <=> IsResult(i))
      BY <3>2, <3>3, AppendToMailbox
    <3>5. Unheard' \subseteq Unheard
      BY <1>1, <1>4, <3>2, <3>4 DEF Unheard
    <3>6. r = "interrupt" => behaviour' # "receive"
      BY <1>1, <3>1 DEF FailureFits, NotInterrupted, actorVars
    <3>7. behaviour' = behaviour
      BY <1>1 DEF actorVars
    <3>8. MailFits /\ \A d \in DOMAIN child : child[d] = "threw" => child'[d] = "threw"
      BY <1>2, <1>3 DEF FailureFits
    <3>9. MailFits'
      BY <1>4, <3>1, <3>2, <3>3, <3>6, <3>7, <3>8, AppendKeepsMail
    <3> QED BY <3>5, <3>9
  <2> QED BY <1>5, <2>1, <2>2
<1>7. NotInterrupted'
  <2>1. behaviour = "receive" => beaten' = {} /\ \A d \in DOMAIN child : child'[d] # "interrupting"
    BY DEF FailureFits, NotInterrupted, ChildStep, StepStart, StepInterrupt, StepInterrupted,
           StepFinish, StepVars, TypeOK
  <2> QED BY <1>1, <2>1 DEF NotInterrupted, actorVars
<1>8. \A s \in Steps : db'.steps[s] = db.steps[s] \/ StepOf(c) = s
  BY <1>1 DEF AllSteps
<1> QED BY <1>1, <1>2, <1>3, <1>4, <1>6, <1>7, <1>8, QuietKeepsFailure DEF actorVars

LEMMA BystanderKeepsFailure ==
  ASSUME TypeOK, Bookkeeping, Order, FailureFits, Bystander
  PROVE  FailureFits'
<1>1. /\ UNCHANGED <<finishSignal, genesis, attempts, child, db>> /\ Alive' = Alive
      /\ behaviour' = "receive" => behaviour = "receive"
  BY DEF Bystander, Alive
<1>2. MailFits /\ ResultsOfTheDead /\ OneUnheard
  BY DEF FailureFits, Bookkeeping, Order
<1>3. Unheard' \subseteq Unheard /\ MailFits'
  <2>1. CASE UNCHANGED mailbox
    BY <1>1, <1>2, <2>1 DEF Unheard, IsResult, MailFits
  <2>2. CASE mailbox # <<>> /\ mailbox' = Tail(mailbox)
    <3>1. Alive' \subseteq Alive \cup {}
      BY <1>1
    <3>2. Unheard' \subseteq Unheard
      BY <1>2, <2>2, <3>1, UnheardAfter
    <3> QED BY <1>1, <1>2, <2>2, <3>2, ReadKeepsMail
  <2>3. CASE \E m \in Message : /\ m.type \in {"Beat", "PoisonPill"}
                                /\ m.type = "Beat" => m.signal # "Fail"
                                /\ mailbox' = Append(mailbox, m)
    <3>1. PICK m \in Message : /\ m.type \in {"Beat", "PoisonPill"}
                               /\ m.type = "Beat" => m.signal # "Fail"
                               /\ mailbox' = Append(mailbox, m)
      BY <2>3
    <3>2. /\ mailbox'[Len(mailbox')] = m
          /\ \A i \in 1..Len(mailbox') : i = Len(mailbox') \/ i \in 1..Len(mailbox)
          /\ \A i \in 1..Len(mailbox) : mailbox'[i] = mailbox[i] /\ (IsResult(i)' <=> IsResult(i))
      BY <3>1, AppendToMailbox
    <3>3. \A i \in 1..Len(mailbox') : IsResult(i)' => i \in 1..Len(mailbox)
      BY <3>1, <3>2 DEF IsResult
    <3>4. Unheard' \subseteq Unheard
      BY <1>1, <3>2, <3>3 DEF Unheard
    <3>5. MailFits'
      BY <1>1, <1>2, <3>1, AppendKeepsMail
    <3> QED BY <3>4, <3>5
  <2> QED BY <2>1, <2>2, <2>3 DEF Bystander
<1>4. NotInterrupted'
  BY DEF FailureFits, NotInterrupted, Bystander
<1> QED BY <1>1, <1>3, <1>4, QuietKeepsFailure

\* New coordinators are new: the others keep their states.
LEMMA StartedAreNew ==
  ASSUME TypeOK, AttemptsCounted, NEW steps \in SUBSET AllSteps, StartCoordinators(steps)
  PROVE  /\ \A c \in DOMAIN child : c \in DOMAIN child' /\ child'[c] = child[c]
         /\ \A c \in DOMAIN child' \ DOMAIN child : child'[c] = "started"
         /\ \A s \in AllSteps : attempts'[s] = IF s \in steps THEN attempts[s] + 1 ELSE attempts[s]
         /\ Alive' \subseteq Alive \cup NewCoordinators(steps)
<1>1. ASSUME NEW c \in DOMAIN child PROVE c \notin NewCoordinators(steps)
  <2>1. StepOf(c) \in AllSteps /\ c[2] \in Nat /\ c[2] <= attempts[StepOf(c)]
    BY DEF TypeOK, AttemptsCounted, Coordinator, StepOf
  <2>2. ASSUME NEW s \in steps, c = <<s, attempts[s] + 1>> PROVE FALSE
    <3>1. StepOf(c) = s /\ c[2] = attempts[s] + 1
      BY <2>2 DEF StepOf
    <3>2. PICK n \in Nat : n = attempts[s]
      BY DEF TypeOK
    <3> QED BY <2>1, <3>1, <3>2
  <2> QED BY <2>2 DEF NewCoordinators
<1>2. /\ DOMAIN child' = DOMAIN child \cup NewCoordinators(steps)
      /\ \A c \in DOMAIN child' : child'[c] = IF c \in NewCoordinators(steps) THEN "started" ELSE child[c]
      /\ \A s \in AllSteps : attempts'[s] = IF s \in steps THEN attempts[s] + 1 ELSE attempts[s]
  BY DEF StartCoordinators
<1> QED BY <1>1, <1>2, StartedAreAlive

\* The answer to a call sets the retries of the steps it starts first, spends one of a step
\* it starts again, and leaves the others alone.
ExactAnswer(o, heard) ==
  \A t \in Steps :
    /\ t \in genesis.stepsToStart \cap o.start => o.genesis.retryMap[t] = RetryCount[t]
    /\ t \in heard \cap o.start => o.genesis.retryMap[t] = genesis.retryMap[t] - 1
    /\ t \notin genesis.stepsToStart \cup heard => o.genesis.retryMap[t] = genesis.retryMap[t]

LEMMA CreateIsExact ==
  ASSUME NEW g \in Genesis, g.stepsToStart = genesis.stepsToStart, g.retryMap = genesis.retryMap,
         NEW o, o.genesis = DetectReachable(g), o.start \subseteq Reachable(g),
         NEW heard, heard \cap genesis.stepsToStart = {}
  PROVE  ExactAnswer(o, heard)
<1>1. /\ \A t \in Steps : o.genesis.retryMap[t] = IF t \in Reachable(g) THEN RetryCount[t]
                                                  ELSE genesis.retryMap[t]
      /\ Reachable(g) \subseteq genesis.stepsToStart
  BY DetectReachableFacts
<1> QED BY <1>1 DEF ExactAnswer

LEMMA ResultIsExact ==
  ASSUME NEW o, NEW s, NEW r, s \notin genesis.stepsToStart,
         Fails(o, s, r) \/ Restarts(o, s, r) \/ Counts(o, s, r)
  PROVE  ExactAnswer(o, {s})
<1>1. CASE Fails(o, s, r)
  BY <1>1 DEF Fails, ExactAnswer
<1>2. CASE Restarts(o, s, r)
  BY <1>2 DEF Restarts, ExactAnswer
<1>3. CASE Counts(o, s, r)
  <2>1. PICK g \in Genesis, d \in DB :
          /\ g.stepsToStart = genesis.stepsToStart /\ g.retryMap = genesis.retryMap
          /\ o \in CreateReachableStepCoordinators(g, d)
    BY <1>3 DEF Counts
  <2>2. o.genesis = DetectReachable(g) /\ o.start \subseteq Reachable(g)
    BY <2>1, CreateFacts
  <2> QED BY <2>1, <2>2, CreateIsExact
<1> QED BY <1>1, <1>2, <1>3

\* A handler that read a message, had an answer and started what it says, and rescue steps.
LEMMA HandlerKeepsExact ==
  ASSUME TypeOK, Bookkeeping, Order, AttemptsExact, mailbox # <<>>, mailbox' = Tail(mailbox),
         NEW heard, heard = IF IsResult(1) THEN {StepOf(Head(mailbox).from)} ELSE {},
         NEW o \in Outcome, Lawful(o, heard), ExactAnswer(o, heard), genesis' = o.genesis,
         NEW started \in SUBSET AllSteps, started \cap Steps \subseteq o.start,
         Alive' \subseteq Alive \cup NewCoordinators(started),
         \A s \in AllSteps : attempts'[s] = IF s \in started THEN attempts[s] + 1 ELSE attempts[s]
  PROVE  AttemptsExact'
<1>1. SUFFICES ASSUME NEW c \in Unheard', StepOf(c) \in Steps
               PROVE  attempts'[StepOf(c)] + genesis'.retryMap[StepOf(c)] = RetryCount[StepOf(c)] + 1
  BY DEF AttemptsExact
<1>2. ResultsOfTheDead /\ OneUnheard /\ UnheardInOrder
  BY DEF Bookkeeping, Order
<1>3. \/ c \in NewCoordinators(started)
      \/ c \in Unheard /\ (IsResult(1) => c # Head(mailbox).from)
  BY <1>2, UnheardAfter
<1>4. PICK t \in Steps : t = StepOf(c)
  BY <1>1
<1>5. PICK a \in Nat, x \in Nat, y \in Nat, n \in Nat :
        /\ a = attempts[t] /\ x = genesis.retryMap[t] /\ y = genesis'.retryMap[t] /\ n = RetryCount[t]
  BY FlowAssumption DEF TypeOK, Genesis, Outcome, AllSteps
<1>6. IsResult(1) => Head(mailbox).from \in Unheard
  <2>1. mailbox \in Seq(Message) /\ Head(mailbox) = mailbox[1]
    BY DEF TypeOK
  <2> QED BY <2>1, UnheardOf
<1>7. t \in AllSteps
  BY DEF AllSteps
<1>8. CASE c \in NewCoordinators(started)
  <2>1. t \in started
    BY <1>4, <1>8 DEF NewCoordinators, StepOf
  <2>2. t \in o.start /\ t \in genesis.stepsToStart \cup heard /\ attempts'[t] = a + 1
    BY <1>5, <1>7, <2>1 DEF Lawful
  <2>3. CASE t \in genesis.stepsToStart
    <3>1. a = 0 /\ y = n
      BY <1>5, <2>2, <2>3 DEF Order, AttemptsAddUp, ExactAnswer
    <3> QED BY <1>4, <1>5, <2>2, <3>1
  <2>4. CASE t \in heard
    <3>1. y = x - 1
      BY <1>5, <2>2, <2>4 DEF ExactAnswer
    <3>2. a + x = n + 1
      BY <1>5, <1>6, <2>4 DEF AttemptsExact
    <3>3. attempts'[t] + y = n + 1
      BY <2>2, <3>1, <3>2
    <3> QED BY <1>4, <1>5, <3>3
  <2> QED BY <2>2, <2>3, <2>4
<1>9. CASE c \in Unheard /\ (IsResult(1) => c # Head(mailbox).from)
  <2>1. t \notin heard
    BY <1>2, <1>4, <1>6, <1>9 DEF OneUnheard
  <2>2. t \notin genesis.stepsToStart
    BY <1>2, <1>4, <1>9 DEF UnheardInOrder
  <2>3. t \notin started
    BY <2>1, <2>2 DEF Lawful
  <2>4. y = x /\ attempts'[t] = a
    BY <1>5, <1>7, <2>1, <2>2, <2>3 DEF ExactAnswer
  <2>5. a + x = n + 1
    BY <1>4, <1>5, <1>9 DEF AttemptsExact
  <2> QED BY <1>4, <1>5, <2>4, <2>5
<1> QED BY <1>3, <1>8, <1>9

\* The result that makes a flow fail says why.
FailedFor(s) ==
  \/ s \in Steps \ IgnoreFail /\ db.steps[s] = "Failed" /\ attempts[s] = RetryCount[s] + 1
  \/ \E c \in DOMAIN child : child[c] = "threw"

LEMMA InstructionKeepsFailure ==
  ASSUME {"prepare", "rescue"} \cap Faults = {},
         TypeOK, Bookkeeping, Order, SignalFits, FailureFits, behaviour = "receive",
         mailbox # <<>>, mailbox' = Tail(mailbox),
         NEW heard, heard = IF IsResult(1) THEN {StepOf(Head(mailbox).from)} ELSE {},
         NEW o \in Outcome, Lawful(o, heard), ExactAnswer(o, heard), o.genesis.loaded,
         o.signal = "Fail" => /\ \A t \in Steps : o.db.steps[t] = db.steps[t]
                              /\ \E s \in heard : FailedFor(s),
         NEW regular, NEW final, ProcessFlowInstruction(o, regular, final)
  PROVE  FailureFits'
<1>1. /\ finishSignal = "Success" /\ ~ RescuePersisted(o.db) /\ o.db \in DB
      /\ o.start \subseteq Steps /\ o.start \in SUBSET AllSteps
      /\ Steps \cap RescueSteps = {} /\ RescueSteps \in SUBSET AllSteps
  BY FlowAssumption DEF SignalFits, RescuePersisted, Lawful, Outcome, AllSteps
<1>2. /\ RescueFits /\ AttemptsExact /\ MailFits /\ NotInterrupted
      /\ AttemptsCounted /\ ResultsOfTheDead /\ OneUnheard
  BY DEF FailureFits, Bookkeeping, Order
<1>3. \A r \in RescueSteps : attempts[r] = 0
  BY <1>1, <1>2 DEF RescueFits
<1>4. CASE Continued(o, regular, final)
  <2>1. /\ StartCoordinators(o.start) /\ beaten' = beaten
        /\ AttemptToFinish(finishSignal, "receive", regular \cup NewCoordinators(o.start), final,
                           o.genesis, o.db, o.cost)
    BY <1>4 DEF Continued
  <2>2. finishSignal' = "Success" /\ genesis' = o.genesis
    BY <1>1, <2>1, AttemptToFinishCases
  <2>3. /\ \A c \in DOMAIN child : c \in DOMAIN child' /\ child'[c] = child[c]
        /\ \A c \in DOMAIN child' \ DOMAIN child : child'[c] = "started"
        /\ \A s \in AllSteps : attempts'[s] = IF s \in o.start THEN attempts[s] + 1 ELSE attempts[s]
        /\ Alive' \subseteq Alive \cup NewCoordinators(o.start)
    BY <1>1, <1>2, <2>1, StartedAreNew
  <2>4. AttemptsExact'
    BY <1>1, <1>2, <2>2, <2>3, HandlerKeepsExact
  <2>5. MailFits'
    BY <1>2, <2>3, ReadKeepsMail
  <2>6. RescueFits'
    <3>1. \A r \in RescueSteps : attempts'[r] = attempts[r]
      BY <1>1, <2>3
    <3> QED BY <1>3, <2>2, <3>1 DEF RescueFits
  <2>7. NotInterrupted'
    <3>1. beaten = {} /\ \A c \in DOMAIN child : child[c] # "interrupting"
      BY <1>2 DEF NotInterrupted
    <3> QED BY <2>1, <2>3, <3>1 DEF NotInterrupted
  <2> QED BY <2>4, <2>5, <2>6, <2>7 DEF FailureFits
<1>5. CASE Interrupted(o, regular, final)
  <2>1. PICK d \in DB, cost \in Nat :
          /\ StartCoordinators(RescueSteps)
          /\ AttemptToFinish("Fail", "interrupted", regular, final \cup NewCoordinators(RescueSteps),
                             o.genesis, d, cost)
          /\ \A t \in Steps : d.steps[t] = o.db.steps[t]
    BY <1>5 DEF Interrupted, InterruptFlow
  <2>2. finishSignal' = "Fail" /\ genesis' = o.genesis /\ db'.steps = d.steps
    BY <2>1, AttemptToFinishCases
  <2>3. behaviour' # "receive"
    BY <2>1, InterruptLeavesReceive
  <2>4. /\ \A c \in DOMAIN child : c \in DOMAIN child' /\ child'[c] = child[c]
        /\ \A s \in AllSteps : attempts'[s] = IF s \in RescueSteps THEN attempts[s] + 1 ELSE attempts[s]
        /\ Alive' \subseteq Alive \cup NewCoordinators(RescueSteps)
    BY <1>1, <1>2, <2>1, StartedAreNew
  <2>5. AttemptsExact'
    <3>1. RescueSteps \cap Steps \subseteq o.start
      BY <1>1
    <3> QED BY <1>1, <1>2, <2>2, <2>4, <3>1, HandlerKeepsExact
  <2>6. MailFits'
    BY <1>2, <2>3, <2>4, ReadKeepsMail
  <2>7. \A r \in RescueSteps : attempts'[r] = 1
    BY <1>1, <1>3, <2>4
  <2>8. Cause'
    <3>1. PICK s \in heard : FailedFor(s)
      BY <1>5 DEF Interrupted
    <3>2. CASE \E c \in DOMAIN child : child[c] = "threw"
      BY <2>4, <3>2 DEF Cause
    <3>3. CASE s \in Steps \ IgnoreFail /\ db.steps[s] = "Failed" /\ attempts[s] = RetryCount[s] + 1
      <4>1. db'.steps[s] = "Failed"
        BY <1>5, <2>1, <2>2, <3>3 DEF Interrupted
      <4>2. attempts'[s] = RetryCount[s] + 1
        BY <1>1, <2>4, <3>3 DEF AllSteps
      <4>3. IsResult(1) /\ s = StepOf(Head(mailbox).from)
        BY <3>1
      <4>4. Head(mailbox).from \in Unheard
        <5>1. mailbox \in Seq(Message) /\ Head(mailbox) = mailbox[1]
          BY DEF TypeOK
        <5> QED BY <4>3, <5>1, UnheardOf
      <4>5. ASSUME NEW c \in Unheard' PROVE StepOf(c) # s
        <5>1. \/ c \in NewCoordinators(RescueSteps)
              \/ c \in Unheard /\ c # Head(mailbox).from
          BY <1>2, <2>4, <4>3, UnheardAfter
        <5>2. c \in NewCoordinators(RescueSteps) => StepOf(c) \in RescueSteps
          BY DEF NewCoordinators, StepOf
        <5> QED BY <1>1, <1>2, <3>3, <4>3, <4>4, <5>1, <5>2 DEF OneUnheard
      <4> QED BY <3>3, <4>1, <4>2, <4>5 DEF Cause
    <3> QED BY <3>1, <3>2, <3>3 DEF FailedFor
  <2>9. NotInterrupted'
    BY <2>3 DEF NotInterrupted
  <2>10. RescueFits'
    BY <2>2, <2>7, <2>8 DEF RescueFits
  <2> QED BY <2>5, <2>6, <2>9, <2>10 DEF FailureFits
<1> QED BY <1>1, <1>4, <1>5, InstructionCases

LEMMA InitFailure == Init => FailureFits
<1> SUFFICES ASSUME Init PROVE FailureFits
  OBVIOUS
<1>1. Alive = {} /\ \A i : ~ IsResult(i)
  BY DEF Init, Alive, IsResult
<1>2. Unheard = {}
  BY <1>1 DEF Unheard
<1>3. AttemptsExact
  BY <1>2 DEF AttemptsExact
<1>4. MailFits
  BY <1>1 DEF Init, MailFits
<1>5. RescueFits
  BY DEF Init, RescueFits, AllSteps
<1>6. NotInterrupted
  BY DEF Init, NotInterrupted
<1> QED BY <1>3, <1>4, <1>5, <1>6 DEF FailureFits

LEMMA NextFailure ==
  ASSUME {"onFlowStart", "prepare", "onStepFinish", "rescue"} \cap Faults = {},
         TypeOK, Bookkeeping, Order, SignalFits, FailureFits, [Next]_vars
  PROVE  FailureFits'
<1>0. /\ RescueFits /\ AttemptsExact /\ MailFits /\ NotInterrupted
      /\ AttemptsCounted /\ ResultsOfTheDead /\ OneUnheard /\ UnheardInOrder
  BY DEF FailureFits, Bookkeeping, Order
<1>1. CASE HandleStart
  <2>1. PICK o \in OnFlowStart(genesis, db) :
          ProcessFlowInstruction(o, stepCoordinators, finalCoordinators)
    BY <1>1 DEF HandleStart
  <2>2. o \in Outcome /\ Lawful(o, {})
    BY <1>1, StartAnswer DEF HandleStart
  <2>3. /\ o.genesis.loaded /\ o.signal = "none"
        /\ \E g \in Genesis : /\ g.stepsToStart = genesis.stepsToStart /\ g.retryMap = genesis.retryMap
                              /\ o.genesis = DetectReachable(g) /\ o.start = Reachable(g)
    BY OnFlowStartAnswer
  <2>4. ExactAnswer(o, {})
    BY <2>3, CreateIsExact
  <2>5. behaviour = "receive" /\ mailbox # <<>> /\ mailbox' = Tail(mailbox) /\ ~ IsResult(1)
    <3>1. behaviour = "receive" /\ mailbox # <<>> /\ mailbox' = Tail(mailbox) /\ Head(mailbox).type = "Start"
      BY <1>1 DEF HandleStart, Receive
    <3>2. mailbox \in Seq(Message) /\ Head(mailbox) = mailbox[1]
      BY DEF TypeOK
    <3> QED BY <3>1, <3>2 DEF IsResult
  <2> QED BY <2>1, <2>2, <2>3, <2>4, <2>5, InstructionKeepsFailure
<1>2. CASE HandleBeat
  <2>1. /\ AttemptToFinish(Head(mailbox).signal, "interrupted", stepCoordinators, finalCoordinators,
                           genesis, db, 0)
        /\ UNCHANGED <<child, attempts>> /\ mailbox # <<>> /\ mailbox' = Tail(mailbox) /\ db \in DB
        /\ Head(mailbox).type = "Beat" /\ behaviour = "receive"
    BY <1>2 DEF HandleBeat, InterruptFlow, Receive, TypeOK
  <2>2. finishSignal' = Head(mailbox).signal /\ genesis' = genesis
    BY <2>1, AttemptToFinishCases
  <2>3. behaviour' # "receive"
    BY <2>1, InterruptLeavesReceive
  <2>4. Head(mailbox).signal # "Fail"
    <3>1. Head(mailbox) = mailbox[1] /\ 1 \in 1..Len(mailbox)
      <4>1. mailbox \in Seq(Message) /\ mailbox # <<>>
        BY <2>1 DEF TypeOK
      <4> QED BY <4>1
    <3> QED BY <1>0, <2>1, <3>1 DEF MailFits
  <2>5. RescueFits'
    BY <1>0, <2>1, <2>2, <2>4 DEF RescueFits, SignalFits
  <2>6. Alive' \subseteq Alive \cup {}
    BY <2>1 DEF Alive
  <2>7. Unheard' \subseteq Unheard
    BY <1>0, <2>1, <2>6, UnheardAfter
  <2>8. AttemptsExact'
    BY <1>0, <2>1, <2>2, <2>7 DEF AttemptsExact
  <2>9. MailFits'
    BY <1>0, <2>1, <2>3, ReadKeepsMail
  <2>10. NotInterrupted'
    BY <2>3 DEF NotInterrupted
  <2> QED BY <2>5, <2>8, <2>9, <2>10 DEF FailureFits
<1>3. CASE HandleStepResult
  <2> DEFINE from == Head(mailbox).from
             s == StepOf(from)
             r == Head(mailbox).result
  <2>1. PICK o \in OnStepFinish(s, r, genesis, db) :
          ProcessFlowInstruction(o, stepCoordinators \ {from}, finalCoordinators \ {from})
    BY <1>3 DEF HandleStepResult
  <2>2. /\ o \in Outcome /\ Lawful(o, {s}) /\ o.genesis.loaded
        /\ Fails(o, s, r) \/ Restarts(o, s, r) \/ Counts(o, s, r)
    BY <1>3, ResultAnswer DEF HandleStepResult
  <2>3. /\ behaviour = "receive" /\ s \in Steps /\ from \in Unheard /\ from \in DOMAIN child
        /\ IsResult(1) /\ Head(mailbox) = mailbox[1] /\ 1 \in 1..Len(mailbox)
    BY <1>3, ResultFits DEF HandleStepResult, IsResult
  <2>4. mailbox # <<>> /\ mailbox' = Tail(mailbox) /\ {s} = IF IsResult(1) THEN {StepOf(Head(mailbox).from)} ELSE {}
    BY <1>3, <2>3 DEF HandleStepResult, Receive
  <2>5. s \notin genesis.stepsToStart
    BY <1>0, <2>3 DEF UnheardInOrder
  <2>6. /\ r = "throwable" => child[from] = "threw"
        /\ r # "interrupt"
        /\ r = "failed" => db.steps[s] = "Failed"
        /\ attempts[s] + genesis.retryMap[s] = RetryCount[s] + 1
    BY <1>0, <2>3 DEF MailFits, AttemptsExact, Order, RowsAgree
  <2>7. /\ attempts[s] \in Nat /\ genesis.retryMap[s] \in Nat /\ RetryCount[s] \in Nat
    BY <2>3, FlowAssumption DEF TypeOK, Genesis, AllSteps
  <2> HIDE DEF from, s, r
  <2>8. ExactAnswer(o, {s})
    BY <2>2, <2>5, ResultIsExact
  <2>9. ASSUME o.signal = "Fail"
        PROVE  /\ \A t \in Steps : o.db.steps[t] = db.steps[t]
               /\ FailedFor(s)
    <3>1. Fails(o, s, r)
      BY <2>2, <2>9, CreateAnswer DEF Restarts, Counts
    <3>2. o.db = db
      BY <3>1 DEF Fails
    <3>3. r = "throwable" \/ (r = "failed" /\ s \notin IgnoreFail /\ ~ genesis.retryMap[s] > 0)
      BY <2>3, <2>6, <3>1 DEF Fails
    <3>4. CASE r = "throwable"
      BY <2>3, <2>6, <3>2, <3>4 DEF FailedFor
    <3>5. CASE r = "failed" /\ s \notin IgnoreFail /\ ~ genesis.retryMap[s] > 0
      <4>1. attempts[s] = RetryCount[s] + 1
        BY <2>6, <2>7, <3>5
      <4> QED BY <2>3, <2>6, <3>2, <3>5, <4>1 DEF FailedFor
    <3> QED BY <3>3, <3>4, <3>5
  <2>10. {"prepare", "rescue"} \cap Faults = {}
    OBVIOUS
  <2> QED BY <2>1, <2>2, <2>3, <2>4, <2>8, <2>9, <2>10, InstructionKeepsFailure
<1>4. CASE InterruptedStepResult
  <2> DEFINE from == Head(mailbox).from
             s == StepOf(from)
             r == Head(mailbox).result
  <2>1. PICK o \in OnStepFinish(s, r, genesis, db) :
          AttemptToFinish(finishSignal, "interrupted", stepCoordinators \ {from},
                          finalCoordinators \ {from}, o.genesis, o.db, o.cost)
    BY <1>4 DEF InterruptedStepResult
  <2>2. /\ o \in Outcome /\ Lawful(o, {s})
        /\ Fails(o, s, r) \/ Restarts(o, s, r) \/ Counts(o, s, r)
    BY <1>4, ResultAnswer DEF InterruptedStepResult
  <2>3. /\ mailbox # <<>> /\ mailbox' = Tail(mailbox) /\ UNCHANGED <<child, attempts, beaten>>
        /\ from \in Unheard /\ s \in AllSteps /\ {s} = IF IsResult(1) THEN {StepOf(Head(mailbox).from)} ELSE {}
        /\ (IsResult(1) => from = Head(mailbox).from) /\ IsResult(1)
    BY <1>4, ResultFits DEF InterruptedStepResult, Receive, childVars
  <2>4. s \notin genesis.stepsToStart
    BY <1>0, <2>3 DEF UnheardInOrder, TypeOK, Genesis
  <2>5. Alive' \subseteq Alive \cup NewCoordinators({})
    BY <2>3 DEF Alive
  <2>6. \A c \in Unheard' : c \in Unheard /\ c # from
    <3>1. NewCoordinators({}) = {}
      BY DEF NewCoordinators
    <3> QED BY <1>0, <2>3, <2>5, <3>1, UnheardAfter
  <2> HIDE DEF from, s, r
  <2>7. /\ finishSignal' = finishSignal /\ genesis' = o.genesis /\ db'.steps = o.db.steps
        /\ behaviour' # "receive"
    BY <2>1, <2>2, AttemptToFinishCases DEF Outcome
  <2>8. AttemptsExact'
    <3>1. ExactAnswer(o, {s})
      BY <2>2, <2>4, ResultIsExact
    <3>2. /\ {} \in SUBSET AllSteps /\ {} \cap Steps \subseteq o.start
          /\ \A t \in AllSteps : attempts'[t] = IF t \in {} THEN attempts[t] + 1 ELSE attempts[t]
      BY <2>3
    <3> QED BY <1>0, <2>2, <2>3, <2>5, <2>7, <3>1, <3>2, HandlerKeepsExact
  <2>9. MailFits'
    BY <1>0, <2>3, <2>7, ReadKeepsMail
  <2>10. \A t \in Steps \ {s} : o.db.steps[t] = db.steps[t]
    <3>1. CASE Fails(o, s, r)
      BY <3>1 DEF Fails
    <3>2. CASE Restarts(o, s, r)
      BY <3>2 DEF Restarts, AllSteps
    <3>3. CASE Counts(o, s, r)
      <4>1. PICK g \in Genesis, d \in DB :
              d.steps = db.steps /\ o \in CreateReachableStepCoordinators(g, d)
        BY <3>3 DEF Counts
      <4>2. o.db = d
        BY <4>1, CreateAnswer
      <4> QED BY <4>1, <4>2
    <3> QED BY <2>2, <3>1, <3>2, <3>3
  <2>11. Cause => Cause'
    <3>1. CASE \E c \in DOMAIN child : child[c] = "threw"
      BY <2>3, <3>1 DEF Cause
    <3>2. ASSUME NEW t \in Steps \ IgnoreFail, db.steps[t] = "Failed",
                 attempts[t] = RetryCount[t] + 1, \A c \in Unheard : StepOf(c) # t
          PROVE  Cause'
      <4>1. t # s
        BY <2>3, <3>2 DEF s
      <4>2. db'.steps[t] = "Failed" /\ attempts'[t] = RetryCount[t] + 1
        BY <2>3, <2>7, <2>10, <3>2, <4>1
      <4> QED BY <2>6, <3>2, <4>2 DEF Cause
    <3> QED BY <3>1, <3>2 DEF Cause
  <2>12. RescueFits'
    BY <1>0, <2>3, <2>7, <2>11 DEF RescueFits
  <2>13. NotInterrupted'
    BY <2>7 DEF NotInterrupted
  <2> QED BY <2>8, <2>9, <2>12, <2>13 DEF FailureFits
<1>5. ASSUME NEW c \in DOMAIN child, ChildStep(c) PROVE FailureFits'
  BY <1>5, ChildStepKeepsFailure
<1>6. CASE Bystander
  BY <1>6, BystanderKeepsFailure
<1> QED BY <1>1, <1>2, <1>3, <1>4, <1>5, <1>6, NextCases

\* A flow only fails for a step whose attempts are used up or a coordinator that threw, and
\* its rescue steps, started for nothing else, have each run once by then; whatever steps,
\* retries and signals there are, as long as the calls it names do not fail themselves.
THEOREM RescueOnFailureCorrect ==
  ASSUME {"onFlowStart", "prepare", "onStepFinish", "rescue"} \cap Faults = {}
  PROVE  Spec => []RescueOnFailure
<1>1. Init => SignalFits /\ FailureFits
  BY InitSignal, InitFailure
<1>2. TypeOK /\ Bookkeeping /\ Order /\ SignalFits /\ FailureFits /\ [Next]_vars
        => SignalFits' /\ FailureFits'
  BY NextSignal, NextFailure
<1>3. SignalFits /\ FailureFits => RescueOnFailure
  <2> SUFFICES ASSUME SignalFits, FailureFits PROVE RescueOnFailure
    OBVIOUS
  <2>1. flowFinish = "Fail" => finishSignal = "Fail"
    BY DEF SignalFits, Finished
  <2>2. (\E r \in RescueSteps : attempts[r] > 0) => finishSignal = "Fail"
    BY DEF FailureFits, RescueFits
  <2> QED BY <2>1, <2>2 DEF FailureFits, RescueFits, Cause, RescueOnFailure
<1>4. Spec => [](TypeOK /\ Bookkeeping /\ Order)
  BY OrderCorrect
<1> QED BY <1>1, <1>2, <1>3, <1>4, PTL DEF Spec

-----------------------------------------------------------------------------
(* The contract: FlowCoordinator implements FlowContract, whatever fails. *)

\* Before the end the workflow is loaded from the moment its row says so, and the instance
\* is Busy.
GoesOn(g, d) ==
  /\ d.env = "Busy"
  /\ d.workflow \in {"Requested", "Executing", "Warning"}
  /\ g.loaded <=> d.workflow # "Requested"

ContractFits ==
  /\ behaviour = "receive" => finishSignal = "Success"
  /\ ~ genesis.loaded => DOMAIN child = {}
  /\ ~ Finished => GoesOn(genesis, db)
  /\ \A i \in 1..Len(mailbox) : mailbox[i].type = "Start" => ~ genesis.loaded

\* What a handler does to the variables of ContractFits, but for the mailbox.
KeepsContract(g) ==
  /\ Contract!Next
  /\ genesis' = g
  /\ behaviour' = "receive" => finishSignal' = "Success"
  /\ ~ Finished' => GoesOn(genesis', db')

LEMMA AttemptKeepsContract ==
  ASSUME TypeOK, ~ Finished, db.env = "Busy",
         NEW signal \in Contract!Reportable,
         NEW next \in {"receive", "interrupted"}, next = "receive" => signal = "Success",
         NEW regular, NEW final, NEW g, NEW d \in DB, NEW cost,
         GoesOn(g, d), d.workflow \in Contract!Forward,
         AttemptToFinish(signal, next, regular, final, g, d, cost)
  PROVE  KeepsContract(g)
<1>1. finishSignal' = signal /\ genesis' = g
  BY DEF AttemptToFinish
<1>2. CASE regular \cup final # {}
  <2>1. db' = d /\ behaviour' = next /\ flowFinish' = flowFinish
    BY <1>2 DEF AttemptToFinish
  <2>2. Contract!Proceed
    BY <1>1, <2>1 DEF Contract!Proceed, Finished, GoesOn
  <2> QED BY <1>1, <2>1, <2>2 DEF KeepsContract, Contract!Next
<1>3. CASE regular \cup final = {}
  <2> DEFINE e == [d EXCEPT !.workflow = FinalStatus(signal, d), !.env = FinalEnv(signal)]
  <2>1. PICK out \in OnFlowFinish(signal, g, d) : db' = out.db
    BY <1>3 DEF AttemptToFinish
  <2>2. flowFinish' = signal /\ behaviour' = "ignoreBeat"
    BY <1>3 DEF AttemptToFinish
  <2>3. Finished'
    BY <2>2 DEF Finished, Contract!Reportable, Contract!Signal, TypeOK, Signal
  <2>4. e.workflow = FinalStatus(signal, d) /\ e.env = FinalEnv(signal)
    BY DEF DB
  <2> HIDE DEF e
  <2>5. \/ out.db = e /\ g.loaded
        \/ out.db = d /\ (~ g.loaded \/ "onFlowFinish" \in Faults)
    BY <2>1 DEF OnFlowFinish, e
  <2>6. CASE db' = e /\ g.loaded
    <3>1. d.workflow \in Contract!Forward \ {"Requested"}
      BY <2>6 DEF GoesOn
    <3>2. /\ FinalStatus(signal, d) = Contract!FinalStatus(signal, d.workflow)
          /\ FinalEnv(signal) = Contract!FinalEnv(signal)
      BY DEF FinalStatus, FinalEnv, Contract!FinalStatus, Contract!FinalEnv
    <3>3. Contract!Record
      BY <2>3, <2>4, <2>6, <3>1, <3>2 DEF Contract!Record
    <3> QED BY <1>1, <2>2, <2>3, <3>3 DEF KeepsContract, Contract!Next
  <2>7. CASE db' = d /\ (~ g.loaded \/ "onFlowFinish" \in Faults)
    <3>1. Contract!Lose
      BY <2>3, <2>7 DEF Contract!Lose, GoesOn
    <3> QED BY <1>1, <2>2, <2>3, <3>1 DEF KeepsContract, Contract!Next
  <2> QED BY <2>1, <2>5, <2>6, <2>7
<1> QED BY <1>2, <1>3

\* An instruction is followed while receiving.
LEMMA InstructionKeepsContract ==
  ASSUME TypeOK, ContractFits, behaviour = "receive", ~ Finished,
         NEW o \in Outcome, GoesOn(o.genesis, o.db), o.db.workflow \in Contract!Forward,
         o.genesis.loaded \/ (o.signal = "Fail" /\ DOMAIN child = {}),
         NEW regular, NEW final, ProcessFlowInstruction(o, regular, final)
  PROVE  KeepsContract(o.genesis) /\ (~ o.genesis.loaded => DOMAIN child' = {})
<1>1. finishSignal = "Success" /\ db.env = "Busy" /\ o.db \in DB
  BY DEF ContractFits, GoesOn, Outcome
<1>2. finishSignal \in Contract!Reportable /\ "Fail" \in Contract!Reportable
  BY <1>1 DEF Contract!Reportable, Contract!Signal
<1>3. CASE o.signal = "none"
  <2>1. AttemptToFinish(finishSignal, "receive", regular \cup NewCoordinators(o.start), final,
                        o.genesis, o.db, o.cost)
    BY <1>3 DEF ProcessFlowInstruction
  <2>2. KeepsContract(o.genesis)
    BY <1>1, <1>2, <2>1, AttemptKeepsContract
  <2> QED BY <1>3, <2>2
<1>4. ASSUME NEW f, NEW d \in DB, NEW cost, d.workflow = o.db.workflow, d.env = o.db.env,
             InterruptFlow("Fail", regular, f, o.genesis, d, cost)
      PROVE  KeepsContract(o.genesis)
  <2>1. AttemptToFinish("Fail", "interrupted", regular, f, o.genesis, d, cost)
    BY <1>4 DEF InterruptFlow
  <2>2. GoesOn(o.genesis, d)
    BY <1>4 DEF GoesOn
  <2> QED BY <1>1, <1>2, <1>4, <2>1, <2>2, AttemptKeepsContract
<1>5. CASE o.signal = "Fail" /\ RescueSteps = {}
  <2>1. /\ InterruptFlow("Fail", regular, final, o.genesis, o.db, o.cost)
        /\ UNCHANGED <<child, attempts>>
    BY <1>5 DEF ProcessFlowInstruction
  <2> QED BY <1>1, <1>4, <2>1
<1>6. ASSUME NEW d \in DB, NEW cost, d.workflow = o.db.workflow, d.env = o.db.env,
             RestartActor(o.genesis, d, cost)
      PROVE  KeepsContract(o.genesis) /\ DOMAIN child' = DOMAIN child
  <2>1. /\ finishSignal' = "Success" /\ genesis' = o.genesis /\ db' = d /\ flowFinish' = flowFinish
        /\ DOMAIN child' = DOMAIN child
    BY <1>6 DEF RestartActor
  <2>2. GoesOn(o.genesis, d)
    BY <1>6 DEF GoesOn
  <2>3. Contract!Proceed
    BY <1>1, <1>2, <1>6, <2>1, <2>2 DEF Contract!Proceed, Finished, GoesOn
  <2> QED BY <2>1, <2>2, <2>3 DEF KeepsContract, Contract!Next
<1>7. CASE o.signal = "Fail" /\ RescueSteps # {}
  <2>1. ASSUME NEW p
        PROVE  /\ PersistSteps(o.db, p) \in DB
               /\ PersistSteps(o.db, p).workflow = o.db.workflow
               /\ PersistSteps(o.db, p).env = o.db.env
    <3>1. PersistSteps(o.db, p) \in DB
      BY <1>1, PersistStepsType
    <3>2. PersistSteps(o.db, p).workflow = o.db.workflow /\ PersistSteps(o.db, p).env = o.db.env
      BY <1>1 DEF PersistSteps, DB
    <3> QED BY <3>1, <3>2
  <2>2. CASE /\ o.genesis.loaded /\ ~ RescuePersisted(o.db)
             /\ InterruptFlow("Fail", regular, final \cup NewCoordinators(RescueSteps),
                              o.genesis, PersistSteps(o.db, RescueSteps), o.cost)
    BY <1>4, <2>1, <2>2
  <2>3. CASE /\ o.genesis.loaded /\ ~ RescuePersisted(o.db)
             /\ InterruptFlow("Fail", regular, final, o.genesis,
                  [o.db EXCEPT !.steps = [s \in AllSteps |-> IF s \in RescueSteps THEN "Canceled" ELSE @[s]]],
                  o.cost + 1)
    <3> DEFINE d == [o.db EXCEPT !.steps = [s \in AllSteps |-> IF s \in RescueSteps THEN "Canceled" ELSE @[s]]]
    <3>1. d \in DB /\ d.workflow = o.db.workflow /\ d.env = o.db.env
      BY <1>1 DEF DB, StepStatus
    <3>2. InterruptFlow("Fail", regular, final, o.genesis, d, o.cost + 1)
      BY <2>3
    <3> HIDE DEF d
    <3> QED BY <1>4, <2>3, <3>1, <3>2
  <2>4. CASE \E p \in SUBSET RescueSteps : RestartActor(o.genesis, PersistSteps(o.db, p), o.cost + 1)
    BY <1>6, <2>1, <2>4
  <2>5. CASE RestartActor(o.genesis, o.db, o.cost)
    BY <1>1, <1>6, <2>5
  <2>6. RescueFlow(o, regular, final)
    BY <1>7 DEF ProcessFlowInstruction
  <2> QED BY <2>2, <2>3, <2>4, <2>5, <2>6 DEF RescueFlow
<1> QED BY <1>3, <1>5, <1>7 DEF Outcome

\* The answers of the calls go on.
LEMMA StartGoesOn ==
  ASSUME TypeOK, GoesOn(genesis, db), ~ genesis.loaded, NEW o \in OnFlowStart(genesis, db)
  PROVE  /\ GoesOn(o.genesis, o.db) /\ o.db.workflow \in Contract!Forward
         /\ o.genesis.loaded \/ o.signal = "Fail"
<1>1. \/ o.signal = "Fail" /\ o.genesis = genesis /\ o.db = db
      \/ o.genesis.loaded /\ o.db.workflow = "Executing" /\ o.db.env = "Busy"
  BY OnFlowStartAnswer
<1> QED BY <1>1 DEF GoesOn, Contract!Forward

LEMMA ResultGoesOn ==
  ASSUME TypeOK, GoesOn(genesis, db), genesis.loaded, NEW s \in AllSteps, NEW r \in Result,
         NEW o \in OnStepFinish(s, r, genesis, db)
  PROVE  /\ o \in Outcome /\ o.genesis.loaded
         /\ GoesOn(o.genesis, o.db) /\ o.db.workflow \in Contract!Forward
<1>1. /\ o.genesis.loaded /\ o.db.env = db.env
      /\ o.db.workflow \in {db.workflow, "Warning"}
  <2>1. CASE Fails(o, s, r)
    BY <2>1 DEF Fails
  <2>2. CASE Restarts(o, s, r)
    BY <2>2 DEF Restarts
  <2>3. CASE Counts(o, s, r)
    <3>1. PICK g \in Genesis, d \in DB :
            /\ g.loaded = genesis.loaded /\ d.env = db.env
            /\ d.workflow = IF r = "failed" THEN "Warning" ELSE db.workflow
            /\ o \in CreateReachableStepCoordinators(g, d)
      BY <2>3 DEF Counts
    <3> QED BY <3>1, CreateAnswer
  <2> QED BY <2>1, <2>2, <2>3, OnStepFinishAnswer
<1>2. o \in Outcome
  BY OnStepFinishType DEF TypeOK
<1> QED BY <1>1, <1>2 DEF GoesOn, Contract!Forward

LEMMA InitContract == Init => Contract!Init /\ ContractFits
BY DEF Init, Contract!Init, ContractFits, Finished, GoesOn

\* A message was read, and Start only if the workflow is loaded now.
LEMMA ReadKeepsStart ==
  ASSUME TypeOK, Order, ContractFits, mailbox # <<>>, mailbox' = Tail(mailbox),
         genesis'.loaded => genesis.loaded \/ Head(mailbox).type = "Start"
  PROVE  \A i \in 1..Len(mailbox') : mailbox'[i].type = "Start" => ~ genesis'.loaded
<1>1. /\ Len(mailbox) \in Nat \ {0} /\ Head(mailbox) = mailbox[1]
      /\ \A i \in 1..Len(mailbox') : i + 1 \in 2..Len(mailbox) /\ mailbox'[i] = mailbox[i + 1]
  BY TailOfMailbox
<1>2. ASSUME NEW i \in 1..Len(mailbox'), mailbox'[i].type = "Start" PROVE ~ genesis'.loaded
  <2>1. PICK j \in 2..Len(mailbox) : mailbox[j].type = "Start"
    BY <1>1, <1>2
  <2>2. j \in 1..Len(mailbox) /\ 1 \in 1..Len(mailbox) /\ j # 1
    BY <1>1
  <2>3. ~ genesis.loaded
    BY <2>1, <2>2 DEF ContractFits
  <2>4. Head(mailbox).type # "Start"
    BY <1>1, <2>1, <2>2 DEF Order, StartIsFirst
  <2> QED BY <2>3, <2>4
<1> QED BY <1>2

LEMMA NextContract ==
  ASSUME TypeOK, Bookkeeping, Order, ContractFits, [Next]_vars
  PROVE  [Contract!Next]_(Contract!vars) /\ ContractFits'
<1>listening. behaviour \in {"receive", "interrupted"} => ~ Finished /\ GoesOn(genesis, db)
  BY DEF Bookkeeping, FinishedIsDeaf, ContractFits
\* A handler that keeps the contract keeps its invariant.
<1>handler. ASSUME NEW g, KeepsContract(g), NEW type, Receive(type),
                   g.loaded => genesis.loaded \/ type = "Start",
                   ~ g.loaded => DOMAIN child' = {}
            PROVE  Contract!Next /\ ContractFits'
  <2>1. \A i \in 1..Len(mailbox') : mailbox'[i].type = "Start" => ~ genesis'.loaded
    BY <1>handler, ReadKeepsStart DEF Receive, KeepsContract
  <2> QED BY <1>handler, <2>1 DEF KeepsContract, ContractFits
<1>result. Receive("StepResult") =>
             /\ StepOf(Head(mailbox).from) \in AllSteps /\ Head(mailbox).result \in Result
             /\ genesis.loaded
  <2> SUFFICES ASSUME Receive("StepResult")
               PROVE  /\ StepOf(Head(mailbox).from) \in AllSteps /\ Head(mailbox).result \in Result
                      /\ genesis.loaded
    OBVIOUS
  <2>1. /\ StepOf(Head(mailbox).from) \in AllSteps /\ Head(mailbox).result \in Result
        /\ Head(mailbox).from \in DOMAIN child
    BY ReceiveType, ReceiveFromTheDead DEF Bookkeeping, Dead
  <2> QED BY <2>1 DEF ContractFits
<1>1. CASE HandleStart
  <2>1. PICK o \in OnFlowStart(genesis, db) :
          ProcessFlowInstruction(o, stepCoordinators, finalCoordinators)
    BY <1>1 DEF HandleStart
  <2>2. o \in Outcome /\ DOMAIN child = {} /\ behaviour = "receive" /\ Receive("Start")
    BY <1>1, StartAnswer DEF HandleStart
  <2>3. ~ genesis.loaded
    <3>1. Head(mailbox) = mailbox[1] /\ 1 \in 1..Len(mailbox)
      BY <2>2, TailOfMailbox DEF Receive
    <3> QED BY <2>2, <3>1 DEF ContractFits, Receive
  <2>4. /\ GoesOn(o.genesis, o.db) /\ o.db.workflow \in Contract!Forward
        /\ o.genesis.loaded \/ o.signal = "Fail"
    BY <1>listening, <2>2, <2>3, StartGoesOn
  <2>5. KeepsContract(o.genesis) /\ (~ o.genesis.loaded => DOMAIN child' = {})
    BY <1>listening, <2>1, <2>2, <2>4, InstructionKeepsContract
  <2> QED BY <1>handler, <2>2, <2>5
<1>2. CASE HandleBeat
  <2>1. Head(mailbox) \in Message /\ Head(mailbox).type = "Beat"
    BY <1>2, ReceiveType DEF HandleBeat, Receive
  <2>2. Head(mailbox).signal \in Contract!Reportable
    <3>1. Head(mailbox).signal \in Contract!Signal
      BY <2>1 DEF Message, Signal, Contract!Signal
    <3>2. finishSignal = "Success"
      BY <1>2 DEF HandleBeat, ContractFits
    <3> QED BY <3>1, <3>2 DEF Contract!Reportable
  <2>3. /\ AttemptToFinish(Head(mailbox).signal, "interrupted", stepCoordinators, finalCoordinators,
                           genesis, db, 0)
        /\ behaviour = "receive" /\ Receive("Beat") /\ UNCHANGED child /\ db \in DB
    BY <1>2 DEF HandleBeat, InterruptFlow, TypeOK
  <2>4. db.env = "Busy" /\ db.workflow \in Contract!Forward /\ GoesOn(genesis, db) /\ ~ Finished
    BY <1>listening, <2>3 DEF GoesOn, Contract!Forward
  <2>5. KeepsContract(genesis)
    BY <2>2, <2>3, <2>4, AttemptKeepsContract
  <2> QED BY <1>handler, <2>3, <2>5 DEF ContractFits
<1>3. CASE HandleStepResult
  <2>1. PICK o \in OnStepFinish(StepOf(Head(mailbox).from), Head(mailbox).result, genesis, db) :
          ProcessFlowInstruction(o, stepCoordinators \ {Head(mailbox).from},
                                    finalCoordinators \ {Head(mailbox).from})
    BY <1>3 DEF HandleStepResult
  <2>2. behaviour = "receive" /\ Receive("StepResult")
    BY <1>3 DEF HandleStepResult
  <2>3. /\ o \in Outcome /\ o.genesis.loaded
        /\ GoesOn(o.genesis, o.db) /\ o.db.workflow \in Contract!Forward
    BY <1>listening, <1>result, <2>2, ResultGoesOn
  <2>4. KeepsContract(o.genesis)
    BY <1>listening, <2>1, <2>2, <2>3, InstructionKeepsContract
  <2> QED BY <1>handler, <1>result, <2>2, <2>3, <2>4
<1>4. CASE InterruptedStepResult
  <2>1. PICK o \in OnStepFinish(StepOf(Head(mailbox).from), Head(mailbox).result, genesis, db) :
          AttemptToFinish(finishSignal, "interrupted", stepCoordinators \ {Head(mailbox).from},
                          finalCoordinators \ {Head(mailbox).from}, o.genesis, o.db, o.cost)
    BY <1>4 DEF InterruptedStepResult
  <2>2. behaviour = "interrupted" /\ Receive("StepResult")
    BY <1>4 DEF InterruptedStepResult
  <2>3. /\ o.db \in DB /\ o.genesis.loaded
        /\ GoesOn(o.genesis, o.db) /\ o.db.workflow \in Contract!Forward
    BY <1>listening, <1>result, <2>2, ResultGoesOn DEF Outcome
  <2>4. finishSignal \in Contract!Reportable /\ db.env = "Busy" /\ ~ Finished
    BY <1>listening, <2>2 DEF Contract!Reportable, Contract!Signal, TypeOK, Signal, GoesOn
  <2>5. KeepsContract(o.genesis)
    BY <2>1, <2>3, <2>4, AttemptKeepsContract
  <2> QED BY <1>handler, <1>result, <2>2, <2>3, <2>5
<1>5. ASSUME NEW c \in DOMAIN child, ChildStep(c)
      PROVE  UNCHANGED Contract!vars /\ ContractFits'
  <2>1. /\ UNCHANGED <<actorVars, genesis, flowFinish>> /\ DOMAIN child' = DOMAIN child
        /\ db'.workflow = db.workflow /\ db'.env = db.env
    BY <1>5, ChildStepFacts
  <2>2. UNCHANGED Contract!vars
    BY <2>1 DEF Contract!vars, Finished, actorVars
  <2>3. mailbox' = mailbox \/ \E m \in Message : m.type = "StepResult" /\ mailbox' = Append(mailbox, m)
    <3>1. \A r \in Result : [type |-> "StepResult", from |-> c, result |-> r] \in Message
      BY DEF Message, TypeOK
    <3> QED BY <1>5, <3>1
            DEF ChildStep, StepStart, StepInterrupt, StepInterrupted, StepFinish, Send, Result
  <2>4. \A i \in 1..Len(mailbox') : mailbox'[i].type = "Start" => ~ genesis'.loaded
    <3>1. CASE mailbox' = mailbox
      BY <2>1, <3>1 DEF ContractFits
    <3>2. ASSUME NEW m \in Message, m.type = "StepResult", mailbox' = Append(mailbox, m)
          PROVE  \A i \in 1..Len(mailbox') : mailbox'[i].type = "Start" => ~ genesis'.loaded
      BY <2>1, <3>2, AppendToMailbox DEF ContractFits
    <3> QED BY <2>3, <3>1, <3>2
  <2> QED BY <2>1, <2>2, <2>4 DEF ContractFits, Finished, GoesOn, actorVars
<1>6. CASE Bystander
  <2>1. UNCHANGED Contract!vars
    BY <1>6 DEF Contract!vars, Finished, Bystander
  <2>2. \A i \in 1..Len(mailbox') : mailbox'[i].type = "Start" => ~ genesis'.loaded
    <3>1. CASE mailbox' = mailbox
      BY <1>6, <3>1 DEF ContractFits, Bystander
    <3>2. CASE mailbox # <<>> /\ mailbox' = Tail(mailbox)
      BY <1>6, <3>2, ReadKeepsStart DEF Bystander
    <3>3. ASSUME NEW m \in Message, m.type \in {"Beat", "PoisonPill"}, mailbox' = Append(mailbox, m)
          PROVE  \A i \in 1..Len(mailbox') : mailbox'[i].type = "Start" => ~ genesis'.loaded
      BY <1>6, <3>3, AppendToMailbox DEF ContractFits, Bystander
    <3> QED BY <1>6, <3>1, <3>2, <3>3 DEF Bystander
  <2> QED BY <1>6, <2>1, <2>2 DEF ContractFits, Finished, Bystander
<1> QED BY <1>1, <1>2, <1>3, <1>4, <1>5, <1>6, NextCases

\* Whatever steps, retries, signals and faults of any call there are, the rows of the
\* workflow and of the instance go through the states FlowContract allows: the instance is
\* Busy until the last step, the first interruption decides the outcome, and that is stored
\* in both rows or in neither.
THEOREM ImplementsContractCorrect == Spec => ImplementsContract
<1>1. Init => Contract!Init /\ ContractFits
  BY InitContract
<1>2. TypeOK /\ Bookkeeping /\ Order /\ ContractFits /\ [Next]_vars
        => [Contract!Next]_(Contract!vars) /\ ContractFits'
  BY NextContract
<1>3. Spec => [](TypeOK /\ Bookkeeping /\ Order)
  BY OrderCorrect
<1> QED BY <1>1, <1>2, <1>3, PTL DEF Spec, ImplementsContract, Contract!Spec
=============================================================================
