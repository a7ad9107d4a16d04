----------------------- MODULE FlowCoordinatorProofs -----------------------
(***************************************************************************)
(* Theorems about FlowCoordinator, for every flow: any steps, phases,      *)
(* retries, rescue steps and any number of faults of any kind: what it     *)
(* keeps to, and the order and the number of attempts of its steps.        *)
(***************************************************************************)
EXTENDS FlowCoordinator, TLAPS

-----------------------------------------------------------------------------
(* The calls into GenesisFlowCoordinator return well-formed outcomes. *)

LEMMA PersistStepsType ==
  ASSUME NEW d \in DB, NEW p
  PROVE  PersistSteps(d, p) \in DB
BY DEF PersistSteps, DB, StepStatus

LEMMA ReachableType ==
  ASSUME NEW g \in Genesis
  PROVE  Reachable(g) \in SUBSET Steps
BY DEF Reachable, Genesis

LEMMA DetectReachableType ==
  ASSUME NEW g \in Genesis
  PROVE  DetectReachable(g) \in Genesis
BY FlowAssumption DEF DetectReachable, Genesis

LEMMA CreateType ==
  ASSUME NEW g \in Genesis, NEW d \in DB
  PROVE  CreateReachableStepCoordinators(g, d) \subseteq Outcome
<1>1. Right(Reachable(g), DetectReachable(g), d) \in Outcome
  BY ReachableType, DetectReachableType DEF Right, Outcome
<1>2. Unprepared(d, Reachable(g)) \subseteq DB
  BY ReachableType DEF Unprepared, DB, StepStatus
<1>3. ASSUME NEW e \in DB PROVE Left(DetectReachable(g), e, 1) \in Outcome
  BY DetectReachableType DEF Left, Outcome
<1> QED BY <1>1, <1>2, <1>3 DEF CreateReachableStepCoordinators

LEMMA OnFlowStartType ==
  ASSUME NEW g \in Genesis, NEW d \in DB
  PROVE  OnFlowStart(g, d) \subseteq Outcome
<1> DEFINE started == [d EXCEPT !.workflow = "Executing", !.env = "Busy"]
           loaded  == [g EXCEPT !.loaded = TRUE]
<1>1. started \in DB
  BY DEF DB, WorkflowStatus, EnvStatus
<1>2. loaded \in Genesis
  BY DEF Genesis
<1>3. ASSUME NEW p PROVE PersistSteps(started, p) \in DB
  BY <1>1, PersistStepsType
<1>4. CreateReachableStepCoordinators(loaded, PersistSteps(started, Steps)) \subseteq Outcome
  BY <1>2, <1>3, CreateType
<1>5. Left(g, d, 1) \in Outcome
  BY DEF Left, Outcome
<1>6. ASSUME NEW p PROVE Left(loaded, PersistSteps(started, p), 1) \in Outcome
  BY <1>2, <1>3 DEF Left, Outcome
<1> QED BY <1>4, <1>5, <1>6 DEF OnFlowStart

LEMMA OnStepFinishType ==
  ASSUME NEW s \in AllSteps, NEW r \in Result, NEW g \in Genesis, NEW d \in DB
  PROVE  OnStepFinish(s, r, g, d) \subseteq Outcome
<1>1. ASSUME NEW cost \in {0, 1} PROVE Left(g, d, cost) \in Outcome
  BY DEF Left, Outcome
<1>2. CountStep(s, r, g, d) \subseteq Outcome
  <2>1. [g EXCEPT !.finishedSteps = @ \cup {s}] \in Genesis
    BY DEF Genesis
  <2>2. ASSUME NEW w \in WorkflowStatus
        PROVE  [d EXCEPT !.stepsFinished = @ + 1, !.workflow = w] \in DB
    <3>1. ASSUME NEW n \in Nat
          PROVE  [d EXCEPT !.stepsFinished = n, !.workflow = w] \in DB
      BY Zenon DEF DB
    <3>2. d.stepsFinished + 1 \in Nat
      BY DEF DB
    <3> QED BY <3>1, <3>2
  <2>3. (IF r = "failed" THEN "Warning" ELSE d.workflow) \in WorkflowStatus
    BY DEF DB, WorkflowStatus
  <2> QED BY <2>1, <2>2, <2>3, CreateType DEF CountStep
<1>3. ASSUME s \in Steps, g.retryMap[s] > 0
      PROVE  RestartStep(s, g, d) \subseteq Outcome
  <2> DEFINE spent == [g EXCEPT !.retryMap[s] = @ - 1]
  <2>1. spent \in Genesis
    BY <1>3 DEF Genesis
  <2>2. [d EXCEPT !.steps[s] = "Canceled"] \in DB
    BY DEF DB, StepStatus
  <2>3. Right({s}, spent, d) \in Outcome
    BY <1>3, <2>1 DEF Right, Outcome
  <2>4. [Right({}, spent, [d EXCEPT !.steps[s] = "Canceled"]) EXCEPT !.cost = 1] \in Outcome
    BY <2>1, <2>2 DEF Right, Outcome
  <2> QED BY <2>3, <2>4 DEF RestartStep
<1> QED BY <1>1, <1>2, <1>3 DEF OnStepFinish

LEMMA OnFlowFinishType ==
  ASSUME NEW signal \in Signal, NEW g \in Genesis, NEW d \in DB,
         NEW out \in OnFlowFinish(signal, g, d)
  PROVE  out.db \in DB /\ out.cost \in {0, 1}
<1>1. FinalStatus(signal, d) \in WorkflowStatus
  BY DEF FinalStatus, WorkflowStatus
<1>2. FinalEnv(signal) \in EnvStatus
  BY FlowAssumption DEF FinalEnv, EnvStatus
<1>3. [d EXCEPT !.workflow = FinalStatus(signal, d), !.env = FinalEnv(signal)] \in DB
  BY <1>1, <1>2 DEF DB
<1> QED BY <1>3 DEF OnFlowFinish

-----------------------------------------------------------------------------
(* The pieces of the handlers keep the types. *)

LEMMA StartCoordinatorsType ==
  ASSUME TypeOK, NEW steps \in SUBSET AllSteps, StartCoordinators(steps)
  PROVE  /\ DOMAIN child' = DOMAIN child \cup NewCoordinators(steps)
         /\ NewCoordinators(steps) \subseteq Coordinator
         /\ child' \in [DOMAIN child' -> ChildState]
         /\ attempts' \in [AllSteps -> Nat]
<1>1. NewCoordinators(steps) \subseteq Coordinator
  BY DEF TypeOK, NewCoordinators, Coordinator
<1>2. child' \in [DOMAIN child \cup NewCoordinators(steps) -> ChildState]
  BY DEF TypeOK, StartCoordinators, ChildState
<1>3. attempts' \in [AllSteps -> Nat]
  BY DEF TypeOK, StartCoordinators
<1> QED BY <1>1, <1>2, <1>3

LEMMA SpendType ==
  ASSUME TypeOK, NEW cost \in Nat, Spend(cost)
  PROVE  faults' \in 0..MaxFaults
BY FlowAssumption DEF TypeOK, Spend

LEMMA AttemptToFinishType ==
  ASSUME TypeOK, NEW signal \in Signal, NEW next \in {"receive", "interrupted"},
         NEW regular, NEW final, NEW g \in Genesis, NEW d \in DB, NEW cost \in Nat,
         AttemptToFinish(signal, next, regular, final, g, d, cost)
  PROVE  /\ finishSignal' \in Signal
         /\ stepCoordinators' = regular /\ finalCoordinators' = final
         /\ genesis' \in Genesis /\ db' \in DB
         /\ faults' \in 0..MaxFaults
         /\ behaviour' \in {"receive", "interrupted", "ignoreBeat", "stopped"}
         /\ flowFinish' \in Signal \cup {"none"}
<1>1. /\ finishSignal' = signal /\ genesis' = g
      /\ stepCoordinators' = regular /\ finalCoordinators' = final
  BY DEF AttemptToFinish
<1>2. CASE regular \cup final = {}
  <2>1. PICK out \in OnFlowFinish(signal, g, d) : db' = out.db /\ Spend(cost + out.cost)
    BY <1>2 DEF AttemptToFinish
  <2>2. out.db \in DB /\ out.cost \in {0, 1}
    BY OnFlowFinishType
  <2>3. faults' \in 0..MaxFaults
    <3>1. cost + out.cost \in Nat
      BY <2>2
    <3> QED BY <2>1, <3>1, SpendType
  <2>4. flowFinish' = signal /\ behaviour' = "ignoreBeat"
    BY <1>2 DEF AttemptToFinish
  <2> QED BY <1>1, <2>1, <2>2, <2>3, <2>4
<1>3. CASE regular \cup final # {}
  <2>1. db' = d /\ Spend(cost) /\ behaviour' = next /\ UNCHANGED flowFinish
    BY <1>3 DEF AttemptToFinish
  <2>2. faults' \in 0..MaxFaults
    BY <2>1, SpendType
  <2> QED BY <1>1, <2>1, <2>2 DEF TypeOK
<1> QED BY <1>2, <1>3

\* What an instruction of the workflow leads to, for the variables it sets.
LEMMA ProcessFlowInstructionType ==
  ASSUME TypeOK, NEW o \in Outcome,
         NEW regular \in SUBSET DOMAIN child, NEW final \in SUBSET DOMAIN child,
         ProcessFlowInstruction(o, regular, final)
  PROVE  /\ behaviour' \in {"receive", "interrupted", "ignoreBeat", "stopped"}
         /\ finishSignal' \in Signal
         /\ DOMAIN child' \subseteq Coordinator
         /\ child' \in [DOMAIN child' -> ChildState]
         /\ stepCoordinators' \subseteq DOMAIN child'
         /\ finalCoordinators' \subseteq DOMAIN child'
         /\ beaten' \subseteq DOMAIN child'
         /\ attempts' \in [AllSteps -> Nat]
         /\ genesis' \in Genesis /\ db' \in DB
         /\ flowFinish' \in Signal \cup {"none"}
         /\ faults' \in 0..MaxFaults
<1>1. /\ o.signal \in {"none", "Fail"} /\ o.start \in SUBSET Steps
      /\ o.genesis \in Genesis /\ o.db \in DB /\ o.cost \in Nat /\ o.cost + 1 \in Nat
  BY DEF Outcome
<1>2. /\ finishSignal \in Signal /\ "Fail" \in Signal
      /\ DOMAIN child \subseteq Coordinator /\ child \in [DOMAIN child -> ChildState]
      /\ beaten \subseteq DOMAIN child /\ attempts \in [AllSteps -> Nat]
  BY DEF TypeOK, Signal
<1>3. CASE o.signal = "none"
  <2>1. /\ StartCoordinators(o.start) /\ UNCHANGED beaten
        /\ AttemptToFinish(finishSignal, "receive", regular \cup NewCoordinators(o.start), final,
                           o.genesis, o.db, o.cost)
    BY <1>3 DEF ProcessFlowInstruction
  <2>2. o.start \in SUBSET AllSteps
    BY <1>1 DEF AllSteps
  <2>3. /\ DOMAIN child' = DOMAIN child \cup NewCoordinators(o.start)
        /\ NewCoordinators(o.start) \subseteq Coordinator
        /\ child' \in [DOMAIN child' -> ChildState] /\ attempts' \in [AllSteps -> Nat]
    BY <2>1, <2>2, StartCoordinatorsType
  <2>4. /\ finishSignal' \in Signal
        /\ stepCoordinators' = regular \cup NewCoordinators(o.start) /\ finalCoordinators' = final
        /\ genesis' \in Genesis /\ db' \in DB
        /\ faults' \in 0..MaxFaults
        /\ behaviour' \in {"receive", "interrupted", "ignoreBeat", "stopped"}
        /\ flowFinish' \in Signal \cup {"none"}
    BY <1>1, <1>2, <2>1, AttemptToFinishType
  <2>5. /\ DOMAIN child' \subseteq Coordinator
        /\ stepCoordinators' \subseteq DOMAIN child' /\ finalCoordinators' \subseteq DOMAIN child'
        /\ beaten' \subseteq DOMAIN child'
    BY <1>2, <2>1, <2>3, <2>4
  <2> QED BY <2>3, <2>4, <2>5
<1>4. ASSUME NEW f \in SUBSET DOMAIN child', NEW d \in DB, NEW cost \in Nat,
             InterruptFlow("Fail", regular, f, o.genesis, d, cost),
             DOMAIN child \subseteq DOMAIN child'
      PROVE  /\ behaviour' \in {"receive", "interrupted", "ignoreBeat", "stopped"}
             /\ finishSignal' \in Signal
             /\ stepCoordinators' \subseteq DOMAIN child'
             /\ finalCoordinators' \subseteq DOMAIN child'
             /\ beaten' \subseteq DOMAIN child'
             /\ genesis' \in Genesis /\ db' \in DB
             /\ flowFinish' \in Signal \cup {"none"}
             /\ faults' \in 0..MaxFaults
  <2>1. AttemptToFinish("Fail", "interrupted", regular, f, o.genesis, d, cost)
    BY <1>4 DEF InterruptFlow
  <2>2. beaten' \subseteq DOMAIN child
    BY <1>2, <1>4 DEF InterruptFlow
  <2> QED BY <1>1, <1>2, <1>4, <2>1, <2>2, AttemptToFinishType
<1>5. CASE o.signal = "Fail" /\ RescueSteps = {}
  <2>1. /\ InterruptFlow("Fail", regular, final, o.genesis, o.db, o.cost)
        /\ UNCHANGED <<child, attempts>>
    BY <1>5 DEF ProcessFlowInstruction
  <2> QED BY <1>1, <1>2, <1>4, <2>1
<1>6. ASSUME NEW d \in DB, NEW cost \in Nat, RestartActor(o.genesis, d, cost)
      PROVE  /\ behaviour' = "receive" /\ finishSignal' = "Success"
             /\ DOMAIN child' = DOMAIN child
             /\ child' \in [DOMAIN child' -> ChildState]
             /\ stepCoordinators' = {} /\ finalCoordinators' = {} /\ beaten' = {}
             /\ attempts' \in [AllSteps -> Nat]
             /\ genesis' \in Genesis /\ db' \in DB
             /\ flowFinish' \in Signal \cup {"none"}
             /\ faults' \in 0..MaxFaults
  <2>1. child' \in [DOMAIN child -> ChildState]
    BY <1>2, <1>6 DEF RestartActor, ChildState
  <2>2. faults' \in 0..MaxFaults
    BY <1>6, SpendType DEF RestartActor
  <2> QED BY <1>1, <1>2, <1>6, <2>1, <2>2 DEF RestartActor, TypeOK
<1>7. CASE o.signal = "Fail" /\ RescueSteps # {}
  <2>1. RescueFlow(o, regular, final)
    BY <1>7 DEF ProcessFlowInstruction
  <2>2. ASSUME NEW p PROVE PersistSteps(o.db, p) \in DB
    BY <1>1, PersistStepsType
  <2>3. CASE /\ StartCoordinators(RescueSteps)
             /\ InterruptFlow("Fail", regular, final \cup NewCoordinators(RescueSteps),
                              o.genesis, PersistSteps(o.db, RescueSteps), o.cost)
    <3>1. /\ DOMAIN child' = DOMAIN child \cup NewCoordinators(RescueSteps)
          /\ NewCoordinators(RescueSteps) \subseteq Coordinator
          /\ child' \in [DOMAIN child' -> ChildState] /\ attempts' \in [AllSteps -> Nat]
      BY <2>3, StartCoordinatorsType DEF AllSteps
    <3>2. final \cup NewCoordinators(RescueSteps) \in SUBSET DOMAIN child'
      BY <3>1
    <3> QED BY <1>1, <1>2, <1>4, <2>2, <2>3, <3>1, <3>2
  <2>4. CASE /\ InterruptFlow("Fail", regular, final, o.genesis,
                  [o.db EXCEPT !.steps = [s \in AllSteps |-> IF s \in RescueSteps THEN "Canceled" ELSE @[s]]],
                  o.cost + 1)
             /\ UNCHANGED <<child, attempts>>
    <3>1. [o.db EXCEPT !.steps = [s \in AllSteps |-> IF s \in RescueSteps THEN "Canceled" ELSE @[s]]] \in DB
      BY <1>1 DEF DB, StepStatus
    <3> QED BY <1>1, <1>2, <1>4, <2>4, <3>1
  <2>5. CASE \E p \in SUBSET RescueSteps : RestartActor(o.genesis, PersistSteps(o.db, p), o.cost + 1)
    BY <1>1, <1>2, <1>6, <2>2, <2>5 DEF Signal
  <2>6. CASE RestartActor(o.genesis, o.db, o.cost)
    BY <1>1, <1>2, <1>6, <2>6 DEF Signal
  <2> QED BY <2>1, <2>3, <2>4, <2>5, <2>6 DEF RescueFlow
<1> QED BY <1>1, <1>3, <1>5, <1>7

\* What is at the head of the mailbox, by its type.
LEMMA ReceiveType ==
  ASSUME TypeOK, NEW type, Receive(type)
  PROVE  /\ mailbox' \in Seq(Message)
         /\ Head(mailbox) \in Message
         /\ type = "Beat" => Head(mailbox).signal \in Signal
         /\ type = "StepResult" =>
              /\ StepOf(Head(mailbox).from) \in AllSteps
              /\ Head(mailbox).result \in Result
<1>1. mailbox \in Seq(Message) /\ mailbox # <<>>
  BY DEF TypeOK, Receive
<1>2. Tail(mailbox) \in Seq(Message) /\ Head(mailbox) \in Message
  BY <1>1
<1>3. type = "Beat" => Head(mailbox) \in [type : {"Beat"}, signal : Signal \ {"Success"}]
  BY <1>2 DEF Receive, Message
<1>4. type = "StepResult" =>
        Head(mailbox) \in [type : {"StepResult"}, from : Coordinator, result : Result]
  BY <1>2 DEF Receive, Message
<1> QED BY <1>2, <1>3, <1>4 DEF Receive, StepOf, Coordinator

LEMMA SendType ==
  ASSUME TypeOK, NEW m \in Message, Send(m)
  PROVE  mailbox' \in Seq(Message)
BY DEF TypeOK, Send

LEMMA StepRowType ==
  ASSUME TypeOK, NEW c \in DOMAIN child, NEW status \in StepStatus
  PROVE  /\ [db EXCEPT !.steps[StepOf(c)] = status] \in DB
         /\ c \in Coordinator /\ StepOf(c) \in AllSteps
BY DEF TypeOK, DB, StepOf, Coordinator

LEMMA InitType == Init => TypeOK
<1> SUFFICES ASSUME Init PROVE TypeOK
  OBVIOUS
<1>1. mailbox \in Seq(Message)
  <2>1. [type |-> "Start"] \in Message /\ [type |-> "Beat", signal |-> "Cancel"] \in Message
    BY DEF Message, Signal
  <2> QED BY <2>1 DEF Init
<1>2. genesis \in Genesis
  BY DEF Init, Genesis
<1>3. db \in DB
  BY DEF Init, DB, WorkflowStatus, EnvStatus, StepStatus
<1>4. faults \in 0..MaxFaults
  BY FlowAssumption DEF Init
<1> QED BY <1>1, <1>2, <1>3, <1>4 DEF Init, TypeOK, Signal

\* Types are kept by every step.
LEMMA NextType == TypeOK /\ [Next]_vars => TypeOK'
<1> SUFFICES ASSUME TypeOK, [Next]_vars PROVE TypeOK'
  OBVIOUS
<1> USE DEF StepVars, actorVars, childVars
<1>1. ASSUME HandleStart PROVE TypeOK'
  <2>1. PICK o \in OnFlowStart(genesis, db) :
          ProcessFlowInstruction(o, stepCoordinators, finalCoordinators)
    BY <1>1 DEF HandleStart
  <2>2. o \in Outcome
    BY OnFlowStartType DEF TypeOK
  <2>3. mailbox' \in Seq(Message)
    BY <1>1, ReceiveType DEF HandleStart
  <2> QED BY <1>1, <2>1, <2>2, <2>3, ProcessFlowInstructionType DEF HandleStart, TypeOK
<1>2. ASSUME HandleBeat PROVE TypeOK'
  <2>1. mailbox' \in Seq(Message) /\ Head(mailbox).signal \in Signal
    BY <1>2, ReceiveType DEF HandleBeat
  <2>2. genesis \in Genesis /\ db \in DB /\ 0 \in Nat
    BY DEF TypeOK
  <2>3. AttemptToFinish(Head(mailbox).signal, "interrupted", stepCoordinators, finalCoordinators,
                        genesis, db, 0)
    BY <1>2 DEF HandleBeat, InterruptFlow
  <2>4. beaten' \subseteq DOMAIN child
    BY <1>2 DEF HandleBeat, InterruptFlow, TypeOK
  <2> QED BY <1>2, <2>1, <2>2, <2>3, <2>4, AttemptToFinishType DEF HandleBeat, TypeOK
<1>3. ASSUME HandleStepResult PROVE TypeOK'
  <2> DEFINE m == Head(mailbox)
  <2>1. mailbox' \in Seq(Message) /\ StepOf(m.from) \in AllSteps /\ m.result \in Result
    BY <1>3, ReceiveType DEF HandleStepResult
  <2>2. PICK o \in OnStepFinish(StepOf(m.from), m.result, genesis, db) :
          ProcessFlowInstruction(o, stepCoordinators \ {m.from}, finalCoordinators \ {m.from})
    BY <1>3 DEF HandleStepResult
  <2>3. o \in Outcome
    BY <2>1, OnStepFinishType DEF TypeOK
  <2>4. /\ stepCoordinators \ {m.from} \in SUBSET DOMAIN child
        /\ finalCoordinators \ {m.from} \in SUBSET DOMAIN child
    BY DEF TypeOK
  <2> HIDE DEF m
  <2> QED BY <1>3, <2>1, <2>2, <2>3, <2>4, ProcessFlowInstructionType DEF HandleStepResult, TypeOK
<1>4. ASSUME InterruptedStepResult PROVE TypeOK'
  <2> DEFINE m == Head(mailbox)
  <2>1. mailbox' \in Seq(Message) /\ StepOf(m.from) \in AllSteps /\ m.result \in Result
    BY <1>4, ReceiveType DEF InterruptedStepResult
  <2>2. PICK o \in OnStepFinish(StepOf(m.from), m.result, genesis, db) :
          AttemptToFinish(finishSignal, "interrupted",
            stepCoordinators \ {m.from}, finalCoordinators \ {m.from}, o.genesis, o.db, o.cost)
    BY <1>4 DEF InterruptedStepResult
  <2>3. o.genesis \in Genesis /\ o.db \in DB /\ o.cost \in Nat
    BY <2>1, OnStepFinishType DEF TypeOK, Outcome
  <2> HIDE DEF m
  <2> QED BY <1>4, <2>1, <2>2, <2>3, AttemptToFinishType DEF InterruptedStepResult, TypeOK
<1>5. ASSUME DropMessage PROVE TypeOK'
  BY <1>5, ReceiveType DEF DropMessage, TypeOK
<1>6. ASSUME HandlePoisonPill PROVE TypeOK'
  BY <1>6, ReceiveType DEF HandlePoisonPill, TypeOK
<1>7. ASSUME NEW c \in DOMAIN child, StepStart(c) PROVE TypeOK'
  <2>1. db' \in DB
    BY <1>7, StepRowType DEF StepStart, StepStatus
  <2>2. child' \in [DOMAIN child -> ChildState] /\ DOMAIN child' = DOMAIN child
    BY <1>7 DEF StepStart, TypeOK, ChildState
  <2> QED BY <1>7, <2>1, <2>2 DEF StepStart, TypeOK
<1>8. ASSUME NEW c \in DOMAIN child, StepInterrupt(c) PROVE TypeOK'
  <2>1. db' \in DB
    BY <1>8, StepRowType DEF StepInterrupt, StepStatus
  <2>2. child' \in [DOMAIN child -> ChildState] /\ DOMAIN child' = DOMAIN child
    BY <1>8 DEF StepInterrupt, TypeOK, ChildState
  <2> QED BY <1>8, <2>1, <2>2 DEF StepInterrupt, TypeOK
<1>9. ASSUME NEW c \in DOMAIN child, StepInterrupted(c) PROVE TypeOK'
  <2>1. mailbox' \in Seq(Message)
    BY <1>9, SendType DEF StepInterrupted, Message, Result, TypeOK
  <2>2. child' \in [DOMAIN child -> ChildState] /\ DOMAIN child' = DOMAIN child
    BY <1>9 DEF StepInterrupted, TypeOK, ChildState
  <2> QED BY <1>9, <2>1, <2>2 DEF StepInterrupted, TypeOK
<1>10. ASSUME NEW c \in DOMAIN child, NEW r \in {"ok", "failed", "throwable"}, StepFinish(c, r)
       PROVE  TypeOK'
  <2>1. mailbox' \in Seq(Message)
    BY <1>10, SendType DEF StepFinish, Message, Result, TypeOK
  <2>2. db' \in DB
    BY <1>10, StepRowType DEF StepFinish, StepStatus, TypeOK
  <2>3. child' \in [DOMAIN child -> ChildState] /\ DOMAIN child' = DOMAIN child
    BY <1>10 DEF StepFinish, TypeOK, ChildState
  <2> QED BY <1>10, <2>1, <2>2, <2>3 DEF StepFinish, TypeOK
<1>11. ASSUME Cancel PROVE TypeOK'
  <2>1. [type |-> "Beat", signal |-> "Cancel"] \in Message
    BY DEF Message, Signal
  <2> QED BY <1>11, <2>1 DEF Cancel, TypeOK
<1>12. ASSUME TimeOut PROVE TypeOK'
  <2>1. [type |-> "Beat", signal |-> "TimeOut"] \in Message
    BY DEF Message, Signal
  <2> QED BY <1>12, <2>1, SendType DEF TimeOut, TypeOK
<1>13. ASSUME UnsubscribeOnce PROVE TypeOK'
  <2>1. [type |-> "PoisonPill"] \in Message
    BY DEF Message
  <2> QED BY <1>13, <2>1, SendType DEF UnsubscribeOnce, TypeOK
<1>14. ASSUME UNCHANGED vars PROVE TypeOK'
  BY <1>14 DEF vars, TypeOK
<1> QED BY <1>1, <1>2, <1>3, <1>4, <1>5, <1>6, <1>7, <1>8, <1>9, <1>10, <1>11, <1>12, <1>13, <1>14
        DEF Next, HandleMessage

\* Every variable keeps its type: in particular a retry counter never falls below zero and
\* no message names a coordinator or a signal that does not exist.
THEOREM TypeCorrect == Spec => []TypeOK
<1>1. Init => TypeOK
  BY InitType
<1>2. TypeOK /\ [Next]_vars => TypeOK'
  BY NextType
<1> QED BY <1>1, <1>2, PTL DEF Spec

-----------------------------------------------------------------------------
(* onFlowFinish is called with no child at work, and once.                 *)

\* A new child is a new actor, so the dead stay dead.
LEMMA StartCoordinatorsAlive ==
  ASSUME TypeOK, AttemptsCounted, NEW steps \in SUBSET AllSteps, StartCoordinators(steps)
  PROVE  /\ Alive' = Alive \cup NewCoordinators(steps)
         /\ Dead \subseteq Dead'
         /\ AttemptsCounted'
<1>1. /\ DOMAIN child' = DOMAIN child \cup NewCoordinators(steps)
      /\ attempts' = [s \in AllSteps |-> IF s \in steps THEN attempts[s] + 1 ELSE attempts[s]]
      /\ DOMAIN child \subseteq Coordinator
      /\ attempts \in [AllSteps -> Nat]
  BY DEF StartCoordinators, TypeOK
<1>2. ASSUME NEW c \in DOMAIN child
      PROVE  c \notin NewCoordinators(steps)
  <2>1. StepOf(c) \in AllSteps /\ c[2] \in Nat /\ c[2] <= attempts[StepOf(c)]
    BY <1>1 DEF AttemptsCounted, Coordinator, StepOf
  <2>2. ASSUME NEW s \in steps, c = <<s, attempts[s] + 1>> PROVE FALSE
    <3>1. c[1] = s /\ c[2] = attempts[s] + 1
      BY <2>2
    <3>2. attempts[s] \in Nat
      BY <1>1
    <3> QED BY <2>1, <3>1, <3>2 DEF StepOf
  <2> QED BY <2>2 DEF NewCoordinators
<1>3. /\ \A c \in DOMAIN child : child'[c] = child[c]
      /\ \A c \in NewCoordinators(steps) : child'[c] = "started"
  BY <1>1, <1>2 DEF StartCoordinators
<1>4. AttemptsCounted'
  <2> SUFFICES ASSUME NEW c \in DOMAIN child' PROVE c[2] <= attempts'[StepOf(c)]
    BY DEF AttemptsCounted, StepOf
  <2>1. CASE c \in DOMAIN child
    <3>1. StepOf(c) \in AllSteps /\ c[2] \in Nat /\ c[2] <= attempts[StepOf(c)]
      BY <1>1, <2>1 DEF AttemptsCounted, Coordinator, StepOf
    <3>2. attempts[StepOf(c)] \in Nat /\ attempts'[StepOf(c)] \in {attempts[StepOf(c)], attempts[StepOf(c)] + 1}
      BY <1>1, <3>1
    <3> QED BY <3>1, <3>2
  <2>2. CASE c \in NewCoordinators(steps)
    <3>1. PICK s \in steps : c = <<s, attempts[s] + 1>>
      BY <2>2 DEF NewCoordinators
    <3>2. c[1] = s /\ c[2] = attempts[s] + 1 /\ s \in AllSteps
      BY <3>1
    <3>3. attempts'[s] = attempts[s] + 1 /\ attempts[s] \in Nat
      BY <1>1, <3>2
    <3> QED BY <3>2, <3>3 DEF StepOf
  <2> QED BY <1>1, <2>1, <2>2
<1> QED BY <1>1, <1>2, <1>3, <1>4 DEF Alive, Dead

\* AttemptToFinish finishes only a flow that waits for nobody.
LEMMA AttemptToFinishDeaf ==
  ASSUME ~ Finished, NEW signal, NEW next, NEW regular, NEW final, NEW g, NEW d, NEW cost,
         AttemptToFinish(signal, next, regular, final, g, d, cost)
  PROVE  /\ stepCoordinators' = regular /\ finalCoordinators' = final
         /\ FinishedIsDeaf'
BY DEF AttemptToFinish, FinishedIsDeaf, Finished

LEMMA ProcessFlowInstructionBookkeeping ==
  ASSUME TypeOK, AttemptsCounted, ~ Finished, NEW o \in Outcome, NEW regular, NEW final,
         Alive \subseteq regular \cup final,
         ProcessFlowInstruction(o, regular, final)
  PROVE  Awaited' /\ FinishedIsDeaf' /\ Dead \subseteq Dead' /\ AttemptsCounted'
<1>1. o.start \in SUBSET AllSteps /\ RescueSteps \in SUBSET AllSteps
  BY DEF Outcome, AllSteps
<1>2. ASSUME UNCHANGED <<child, attempts>>
      PROVE  Alive' = Alive /\ Dead \subseteq Dead' /\ AttemptsCounted'
  BY <1>2 DEF Alive, Dead, AttemptsCounted
<1>3. ASSUME NEW f, NEW d, NEW cost, InterruptFlow("Fail", regular, f, o.genesis, d, cost)
      PROVE  stepCoordinators' = regular /\ finalCoordinators' = f /\ FinishedIsDeaf'
  BY <1>3, AttemptToFinishDeaf DEF InterruptFlow
<1>4. CASE o.signal = "none"
  <2>1. /\ StartCoordinators(o.start)
        /\ AttemptToFinish(finishSignal, "receive", regular \cup NewCoordinators(o.start), final,
                           o.genesis, o.db, o.cost)
    BY <1>4 DEF ProcessFlowInstruction
  <2>2. Alive' = Alive \cup NewCoordinators(o.start) /\ Dead \subseteq Dead' /\ AttemptsCounted'
    BY <1>1, <2>1, StartCoordinatorsAlive
  <2>3. /\ stepCoordinators' = regular \cup NewCoordinators(o.start) /\ finalCoordinators' = final
        /\ FinishedIsDeaf'
    BY <2>1, AttemptToFinishDeaf
  <2> QED BY <2>2, <2>3 DEF Awaited
<1>5. CASE o.signal = "Fail" /\ RescueSteps = {}
  BY <1>2, <1>3, <1>5 DEF ProcessFlowInstruction, Awaited
<1>6. ASSUME NEW d, NEW cost, RestartActor(o.genesis, d, cost)
      PROVE  Awaited' /\ FinishedIsDeaf' /\ Dead \subseteq Dead' /\ AttemptsCounted'
  <2>1. Alive' = {} /\ DOMAIN child' = DOMAIN child
    BY <1>6 DEF RestartActor, Alive
  <2> QED BY <1>6, <2>1 DEF RestartActor, Awaited, FinishedIsDeaf, Finished, Dead, AttemptsCounted
<1>7. CASE o.signal = "Fail" /\ RescueSteps # {}
  <2>1. RescueFlow(o, regular, final)
    BY <1>7 DEF ProcessFlowInstruction
  <2>2. CASE /\ StartCoordinators(RescueSteps)
             /\ InterruptFlow("Fail", regular, final \cup NewCoordinators(RescueSteps),
                              o.genesis, PersistSteps(o.db, RescueSteps), o.cost)
    <3>1. Alive' = Alive \cup NewCoordinators(RescueSteps) /\ Dead \subseteq Dead' /\ AttemptsCounted'
      BY <1>1, <2>2, StartCoordinatorsAlive
    <3> QED BY <1>3, <2>2, <3>1 DEF Awaited
  <2>3. ASSUME NEW d, NEW cost, InterruptFlow("Fail", regular, final, o.genesis, d, cost),
               UNCHANGED <<child, attempts>>
        PROVE  Awaited' /\ FinishedIsDeaf' /\ Dead \subseteq Dead' /\ AttemptsCounted'
    BY <1>2, <1>3, <2>3 DEF Awaited
  <2> QED BY <1>6, <2>1, <2>2, <2>3 DEF RescueFlow
<1> QED BY <1>4, <1>5, <1>7 DEF Outcome

\* Reading a message and sending one keep ResultsOfTheDead.
LEMMA ReceiveFromTheDead ==
  ASSUME TypeOK, ResultsOfTheDead, NEW type, Receive(type)
  PROVE  /\ type = "StepResult" => Head(mailbox).from \in Dead
         /\ Dead \subseteq Dead' => ResultsOfTheDead'
<1>1. mailbox \in Seq(Message) /\ mailbox # <<>> /\ mailbox' = Tail(mailbox)
  BY DEF TypeOK, Receive
<1>2. Len(mailbox) \in Nat \ {0} /\ Head(mailbox) = mailbox[1]
  BY <1>1
<1>3. /\ Len(mailbox') = Len(mailbox) - 1
      /\ \A i \in 1..Len(mailbox') : mailbox'[i] = mailbox[i + 1]
  BY <1>1
<1>4. \A i \in 1..Len(mailbox') : i + 1 \in 1..Len(mailbox)
  BY <1>2, <1>3
<1>5. type = "StepResult" => Head(mailbox).from \in Dead
  BY <1>2 DEF Receive, ResultsOfTheDead
<1>6. ASSUME Dead \subseteq Dead' PROVE ResultsOfTheDead'
  BY <1>3, <1>4, <1>6 DEF ResultsOfTheDead
<1> QED BY <1>5, <1>6

LEMMA AppendFromTheDead ==
  ASSUME TypeOK, ResultsOfTheDead, NEW m \in Message, mailbox' = Append(mailbox, m),
         m.type = "StepResult" => m.from \in Dead', Dead \subseteq Dead'
  PROVE  ResultsOfTheDead'
<1>1. mailbox \in Seq(Message)
  BY DEF TypeOK
<1>2. ASSUME NEW i \in 1..Len(mailbox'), mailbox'[i].type = "StepResult"
      PROVE  mailbox'[i].from \in Dead'
  <2>1. i \in 1..Len(mailbox) \/ i = Len(mailbox) + 1
    BY <1>1
  <2>2. i \in 1..Len(mailbox) => mailbox'[i] = mailbox[i]
    BY <1>1
  <2>3. i = Len(mailbox) + 1 => mailbox'[i] = m
    BY <1>1
  <2> QED BY <1>2, <2>1, <2>2, <2>3 DEF ResultsOfTheDead
<1> QED BY <1>2 DEF ResultsOfTheDead

\* A step that leaves the actor and its fields alone.
LEMMA OutsideBookkeeping ==
  ASSUME TypeOK, Bookkeeping, UNCHANGED <<actorVars, attempts, flowFinish>>,
         DOMAIN child' = DOMAIN child, Alive' \subseteq Alive, ResultsOfTheDead'
  PROVE  Bookkeeping'
BY DEF Bookkeeping, Awaited, FinishedIsDeaf, Finished, AttemptsCounted, actorVars

LEMMA InitBookkeeping == Init => Bookkeeping
<1> SUFFICES ASSUME Init PROVE Bookkeeping
  OBVIOUS
<1>1. DOMAIN child = {} /\ Alive = {}
  BY DEF Init, Alive
<1>2. ResultsOfTheDead
  BY DEF Init, ResultsOfTheDead
<1> QED BY <1>1, <1>2 DEF Init, Bookkeeping, Awaited, FinishedIsDeaf, Finished, AttemptsCounted

LEMMA NextBookkeeping == TypeOK /\ Bookkeeping /\ [Next]_vars => Bookkeeping'
<1> SUFFICES ASSUME TypeOK, Bookkeeping, [Next]_vars PROVE Bookkeeping'
  OBVIOUS
<1>0. Awaited /\ FinishedIsDeaf /\ ResultsOfTheDead /\ AttemptsCounted
  BY DEF Bookkeeping
<1>listening. behaviour \in {"receive", "interrupted"} => ~ Finished
  BY <1>0 DEF FinishedIsDeaf
<1>idle. UNCHANGED child => Alive' = Alive /\ Dead' = Dead
  BY DEF Alive, Dead
<1>1. ASSUME HandleStart PROVE Bookkeeping'
  <2>1. PICK o \in OnFlowStart(genesis, db) :
          ProcessFlowInstruction(o, stepCoordinators, finalCoordinators)
    BY <1>1 DEF HandleStart
  <2>2. o \in Outcome
    BY OnFlowStartType DEF TypeOK
  <2>3. Awaited' /\ FinishedIsDeaf' /\ Dead \subseteq Dead' /\ AttemptsCounted'
    BY <1>0, <1>1, <1>listening, <2>1, <2>2, ProcessFlowInstructionBookkeeping DEF HandleStart, Awaited
  <2>4. ResultsOfTheDead'
    BY <1>0, <1>1, <2>3, ReceiveFromTheDead DEF HandleStart
  <2> QED BY <2>3, <2>4 DEF Bookkeeping
<1>2. ASSUME HandleBeat PROVE Bookkeeping'
  <2>1. AttemptToFinish(Head(mailbox).signal, "interrupted", stepCoordinators, finalCoordinators,
                        genesis, db, 0)
    BY <1>2 DEF HandleBeat, InterruptFlow
  <2>2. FinishedIsDeaf' /\ UNCHANGED <<stepCoordinators, finalCoordinators>>
    BY <1>2, <1>listening, <2>1, AttemptToFinishDeaf DEF HandleBeat
  <2>3. UNCHANGED <<child, attempts>>
    BY <1>2 DEF HandleBeat
  <2>4. ResultsOfTheDead'
    BY <1>0, <1>2, <1>idle, <2>3, ReceiveFromTheDead DEF HandleBeat
  <2> QED BY <1>0, <1>idle, <2>2, <2>3, <2>4 DEF Bookkeeping, Awaited, AttemptsCounted
<1>3. ASSUME HandleStepResult PROVE Bookkeeping'
  <2> DEFINE m == Head(mailbox)
  <2>1. m.from \in Dead /\ StepOf(m.from) \in AllSteps /\ m.result \in Result
    BY <1>0, <1>3, ReceiveFromTheDead, ReceiveType DEF HandleStepResult
  <2>2. PICK o \in OnStepFinish(StepOf(m.from), m.result, genesis, db) :
          ProcessFlowInstruction(o, stepCoordinators \ {m.from}, finalCoordinators \ {m.from})
    BY <1>3 DEF HandleStepResult
  <2>3. o \in Outcome
    BY <2>1, OnStepFinishType DEF TypeOK
  <2>4. Alive \subseteq (stepCoordinators \ {m.from}) \cup (finalCoordinators \ {m.from})
    BY <1>0, <2>1 DEF Awaited, Dead
  <2>5. Awaited' /\ FinishedIsDeaf' /\ Dead \subseteq Dead' /\ AttemptsCounted'
    <3> HIDE DEF m
    <3> QED BY <1>0, <1>3, <1>listening, <2>2, <2>3, <2>4, ProcessFlowInstructionBookkeeping
            DEF HandleStepResult
  <2>6. ResultsOfTheDead'
    BY <1>0, <1>3, <2>5, ReceiveFromTheDead DEF HandleStepResult
  <2> QED BY <2>5, <2>6 DEF Bookkeeping
<1>4. ASSUME InterruptedStepResult PROVE Bookkeeping'
  <2> DEFINE m == Head(mailbox)
  <2>1. m.from \in Dead
    BY <1>0, <1>4, ReceiveFromTheDead DEF InterruptedStepResult
  <2>2. PICK o \in OnStepFinish(StepOf(m.from), m.result, genesis, db) :
          AttemptToFinish(finishSignal, "interrupted",
            stepCoordinators \ {m.from}, finalCoordinators \ {m.from}, o.genesis, o.db, o.cost)
    BY <1>4 DEF InterruptedStepResult
  <2>3. /\ FinishedIsDeaf'
        /\ stepCoordinators' = stepCoordinators \ {m.from}
        /\ finalCoordinators' = finalCoordinators \ {m.from}
    <3> HIDE DEF m
    <3> QED BY <1>4, <1>listening, <2>2, AttemptToFinishDeaf DEF InterruptedStepResult
  <2>4. UNCHANGED <<child, attempts>>
    BY <1>4 DEF InterruptedStepResult, childVars
  <2>5. ResultsOfTheDead'
    BY <1>0, <1>4, <1>idle, <2>4, ReceiveFromTheDead DEF InterruptedStepResult
  <2>6. Awaited' /\ AttemptsCounted'
    BY <1>0, <1>idle, <2>1, <2>3, <2>4 DEF Awaited, AttemptsCounted, Dead
  <2> QED BY <2>3, <2>5, <2>6 DEF Bookkeeping
<1>5. ASSUME DropMessage PROVE Bookkeeping'
  <2>1. UNCHANGED <<actorVars, child, attempts, flowFinish>>
    BY <1>5 DEF DropMessage, childVars
  <2>2. ResultsOfTheDead'
    BY <1>0, <1>5, <1>idle, <2>1, ReceiveFromTheDead DEF DropMessage
  <2> QED BY <1>idle, <2>1, <2>2, OutsideBookkeeping
<1>6. ASSUME HandlePoisonPill PROVE Bookkeeping'
  <2>1. /\ behaviour' = "stopped"
        /\ UNCHANGED <<stepCoordinators, finalCoordinators, child, attempts, flowFinish>>
    BY <1>6 DEF HandlePoisonPill, childVars
  <2>2. ResultsOfTheDead'
    BY <1>0, <1>6, <1>idle, <2>1, ReceiveFromTheDead DEF HandlePoisonPill
  <2> QED BY <1>0, <1>idle, <2>1, <2>2
          DEF Bookkeeping, Awaited, FinishedIsDeaf, Finished, AttemptsCounted
<1>7. ASSUME NEW c \in DOMAIN child, StepStart(c) \/ StepInterrupt(c) PROVE Bookkeeping'
  <2>1. /\ UNCHANGED <<actorVars, attempts, flowFinish, mailbox>>
        /\ DOMAIN child' = DOMAIN child
        /\ c \in Alive
    BY <1>7 DEF StepStart, StepInterrupt, StepVars, Alive
  <2>2. Alive' = Alive /\ Dead' = Dead
    BY <1>7, <2>1 DEF StepStart, StepInterrupt, Alive, Dead, TypeOK
  <2>3. ResultsOfTheDead'
    BY <1>0, <2>1, <2>2 DEF ResultsOfTheDead
  <2> QED BY <2>1, <2>2, <2>3, OutsideBookkeeping
<1>8. ASSUME NEW c \in DOMAIN child, NEW r \in Result,
             Send([type |-> "StepResult", from |-> c, result |-> r]),
             UNCHANGED <<actorVars, attempts, flowFinish>>,
             NEW state \in {"finished", "threw"}, child' = [child EXCEPT ![c] = state]
      PROVE  Bookkeeping'
  <2> DEFINE m == [type |-> "StepResult", from |-> c, result |-> r]
  <2>1. m \in Message
    BY DEF Message, TypeOK
  <2>2. DOMAIN child' = DOMAIN child /\ Alive' = Alive \ {c} /\ c \in Dead' /\ Dead \subseteq Dead'
    BY <1>8 DEF Alive, Dead, TypeOK
  <2>3. ResultsOfTheDead'
    BY <1>0, <1>8, <2>1, <2>2, AppendFromTheDead DEF Send
  <2> QED BY <1>8, <2>2, <2>3, OutsideBookkeeping
<1>9. ASSUME NEW c \in DOMAIN child, StepInterrupted(c) PROVE Bookkeeping'
  BY <1>8, <1>9 DEF StepInterrupted, StepVars, Result
<1>10. ASSUME NEW c \in DOMAIN child, NEW r \in {"ok", "failed", "throwable"}, StepFinish(c, r)
       PROVE  Bookkeeping'
  BY <1>8, <1>10 DEF StepFinish, StepVars, Result
<1>11. ASSUME Cancel \/ TimeOut \/ UnsubscribeOnce PROVE Bookkeeping'
  <2>1. UNCHANGED <<actorVars, child, attempts, flowFinish>>
    BY <1>11 DEF Cancel, TimeOut, UnsubscribeOnce, childVars
  <2>2. \/ UNCHANGED mailbox
        \/ mailbox' = Append(mailbox, [type |-> "Beat", signal |-> "Cancel"])
        \/ mailbox' = Append(mailbox, [type |-> "Beat", signal |-> "TimeOut"])
        \/ mailbox' = Append(mailbox, [type |-> "PoisonPill"])
    BY <1>11 DEF Cancel, TimeOut, UnsubscribeOnce, Send
  <2>3. /\ [type |-> "Beat", signal |-> "Cancel"] \in Message
        /\ [type |-> "Beat", signal |-> "TimeOut"] \in Message
        /\ [type |-> "PoisonPill"] \in Message
    BY DEF Message, Signal
  <2>4. ResultsOfTheDead'
    <3>1. UNCHANGED mailbox => ResultsOfTheDead'
      BY <1>0, <1>idle, <2>1 DEF ResultsOfTheDead
    <3> QED BY <1>0, <1>idle, <2>1, <2>2, <2>3, <3>1, AppendFromTheDead
  <2> QED BY <1>idle, <2>1, <2>4, OutsideBookkeeping
<1>12. ASSUME UNCHANGED vars PROVE Bookkeeping'
  <2>1. UNCHANGED <<actorVars, child, attempts, flowFinish, mailbox>>
    BY <1>12 DEF vars, childVars
  <2>2. ResultsOfTheDead'
    BY <1>0, <1>idle, <2>1 DEF ResultsOfTheDead
  <2> QED BY <1>idle, <2>1, <2>2, OutsideBookkeeping
<1> QED BY <1>1, <1>2, <1>3, <1>4, <1>5, <1>6, <1>7, <1>9, <1>10, <1>11, <1>12
        DEF Next, HandleMessage

\* The inductive invariant holds in every reachable state.
THEOREM BookkeepingCorrect == Spec => [](TypeOK /\ Bookkeeping)
<1>1. Init => TypeOK /\ Bookkeeping
  BY InitType, InitBookkeeping
<1>2. TypeOK /\ Bookkeeping /\ [Next]_vars => TypeOK' /\ Bookkeeping'
  BY NextType, NextBookkeeping
<1> QED BY <1>1, <1>2, PTL DEF Spec

\* Whatever steps, retries, signals and faults there are, the flow is reported finished only
\* when none of its step coordinators is at work.
THEOREM QuietAtFinishCorrect == Spec => []QuietAtFinish
<1>1. Bookkeeping => QuietAtFinish
  BY DEF Bookkeeping, Awaited, FinishedIsDeaf, QuietAtFinish
<1> QED BY <1>1, BookkeepingCorrect, PTL

\* A finished flow is never finished again, and nothing it or its steps still do reaches
\* the store.
THEOREM FinishIsFinalCorrect == Spec => FinishIsFinal
<1>1. ASSUME Bookkeeping, [Next]_vars, Finished PROVE UNCHANGED <<flowFinish, db>>
  <2>1. behaviour \in {"ignoreBeat", "stopped"} /\ Alive = {}
    BY <1>1 DEF Bookkeeping, Awaited, FinishedIsDeaf
  <2>2. CASE HandleMessage
    BY <2>1, <2>2 DEF HandleMessage, HandleStart, HandleBeat, HandleStepResult,
                      InterruptedStepResult, DropMessage, HandlePoisonPill
  <2>3. ASSUME NEW c \in DOMAIN child PROVE ~ StepStart(c) /\ ~ StepInterrupt(c) /\ ~ StepInterrupted(c)
    BY <2>1 DEF Alive, StepStart, StepInterrupt, StepInterrupted
  <2>4. ASSUME NEW c \in DOMAIN child, NEW r PROVE ~ StepFinish(c, r)
    BY <2>1 DEF Alive, StepFinish
  <2>5. CASE Cancel \/ TimeOut \/ UnsubscribeOnce
    BY <2>5 DEF Cancel, TimeOut, UnsubscribeOnce
  <2>6. CASE UNCHANGED vars
    BY <2>6 DEF vars
  <2> QED BY <1>1, <2>2, <2>3, <2>4, <2>5, <2>6 DEF Next
<1>2. Bookkeeping /\ [Next]_vars => [Finished => UNCHANGED <<flowFinish, db>>]_vars
  BY <1>1
<1> QED BY <1>2, BookkeepingCorrect, PTL DEF Spec, FinishIsFinal

\* From an interruption on no step coordinator is started, not even for a retry or a rescue,
\* and the signal that interrupted the flow stays the one it will report.
THEOREM NothingNewAfterInterruptCorrect == Spec => NothingNewAfterInterrupt
<1>1. ASSUME [Next]_vars, behaviour = "interrupted"
      PROVE  attempts' = attempts /\ finishSignal' = finishSignal
  <2>1. CASE InterruptedStepResult
    BY <2>1 DEF InterruptedStepResult, AttemptToFinish, childVars
  <2>2. CASE HandleMessage /\ ~ InterruptedStepResult
    BY <1>1, <2>2 DEF HandleMessage, HandleStart, HandleBeat, HandleStepResult,
                      DropMessage, HandlePoisonPill, actorVars, childVars
  <2>3. ASSUME NEW c, StepStart(c) \/ StepInterrupt(c) \/ StepInterrupted(c)
        PROVE  attempts' = attempts /\ finishSignal' = finishSignal
    BY <2>3 DEF StepStart, StepInterrupt, StepInterrupted, StepVars, actorVars
  <2>4. ASSUME NEW c, NEW r, StepFinish(c, r)
        PROVE  attempts' = attempts /\ finishSignal' = finishSignal
    BY <2>4 DEF StepFinish, StepVars, actorVars
  <2>5. CASE Cancel \/ TimeOut \/ UnsubscribeOnce
    BY <2>5 DEF Cancel, TimeOut, UnsubscribeOnce, actorVars, childVars
  <2>6. CASE UNCHANGED vars
    BY <2>6 DEF vars, actorVars, childVars
  <2> QED BY <1>1, <2>1, <2>2, <2>3, <2>4, <2>5, <2>6 DEF Next
<1>2. [Next]_vars => [behaviour = "interrupted" => /\ attempts' = attempts
                                                   /\ finishSignal' = finishSignal]_vars
  BY <1>1
<1> QED BY <1>2, PTL DEF Spec, NothingNewAfterInterrupt

-----------------------------------------------------------------------------
(* The order in which the steps run. *)

\* A result that waits in the mailbox.
IsResult(i) == i \in 1..Len(mailbox) /\ mailbox[i].type = "StepResult"

\* The coordinators the flow has yet to hear from.
Unheard == Alive \cup {mailbox[i].from : i \in {j \in 1..Len(mailbox) : IsResult(j)}}

\* A step has one of them at most, with one result at most.
OneUnheard ==
  /\ \A c, d \in Unheard : StepOf(c) = StepOf(d) => c = d
  /\ \A i, j \in 1..Len(mailbox) :
       IsResult(i) /\ IsResult(j) /\ mailbox[i].from = mailbox[j].from => i = j

Behind(s, finished) == \A t \in Steps : PhaseOf[t] \in PrecedingPhases[s] => t \in finished

\* It is neither yet to start nor finished, and what precedes it is.
UnheardInOrder ==
  /\ genesis.stepsToStart \cap genesis.finishedSteps = {}
  /\ \A c \in Unheard : StepOf(c) \in Steps =>
       /\ StepOf(c) \notin genesis.stepsToStart \cup genesis.finishedSteps
       /\ Behind(StepOf(c), genesis.finishedSteps)

\* The rows of steps agree with what was heard of them, and with what waits to be heard.
RowsAgree ==
  /\ \A s \in Steps \cap genesis.finishedSteps :
       db.steps[s] = "Succeed" \/ (s \in IgnoreFail /\ db.steps[s] = "Failed")
  /\ \A i \in 1..Len(mailbox) : IsResult(i) /\ StepOf(mailbox[i].from) \in Steps =>
       /\ mailbox[i].result = "ok" => db.steps[StepOf(mailbox[i].from)] = "Succeed"
       /\ mailbox[i].result = "failed" => db.steps[StepOf(mailbox[i].from)] = "Failed"

\* Start is handled once, before anything else has begun.
StartIsFirst ==
  /\ \A i, j \in 1..Len(mailbox) : mailbox[i].type = "Start" /\ mailbox[j].type = "Start" => i = j
  /\ \A i \in 1..Len(mailbox) : mailbox[i].type = "Start" =>
       DOMAIN child = {} /\ genesis.finishedSteps = {} /\ genesis.stepsToStart = Steps

\* Attempts and the retries that are left add up; rescue steps have a row once attempted.
AttemptsAddUp ==
  /\ \A s \in Steps : IF s \in genesis.stepsToStart THEN attempts[s] = 0
                      ELSE attempts[s] + genesis.retryMap[s] <= 1 + RetryCount[s]
  /\ \A r \in RescueSteps : attempts[r] <= 1 /\ (attempts[r] = 1 => db.steps[r] # "absent")

Order == OneUnheard /\ UnheardInOrder /\ RowsAgree /\ StartIsFirst /\ AttemptsAddUp

-----------------------------------------------------------------------------
(* The calls into GenesisFlowCoordinator. *)

\* What a call made for the result of the steps `heard`, or for Start, may answer: steps it
\* removes from those to start, or the heard one again; it changes no row of a finished step.
Lawful(o, heard) ==
  /\ genesis.finishedSteps \subseteq o.genesis.finishedSteps
  /\ o.genesis.finishedSteps \subseteq genesis.finishedSteps \cup heard
  /\ o.genesis.stepsToStart \subseteq genesis.stepsToStart
  /\ \A t \in o.start :
       /\ t \in genesis.stepsToStart \cup heard
       /\ t \notin o.genesis.stepsToStart \cup o.genesis.finishedSteps
       /\ t \in genesis.stepsToStart => Behind(t, o.genesis.finishedSteps)
  /\ \A t \in Steps : o.db.steps[t] # db.steps[t] =>
       t \in genesis.stepsToStart \cup heard /\ t \notin o.genesis.finishedSteps
  /\ \A t \in RescueSteps : o.db.steps[t] = db.steps[t]
  /\ \A t \in Steps \cap o.genesis.finishedSteps : t \notin genesis.finishedSteps =>
       db.steps[t] = "Succeed" \/ (t \in IgnoreFail /\ db.steps[t] = "Failed")
  /\ \A t \in Steps \ o.genesis.stepsToStart :
       IF t \in genesis.stepsToStart THEN o.genesis.retryMap[t] = RetryCount[t]
       ELSE o.genesis.retryMap[t] + (IF t \in o.start THEN 1 ELSE 0) <= genesis.retryMap[t]

LEMMA DetectReachableFacts ==
  ASSUME NEW g \in Genesis
  PROVE  /\ DetectReachable(g).finishedSteps = g.finishedSteps
         /\ DetectReachable(g).stepsToStart = g.stepsToStart \ Reachable(g)
         /\ \A t \in Steps : DetectReachable(g).retryMap[t] =
                               IF t \in Reachable(g) THEN RetryCount[t] ELSE g.retryMap[t]
         /\ Reachable(g) \subseteq g.stepsToStart
         /\ \A t \in Reachable(g) : Behind(t, g.finishedSteps)
<1>1. /\ DetectReachable(g).finishedSteps = g.finishedSteps
      /\ DetectReachable(g).stepsToStart = g.stepsToStart \ Reachable(g)
      /\ \A t \in Steps : DetectReachable(g).retryMap[t] =
                            IF t \in Reachable(g) THEN RetryCount[t] ELSE g.retryMap[t]
  BY DEF DetectReachable, Genesis
<1>2. Reachable(g) \subseteq g.stepsToStart
  BY DEF Reachable
<1>3. ASSUME NEW t \in Reachable(g), NEW u \in Steps, PhaseOf[u] \in PrecedingPhases[t]
      PROVE  u \in g.finishedSteps
  BY <1>3 DEF Reachable
<1> QED BY <1>1, <1>2, <1>3 DEF Behind

LEMMA CreateFacts ==
  ASSUME NEW g \in Genesis, NEW d \in DB, NEW o \in CreateReachableStepCoordinators(g, d)
  PROVE  /\ o.start \subseteq Reachable(g)
         /\ o.genesis = DetectReachable(g)
         /\ \A t \in AllSteps \ Reachable(g) : o.db.steps[t] = d.steps[t]
<1>1. CASE o = Right(Reachable(g), DetectReachable(g), d)
  BY <1>1 DEF Right
<1>2. CASE \E e \in Unprepared(d, Reachable(g)) : o = Left(DetectReachable(g), e, 1)
  <2>1. PICK e \in Unprepared(d, Reachable(g)) : o = Left(DetectReachable(g), e, 1)
    BY <1>2
  <2>2. \A t \in AllSteps \ Reachable(g) : e.steps[t] = d.steps[t]
    BY <2>1 DEF Unprepared, DB
  <2> QED BY <2>1, <2>2 DEF Left
<1> QED BY <1>1, <1>2 DEF CreateReachableStepCoordinators

\* A call that counts the heard steps and creates what is reachable then.
LEMMA CreateIsLawful ==
  ASSUME TypeOK, NEW heard \in SUBSET AllSteps, NEW g \in Genesis, NEW d \in DB,
         g.finishedSteps = genesis.finishedSteps \cup heard,
         g.stepsToStart = genesis.stepsToStart, g.retryMap = genesis.retryMap,
         g.stepsToStart \cap g.finishedSteps = {},
         \A t \in Steps : d.steps[t] # db.steps[t] => t \in genesis.stepsToStart,
         \A t \in RescueSteps : d.steps[t] = db.steps[t],
         \A t \in Steps \cap heard : db.steps[t] = "Succeed" \/ (t \in IgnoreFail /\ db.steps[t] = "Failed"),
         NEW o \in CreateReachableStepCoordinators(g, d)
  PROVE  Lawful(o, heard)
<1>1. /\ o.start \subseteq Reachable(g)
      /\ o.genesis = DetectReachable(g)
      /\ \A t \in AllSteps \ Reachable(g) : o.db.steps[t] = d.steps[t]
  BY CreateFacts
<1>2. /\ o.genesis.finishedSteps = genesis.finishedSteps \cup heard
      /\ o.genesis.stepsToStart = genesis.stepsToStart \ Reachable(g)
      /\ \A t \in Steps : o.genesis.retryMap[t] =
                            IF t \in Reachable(g) THEN RetryCount[t] ELSE genesis.retryMap[t]
      /\ Reachable(g) \subseteq genesis.stepsToStart
      /\ \A t \in Reachable(g) : Behind(t, o.genesis.finishedSteps)
  BY <1>1, DetectReachableFacts
<1>3. \A t \in Steps : o.db.steps[t] # db.steps[t] => t \in genesis.stepsToStart
  BY <1>1, <1>2 DEF AllSteps
<1>4. \A t \in RescueSteps : o.db.steps[t] = db.steps[t]
  <2>1. Reachable(g) \cap RescueSteps = {}
    BY ReachableType, FlowAssumption
  <2> QED BY <1>1, <2>1 DEF AllSteps
<1>5. genesis.stepsToStart \cap o.genesis.finishedSteps = {}
  BY <1>2
<1>6. \A t \in Steps : genesis.retryMap[t] \in Nat
  BY DEF TypeOK, Genesis
<1>7. ASSUME NEW t \in Steps \ o.genesis.stepsToStart
      PROVE  IF t \in genesis.stepsToStart THEN o.genesis.retryMap[t] = RetryCount[t]
             ELSE o.genesis.retryMap[t] + (IF t \in o.start THEN 1 ELSE 0) <= genesis.retryMap[t]
  <2>1. CASE t \in genesis.stepsToStart
    BY <1>2, <2>1
  <2>2. CASE t \notin genesis.stepsToStart
    <3>1. t \notin o.start /\ o.genesis.retryMap[t] = genesis.retryMap[t]
      BY <1>1, <1>2, <2>2
    <3> QED BY <1>6, <2>2, <3>1
  <2> QED BY <2>1, <2>2
<1> QED BY <1>1, <1>2, <1>3, <1>4, <1>5, <1>7 DEF Lawful

\* A call that fails, or fails before it has created anything.
LEMMA FailureIsLawful ==
  ASSUME TypeOK, UnheardInOrder, NEW heard, NEW o, o.start = {},
         o.genesis.finishedSteps = genesis.finishedSteps,
         o.genesis.stepsToStart = genesis.stepsToStart,
         o.genesis.retryMap = genesis.retryMap,
         \A t \in Steps : o.db.steps[t] # db.steps[t] => t \in genesis.stepsToStart,
         \A t \in RescueSteps : o.db.steps[t] = db.steps[t]
  PROVE  Lawful(o, heard)
<1>1. \A t \in Steps : genesis.retryMap[t] \in Nat
  BY DEF TypeOK, Genesis
<1>2. ASSUME NEW t \in Steps
      PROVE  o.genesis.retryMap[t] + (IF t \in o.start THEN 1 ELSE 0) <= genesis.retryMap[t]
  BY <1>1
<1>3. genesis.stepsToStart \cap genesis.finishedSteps = {}
  BY DEF UnheardInOrder
<1> QED BY <1>2, <1>3 DEF Lawful

\* onFlowStart, before anything has begun.
LEMMA OnFlowStartIsLawful ==
  ASSUME TypeOK, UnheardInOrder, genesis.finishedSteps = {}, genesis.stepsToStart = Steps,
         NEW o \in OnFlowStart(genesis, db)
  PROVE  Lawful(o, {})
<1> DEFINE started == [db EXCEPT !.workflow = "Executing", !.env = "Busy"]
           loaded  == [genesis EXCEPT !.loaded = TRUE]
<1>1. genesis \in Genesis /\ db \in DB
  BY DEF TypeOK
<1>2. loaded \in Genesis /\ started \in DB
  BY <1>1 DEF Genesis, DB, WorkflowStatus, EnvStatus
<1>3. /\ loaded.finishedSteps = genesis.finishedSteps /\ loaded.stepsToStart = genesis.stepsToStart
      /\ loaded.retryMap = genesis.retryMap
  BY <1>1 DEF Genesis
<1>4. ASSUME NEW p \in SUBSET Steps
      PROVE  /\ PersistSteps(started, p) \in DB
             /\ \A t \in RescueSteps : PersistSteps(started, p).steps[t] = db.steps[t]
  <2>1. PersistSteps(started, p) \in DB
    BY <1>2, PersistStepsType
  <2>2. \A t \in AllSteps : PersistSteps(started, p).steps[t] = IF t \in p THEN "Requested" ELSE db.steps[t]
    BY <1>1 DEF PersistSteps, DB
  <2>3. p \cap RescueSteps = {}
    BY FlowAssumption
  <2> QED BY <2>1, <2>2, <2>3 DEF AllSteps
<1> HIDE DEF started, loaded
<1>5. CASE o \in CreateReachableStepCoordinators(loaded, PersistSteps(started, Steps))
  BY <1>2, <1>3, <1>4, <1>5, CreateIsLawful
<1>6. CASE o = Left(genesis, db, 1)
  BY <1>6, FailureIsLawful DEF Left
<1>7. CASE \E p \in SUBSET Steps : o = Left(loaded, PersistSteps(started, p), 1)
  <2>1. PICK p \in SUBSET Steps : o = Left(loaded, PersistSteps(started, p), 1)
    BY <1>7
  <2>2. o.start = {} /\ o.genesis = loaded /\ o.db = PersistSteps(started, p)
    BY <2>1 DEF Left
  <2> QED BY <1>3, <1>4, <2>2, FailureIsLawful
<1> QED BY <1>5, <1>6, <1>7 DEF OnFlowStart, started, loaded

\* onStepFinish: of a result that agrees with its row.
LEMMA OnStepFinishIsLawful ==
  ASSUME TypeOK, UnheardInOrder, NEW s \in AllSteps, NEW r \in Result,
         s \notin genesis.stepsToStart, s \in Steps => s \notin genesis.finishedSteps,
         s \in Steps /\ r = "ok" => db.steps[s] = "Succeed",
         s \in Steps /\ r = "failed" => db.steps[s] = "Failed",
         NEW o \in OnStepFinish(s, r, genesis, db)
  PROVE  Lawful(o, {s})
<1>1. genesis \in Genesis /\ db \in DB
  BY DEF TypeOK
<1>2. CASE o \in {Left(genesis, db, 0), Left(genesis, db, 1)}
  BY <1>2, FailureIsLawful DEF Left
<1>3. CASE /\ r = "failed" /\ s \in Steps /\ genesis.retryMap[s] > 0
           /\ o \in RestartStep(s, genesis, db)
  <2> DEFINE spent == [genesis EXCEPT !.retryMap[s] = @ - 1]
  <2>1. /\ o.genesis = spent /\ o.start \subseteq {s}
        /\ \A t \in AllSteps \ {s} : o.db.steps[t] = db.steps[t]
    BY <1>1, <1>3 DEF RestartStep, Right, DB
  <2>2. /\ spent.finishedSteps = genesis.finishedSteps /\ spent.stepsToStart = genesis.stepsToStart
        /\ spent.retryMap[s] = genesis.retryMap[s] - 1
        /\ \A t \in Steps \ {s} : spent.retryMap[t] = genesis.retryMap[t]
    BY <1>1, <1>3 DEF Genesis
  <2> HIDE DEF spent
  <2>3. \A t \in Steps : genesis.retryMap[t] \in Nat
    BY <1>1 DEF Genesis
  <2>4. \A t \in Steps \ genesis.stepsToStart :
          spent.retryMap[t] + (IF t \in o.start THEN 1 ELSE 0) <= genesis.retryMap[t]
    <3>1. spent.retryMap[s] + (IF s \in o.start THEN 1 ELSE 0) <= genesis.retryMap[s]
      BY <1>3, <2>2, <2>3
    <3>2. ASSUME NEW t \in Steps \ {s}
          PROVE  spent.retryMap[t] + (IF t \in o.start THEN 1 ELSE 0) <= genesis.retryMap[t]
      BY <2>1, <2>2, <2>3
    <3> QED BY <3>1, <3>2
  <2>5. /\ \A t \in RescueSteps : o.db.steps[t] = db.steps[t]
        /\ \A t \in Steps : o.db.steps[t] # db.steps[t] => t = s
    BY <1>3, <2>1, FlowAssumption DEF AllSteps
  <2>6. s \in Steps /\ s \notin genesis.stepsToStart /\ s \notin genesis.finishedSteps
    BY <1>3
  <2> QED BY <2>1, <2>2, <2>4, <2>5, <2>6 DEF Lawful
<1>4. CASE /\ r \notin {"throwable", "interrupt"} /\ (r = "failed" => s \in IgnoreFail)
           /\ o \in CountStep(s, r, genesis, db)
  <2> DEFINE g == [genesis EXCEPT !.finishedSteps = @ \cup {s}]
             d == [db EXCEPT !.stepsFinished = @ + 1,
                             !.workflow = IF r = "failed" THEN "Warning" ELSE @]
  <2>1. o \in CreateReachableStepCoordinators(g, d)
    BY <1>4 DEF CountStep
  <2>2. /\ g \in Genesis /\ g.finishedSteps = genesis.finishedSteps \cup {s}
        /\ g.stepsToStart = genesis.stepsToStart /\ g.retryMap = genesis.retryMap
    BY <1>1 DEF Genesis
  <2>3. d \in DB /\ d.steps = db.steps
    <3>1. ASSUME NEW n \in Nat, NEW w \in WorkflowStatus
          PROVE  /\ [db EXCEPT !.stepsFinished = n, !.workflow = w] \in DB
                 /\ [db EXCEPT !.stepsFinished = n, !.workflow = w].steps = db.steps
      BY <1>1, Zenon DEF DB
    <3>2. db.stepsFinished + 1 \in Nat
      BY <1>1 DEF DB
    <3>3. (IF r = "failed" THEN "Warning" ELSE db.workflow) \in WorkflowStatus
      BY <1>1 DEF DB, WorkflowStatus
    <3> QED BY <3>1, <3>2, <3>3
  <2> HIDE DEF g, d
  <2>4. g.stepsToStart \cap g.finishedSteps = {}
    BY <2>2 DEF UnheardInOrder
  <2>5. \A t \in Steps \cap {s} : db.steps[t] = "Succeed" \/ (t \in IgnoreFail /\ db.steps[t] = "Failed")
    BY <1>4 DEF Result
  <2> QED BY <2>1, <2>2, <2>3, <2>4, <2>5, CreateIsLawful
<1> QED BY <1>2, <1>3, <1>4 DEF OnStepFinish, Result

-----------------------------------------------------------------------------
(* Messages. *)

LEMMA UnheardOf ==
  ASSUME NEW c
  PROVE  c \in Unheard <=> c \in Alive \/ \E i \in 1..Len(mailbox) : IsResult(i) /\ mailbox[i].from = c
BY DEF Unheard

LEMMA UnheardType ==
  ASSUME TypeOK, ResultsOfTheDead
  PROVE  Unheard \subseteq DOMAIN child
BY DEF Unheard, ResultsOfTheDead, IsResult, Dead, Alive

\* A message that was read is no longer there; what waits behind it was there.
LEMMA TailOfMailbox ==
  ASSUME TypeOK, mailbox # <<>>, mailbox' = Tail(mailbox)
  PROVE  /\ Len(mailbox) \in Nat \ {0} /\ Head(mailbox) = mailbox[1]
         /\ \A i \in 1..Len(mailbox') : i + 1 \in 2..Len(mailbox) /\ mailbox'[i] = mailbox[i + 1]
         /\ \A i \in 1..Len(mailbox') : IsResult(i)' <=> IsResult(i + 1)
<1>1. mailbox \in Seq(Message)
  BY DEF TypeOK
<1>2. Len(mailbox) \in Nat \ {0} /\ Head(mailbox) = mailbox[1]
  BY <1>1
<1>3. /\ Len(mailbox') = Len(mailbox) - 1
      /\ \A i \in 1..Len(mailbox') : mailbox'[i] = mailbox[i + 1]
  BY <1>1
<1>4. \A i \in 1..Len(mailbox') : i \in Nat /\ i + 1 \in 2..Len(mailbox) /\ i + 1 \in 1..Len(mailbox)
  BY <1>2, <1>3
<1> QED BY <1>2, <1>3, <1>4 DEF IsResult

\* Who is unheard after a message was read and coordinators may have been started.
LEMMA UnheardAfter ==
  ASSUME TypeOK, ResultsOfTheDead, OneUnheard, mailbox # <<>>, mailbox' = Tail(mailbox),
         NEW new, Alive' \subseteq Alive \cup new, NEW c \in Unheard'
  PROVE  c \in new \/ (c \in Unheard /\ (IsResult(1) => c # Head(mailbox).from))
<1>1. /\ Len(mailbox) \in Nat \ {0} /\ Head(mailbox) = mailbox[1]
      /\ \A i \in 1..Len(mailbox') : i + 1 \in 2..Len(mailbox) /\ mailbox'[i] = mailbox[i + 1]
      /\ \A i \in 1..Len(mailbox') : IsResult(i)' <=> IsResult(i + 1)
  BY TailOfMailbox
<1>2. c \in Alive' \/ \E i \in 1..Len(mailbox') : IsResult(i)' /\ mailbox'[i].from = c
  BY DEF Unheard
<1>3. CASE c \in Alive
  <2>1. IsResult(1) => Head(mailbox).from \in Dead
    BY <1>1 DEF IsResult, ResultsOfTheDead
  <2> QED BY <1>3, <2>1, UnheardOf DEF Dead
<1>4. CASE \E i \in 1..Len(mailbox') : IsResult(i)' /\ mailbox'[i].from = c
  <2>1. PICK i \in 1..Len(mailbox') : IsResult(i)' /\ mailbox'[i].from = c
    BY <1>4
  <2>2. PICK j \in 2..Len(mailbox) : j = i + 1
    BY <1>1, <2>1
  <2>3. IsResult(j) /\ mailbox[j].from = c /\ j \in 1..Len(mailbox) /\ 1 \in 1..Len(mailbox) /\ j # 1
    BY <1>1, <2>1, <2>2
  <2>4. c \in Unheard
    BY <2>3, UnheardOf
  <2>5. IsResult(1) => c # Head(mailbox).from
    BY <1>1, <2>3 DEF OneUnheard
  <2> QED BY <2>4, <2>5
<1> QED BY <1>2, <1>3, <1>4

-----------------------------------------------------------------------------
\* A handler keeps the order: it reads a message, a call answers lawfully, and coordinators
\* are started for what the call answered or for rescue steps that were not attempted yet.
LEMMA HandlerKeepsOrder ==
  ASSUME TypeOK, Bookkeeping, Order,
         mailbox # <<>>, mailbox' = Tail(mailbox), Head(mailbox).type \in {"Start", "StepResult"},
         NEW heard, heard = IF IsResult(1) THEN {StepOf(Head(mailbox).from)} ELSE {},
         NEW o \in Outcome, Lawful(o, heard), genesis' = o.genesis,
         NEW started \in SUBSET AllSteps, started \cap Steps \subseteq o.start,
         Alive' \subseteq Alive \cup NewCoordinators(started),
         attempts' = [s \in AllSteps |-> IF s \in started THEN attempts[s] + 1 ELSE attempts[s]],
         \A t \in Steps : db'.steps[t] = o.db.steps[t],
         \A t \in RescueSteps : /\ t \in started => attempts[t] = 0 /\ db'.steps[t] # "absent"
                                /\ db.steps[t] # "absent" => db'.steps[t] # "absent"
  PROVE  Order'
<1> USE DEF Order
<1>types. /\ attempts \in [AllSteps -> Nat] /\ genesis \in Genesis
          /\ DOMAIN child \subseteq Coordinator
          /\ genesis.stepsToStart \subseteq Steps /\ genesis.finishedSteps \subseteq AllSteps
          /\ genesis.retryMap \in [Steps -> Nat] /\ o.genesis.retryMap \in [Steps -> Nat]
          /\ RetryCount \in [Steps -> Nat] /\ Steps \cap RescueSteps = {}
  BY FlowAssumption DEF TypeOK, Genesis, Outcome
<1>mail. /\ Len(mailbox) \in Nat \ {0} /\ Head(mailbox) = mailbox[1]
         /\ \A i \in 1..Len(mailbox') : i + 1 \in 2..Len(mailbox) /\ mailbox'[i] = mailbox[i + 1]
         /\ \A i \in 1..Len(mailbox') : IsResult(i)' <=> IsResult(i + 1)
  BY TailOfMailbox
<1>results. ResultsOfTheDead /\ AttemptsCounted
  BY DEF Bookkeeping
<1>law. /\ genesis.finishedSteps \subseteq genesis'.finishedSteps
        /\ genesis'.finishedSteps \subseteq genesis.finishedSteps \cup heard
        /\ genesis'.stepsToStart \subseteq genesis.stepsToStart
  BY DEF Lawful
<1>head. ASSUME NEW t \in heard
         PROVE  /\ IsResult(1) /\ Head(mailbox).from \in Unheard /\ t = StepOf(Head(mailbox).from)
                /\ t \in AllSteps
                /\ t \in Steps => /\ t \notin genesis.stepsToStart \cup genesis.finishedSteps
                                  /\ Behind(t, genesis.finishedSteps)
  <2>1. IsResult(1) /\ t = StepOf(Head(mailbox).from)
    BY <1>head
  <2>2. Head(mailbox).from \in Unheard
    BY <2>1, <1>mail, UnheardOf
  <2>3. Head(mailbox).from \in DOMAIN child
    BY <2>2, <1>results, UnheardType
  <2>4. t \in AllSteps
    BY <2>1, <2>3, <1>types DEF StepOf, Coordinator
  <2> QED BY <2>1, <2>2, <2>4 DEF UnheardInOrder
\* The coordinators that stay unheard are of none of the steps this handler touches.
<1>old. ASSUME NEW c \in Unheard, IsResult(1) => c # Head(mailbox).from
        PROVE  /\ StepOf(c) \in AllSteps /\ StepOf(c) \notin heard
               /\ StepOf(c) \in Steps => StepOf(c) \notin genesis.stepsToStart
               /\ StepOf(c) \notin started
  <2>1. c \in DOMAIN child /\ StepOf(c) \in AllSteps /\ c[2] \in Nat \ {0}
    BY <1>results, <1>types, UnheardType DEF Coordinator, StepOf
  <2>2. StepOf(c) \notin heard
    BY <1>head, <1>old DEF OneUnheard
  <2>3. StepOf(c) \in Steps => StepOf(c) \notin genesis.stepsToStart
    BY DEF UnheardInOrder
  <2>4. StepOf(c) \in Steps => StepOf(c) \notin started
    BY <2>2, <2>3 DEF Lawful
  <2>5. StepOf(c) \in RescueSteps => StepOf(c) \notin started
    <3>1. c[2] <= attempts[StepOf(c)] /\ attempts[StepOf(c)] \in Nat
      BY <2>1, <1>results, <1>types DEF AttemptsCounted
    <3>2. attempts[StepOf(c)] # 0
      BY <2>1, <3>1
    <3> QED BY <3>2
  <2> QED BY <2>1, <2>2, <2>3, <2>4, <2>5 DEF AllSteps
<1>new. ASSUME NEW c \in NewCoordinators(started)
        PROVE  StepOf(c) \in started /\ c = <<StepOf(c), attempts[StepOf(c)] + 1>>
  BY DEF NewCoordinators, StepOf
<1>after. \A c \in Unheard' : \/ c \in NewCoordinators(started)
                              \/ c \in Unheard /\ (IsResult(1) => c # Head(mailbox).from)
  BY <1>results, UnheardAfter
<1>1. OneUnheard'
  <2>1. ASSUME NEW c \in Unheard', NEW d \in Unheard', StepOf(c) = StepOf(d)
        PROVE  c = d
    BY <2>1, <1>after, <1>old, <1>new DEF OneUnheard
  <2>2. ASSUME NEW i \in 1..Len(mailbox'), NEW j \in 1..Len(mailbox'),
               IsResult(i)', IsResult(j)', mailbox'[i].from = mailbox'[j].from
        PROVE  i = j
    <3>1. i + 1 \in 1..Len(mailbox) /\ j + 1 \in 1..Len(mailbox)
      BY <1>mail
    <3>2. IsResult(i + 1) /\ IsResult(j + 1) /\ mailbox[i + 1].from = mailbox[j + 1].from
      BY <1>mail, <2>2
    <3>3. i + 1 = j + 1
      BY <3>1, <3>2 DEF OneUnheard
    <3> QED BY <3>3
  <2> QED BY <2>1, <2>2 DEF OneUnheard
<1>2. UnheardInOrder'
  <2>1. genesis'.stepsToStart \cap genesis'.finishedSteps = {}
    BY <1>law, <1>head, <1>types DEF UnheardInOrder
  <2>2. ASSUME NEW c \in NewCoordinators(started), StepOf(c) \in Steps
        PROVE  /\ StepOf(c) \notin genesis'.stepsToStart \cup genesis'.finishedSteps
               /\ Behind(StepOf(c), genesis'.finishedSteps)
    <3>1. StepOf(c) \in o.start
      BY <1>new, <2>2
    <3>2. /\ StepOf(c) \in genesis.stepsToStart \cup heard
          /\ StepOf(c) \notin genesis'.stepsToStart \cup genesis'.finishedSteps
          /\ StepOf(c) \in genesis.stepsToStart => Behind(StepOf(c), genesis'.finishedSteps)
      BY <3>1 DEF Lawful
    <3>3. StepOf(c) \in heard => Behind(StepOf(c), genesis'.finishedSteps)
      BY <1>head, <1>law, <2>2 DEF Behind
    <3> QED BY <3>2, <3>3
  <2>3. ASSUME NEW c \in Unheard, IsResult(1) => c # Head(mailbox).from, StepOf(c) \in Steps
        PROVE  /\ StepOf(c) \notin genesis'.stepsToStart \cup genesis'.finishedSteps
               /\ Behind(StepOf(c), genesis'.finishedSteps)
    <3>1. StepOf(c) \notin heard
      BY <1>old, <2>3
    <3>2. StepOf(c) \notin genesis.stepsToStart \cup genesis.finishedSteps
      BY <2>3 DEF UnheardInOrder
    <3>3. Behind(StepOf(c), genesis.finishedSteps)
      BY <2>3 DEF UnheardInOrder
    <3> QED BY <3>1, <3>2, <3>3, <1>law DEF Behind
  <2> QED BY <2>1, <2>2, <2>3, <1>after DEF UnheardInOrder
<1>3. RowsAgree'
  <2>1. ASSUME NEW s \in Steps \cap genesis'.finishedSteps
        PROVE  db'.steps[s] = "Succeed" \/ (s \in IgnoreFail /\ db'.steps[s] = "Failed")
    <3>1. db'.steps[s] = db.steps[s]
      BY DEF Lawful
    <3>2. s \in genesis.finishedSteps =>
            db.steps[s] = "Succeed" \/ (s \in IgnoreFail /\ db.steps[s] = "Failed")
      BY DEF RowsAgree
    <3>3. s \notin genesis.finishedSteps =>
            db.steps[s] = "Succeed" \/ (s \in IgnoreFail /\ db.steps[s] = "Failed")
      BY DEF Lawful
    <3> QED BY <3>1, <3>2, <3>3
  <2>2. ASSUME NEW i \in 1..Len(mailbox'), IsResult(i)', StepOf(mailbox'[i].from) \in Steps
        PROVE  /\ mailbox'[i].result = "ok" => db'.steps[StepOf(mailbox'[i].from)] = "Succeed"
               /\ mailbox'[i].result = "failed" => db'.steps[StepOf(mailbox'[i].from)] = "Failed"
    <3>1. PICK j \in 2..Len(mailbox) : mailbox'[i] = mailbox[j] /\ IsResult(j)
      BY <1>mail, <2>2
    <3>2. j \in 1..Len(mailbox) /\ j # 1 /\ 1 \in 1..Len(mailbox)
      BY <1>mail
    <3>3. mailbox[j].from \in Unheard
      BY <3>1, <3>2, UnheardOf
    <3>4. IsResult(1) => mailbox[j].from # Head(mailbox).from
      BY <3>1, <3>2, <1>mail DEF OneUnheard
    <3>5. /\ StepOf(mailbox[j].from) \notin heard
          /\ StepOf(mailbox[j].from) \notin genesis.stepsToStart
      BY <3>1, <3>3, <3>4, <1>old, <2>2
    <3>6. db'.steps[StepOf(mailbox[j].from)] = db.steps[StepOf(mailbox[j].from)]
      BY <2>2, <3>1, <3>5 DEF Lawful
    <3> QED BY <2>2, <3>1, <3>2, <3>6 DEF RowsAgree
  <2> QED BY <2>1, <2>2 DEF RowsAgree
<1>4. StartIsFirst'
  <2>1. \A i \in 1..Len(mailbox') : mailbox'[i].type # "Start"
    <3>1. ASSUME NEW j \in 2..Len(mailbox), mailbox[j].type = "Start" PROVE FALSE
      <4>1. j \in 1..Len(mailbox) /\ 1 \in 1..Len(mailbox) /\ j # 1
        BY <1>mail
      <4>2. DOMAIN child = {}
        BY <3>1, <4>1 DEF StartIsFirst
      <4>3. CASE Head(mailbox).type = "Start"
        BY <3>1, <4>1, <4>3, <1>mail DEF StartIsFirst
      <4>4. CASE Head(mailbox).type = "StepResult"
        BY <4>1, <4>2, <4>4, <1>mail, <1>results DEF ResultsOfTheDead, Dead
      <4> QED BY <4>3, <4>4
    <3> QED BY <1>mail, <3>1
  <2> QED BY <2>1 DEF StartIsFirst
<1>5. AttemptsAddUp'
  <2>1. ASSUME NEW s \in Steps
        PROVE  IF s \in genesis'.stepsToStart THEN attempts'[s] = 0
               ELSE attempts'[s] + genesis'.retryMap[s] <= 1 + RetryCount[s]
    <3>1. s \in AllSteps /\ attempts[s] \in Nat /\ genesis.retryMap[s] \in Nat
          /\ genesis'.retryMap[s] \in Nat /\ RetryCount[s] \in Nat
      BY <1>types DEF AllSteps
    <3>2. attempts'[s] = IF s \in started THEN attempts[s] + 1 ELSE attempts[s]
      BY <3>1
    <3>3. s \in started => s \in o.start
      OBVIOUS
    <3>4. CASE s \in genesis'.stepsToStart
      <4>1. s \notin started
        BY <3>3, <3>4 DEF Lawful
      <4>2. s \in genesis.stepsToStart
        BY <3>4, <1>law
      <4>3. attempts[s] = 0
        BY <4>2 DEF AttemptsAddUp
      <4> QED BY <3>2, <3>4, <4>1, <4>3
    <3>5. CASE s \in genesis.stepsToStart /\ s \notin genesis'.stepsToStart
      <4>1. genesis'.retryMap[s] = RetryCount[s]
        BY <3>5 DEF Lawful
      <4>2. attempts[s] = 0
        BY <3>5 DEF AttemptsAddUp
      <4> QED BY <3>1, <3>2, <3>5, <4>1, <4>2
    <3>6. CASE s \notin genesis.stepsToStart
      <4>1. s \notin genesis'.stepsToStart
        BY <3>6, <1>law
      <4>2. genesis'.retryMap[s] + (IF s \in o.start THEN 1 ELSE 0) <= genesis.retryMap[s]
        BY <3>6, <4>1 DEF Lawful
      <4>3. attempts[s] + genesis.retryMap[s] <= 1 + RetryCount[s]
        BY <3>6 DEF AttemptsAddUp
      <4>4. PICK spent \in {0, 1} : spent = IF s \in o.start THEN 1 ELSE 0
        OBVIOUS
      <4>5. attempts'[s] <= attempts[s] + spent /\ attempts'[s] \in Nat
        BY <3>1, <3>2, <3>3, <4>4
      <4>6. genesis'.retryMap[s] + spent <= genesis.retryMap[s]
        BY <4>2, <4>4
      <4>7. attempts'[s] + genesis'.retryMap[s] <= 1 + RetryCount[s]
        <5>1. PICK a \in Nat, b \in Nat, x \in Nat, y \in Nat :
                /\ a = attempts[s] /\ b = attempts'[s] /\ x = genesis.retryMap[s] /\ y = genesis'.retryMap[s]
          BY <3>1, <4>5, Zenon
        <5>2. b <= a + spent /\ y + spent <= x /\ a + x <= 1 + RetryCount[s]
          BY <4>3, <4>5, <4>6, <5>1, Zenon
        <5>3. b + y <= 1 + RetryCount[s]
          BY <3>1, <5>2
        <5> QED BY <5>1, <5>3, Zenon
      <4> QED BY <4>1, <4>7, Zenon
    <3> QED BY <3>4, <3>5, <3>6
  <2>2. ASSUME NEW r \in RescueSteps
        PROVE  attempts'[r] <= 1 /\ (attempts'[r] = 1 => db'.steps[r] # "absent")
    <3>1. r \in AllSteps /\ attempts[r] \in Nat
      BY <1>types DEF AllSteps
    <3>2. attempts'[r] = IF r \in started THEN attempts[r] + 1 ELSE attempts[r]
      BY <3>1
    <3>3. attempts[r] <= 1 /\ (attempts[r] = 1 => db.steps[r] # "absent")
      BY DEF AttemptsAddUp
    <3> QED BY <3>1, <3>2, <3>3
  <2> QED BY <2>1, <2>2 DEF AttemptsAddUp
<1> QED BY <1>1, <1>2, <1>3, <1>4, <1>5

-----------------------------------------------------------------------------
(* The actor follows the instruction. *)

\* Finishing writes no row of a step.
LEMMA AttemptToFinishRows ==
  ASSUME NEW signal, NEW next, NEW regular, NEW final, NEW g, NEW d \in DB, NEW cost,
         AttemptToFinish(signal, next, regular, final, g, d, cost)
  PROVE  genesis' = g /\ db'.steps = d.steps
<1>1. genesis' = g
  BY DEF AttemptToFinish
<1>2. CASE regular \cup final = {}
  <2>1. PICK out \in OnFlowFinish(signal, g, d) : db' = out.db
    BY <1>2 DEF AttemptToFinish
  <2>2. [d EXCEPT !.workflow = FinalStatus(signal, d), !.env = FinalEnv(signal)].steps = d.steps
    BY DEF DB
  <2>3. out.db = d \/ out.db = [d EXCEPT !.workflow = FinalStatus(signal, d), !.env = FinalEnv(signal)]
    BY <2>1 DEF OnFlowFinish
  <2> QED BY <1>1, <2>1, <2>2, <2>3
<1>3. CASE regular \cup final # {}
  BY <1>1, <1>3 DEF AttemptToFinish
<1> QED BY <1>2, <1>3

LEMMA StartedAreAlive ==
  ASSUME TypeOK, NEW steps, StartCoordinators(steps)
  PROVE  Alive' \subseteq Alive \cup NewCoordinators(steps)
<1>1. DOMAIN child' = DOMAIN child \cup NewCoordinators(steps)
      /\ \A c \in DOMAIN child' : c \notin NewCoordinators(steps) => c \in DOMAIN child /\ child'[c] = child[c]
  BY DEF StartCoordinators
<1> QED BY <1>1 DEF Alive

LEMMA InstructionKeepsOrder ==
  ASSUME TypeOK, Bookkeeping, Order,
         mailbox # <<>>, mailbox' = Tail(mailbox), Head(mailbox).type \in {"Start", "StepResult"},
         NEW heard, heard = IF IsResult(1) THEN {StepOf(Head(mailbox).from)} ELSE {},
         NEW o \in Outcome, Lawful(o, heard),
         NEW regular, NEW final, ProcessFlowInstruction(o, regular, final)
  PROVE  Order'
<1>1. /\ o.start \subseteq Steps /\ o.db \in DB /\ o.db.steps \in [AllSteps -> StepStatus]
      /\ \A t \in RescueSteps : o.db.steps[t] = db.steps[t]
      /\ Steps \cap RescueSteps = {}
  BY FlowAssumption DEF Outcome, DB, Lawful
\* Nothing is started: the flow is interrupted, or its actor restarted.
<1>2. ASSUME UNCHANGED attempts, Alive' \subseteq Alive, genesis' = o.genesis,
             NEW d \in DB, db'.steps = d.steps,
             \A t \in Steps : d.steps[t] = o.db.steps[t],
             \A t \in RescueSteps : db.steps[t] # "absent" => d.steps[t] # "absent"
      PROVE  Order'
  <2>1. attempts' = [s \in AllSteps |-> IF s \in {} THEN attempts[s] + 1 ELSE attempts[s]]
    <3>1. attempts \in [AllSteps -> Nat]
      BY DEF TypeOK
    <3> QED BY <1>2, <3>1
  <2>2. {} \in SUBSET AllSteps /\ {} \cap Steps \subseteq o.start /\ Alive' \subseteq Alive \cup NewCoordinators({})
    BY <1>2
  <2> QED BY <1>2, <2>1, <2>2, HandlerKeepsOrder
<1>3. CASE o.signal = "none"
  <2>1. /\ StartCoordinators(o.start)
        /\ AttemptToFinish(finishSignal, "receive", regular \cup NewCoordinators(o.start), final,
                           o.genesis, o.db, o.cost)
    BY <1>3 DEF ProcessFlowInstruction
  <2>2. genesis' = o.genesis /\ db'.steps = o.db.steps
    BY <1>1, <2>1, AttemptToFinishRows
  <2>3. Alive' \subseteq Alive \cup NewCoordinators(o.start)
    BY <2>1, StartedAreAlive
  <2>4. attempts' = [s \in AllSteps |-> IF s \in o.start THEN attempts[s] + 1 ELSE attempts[s]]
    BY <2>1 DEF StartCoordinators
  <2>5. o.start \in SUBSET AllSteps /\ o.start \cap Steps \subseteq o.start
    BY <1>1 DEF AllSteps
  <2>6. \A t \in RescueSteps : /\ t \in o.start => attempts[t] = 0 /\ db'.steps[t] # "absent"
                               /\ db.steps[t] # "absent" => db'.steps[t] # "absent"
    BY <1>1, <2>2
  <2> QED BY <2>2, <2>3, <2>4, <2>5, <2>6, HandlerKeepsOrder
<1>4. CASE o.signal = "Fail" /\ RescueSteps = {}
  <2>1. /\ AttemptToFinish("Fail", "interrupted", regular, final, o.genesis, o.db, o.cost)
        /\ UNCHANGED <<child, attempts>>
    BY <1>4 DEF ProcessFlowInstruction, InterruptFlow
  <2>2. genesis' = o.genesis /\ db'.steps = o.db.steps
    BY <1>1, <2>1, AttemptToFinishRows
  <2>3. Alive' \subseteq Alive
    BY <2>1 DEF Alive
  <2> QED BY <1>1, <1>2, <2>1, <2>2, <2>3
<1>5. ASSUME NEW d \in DB, NEW cost, RestartActor(o.genesis, d, cost),
             \A t \in Steps : d.steps[t] = o.db.steps[t],
             \A t \in RescueSteps : db.steps[t] # "absent" => d.steps[t] # "absent"
      PROVE  Order'
  <2>1. Alive' \subseteq Alive
    BY <1>5 DEF RestartActor, Alive
  <2>2. genesis' = o.genesis /\ db' = d /\ UNCHANGED attempts
    BY <1>5 DEF RestartActor
  <2> QED BY <1>2, <1>5, <2>1, <2>2
<1>6. CASE o.signal = "Fail" /\ RescueFlow(o, regular, final)
  <2>persist. ASSUME NEW p \in SUBSET RescueSteps
              PROVE  /\ PersistSteps(o.db, p) \in DB
                     /\ \A t \in AllSteps : PersistSteps(o.db, p).steps[t] =
                                              IF t \in p THEN "Requested" ELSE o.db.steps[t]
    <3>1. PersistSteps(o.db, p) \in DB
      BY <1>1, PersistStepsType
    <3>2. \A t \in AllSteps : PersistSteps(o.db, p).steps[t] = IF t \in p THEN "Requested" ELSE o.db.steps[t]
      BY <1>1 DEF PersistSteps, DB
    <3> QED BY <3>1, <3>2
  <2>1. CASE /\ ~ RescuePersisted(o.db) /\ StartCoordinators(RescueSteps)
             /\ InterruptFlow("Fail", regular, final \cup NewCoordinators(RescueSteps),
                              o.genesis, PersistSteps(o.db, RescueSteps), o.cost)
    <3>1. genesis' = o.genesis /\ db'.steps = PersistSteps(o.db, RescueSteps).steps
      BY <2>1, <2>persist, AttemptToFinishRows DEF InterruptFlow
    <3>2. Alive' \subseteq Alive \cup NewCoordinators(RescueSteps)
      BY <2>1, StartedAreAlive
    <3>3. attempts' = [s \in AllSteps |-> IF s \in RescueSteps THEN attempts[s] + 1 ELSE attempts[s]]
      BY <2>1 DEF StartCoordinators
    <3>4. \A t \in Steps : db'.steps[t] = o.db.steps[t]
      BY <1>1, <2>persist, <3>1 DEF AllSteps
    <3>5. \A t \in RescueSteps : db'.steps[t] = "Requested"
      BY <2>persist, <3>1 DEF AllSteps
    <3>6. ASSUME NEW t \in RescueSteps PROVE attempts[t] = 0
      <4>1. db.steps[t] = "absent"
        BY <1>1, <2>1 DEF RescuePersisted
      <4>2. attempts[t] \in Nat /\ attempts[t] <= 1 /\ attempts[t] # 1
        BY <4>1 DEF Order, AttemptsAddUp, TypeOK, AllSteps
      <4> QED BY <4>2
    <3>7. RescueSteps \in SUBSET AllSteps /\ RescueSteps \cap Steps \subseteq o.start
      BY <1>1 DEF AllSteps
    <3> QED BY <3>1, <3>2, <3>3, <3>4, <3>5, <3>6, <3>7, HandlerKeepsOrder
  <2>2. CASE /\ InterruptFlow("Fail", regular, final, o.genesis,
                  [o.db EXCEPT !.steps = [s \in AllSteps |-> IF s \in RescueSteps THEN "Canceled" ELSE @[s]]],
                  o.cost + 1)
             /\ UNCHANGED <<child, attempts>>
    <3> DEFINE d == [o.db EXCEPT !.steps = [s \in AllSteps |-> IF s \in RescueSteps THEN "Canceled" ELSE @[s]]]
    <3>1. d \in DB /\ \A t \in AllSteps : d.steps[t] = IF t \in RescueSteps THEN "Canceled" ELSE o.db.steps[t]
      BY <1>1 DEF DB, StepStatus
    <3>2. AttemptToFinish("Fail", "interrupted", regular, final, o.genesis, d, o.cost + 1)
      BY <2>2 DEF InterruptFlow
    <3> HIDE DEF d
    <3>3. genesis' = o.genesis /\ db'.steps = d.steps
      BY <3>1, <3>2, AttemptToFinishRows
    <3>4. Alive' \subseteq Alive
      BY <2>2 DEF Alive
    <3>5. /\ \A t \in Steps : d.steps[t] = o.db.steps[t]
          /\ \A t \in RescueSteps : d.steps[t] = "Canceled"
      BY <1>1, <3>1 DEF AllSteps
    <3> QED BY <1>2, <2>2, <3>1, <3>3, <3>4, <3>5
  <2>3. CASE \E p \in SUBSET RescueSteps : RestartActor(o.genesis, PersistSteps(o.db, p), o.cost + 1)
    <3>1. PICK p \in SUBSET RescueSteps : RestartActor(o.genesis, PersistSteps(o.db, p), o.cost + 1)
      BY <2>3
    <3>2. /\ \A t \in Steps : PersistSteps(o.db, p).steps[t] = o.db.steps[t]
          /\ \A t \in RescueSteps : db.steps[t] # "absent" => PersistSteps(o.db, p).steps[t] # "absent"
      BY <1>1, <2>persist DEF AllSteps
    <3> QED BY <1>5, <2>persist, <3>1, <3>2
  <2>4. CASE RestartActor(o.genesis, o.db, o.cost)
    BY <1>1, <1>5, <2>4
  <2> QED BY <1>6, <2>1, <2>2, <2>3, <2>4 DEF RescueFlow
<1> QED BY <1>3, <1>4, <1>6 DEF ProcessFlowInstruction

-----------------------------------------------------------------------------
(* The steps that ask nothing of GenesisFlowCoordinator. *)

LEMMA UnheardShrinks ==
  ASSUME Order, UNCHANGED <<genesis, attempts>>, Unheard' \subseteq Unheard,
         \A t \in RescueSteps : db.steps[t] # "absent" => db'.steps[t] # "absent"
  PROVE  /\ \A c, d \in Unheard' : StepOf(c) = StepOf(d) => c = d
         /\ UnheardInOrder' /\ AttemptsAddUp'
<1>1. \A c, d \in Unheard' : StepOf(c) = StepOf(d) => c = d
  BY DEF Order, OneUnheard
<1>2. UnheardInOrder'
  BY DEF Order, UnheardInOrder, Behind
<1>3. AttemptsAddUp'
  BY DEF Order, AttemptsAddUp
<1> QED BY <1>1, <1>2, <1>3

\* A message is dropped, or handled without a call.
LEMMA ReadKeepsOrder ==
  ASSUME TypeOK, Bookkeeping, Order, mailbox # <<>>, mailbox' = Tail(mailbox),
         UNCHANGED <<genesis, attempts, child>>, db'.steps = db.steps
  PROVE  Order'
<1>1. /\ Len(mailbox) \in Nat \ {0} /\ Head(mailbox) = mailbox[1]
      /\ \A i \in 1..Len(mailbox') : i + 1 \in 2..Len(mailbox) /\ mailbox'[i] = mailbox[i + 1]
      /\ \A i \in 1..Len(mailbox') : IsResult(i)' <=> IsResult(i + 1)
  BY TailOfMailbox
<1>2. \A i \in 1..Len(mailbox') : i + 1 \in 1..Len(mailbox)
  BY <1>1
<1>3. Alive' \subseteq Alive \cup {}
  BY DEF Alive
<1>4. Unheard' \subseteq Unheard
  BY <1>3, UnheardAfter DEF Bookkeeping, Order
<1>5. /\ \A c, d \in Unheard' : StepOf(c) = StepOf(d) => c = d
      /\ UnheardInOrder' /\ AttemptsAddUp'
  BY <1>4, UnheardShrinks
<1>6. ASSUME NEW i \in 1..Len(mailbox'), NEW j \in 1..Len(mailbox'),
             IsResult(i)', IsResult(j)', mailbox'[i].from = mailbox'[j].from
      PROVE  i = j
  <2>1. i + 1 = j + 1
    BY <1>1, <1>2, <1>6 DEF Order, OneUnheard
  <2> QED BY <2>1
<1>7. OneUnheard'
  BY <1>5, <1>6 DEF OneUnheard
<1>8. RowsAgree'
  <2>1. \A s \in Steps \cap genesis'.finishedSteps :
          db'.steps[s] = "Succeed" \/ (s \in IgnoreFail /\ db'.steps[s] = "Failed")
    BY DEF Order, RowsAgree
  <2>2. ASSUME NEW i \in 1..Len(mailbox'), IsResult(i)', StepOf(mailbox'[i].from) \in Steps
        PROVE  /\ mailbox'[i].result = "ok" => db'.steps[StepOf(mailbox'[i].from)] = "Succeed"
               /\ mailbox'[i].result = "failed" => db'.steps[StepOf(mailbox'[i].from)] = "Failed"
    <3>1. i + 1 \in 1..Len(mailbox) /\ IsResult(i + 1) /\ mailbox'[i] = mailbox[i + 1]
      BY <1>1, <1>2, <2>2
    <3> QED BY <2>2, <3>1 DEF Order, RowsAgree
  <2> QED BY <2>1, <2>2 DEF RowsAgree
<1>9. StartIsFirst'
  <2>1. ASSUME NEW i \in 1..Len(mailbox'), mailbox'[i].type = "Start"
        PROVE  /\ DOMAIN child = {} /\ genesis.finishedSteps = {} /\ genesis.stepsToStart = Steps
               /\ \A j \in 1..Len(mailbox') : mailbox'[j].type = "Start" => i = j
    <3>1. i + 1 \in 1..Len(mailbox) /\ mailbox[i + 1].type = "Start"
      BY <1>1, <1>2, <2>1
    <3>2. ASSUME NEW j \in 1..Len(mailbox'), mailbox'[j].type = "Start" PROVE i = j
      <4>1. i + 1 = j + 1
        BY <1>1, <1>2, <3>1, <3>2 DEF Order, StartIsFirst
      <4> QED BY <4>1
    <3> QED BY <3>1, <3>2 DEF Order, StartIsFirst
  <2> QED BY <2>1 DEF StartIsFirst
<1> QED BY <1>5, <1>7, <1>8, <1>9 DEF Order

\* What is behind an appended message stays where it is.
LEMMA AppendToMailbox ==
  ASSUME TypeOK, NEW m \in Message, mailbox' = Append(mailbox, m)
  PROVE  /\ Len(mailbox) \in Nat /\ Len(mailbox') = Len(mailbox) + 1 /\ mailbox'[Len(mailbox')] = m
         /\ \A i \in 1..Len(mailbox') : i = Len(mailbox') \/ i \in 1..Len(mailbox)
         /\ \A i \in 1..Len(mailbox) : i # Len(mailbox') /\ mailbox'[i] = mailbox[i] /\ (IsResult(i)' <=> IsResult(i))
<1>1. mailbox \in Seq(Message)
  BY DEF TypeOK
<1>2. /\ Len(mailbox) \in Nat /\ Len(mailbox') = Len(mailbox) + 1 /\ mailbox'[Len(mailbox')] = m
      /\ \A i \in 1..Len(mailbox) : mailbox'[i] = mailbox[i]
  BY <1>1
<1>3. /\ \A i \in 1..Len(mailbox') : i = Len(mailbox') \/ i \in 1..Len(mailbox)
      /\ \A i \in 1..Len(mailbox) : i # Len(mailbox') /\ i \in 1..Len(mailbox')
  BY <1>2
<1> QED BY <1>2, <1>3 DEF IsResult

\* A signal or a pill is sent to the flow.
LEMMA SignalKeepsOrder ==
  ASSUME TypeOK, Order, NEW m \in Message, m.type \notin {"Start", "StepResult"},
         mailbox' = Append(mailbox, m), UNCHANGED <<genesis, attempts, child, db>>
  PROVE  Order'
<1>1. /\ mailbox'[Len(mailbox')] = m
      /\ \A i \in 1..Len(mailbox') : i = Len(mailbox') \/ i \in 1..Len(mailbox)
      /\ \A i \in 1..Len(mailbox) : mailbox'[i] = mailbox[i] /\ (IsResult(i)' <=> IsResult(i))
  BY AppendToMailbox
<1>2. \A i \in 1..Len(mailbox') : IsResult(i)' \/ mailbox'[i].type = "Start" => i \in 1..Len(mailbox)
  BY <1>1 DEF IsResult
<1>3. Unheard' \subseteq Unheard
  BY <1>1, <1>2 DEF Unheard, Alive, IsResult
<1>4. /\ \A c, d \in Unheard' : StepOf(c) = StepOf(d) => c = d
      /\ UnheardInOrder' /\ AttemptsAddUp'
  BY <1>3, UnheardShrinks
<1>5. OneUnheard'
  BY <1>1, <1>2, <1>4 DEF Order, OneUnheard
<1>6. RowsAgree'
  BY <1>1, <1>2 DEF Order, RowsAgree
<1>7. StartIsFirst'
  BY <1>1, <1>2 DEF Order, StartIsFirst
<1> QED BY <1>4, <1>5, <1>6, <1>7 DEF Order

\* A step writes its own row, which no result and no finished step is about.
LEMMA OwnRow ==
  ASSUME TypeOK, Bookkeeping, Order, NEW c \in Alive, NEW status \in StepStatus \ {"absent"},
         \/ UNCHANGED db
         \/ db' = [db EXCEPT !.steps[StepOf(c)] = status]
  PROVE  /\ \A s \in Steps \cap genesis.finishedSteps : db'.steps[s] = db.steps[s]
         /\ \A i \in 1..Len(mailbox) : IsResult(i) /\ StepOf(mailbox[i].from) \in Steps =>
              db'.steps[StepOf(mailbox[i].from)] = db.steps[StepOf(mailbox[i].from)]
         /\ \A t \in RescueSteps : db.steps[t] # "absent" => db'.steps[t] # "absent"
         /\ \A i \in 1..Len(mailbox) : IsResult(i) => mailbox[i].from # c
<1>1. db \in DB /\ db.steps \in [AllSteps -> StepStatus]
  BY DEF TypeOK, DB
<1>2. \A t \in AllSteps : t # StepOf(c) => db'.steps[t] = db.steps[t]
  BY <1>1 DEF DB
<1>3. \A t \in AllSteps : db.steps[t] # "absent" => db'.steps[t] # "absent"
  BY <1>1 DEF DB
<1>4. c \in Unheard
  BY DEF Unheard
<1>5. StepOf(c) \in Steps => StepOf(c) \notin genesis.finishedSteps
  BY <1>4 DEF Order, UnheardInOrder
<1>6. ASSUME NEW i \in 1..Len(mailbox), IsResult(i)
      PROVE  mailbox[i].from # c /\ StepOf(mailbox[i].from) # StepOf(c)
  <2>1. mailbox[i].from \in Unheard
    BY <1>6 DEF Unheard
  <2>2. mailbox[i].from # c
    BY <1>6 DEF Bookkeeping, ResultsOfTheDead, IsResult, Dead
  <2> QED BY <1>4, <2>1, <2>2 DEF Order, OneUnheard
<1> QED BY <1>2, <1>3, <1>5, <1>6 DEF AllSteps

\* A step begins or is interrupted.
LEMMA StepKeepsOrder ==
  ASSUME TypeOK, Bookkeeping, Order, NEW c \in Alive, NEW status \in StepStatus \ {"absent"},
         db' = [db EXCEPT !.steps[StepOf(c)] = status],
         Alive' \subseteq Alive, DOMAIN child' = DOMAIN child, UNCHANGED <<mailbox, genesis, attempts>>
  PROVE  Order'
<1>1. Unheard' \subseteq Unheard
  BY DEF Unheard, IsResult
<1>2. \A i : IsResult(i)' <=> IsResult(i)
  BY DEF IsResult
<1>3. /\ \A s \in Steps \cap genesis.finishedSteps : db'.steps[s] = db.steps[s]
      /\ \A i \in 1..Len(mailbox) : IsResult(i) /\ StepOf(mailbox[i].from) \in Steps =>
           db'.steps[StepOf(mailbox[i].from)] = db.steps[StepOf(mailbox[i].from)]
      /\ \A t \in RescueSteps : db.steps[t] # "absent" => db'.steps[t] # "absent"
  BY OwnRow
<1>4. /\ \A d, e \in Unheard' : StepOf(d) = StepOf(e) => d = e
      /\ UnheardInOrder' /\ AttemptsAddUp'
  BY <1>1, <1>3, UnheardShrinks
<1>5. OneUnheard'
  BY <1>2, <1>4 DEF Order, OneUnheard
<1>6. RowsAgree'
  BY <1>2, <1>3 DEF Order, RowsAgree
<1>7. StartIsFirst'
  BY DEF Order, StartIsFirst
<1> QED BY <1>4, <1>5, <1>6, <1>7 DEF Order

\* A step reports, and its row says the same.
LEMMA ReportKeepsOrder ==
  ASSUME TypeOK, Bookkeeping, Order, NEW c \in Alive, NEW r \in Result,
         NEW status \in StepStatus \ {"absent"},
         \/ UNCHANGED db
         \/ db' = [db EXCEPT !.steps[StepOf(c)] = status],
         r = "ok" => db'.steps[StepOf(c)] = "Succeed",
         r = "failed" => db'.steps[StepOf(c)] = "Failed",
         mailbox' = Append(mailbox, [type |-> "StepResult", from |-> c, result |-> r]),
         Alive' = Alive \ {c}, DOMAIN child' = DOMAIN child, UNCHANGED <<genesis, attempts>>
  PROVE  Order'
<1> DEFINE m == [type |-> "StepResult", from |-> c, result |-> r]
<1>0. m \in Message /\ c \in DOMAIN child
  BY DEF Message, TypeOK, Alive
<1>1. /\ Len(mailbox') \in Nat /\ mailbox'[Len(mailbox')] = m
      /\ \A i \in 1..Len(mailbox') : i = Len(mailbox') \/ i \in 1..Len(mailbox)
      /\ \A i \in 1..Len(mailbox) : mailbox'[i] = mailbox[i] /\ (IsResult(i)' <=> IsResult(i))
  BY <1>0, AppendToMailbox
<1>2. /\ \A s \in Steps \cap genesis.finishedSteps : db'.steps[s] = db.steps[s]
      /\ \A i \in 1..Len(mailbox) : IsResult(i) /\ StepOf(mailbox[i].from) \in Steps =>
           db'.steps[StepOf(mailbox[i].from)] = db.steps[StepOf(mailbox[i].from)]
      /\ \A t \in RescueSteps : db.steps[t] # "absent" => db'.steps[t] # "absent"
      /\ \A i \in 1..Len(mailbox) : IsResult(i) => mailbox[i].from # c
  BY OwnRow
<1>3. m.type = "StepResult" /\ m.from = c /\ m.result = r
  OBVIOUS
<1> HIDE DEF m
<1>4. Unheard' \subseteq Unheard
  BY <1>1, <1>3 DEF Unheard
<1>5. /\ \A d, e \in Unheard' : StepOf(d) = StepOf(e) => d = e
      /\ UnheardInOrder' /\ AttemptsAddUp'
  BY <1>2, <1>4, UnheardShrinks
<1>6. OneUnheard'
  <2>1. ASSUME NEW i \in 1..Len(mailbox'), NEW j \in 1..Len(mailbox'),
               IsResult(i)', IsResult(j)', mailbox'[i].from = mailbox'[j].from
        PROVE  i = j
    BY <1>1, <1>2, <1>3, <2>1 DEF Order, OneUnheard
  <2> QED BY <1>5, <2>1 DEF OneUnheard
<1>7. RowsAgree'
  <2>1. ASSUME NEW i \in 1..Len(mailbox'), IsResult(i)', StepOf(mailbox'[i].from) \in Steps
        PROVE  /\ mailbox'[i].result = "ok" => db'.steps[StepOf(mailbox'[i].from)] = "Succeed"
               /\ mailbox'[i].result = "failed" => db'.steps[StepOf(mailbox'[i].from)] = "Failed"
    <3>1. CASE i = Len(mailbox')
      BY <1>1, <1>3, <3>1
    <3>2. CASE i \in 1..Len(mailbox)
      BY <1>1, <1>2, <2>1, <3>2 DEF Order, RowsAgree
    <3> QED BY <1>1, <3>1, <3>2
  <2> QED BY <1>2, <2>1 DEF Order, RowsAgree
<1>8. StartIsFirst'
  <2>1. \A i \in 1..Len(mailbox') : mailbox'[i].type # "Start"
    BY <1>0, <1>1, <1>3 DEF Order, StartIsFirst
  <2> QED BY <2>1 DEF StartIsFirst
<1> QED BY <1>5, <1>6, <1>7, <1>8 DEF Order

-----------------------------------------------------------------------------
\* onStepFinish is asked about the result at the head of the mailbox.
LEMMA ResultIsLawful ==
  ASSUME TypeOK, Bookkeeping, Order, Receive("StepResult"),
         NEW o \in OnStepFinish(StepOf(Head(mailbox).from), Head(mailbox).result, genesis, db)
  PROVE  /\ o \in Outcome /\ Lawful(o, {StepOf(Head(mailbox).from)})
         /\ IsResult(1) /\ mailbox # <<>> /\ mailbox' = Tail(mailbox)
         /\ Head(mailbox).type = "StepResult"
<1>1. /\ StepOf(Head(mailbox).from) \in AllSteps /\ Head(mailbox).result \in Result
      /\ mailbox # <<>> /\ mailbox' = Tail(mailbox) /\ Head(mailbox).type = "StepResult"
  BY ReceiveType DEF Receive
<1>2. Head(mailbox) = mailbox[1] /\ 1 \in 1..Len(mailbox)
  <2>1. mailbox \in Seq(Message) /\ mailbox # <<>>
    BY <1>1 DEF TypeOK
  <2> QED BY <2>1
<1>3. IsResult(1)
  BY <1>1, <1>2 DEF IsResult
<1>4. Head(mailbox).from \in Unheard
  BY <1>2, <1>3, UnheardOf
<1>5. StepOf(Head(mailbox).from) \in Steps =>
        StepOf(Head(mailbox).from) \notin genesis.stepsToStart \cup genesis.finishedSteps
  BY <1>4 DEF Order, UnheardInOrder
<1>6. StepOf(Head(mailbox).from) \notin genesis.stepsToStart
  BY <1>5 DEF TypeOK, Genesis
<1>7. StepOf(Head(mailbox).from) \in Steps =>
        /\ Head(mailbox).result = "ok" => db.steps[StepOf(Head(mailbox).from)] = "Succeed"
        /\ Head(mailbox).result = "failed" => db.steps[StepOf(Head(mailbox).from)] = "Failed"
  BY <1>2, <1>3 DEF Order, RowsAgree
<1>8. o \in Outcome
  BY <1>1, OnStepFinishType DEF TypeOK
<1>9. Lawful(o, {StepOf(Head(mailbox).from)})
  <2>1. UnheardInOrder
    BY DEF Order
  <2> QED BY <1>1, <1>5, <1>6, <1>7, <2>1, OnStepFinishIsLawful
<1> QED BY <1>1, <1>3, <1>8, <1>9

LEMMA InitOrder == Init => Order
<1> SUFFICES ASSUME Init PROVE Order
  OBVIOUS
<1>1. Alive = {} /\ DOMAIN child = {}
  BY DEF Init, Alive
<1>2. \A i : ~ IsResult(i)
  BY DEF Init, IsResult
<1>3. Unheard = {}
  BY <1>1, <1>2 DEF Unheard
<1>4. OneUnheard
  BY <1>2, <1>3 DEF OneUnheard
<1>5. UnheardInOrder
  BY <1>3 DEF Init, UnheardInOrder
<1>6. RowsAgree
  BY <1>2 DEF Init, RowsAgree
<1>7. StartIsFirst
  BY <1>1 DEF Init, StartIsFirst
<1>8. AttemptsAddUp
  BY FlowAssumption DEF Init, AttemptsAddUp, AllSteps
<1> QED BY <1>4, <1>5, <1>6, <1>7, <1>8 DEF Order

LEMMA NextOrder == TypeOK /\ Bookkeeping /\ Order /\ [Next]_vars => Order'
<1> SUFFICES ASSUME TypeOK, Bookkeeping, Order, [Next]_vars PROVE Order'
  OBVIOUS
<1>1. ASSUME HandleStart PROVE Order'
  <2>1. mailbox # <<>> /\ mailbox' = Tail(mailbox) /\ Head(mailbox).type = "Start"
    BY <1>1 DEF HandleStart, Receive
  <2>2. Head(mailbox) = mailbox[1] /\ 1 \in 1..Len(mailbox)
    <3>1. mailbox \in Seq(Message) /\ mailbox # <<>>
      BY <2>1 DEF TypeOK
    <3> QED BY <3>1
  <2>3. genesis.finishedSteps = {} /\ genesis.stepsToStart = Steps /\ UnheardInOrder
    BY <2>1, <2>2 DEF Order, StartIsFirst
  <2>4. PICK o \in OnFlowStart(genesis, db) :
          ProcessFlowInstruction(o, stepCoordinators, finalCoordinators)
    BY <1>1 DEF HandleStart
  <2>5. o \in Outcome
    BY OnFlowStartType DEF TypeOK
  <2>6. Lawful(o, {})
    BY <2>3, OnFlowStartIsLawful
  <2>7. {} = IF IsResult(1) THEN {StepOf(Head(mailbox).from)} ELSE {}
    BY <2>1, <2>2 DEF IsResult
  <2> QED BY <2>1, <2>4, <2>5, <2>6, <2>7, InstructionKeepsOrder
<1>2. ASSUME HandleBeat PROVE Order'
  <2>1. /\ AttemptToFinish(Head(mailbox).signal, "interrupted", stepCoordinators, finalCoordinators,
                           genesis, db, 0)
        /\ UNCHANGED <<child, attempts>> /\ mailbox # <<>> /\ mailbox' = Tail(mailbox)
    BY <1>2 DEF HandleBeat, InterruptFlow, Receive
  <2>2. db \in DB
    BY DEF TypeOK
  <2>3. genesis' = genesis /\ db'.steps = db.steps
    BY <2>1, <2>2, AttemptToFinishRows
  <2> QED BY <2>1, <2>3, ReadKeepsOrder
<1>3. ASSUME HandleStepResult PROVE Order'
  <2>1. Receive("StepResult")
    BY <1>3 DEF HandleStepResult
  <2>2. PICK o \in OnStepFinish(StepOf(Head(mailbox).from), Head(mailbox).result, genesis, db) :
          ProcessFlowInstruction(o, stepCoordinators \ {Head(mailbox).from},
                                    finalCoordinators \ {Head(mailbox).from})
    BY <1>3 DEF HandleStepResult
  <2>3. /\ o \in Outcome /\ Lawful(o, {StepOf(Head(mailbox).from)})
        /\ IsResult(1) /\ mailbox # <<>> /\ mailbox' = Tail(mailbox)
        /\ Head(mailbox).type = "StepResult"
    BY <2>1, ResultIsLawful
  <2> QED BY <2>2, <2>3, InstructionKeepsOrder
<1>4. ASSUME InterruptedStepResult PROVE Order'
  <2>1. Receive("StepResult") /\ UNCHANGED <<child, attempts>>
    BY <1>4 DEF InterruptedStepResult, childVars
  <2>2. PICK o \in OnStepFinish(StepOf(Head(mailbox).from), Head(mailbox).result, genesis, db) :
          AttemptToFinish(finishSignal, "interrupted", stepCoordinators \ {Head(mailbox).from},
                          finalCoordinators \ {Head(mailbox).from}, o.genesis, o.db, o.cost)
    BY <1>4 DEF InterruptedStepResult
  <2>3. /\ o \in Outcome /\ Lawful(o, {StepOf(Head(mailbox).from)})
        /\ IsResult(1) /\ mailbox # <<>> /\ mailbox' = Tail(mailbox)
        /\ Head(mailbox).type = "StepResult"
    BY <2>1, ResultIsLawful
  <2>4. genesis' = o.genesis /\ db'.steps = o.db.steps
    BY <2>2, <2>3, AttemptToFinishRows DEF Outcome
  <2>5. Alive' \subseteq Alive \cup NewCoordinators({})
    BY <2>1 DEF Alive
  <2>6. attempts' = [s \in AllSteps |-> IF s \in {} THEN attempts[s] + 1 ELSE attempts[s]]
    <3>1. attempts \in [AllSteps -> Nat]
      BY DEF TypeOK
    <3> QED BY <2>1, <3>1
  <2>7. \A t \in RescueSteps : db'.steps[t] = db.steps[t]
    BY <2>3, <2>4 DEF Lawful
  <2>8. {} \in SUBSET AllSteps /\ {} \cap Steps \subseteq o.start
    OBVIOUS
  <2> QED BY <2>3, <2>4, <2>5, <2>6, <2>7, <2>8, HandlerKeepsOrder
<1>5. ASSUME DropMessage \/ HandlePoisonPill PROVE Order'
  <2>1. /\ mailbox # <<>> /\ mailbox' = Tail(mailbox)
        /\ UNCHANGED <<genesis, attempts, child, db>>
    BY <1>5 DEF DropMessage, HandlePoisonPill, Receive, childVars
  <2> QED BY <2>1, ReadKeepsOrder
<1>6. ASSUME NEW c \in DOMAIN child, StepStart(c) \/ StepInterrupt(c) PROVE Order'
  <2>1. /\ c \in Alive /\ DOMAIN child' = DOMAIN child
        /\ UNCHANGED <<mailbox, genesis, attempts>>
    BY <1>6 DEF StepStart, StepInterrupt, StepVars, Alive
  <2>2. Alive' \subseteq Alive
    BY <1>6 DEF StepStart, StepInterrupt, Alive, TypeOK
  <2>3. \E status \in {"Executing", "Canceled"} : db' = [db EXCEPT !.steps[StepOf(c)] = status]
    BY <1>6 DEF StepStart, StepInterrupt
  <2>4. {"Executing", "Canceled"} \subseteq StepStatus \ {"absent"}
    BY DEF StepStatus
  <2> QED BY <2>1, <2>2, <2>3, <2>4, StepKeepsOrder
<1>7. ASSUME NEW c \in DOMAIN child, StepInterrupted(c) PROVE Order'
  <2>1. /\ c \in Alive /\ DOMAIN child' = DOMAIN child /\ Alive' = Alive \ {c}
        /\ UNCHANGED <<genesis, attempts, db>>
        /\ mailbox' = Append(mailbox, [type |-> "StepResult", from |-> c, result |-> "interrupt"])
    BY <1>7 DEF StepInterrupted, StepVars, Send, Alive, TypeOK
  <2>2. "interrupt" \in Result /\ "Canceled" \in StepStatus \ {"absent"}
    BY DEF Result, StepStatus
  <2> QED BY <2>1, <2>2, ReportKeepsOrder
<1>8. ASSUME NEW c \in DOMAIN child, NEW r \in {"ok", "failed", "throwable"}, StepFinish(c, r)
      PROVE  Order'
  <2>1. /\ c \in Alive /\ DOMAIN child' = DOMAIN child /\ Alive' = Alive \ {c}
        /\ UNCHANGED <<genesis, attempts>>
        /\ mailbox' = Append(mailbox, [type |-> "StepResult", from |-> c, result |-> r])
    BY <1>8 DEF StepFinish, StepVars, Send, Alive, TypeOK
  <2>2. r \in Result /\ {"Succeed", "Failed"} \subseteq StepStatus \ {"absent"}
    BY DEF Result, StepStatus
  <2>3. db \in DB /\ StepOf(c) \in AllSteps
    BY StepRowType DEF TypeOK, StepStatus
  <2>4. CASE r = "throwable"
    <3>1. UNCHANGED db
      BY <1>8, <2>4 DEF StepFinish
    <3> QED BY <2>1, <2>2, <2>4, <3>1, ReportKeepsOrder
  <2>5. CASE r = "ok"
    <3>1. db' = [db EXCEPT !.steps[StepOf(c)] = "Succeed"]
      BY <1>8, <2>5 DEF StepFinish
    <3>2. db'.steps[StepOf(c)] = "Succeed"
      BY <2>3, <3>1 DEF DB
    <3> QED BY <2>1, <2>2, <2>5, <3>1, <3>2, ReportKeepsOrder
  <2>6. CASE r = "failed"
    <3>1. db' = [db EXCEPT !.steps[StepOf(c)] = "Failed"]
      BY <1>8, <2>6 DEF StepFinish
    <3>2. db'.steps[StepOf(c)] = "Failed"
      BY <2>3, <3>1 DEF DB
    <3> QED BY <2>1, <2>2, <2>6, <3>1, <3>2, ReportKeepsOrder
  <2> QED BY <2>4, <2>5, <2>6
<1>9. ASSUME UNCHANGED <<mailbox, genesis, attempts, child, db>> PROVE Order'
  <2>1. Alive' = Alive /\ Unheard' = Unheard /\ \A i : IsResult(i)' <=> IsResult(i)
    BY <1>9 DEF Alive, Unheard, IsResult
  <2> QED BY <1>9, <2>1 DEF Order, OneUnheard, UnheardInOrder, Behind, RowsAgree, StartIsFirst, AttemptsAddUp
<1>10. ASSUME Cancel \/ TimeOut \/ UnsubscribeOnce PROVE Order'
  <2>1. UNCHANGED <<genesis, attempts, child, db>>
    BY <1>10 DEF Cancel, TimeOut, UnsubscribeOnce, childVars
  <2>2. UNCHANGED mailbox \/ \E m \in Message : /\ m.type \notin {"Start", "StepResult"}
                                                /\ mailbox' = Append(mailbox, m)
    <3>1. /\ [type |-> "Beat", signal |-> "Cancel"] \in Message
          /\ [type |-> "Beat", signal |-> "TimeOut"] \in Message
          /\ [type |-> "PoisonPill"] \in Message
      BY DEF Message, Signal
    <3> QED BY <1>10, <3>1 DEF Cancel, TimeOut, UnsubscribeOnce, Send
  <2> QED BY <1>9, <2>1, <2>2, SignalKeepsOrder
<1>11. ASSUME UNCHANGED vars PROVE Order'
  BY <1>9, <1>11 DEF vars, childVars
<1> QED BY <1>1, <1>2, <1>3, <1>4, <1>5, <1>6, <1>7, <1>8, <1>10, <1>11
        DEF Next, HandleMessage

\* A step is waited for once, what precedes it is behind the flow, the rows of steps stay
\* what was heard of them, and attempts and retries add up, in every reachable state.
THEOREM OrderCorrect == Spec => [](TypeOK /\ Bookkeeping /\ Order)
<1>1. Init => TypeOK /\ Bookkeeping /\ Order
  BY InitType, InitBookkeeping, InitOrder
<1>2. TypeOK /\ Bookkeeping /\ Order /\ [Next]_vars => TypeOK' /\ Bookkeeping' /\ Order'
  BY NextType, NextBookkeeping, NextOrder
<1> QED BY <1>1, <1>2, PTL DEF Spec

\* "Each step is executed after all previous was completed", for every set of phases and
\* whatever fails: the steps that precede one at work are over and have no coordinator left.
THEOREM PhaseOrderCorrect == Spec => []PhaseOrder
<1>1. ASSUME Order PROVE PhaseOrder
  <2>1. ASSUME NEW c \in Alive, NEW t \in Steps, StepOf(c) \in Steps,
               PhaseOf[t] \in PrecedingPhases[StepOf(c)]
        PROVE  Over(t)
    <3>1. Alive \subseteq Unheard
      BY DEF Unheard
    <3>2. t \in genesis.finishedSteps
      BY <1>1, <2>1, <3>1 DEF Order, UnheardInOrder, Behind
    <3>3. \A d \in Alive : StepOf(d) # t
      BY <1>1, <3>1, <3>2 DEF Order, UnheardInOrder
    <3> QED BY <1>1, <3>2, <3>3 DEF Order, RowsAgree, Over
  <2> QED BY <2>1 DEF PhaseOrder
<1>2. Order => PhaseOrder
  BY <1>1
<1> QED BY <1>2, OrderCorrect, PTL

\* A step, regular or rescue, never has two coordinators at work, and it is never attempted
\* more often than its retries allow, however results, signals and faults interleave.
THEOREM OneCoordinatorPerStepCorrect == Spec => []OneCoordinatorPerStep
<1>1. ASSUME TypeOK, Order PROVE OneCoordinatorPerStep
  <2>1. \A c, d \in Alive : StepOf(c) = StepOf(d) => c = d
    BY <1>1 DEF Order, OneUnheard, Unheard
  <2>2. ASSUME NEW s \in Steps PROVE attempts[s] <= 1 + RetryCount[s]
    <3>1. attempts[s] \in Nat /\ genesis.retryMap[s] \in Nat /\ RetryCount[s] \in Nat
      BY <1>1, FlowAssumption DEF TypeOK, Genesis, AllSteps
    <3>2. attempts[s] = 0 \/ attempts[s] + genesis.retryMap[s] <= 1 + RetryCount[s]
      BY <1>1 DEF Order, AttemptsAddUp
    <3> QED BY <3>1, <3>2
  <2>3. ASSUME NEW s \in AllSteps, s \notin Steps PROVE attempts[s] <= 1 + 0
    BY <1>1, <2>3 DEF Order, AttemptsAddUp, AllSteps
  <2> QED BY <2>1, <2>2, <2>3 DEF OneCoordinatorPerStep
<1>2. TypeOK /\ Order => OneCoordinatorPerStep
  BY <1>1
<1> QED BY <1>2, OrderCorrect, PTL
=============================================================================
