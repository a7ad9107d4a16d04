----------------------- MODULE StepCoordinatorProofs -----------------------
(***************************************************************************)
(* Theorems about StepCoordinator, for any executors, any number of        *)
(* crashes and whichever calls of the plugin throw: its invariants, and    *)
(* that it implements StepContract.                                        *)
(***************************************************************************)
EXTENDS StepCoordinator, TLAPS

\* The executors the coordinator waits for.
Awaited == regularExecutors \cup signalExecutors

\* It waits for executors it has started, each once; the ones at work and those with a row
\* that says so are among them.
ExecutorsAwaited ==
  /\ AliveIsAwaited
  /\ Awaited \cap Fresh = {}
  /\ \A e \in Executors : action[e] = "Executing" => e \in Awaited

\* Only an interrupted coordinator has signal executors, and one that has reported has none.
BehaviourFits ==
  /\ behaviour = "receive" => signalExecutors = {}
  /\ behaviour = "ignoreBeat" => Awaited = {}
  /\ behaviour = "ignoreBeat" <=> sent # "none"
  /\ startThrew => exceptionalResult

\* Start is read first: until then nothing has happened but a Beat.
StartComesFirst ==
  /\ \A i \in 1..Len(mailbox) : mailbox[i].type = "Start" => i = 1
  /\ row = "Requested" => mailbox # <<>> /\ mailbox[1].type = "Start"
  /\ mailbox # <<>> /\ mailbox[1].type = "Start" =>
       /\ row = "Requested" /\ behaviour = "receive" /\ regularExecutors = {}
       /\ ~ startThrew /\ \A e \in Executors : exec[e] = "new"

\* An executor reports its end when it has ended.
ReportsOfTheEnded ==
  \A i \in 1..Len(mailbox) :
    /\ mailbox[i].type = "ActionResult" => exec[mailbox[i].from] = "done"
    /\ mailbox[i].type = "Terminated"   => exec[mailbox[i].from] = "crashed"

\* The flow interrupts once.
OneBeat ==
  /\ \A i, j \in 1..Len(mailbox) : mailbox[i].type = "Beat" /\ mailbox[j].type = "Beat" => i = j
  /\ \A i \in 1..Len(mailbox) : mailbox[i].type = "Beat" => signalled /\ behaviour # "interrupted"
  /\ behaviour = "interrupted" => signalled

Bookkeeping ==
  ExecutorsAwaited /\ BehaviourFits /\ StartComesFirst /\ ReportsOfTheEnded /\ OneBeat

-----------------------------------------------------------------------------
(* Messages. *)

\* A message that was read is no longer there; what waits behind it was there.
LEMMA TailOfMailbox ==
  ASSUME TypeOK, NEW type, Receive(type)
  PROVE  /\ mailbox # <<>> /\ mailbox[1] = Head(mailbox) /\ Head(mailbox).type = type
         /\ 1 \in 1..Len(mailbox) /\ Head(mailbox) \in Message
         /\ mailbox' \in Seq(Message)
         /\ \A i \in 1..Len(mailbox') :
              i + 1 \in 1..Len(mailbox) /\ i + 1 # 1 /\ mailbox'[i] = mailbox[i + 1]
         /\ \A j \in 1..Len(mailbox) : j # 1 => \E i \in 1..Len(mailbox') : mailbox'[i] = mailbox[j]
<1>1. mailbox \in Seq(Message) /\ mailbox # <<>> /\ mailbox' = Tail(mailbox)
  BY DEF TypeOK, Receive
<1>2. /\ Len(mailbox) \in Nat \ {0} /\ Head(mailbox) = mailbox[1] /\ Head(mailbox) \in Message
      /\ mailbox' \in Seq(Message) /\ Len(mailbox') = Len(mailbox) - 1
      /\ \A i \in 1..Len(mailbox') : mailbox'[i] = mailbox[i + 1]
  BY <1>1
<1>3. \A i \in 1..Len(mailbox') : i + 1 \in 1..Len(mailbox) /\ i + 1 # 1
  BY <1>2
<1>4. ASSUME NEW j \in 1..Len(mailbox), j # 1
      PROVE  \E i \in 1..Len(mailbox') : mailbox'[i] = mailbox[j]
  <2>1. j - 1 \in 1..Len(mailbox') /\ (j - 1) + 1 = j
    BY <1>2, <1>4
  <2> QED BY <1>2, <2>1
<1> QED BY <1>1, <1>2, <1>3, <1>4 DEF Receive

LEMMA AppendToMailbox ==
  ASSUME TypeOK, NEW m \in Message, mailbox' = Append(mailbox, m)
  PROVE  /\ mailbox' \in Seq(Message) /\ mailbox' # <<>>
         /\ \A i \in 1..Len(mailbox') : \/ i \in 1..Len(mailbox) /\ mailbox'[i] = mailbox[i]
                                        \/ i = Len(mailbox') /\ mailbox'[i] = m
         /\ \A i \in 1..Len(mailbox) : i \in 1..Len(mailbox') /\ mailbox'[i] = mailbox[i] /\ i # Len(mailbox')
         /\ Len(mailbox') \in 1..Len(mailbox') /\ mailbox'[Len(mailbox')] = m
         /\ mailbox # <<>> => mailbox'[1] = mailbox[1]
         /\ mailbox = <<>> => mailbox'[1] = m
<1>1. mailbox \in Seq(Message)
  BY DEF TypeOK
<1>2. /\ mailbox' \in Seq(Message) /\ Len(mailbox) \in Nat /\ Len(mailbox') = Len(mailbox) + 1
      /\ \A i \in 1..Len(mailbox) : mailbox'[i] = mailbox[i]
      /\ mailbox'[Len(mailbox) + 1] = m
      /\ mailbox # <<>> => Len(mailbox) # 0
      /\ mailbox = <<>> => Len(mailbox) = 0
  BY <1>1
<1>3. /\ \A i \in 1..Len(mailbox') : i \in 1..Len(mailbox) \/ i = Len(mailbox')
      /\ \A i \in 1..Len(mailbox) : i \in 1..Len(mailbox') /\ i # Len(mailbox')
      /\ Len(mailbox') \in 1..Len(mailbox') /\ Len(mailbox') # 0
      /\ mailbox # <<>> => 1 \in 1..Len(mailbox)
      /\ mailbox = <<>> => Len(mailbox') = 1
  BY <1>2
<1> QED BY <1>2, <1>3

LEMMA MessageType ==
  ASSUME NEW m \in Message
  PROVE  /\ m.type \in {"Start", "Beat", "ActionResult", "Delayed", "Terminated"}
         /\ m.type \in {"ActionResult", "Delayed", "Terminated"} => m.from \in Executors
BY DEF Message

-----------------------------------------------------------------------------
(* Types. *)

ActionStatus == {"absent", "Executing", "Ended", "Canceled"}
RowStatus    == {"Requested", "Executing", "Succeed", "Failed", "Canceled"}
SentResult   == {"none", "ok", "failed", "throwable", "interrupt"}

\* What the plugin is told to have finished runs no longer, and an exception stays known.
LEMMA OnActionFinishType ==
  ASSUME TypeOK, NEW e \in Executors, NEW known \in BOOLEAN, NEW batch, OnActionFinish(e, known, batch)
  PROVE  /\ action' \in [Executors -> ActionStatus] /\ exceptionalResult' \in BOOLEAN
         /\ batch \in SUBSET Fresh
         /\ \A f \in Executors : action'[f] = "Executing" =>
              f \in batch \/ (action[f] = "Executing" /\ (known => f # e))
         /\ exceptionalResult => exceptionalResult'
<1>1. action \in [Executors -> ActionStatus] /\ exceptionalResult \in BOOLEAN
  BY DEF TypeOK, ActionStatus
<1>2. PICK ended \in [Executors -> ActionStatus] :
        /\ action' = [f \in Executors |-> IF f \in batch THEN "Executing" ELSE ended[f]]
        /\ \A f \in Executors : ended[f] = IF known /\ f = e THEN "Ended" ELSE action[f]
  <2>1. CASE known
    <3>1. [action EXCEPT ![e] = "Ended"] \in [Executors -> ActionStatus]
      BY <1>1 DEF ActionStatus
    <3>2. \A f \in Executors : [action EXCEPT ![e] = "Ended"][f] =
                                 IF known /\ f = e THEN "Ended" ELSE action[f]
      BY <1>1, <2>1
    <3>3. action' = [f \in Executors |-> IF f \in batch THEN "Executing"
                                         ELSE [action EXCEPT ![e] = "Ended"][f]]
      BY <2>1 DEF OnActionFinish, Tracked
    <3> QED BY <3>1, <3>2, <3>3
  <2>2. CASE ~ known
    BY <1>1, <2>2 DEF OnActionFinish, Tracked
  <2> QED BY <2>1, <2>2
<1>3. action' \in [Executors -> ActionStatus]
  BY <1>2 DEF ActionStatus
<1>4. /\ batch \in SUBSET Fresh
      /\ UNCHANGED exceptionalResult \/ exceptionalResult' = TRUE
  BY Zenon DEF OnActionFinish
<1>5. \A f \in Executors : action'[f] = "Executing" =>
        f \in batch \/ (action[f] = "Executing" /\ (known => f # e))
  <2>1. CASE known
    BY <1>2, <2>1
  <2>2. CASE ~ known
    BY <1>2, <2>2
  <2> QED BY <2>1, <2>2
<1>6. exceptionalResult' \in BOOLEAN /\ (exceptionalResult => exceptionalResult')
  <2>1. CASE exceptionalResult' = exceptionalResult
    BY <1>1, <2>1, Zenon
  <2>2. CASE exceptionalResult' = TRUE
    BY <2>2, Zenon
  <2> QED BY <1>4, <2>1, <2>2, Zenon
<1> QED BY <1>3, <1>4, <1>5, <1>6

\* What an executor's end does to the tracked actions: none is left Executing but those of the
\* new executors and of the others, `mine` being those whose ends are stored.
ActionEnds(e, mine, batch) ==
  /\ exceptionalResult => exceptionalResult'
  /\ \A f \in Executors : action'[f] = "Executing" =>
       f \in batch \/ (action[f] = "Executing" /\ (f \in mine => f # e))

LEMMA EndOfAction ==
  ASSUME TypeOK, NEW e \in Executors, NEW mine, NEW batch,
         OnActionFinish(e, TRUE, batch) \/ OnActionFinish(e, e \in mine, batch)
  PROVE  ActionEnds(e, mine, batch)
<1> DEFINE known == e \in mine
<1>1. known \in BOOLEAN /\ TRUE \in BOOLEAN
  OBVIOUS
<1>2. \A f : f \in mine /\ f = e => known
  OBVIOUS
<1>3. OnActionFinish(e, TRUE, batch) \/ OnActionFinish(e, known, batch)
  OBVIOUS
<1> HIDE DEF known
<1>4. CASE OnActionFinish(e, TRUE, batch)
  <2>1. \A f \in Executors : action'[f] = "Executing" =>
          f \in batch \/ (action[f] = "Executing" /\ (TRUE => f # e))
    BY <1>1, <1>4, OnActionFinishType, Zenon
  <2>2. exceptionalResult => exceptionalResult'
    BY <1>1, <1>4, OnActionFinishType, Zenon
  <2> QED BY <2>1, <2>2, Zenon DEF ActionEnds
<1>5. CASE OnActionFinish(e, known, batch)
  <2>1. \A f \in Executors : action'[f] = "Executing" =>
          f \in batch \/ (action[f] = "Executing" /\ (known => f # e))
    BY <1>1, <1>5, OnActionFinishType, Zenon
  <2>2. exceptionalResult => exceptionalResult'
    BY <1>1, <1>5, OnActionFinishType, Zenon
  <2> QED BY <1>2, <2>1, <2>2, Zenon DEF ActionEnds
<1> QED BY <1>3, <1>4, <1>5

LEMMA StartExecutorsType ==
  ASSUME TypeOK, NEW batch \in SUBSET Fresh, NEW beaten \in SUBSET Executors, StartExecutors(batch, beaten)
  PROVE  /\ exec' \in [Executors -> ExecState] /\ execBeaten' \in SUBSET Executors
         /\ \A e \in Executors : exec'[e] = IF e \in batch THEN "started" ELSE exec[e]
BY DEF TypeOK, StartExecutors, ExecState

LEMMA RegularFinishType ==
  ASSUME TypeOK, exceptionalResult' \in BOOLEAN, NEW regular \in SUBSET Executors,
         AttemptToRegularFinish(regular)
  PROVE  /\ behaviour' \in {"receive", "interrupted", "ignoreBeat"} /\ regularExecutors' = regular
         /\ sent' \in SentResult
BY DEF TypeOK, AttemptToRegularFinish, SentResult

LEMMA SignalFinishType ==
  ASSUME TypeOK, NEW regular, NEW signal, AttemptToSignalFinish(regular, signal)
  PROVE  /\ behaviour' \in {"receive", "interrupted", "ignoreBeat"}
         /\ regularExecutors' = regular /\ signalExecutors' = signal
         /\ sent' \in SentResult
BY DEF TypeOK, AttemptToSignalFinish, SentResult

LEMMA StoredType ==
  ASSUME NEW before \in RowStatus
  PROVE  Stored(before) \in RowStatus
BY DEF Stored, RowStatus

LEMMA InitType == Init => TypeOK
<1> SUFFICES ASSUME Init PROVE TypeOK
  OBVIOUS
<1>1. [type |-> "Start"] \in Message
  BY DEF Message
<1>2. mailbox \in Seq(Message)
  BY <1>1 DEF Init
<1> QED BY <1>2 DEF Init, TypeOK, ExecState

LEMMA NextType == TypeOK /\ [Next]_vars => TypeOK'
<1> SUFFICES ASSUME TypeOK, [Next]_vars PROVE TypeOK'
  OBVIOUS
<1> USE DEF ActionStatus, RowStatus, SentResult
<1>read. ASSUME NEW type, Receive(type)
         PROVE  /\ mailbox' \in Seq(Message)
                /\ type \in {"ActionResult", "Terminated"} => From \in Executors
  BY <1>read, TailOfMailbox, MessageType DEF From
<1>1. ASSUME HandleStart PROVE TypeOK'
  <2>1. mailbox' \in Seq(Message) /\ UNCHANGED <<signalExecutors, executorFailures, signalled>>
    BY <1>1, <1>read DEF HandleStart
  <2>2. PICK batch \in SUBSET Fresh :
          /\ action' = Tracked(action, batch)
          /\ StartExecutors(batch, execBeaten)
          /\ startThrew' \in IF "onStepStart" \in Throws THEN BOOLEAN ELSE {FALSE}
          /\ exceptionalResult' = startThrew'
          /\ AttemptToRegularFinish(batch)
          /\ row' = Stored(IF startThrew' THEN "Canceled" ELSE "Executing")
    BY <1>1 DEF HandleStart
  <2>3. startThrew' \in BOOLEAN /\ exceptionalResult' \in BOOLEAN
    BY <2>2
  <2>4. action' \in [Executors -> ActionStatus]
    BY <2>2 DEF Tracked, TypeOK
  <2>5. exec' \in [Executors -> ExecState] /\ execBeaten' \subseteq Executors
    BY <2>2, StartExecutorsType DEF TypeOK
  <2>6. batch \in SUBSET Executors
    BY DEF Fresh
  <2>7. /\ behaviour' \in {"receive", "interrupted", "ignoreBeat"} /\ regularExecutors' \subseteq Executors
        /\ sent' \in SentResult
    BY <2>2, <2>3, <2>6, RegularFinishType
  <2>8. row' \in RowStatus
    BY <2>2, StoredType
  <2> QED BY <2>1, <2>3, <2>4, <2>5, <2>7, <2>8 DEF TypeOK
<1>2. ASSUME HandleActionResult \/ HandleTerminated PROVE TypeOK'
  <2>1. /\ mailbox' \in Seq(Message) /\ From \in Executors
        /\ UNCHANGED <<signalExecutors, executorFailures, startThrew, signalled>>
    BY <1>2, <1>read DEF HandleActionResult, HandleTerminated
  <2>2. PICK batch \in SUBSET Fresh :
          /\ OnActionFinish(From, TRUE, batch) \/ OnActionFinish(From, From \in regularExecutors, batch)
          /\ StartExecutors(batch, execBeaten)
          /\ AttemptToRegularFinish((regularExecutors \ {From}) \cup batch)
          /\ row' = Stored(row)
    BY <1>2 DEF HandleActionResult, HandleTerminated
  <2>3. action' \in [Executors -> ActionStatus] /\ exceptionalResult' \in BOOLEAN
    <3>1. TRUE \in BOOLEAN /\ (From \in regularExecutors) \in BOOLEAN
      OBVIOUS
    <3> QED BY <2>1, <2>2, <3>1, OnActionFinishType
  <2>4. exec' \in [Executors -> ExecState] /\ execBeaten' \subseteq Executors
    BY <2>2, StartExecutorsType DEF TypeOK
  <2>5. (regularExecutors \ {From}) \cup batch \in SUBSET Executors
    BY DEF Fresh, TypeOK
  <2>6. /\ behaviour' \in {"receive", "interrupted", "ignoreBeat"} /\ regularExecutors' \subseteq Executors
        /\ sent' \in SentResult
    BY <2>2, <2>3, <2>5, RegularFinishType
  <2>7. row' \in RowStatus
    BY <2>2, StoredType DEF TypeOK
  <2> QED BY <2>1, <2>3, <2>4, <2>6, <2>7 DEF TypeOK
<1>3. ASSUME HandleBeat PROVE TypeOK'
  <2>1. /\ mailbox' \in Seq(Message) /\ row' = "Canceled"
        /\ UNCHANGED <<exceptionalResult, executorFailures, startThrew, signalled>>
    BY <1>3, <1>read DEF HandleBeat
  <2>2. PICK batch \in SUBSET Fresh :
          /\ action' = Tracked(CancelRunning, batch)
          /\ StartExecutors(batch, execBeaten \cup regularExecutors)
          /\ AttemptToSignalFinish(regularExecutors, signalExecutors \cup batch)
    BY <1>3 DEF HandleBeat
  <2>3. action' \in [Executors -> ActionStatus]
    BY <2>2 DEF Tracked, CancelRunning, TypeOK
  <2>4. execBeaten \cup regularExecutors \in SUBSET Executors
    BY DEF TypeOK
  <2>5. exec' \in [Executors -> ExecState] /\ execBeaten' \subseteq Executors
    BY <2>2, <2>4, StartExecutorsType
  <2>6. /\ behaviour' \in {"receive", "interrupted", "ignoreBeat"} /\ sent' \in SentResult
        /\ regularExecutors' = regularExecutors /\ signalExecutors' = signalExecutors \cup batch
    BY <2>2, SignalFinishType
  <2>7. regularExecutors' \subseteq Executors /\ signalExecutors' \subseteq Executors
    BY <2>6 DEF TypeOK, Fresh
  <2> QED BY <2>1, <2>3, <2>5, <2>6, <2>7 DEF TypeOK
<1>4. ASSUME InterruptedActionResult \/ InterruptedTerminated PROVE TypeOK'
  <2>1. /\ mailbox' \in Seq(Message) /\ From \in Executors
        /\ UNCHANGED <<row, executorFailures, startThrew, signalled>>
    BY <1>4, <1>read DEF InterruptedActionResult, InterruptedTerminated
  <2>2. PICK batch \in SUBSET Fresh :
          /\ OnActionFinish(From, TRUE, batch) \/ OnActionFinish(From, From \in signalExecutors, batch)
          /\ StartExecutors(batch, execBeaten)
          /\ \E regular \in SUBSET regularExecutors :
               AttemptToSignalFinish(regular, (signalExecutors \ {From}) \cup batch)
    <3>1. regularExecutors \ {From} \in SUBSET regularExecutors
      OBVIOUS
    <3> QED BY <1>4, <3>1 DEF InterruptedActionResult, InterruptedTerminated
  <2>3. action' \in [Executors -> ActionStatus] /\ exceptionalResult' \in BOOLEAN
    <3>1. TRUE \in BOOLEAN /\ (From \in signalExecutors) \in BOOLEAN
      OBVIOUS
    <3> QED BY <2>1, <2>2, <3>1, OnActionFinishType
  <2>4. exec' \in [Executors -> ExecState] /\ execBeaten' \subseteq Executors
    BY <2>2, StartExecutorsType DEF TypeOK
  <2>5. /\ behaviour' \in {"receive", "interrupted", "ignoreBeat"} /\ sent' \in SentResult
        /\ regularExecutors' \subseteq regularExecutors
        /\ signalExecutors' = (signalExecutors \ {From}) \cup batch
    BY <2>2, SignalFinishType
  <2>6. regularExecutors' \subseteq Executors /\ signalExecutors' \subseteq Executors
    BY <2>5 DEF TypeOK, Fresh
  <2> QED BY <2>1, <2>3, <2>4, <2>5, <2>6 DEF TypeOK
<1>5. ASSUME DropMessage PROVE TypeOK'
  BY <1>5, <1>read DEF DropMessage, coordinatorVars, TypeOK
<1>6. ASSUME Signal PROVE TypeOK'
  <2>1. mailbox' \in Seq(Message)
    BY <1>6, AppendToMailbox DEF Signal, Message
  <2> QED BY <1>6, <2>1 DEF Signal, coordinatorVars, TypeOK
<1>7. ASSUME NEW e \in Executors, ExecStart(e) PROVE TypeOK'
  BY <1>7 DEF ExecStart, coordinatorVars, TypeOK, ExecState
<1>8. ASSUME NEW e \in Executors, ExecFinish(e) \/ ExecRespond(e) \/ ExecCrash(e) \/ ExecRepeat(e) PROVE TypeOK'
  <2>1. PICK type \in {"ActionResult", "Delayed", "Terminated"} : Send(type, e)
    BY <1>8 DEF ExecFinish, ExecRespond, ExecCrash, ExecRepeat
  <2>2. mailbox' \in Seq(Message)
    BY <2>1, AppendToMailbox DEF Send, Message
  <2>3. exec' \in [Executors -> ExecState] /\ execBeaten' \subseteq Executors
    BY <1>8 DEF ExecFinish, ExecRespond, ExecCrash, ExecRepeat, TypeOK, ExecState
  <2>4. /\ executorFailures' \subseteq Executors
        /\ UNCHANGED <<coordinatorVars, signalled>>
    BY <1>8 DEF ExecFinish, ExecRespond, ExecCrash, ExecRepeat, TypeOK
  <2> QED BY <2>2, <2>3, <2>4 DEF TypeOK, coordinatorVars
<1>9. ASSUME UNCHANGED vars PROVE TypeOK'
  BY <1>9 DEF vars, coordinatorVars, TypeOK
<1> QED BY <1>1, <1>2, <1>3, <1>4, <1>5, <1>6, <1>7, <1>8, <1>9 DEF Next, HandleMessage

\* Every variable keeps its type, whatever the plugin answers and whichever executor dies.
THEOREM TypeCorrect == Spec => []TypeOK
<1>1. Init => TypeOK
  BY InitType
<1>2. TypeOK /\ [Next]_vars => TypeOK'
  BY NextType
<1> QED BY <1>1, <1>2, PTL DEF Spec

-----------------------------------------------------------------------------
(* The inductive invariant. *)

\* What every handler keeps: it reads a message and starts fresh executors.
LEMMA HandlerKeeps ==
  ASSUME TypeOK, Bookkeeping, NEW type, Receive(type), UNCHANGED signalled,
         NEW batch \in SUBSET Fresh, NEW beaten \in SUBSET Executors, StartExecutors(batch, beaten),
         row' # "Requested",
         behaviour' = "interrupted" => type = "Beat" \/ behaviour = "interrupted"
  PROVE  /\ StartComesFirst' /\ ReportsOfTheEnded' /\ OneBeat'
         /\ Alive' = Alive \cup batch /\ Fresh' = Fresh \ batch
<1> USE DEF Bookkeeping
<1>1. /\ mailbox # <<>> /\ mailbox[1].type = type /\ 1 \in 1..Len(mailbox)
      /\ \A i \in 1..Len(mailbox') :
           i + 1 \in 1..Len(mailbox) /\ i + 1 # 1 /\ mailbox'[i] = mailbox[i + 1]
  BY TailOfMailbox
<1>2. /\ mailbox' \in Seq(Message)
      /\ \A i \in 1..Len(mailbox') : mailbox'[i] \in Message
      /\ mailbox' # <<>> => 1 \in 1..Len(mailbox')
  <2>1. mailbox' \in Seq(Message)
    BY TailOfMailbox
  <2> QED BY <2>1
<1>3. \A e \in Executors : exec'[e] = IF e \in batch THEN "started" ELSE exec[e]
  BY StartExecutorsType
<1>4. \A e \in batch : exec[e] = "new" /\ e \in Executors
  BY DEF Fresh
<1>5. StartComesFirst'
  <2>1. \A i \in 1..Len(mailbox') : mailbox'[i].type # "Start"
    BY <1>1 DEF StartComesFirst
  <2> QED BY <1>2, <2>1 DEF StartComesFirst
<1>6. ReportsOfTheEnded'
  <2>1. ASSUME NEW i \in 1..Len(mailbox')
        PROVE  /\ mailbox'[i].type = "ActionResult" => exec'[mailbox'[i].from] = "done"
               /\ mailbox'[i].type = "Terminated"   => exec'[mailbox'[i].from] = "crashed"
    <3>1. PICK j \in 1..Len(mailbox) : mailbox'[i] = mailbox[j]
      BY <1>1
    <3>2. mailbox[j].type \in {"ActionResult", "Terminated"} => mailbox[j].from \in Executors
      BY <1>2, <3>1, MessageType
    <3> QED BY <1>3, <1>4, <3>1, <3>2 DEF ReportsOfTheEnded
  <2> QED BY <2>1 DEF ReportsOfTheEnded
<1>7. OneBeat'
  <2>1. ASSUME NEW i \in 1..Len(mailbox'), NEW j \in 1..Len(mailbox'),
               mailbox'[i].type = "Beat", mailbox'[j].type = "Beat"
        PROVE  i = j
    <3>1. i + 1 = j + 1
      BY <1>1, <2>1 DEF OneBeat
    <3> QED BY <3>1
  <2>2. ASSUME NEW i \in 1..Len(mailbox'), mailbox'[i].type = "Beat"
        PROVE  signalled' /\ behaviour' # "interrupted"
    <3>1. PICK j \in 1..Len(mailbox) : j # 1 /\ mailbox[j].type = "Beat"
      BY <1>1, <2>2
    <3>2. signalled /\ behaviour # "interrupted" /\ type # "Beat"
      BY <1>1, <3>1 DEF OneBeat
    <3> QED BY <3>2
  <2>3. behaviour' = "interrupted" => signalled'
    BY <1>1 DEF OneBeat
  <2> QED BY <2>1, <2>2, <2>3 DEF OneBeat
<1>8. Alive' = Alive \cup batch /\ Fresh' = Fresh \ batch
  BY <1>3, <1>4 DEF Alive, Fresh
<1> QED BY <1>5, <1>6, <1>7, <1>8

\* Who reports is awaited no longer than it takes to hear it, and is not at work.
LEMMA ReporterIsDead ==
  ASSUME TypeOK, ReportsOfTheEnded, NEW type \in {"ActionResult", "Terminated"}, Receive(type)
  PROVE  From \in Executors \ Alive
<1>1. mailbox[1] = Head(mailbox) /\ Head(mailbox).type = type /\ 1 \in 1..Len(mailbox) /\ Head(mailbox) \in Message
  BY TailOfMailbox
<1>2. From \in Executors
  BY <1>1, MessageType DEF From
<1>3. exec[From] \in {"done", "crashed"}
  BY <1>1 DEF ReportsOfTheEnded, From
<1> QED BY <1>2, <1>3 DEF Alive

\* An executor ends, answers a Beat or repeats its answer.
LEMMA ExecutorKeeps ==
  ASSUME TypeOK, Bookkeeping, NEW e \in Executors \ Fresh, NEW state \in ExecState \ {"new"},
         exec' = [exec EXCEPT ![e] = state],
         state = exec[e] \/ (e \in Alive /\ state \notin {"started", "running"}),
         NEW type \in {"ActionResult", "Delayed", "Terminated"}, Send(type, e),
         type = "ActionResult" => state = "done", type = "Terminated" => state = "crashed",
         UNCHANGED <<coordinatorVars, signalled>>
  PROVE  Bookkeeping'
<1> USE DEF Bookkeeping, coordinatorVars
<1> DEFINE m == [type |-> type, from |-> e]
<1>0. e \in Executors /\ exec \in [Executors -> ExecState] /\ exec[e] # "new"
  BY DEF Fresh, TypeOK
<1>1. m \in Message /\ mailbox' = Append(mailbox, m) /\ m.type = type /\ m.from = e
  BY <1>0 DEF Message, Send
<1> HIDE DEF m
<1>2. /\ \A i \in 1..Len(mailbox') : \/ i \in 1..Len(mailbox) /\ mailbox'[i] = mailbox[i]
                                     \/ i = Len(mailbox') /\ mailbox'[i] = m
      /\ mailbox # <<>> => mailbox'[1] = mailbox[1]
      /\ mailbox = <<>> => mailbox'[1] = m
  BY <1>1, AppendToMailbox
<1>3. \A f \in Executors : exec'[f] = IF f = e THEN state ELSE exec[f]
  BY <1>0
<1>4. Alive' \subseteq Alive /\ Fresh' = Fresh
  BY <1>0, <1>3 DEF Alive, Fresh, ExecState
<1>5. ~ (mailbox # <<>> /\ mailbox[1].type = "Start") /\ row # "Requested"
  BY <1>0 DEF StartComesFirst
<1>6. ExecutorsAwaited'
  BY <1>4 DEF ExecutorsAwaited, AliveIsAwaited, Awaited
<1>7. BehaviourFits'
  BY DEF BehaviourFits, Awaited
<1>8. StartComesFirst'
  <2>1. ASSUME NEW i \in 1..Len(mailbox'), mailbox'[i].type = "Start" PROVE FALSE
    <3>1. i \in 1..Len(mailbox) /\ mailbox[i].type = "Start"
      BY <1>1, <1>2, <2>1
    <3>2. mailbox[1].type = "Start" /\ 1 \in 1..Len(mailbox)
      BY <3>1 DEF StartComesFirst
    <3>3. mailbox # <<>>
      BY <3>2 DEF TypeOK
    <3> QED BY <1>5, <3>2, <3>3
  <2>2. mailbox'[1].type # "Start"
    BY <1>1, <1>2, <1>5
  <2> QED BY <1>5, <2>1, <2>2 DEF StartComesFirst
<1>9. ReportsOfTheEnded'
  <2>1. ASSUME NEW i \in 1..Len(mailbox'), i \in 1..Len(mailbox), mailbox'[i] = mailbox[i]
        PROVE  /\ mailbox'[i].type = "ActionResult" => exec'[mailbox'[i].from] = "done"
               /\ mailbox'[i].type = "Terminated"   => exec'[mailbox'[i].from] = "crashed"
    <3>1. mailbox[i] \in Message
      BY <2>1 DEF TypeOK
    <3>2. mailbox[i].type \in {"ActionResult", "Terminated"} => mailbox[i].from \in Executors
      BY <3>1, MessageType
    <3>3. exec[e] \in {"done", "crashed"} => state = exec[e]
      BY DEF Alive
    <3> QED BY <1>0, <1>3, <2>1, <3>2, <3>3 DEF ReportsOfTheEnded
  <2> QED BY <1>0, <1>1, <1>2, <1>3, <2>1 DEF ReportsOfTheEnded
<1>10. OneBeat'
  BY <1>1, <1>2 DEF OneBeat
<1> QED BY <1>6, <1>7, <1>8, <1>9, <1>10

LEMMA InitBookkeeping == Init => Bookkeeping
<1> SUFFICES ASSUME Init PROVE Bookkeeping
  OBVIOUS
<1>1. Alive = {} /\ Awaited = {}
  BY DEF Init, Alive, Awaited
<1>2. ExecutorsAwaited
  BY <1>1 DEF Init, ExecutorsAwaited, AliveIsAwaited
<1>3. BehaviourFits
  BY <1>1 DEF Init, BehaviourFits
<1>4. StartComesFirst
  BY DEF Init, StartComesFirst
<1>5. ReportsOfTheEnded /\ OneBeat
  BY DEF Init, ReportsOfTheEnded, OneBeat
<1> QED BY <1>2, <1>3, <1>4, <1>5 DEF Bookkeeping

\* The end of a handler in the regular behaviour.
LEMMA RegularFinishFits ==
  ASSUME BehaviourFits, behaviour = "receive", UNCHANGED signalExecutors,
         startThrew' => exceptionalResult', NEW regular, AttemptToRegularFinish(regular)
  PROVE  BehaviourFits' /\ behaviour' # "interrupted" /\ regularExecutors' = regular
BY DEF BehaviourFits, AttemptToRegularFinish, Awaited

\* The end of a handler that interrupts, or is interrupted.
LEMMA SignalFinishFits ==
  ASSUME BehaviourFits, behaviour # "ignoreBeat", startThrew' => exceptionalResult',
         NEW regular, NEW signal, AttemptToSignalFinish(regular, signal)
  PROVE  BehaviourFits' /\ regularExecutors' = regular /\ signalExecutors' = signal
BY DEF BehaviourFits, AttemptToSignalFinish, Awaited

LEMMA NextBookkeeping == TypeOK /\ Bookkeeping /\ [Next]_vars => Bookkeeping'
<1> SUFFICES ASSUME TypeOK, Bookkeeping, [Next]_vars PROVE Bookkeeping'
  OBVIOUS
<1> USE DEF Bookkeeping
<1>head. ASSUME NEW type, type # "Start", Receive(type) PROVE row # "Requested"
  BY <1>head, TailOfMailbox DEF StartComesFirst
<1>types. execBeaten \in SUBSET Executors /\ execBeaten \cup regularExecutors \in SUBSET Executors
  BY DEF TypeOK
<1>1. ASSUME HandleStart PROVE Bookkeeping'
  <2>1. Receive("Start") /\ behaviour = "receive" /\ UNCHANGED <<signalExecutors, signalled>>
    BY <1>1 DEF HandleStart
  <2>2. PICK batch \in SUBSET Fresh :
          /\ action' = Tracked(action, batch) /\ StartExecutors(batch, execBeaten)
          /\ exceptionalResult' = startThrew' /\ AttemptToRegularFinish(batch)
          /\ row' = Stored(IF startThrew' THEN "Canceled" ELSE "Executing")
    BY <1>1 DEF HandleStart
  <2>3. regularExecutors = {} /\ \A e \in Executors : exec[e] = "new"
    BY <2>1, TailOfMailbox DEF StartComesFirst
  <2>4. BehaviourFits' /\ behaviour' # "interrupted" /\ regularExecutors' = batch
    BY <2>1, <2>2, RegularFinishFits
  <2>5. row' # "Requested"
    BY <2>2 DEF Stored
  <2>6. /\ StartComesFirst' /\ ReportsOfTheEnded' /\ OneBeat'
        /\ Alive' = Alive \cup batch /\ Fresh' = Fresh \ batch
    BY <1>types, <2>1, <2>2, <2>4, <2>5, HandlerKeeps
  <2>7. signalExecutors = {} /\ Alive = {}
    BY <2>1, <2>3 DEF BehaviourFits, Alive
  <2>8. \A e \in Executors : action'[e] = "Executing" => e \in batch
    BY <2>2, <2>3, <2>7 DEF Tracked, ExecutorsAwaited, Awaited
  <2>9. ExecutorsAwaited'
    BY <2>1, <2>4, <2>6, <2>7, <2>8 DEF ExecutorsAwaited, AliveIsAwaited, Awaited
  <2> QED BY <2>4, <2>6, <2>9
<1>2. ASSUME HandleActionResult \/ HandleTerminated PROVE Bookkeeping'
  <2>1. /\ behaviour = "receive" /\ UNCHANGED <<signalExecutors, startThrew, signalled>>
        /\ Receive("ActionResult") \/ Receive("Terminated")
    BY <1>2 DEF HandleActionResult, HandleTerminated
  <2>2. PICK batch \in SUBSET Fresh :
          /\ OnActionFinish(From, TRUE, batch) \/ OnActionFinish(From, From \in regularExecutors, batch)
          /\ StartExecutors(batch, execBeaten)
          /\ AttemptToRegularFinish((regularExecutors \ {From}) \cup batch)
          /\ row' = Stored(row)
    BY <1>2 DEF HandleActionResult, HandleTerminated
  <2>3. From \in Executors \ Alive
    BY <2>1, ReporterIsDead
  <2>4. ActionEnds(From, regularExecutors, batch)
    BY <2>2, <2>3, EndOfAction
  <2>5. BehaviourFits' /\ behaviour' # "interrupted" /\ regularExecutors' = (regularExecutors \ {From}) \cup batch
    BY <2>1, <2>2, <2>4, RegularFinishFits DEF BehaviourFits, ActionEnds
  <2>6. row' # "Requested"
    BY <1>head, <2>1, <2>2 DEF Stored
  <2>7. /\ StartComesFirst' /\ ReportsOfTheEnded' /\ OneBeat'
        /\ Alive' = Alive \cup batch /\ Fresh' = Fresh \ batch
    BY <1>types, <2>1, <2>2, <2>5, <2>6, HandlerKeeps
  <2>8. signalExecutors = {}
    BY <2>1 DEF BehaviourFits
  <2>9. ExecutorsAwaited'
    BY <2>1, <2>3, <2>4, <2>5, <2>7, <2>8 DEF ExecutorsAwaited, AliveIsAwaited, Awaited, ActionEnds
  <2> QED BY <2>5, <2>7, <2>9
<1>3. ASSUME HandleBeat PROVE Bookkeeping'
  <2>1. /\ behaviour = "receive" /\ Receive("Beat") /\ row' = "Canceled"
        /\ UNCHANGED <<exceptionalResult, startThrew, signalled>>
    BY <1>3 DEF HandleBeat
  <2>2. PICK batch \in SUBSET Fresh :
          /\ action' = Tracked(CancelRunning, batch)
          /\ StartExecutors(batch, execBeaten \cup regularExecutors)
          /\ AttemptToSignalFinish(regularExecutors, signalExecutors \cup batch)
    BY <1>3 DEF HandleBeat
  <2>3. /\ BehaviourFits' /\ regularExecutors' = regularExecutors
        /\ signalExecutors' = signalExecutors \cup batch
    BY <2>1, <2>2, SignalFinishFits DEF BehaviourFits
  <2>4. /\ StartComesFirst' /\ ReportsOfTheEnded' /\ OneBeat'
        /\ Alive' = Alive \cup batch /\ Fresh' = Fresh \ batch
    BY <1>types, <2>1, <2>2, HandlerKeeps
  <2>5. \A e \in Executors : action'[e] = "Executing" => e \in batch
    BY <2>2 DEF Tracked, CancelRunning
  <2>6. ExecutorsAwaited'
    BY <2>3, <2>4, <2>5 DEF ExecutorsAwaited, AliveIsAwaited, Awaited
  <2> QED BY <2>3, <2>4, <2>6
<1>4. ASSUME InterruptedActionResult PROVE Bookkeeping'
  <2>1. /\ behaviour = "interrupted" /\ Receive("ActionResult") /\ UNCHANGED <<row, startThrew, signalled>>
    BY <1>4 DEF InterruptedActionResult
  <2>2. PICK batch \in SUBSET Fresh :
          /\ OnActionFinish(From, TRUE, batch) /\ StartExecutors(batch, execBeaten)
          /\ AttemptToSignalFinish(regularExecutors \ {From}, (signalExecutors \ {From}) \cup batch)
    BY <1>4 DEF InterruptedActionResult
  <2>3. From \in Executors \ Alive
    BY <2>1, ReporterIsDead
  <2>4. ActionEnds(From, Executors, batch)
    BY <2>2, <2>3, EndOfAction
  <2>5. /\ BehaviourFits' /\ regularExecutors' = regularExecutors \ {From}
        /\ signalExecutors' = (signalExecutors \ {From}) \cup batch
    BY <2>1, <2>2, <2>4, SignalFinishFits DEF BehaviourFits, ActionEnds
  <2>6. /\ StartComesFirst' /\ ReportsOfTheEnded' /\ OneBeat'
        /\ Alive' = Alive \cup batch /\ Fresh' = Fresh \ batch
    BY <1>head, <1>types, <2>1, <2>2, HandlerKeeps
  <2>7. ExecutorsAwaited'
    BY <2>3, <2>4, <2>5, <2>6 DEF ExecutorsAwaited, AliveIsAwaited, Awaited, ActionEnds
  <2> QED BY <2>5, <2>6, <2>7
<1>5. ASSUME InterruptedTerminated PROVE Bookkeeping'
  <2>1. /\ behaviour = "interrupted" /\ Receive("Terminated") /\ UNCHANGED <<row, startThrew, signalled>>
    BY <1>5 DEF InterruptedTerminated
  <2>2. PICK batch \in SUBSET Fresh :
          /\ OnActionFinish(From, From \in signalExecutors, batch) /\ StartExecutors(batch, execBeaten)
          /\ AttemptToSignalFinish(regularExecutors, (signalExecutors \ {From}) \cup batch)
    BY <1>5 DEF InterruptedTerminated
  <2>3. From \in Executors \ Alive
    BY <2>1, ReporterIsDead
  <2>4. ActionEnds(From, signalExecutors, batch)
    BY <2>2, <2>3, EndOfAction
  <2>5. /\ BehaviourFits' /\ regularExecutors' = regularExecutors
        /\ signalExecutors' = (signalExecutors \ {From}) \cup batch
    BY <2>1, <2>2, <2>4, SignalFinishFits DEF BehaviourFits, ActionEnds
  <2>6. /\ StartComesFirst' /\ ReportsOfTheEnded' /\ OneBeat'
        /\ Alive' = Alive \cup batch /\ Fresh' = Fresh \ batch
    BY <1>head, <1>types, <2>1, <2>2, HandlerKeeps
  <2>7. ExecutorsAwaited'
    BY <2>3, <2>4, <2>5, <2>6 DEF ExecutorsAwaited, AliveIsAwaited, Awaited, ActionEnds
  <2> QED BY <2>5, <2>6, <2>7
<1>6. ASSUME DropMessage PROVE Bookkeeping'
  <2>1. PICK type \in {"Beat", "ActionResult", "Delayed", "Terminated"} :
          /\ Receive(type) /\ UNCHANGED <<coordinatorVars, exec, signalled>>
    BY <1>6 DEF DropMessage
  <2>2. StartExecutors({}, execBeaten) /\ {} \in SUBSET Fresh
    <3>1. exec' = [e \in Executors |-> IF e \in {} THEN "started" ELSE exec[e]]
      BY <2>1 DEF TypeOK
    <3>2. execBeaten' = execBeaten
      BY <1>6 DEF DropMessage
    <3> QED BY <3>1, <3>2 DEF StartExecutors
  <2>3. UNCHANGED <<row, behaviour>>
    BY <2>1 DEF coordinatorVars
  <2>4. /\ StartComesFirst' /\ ReportsOfTheEnded' /\ OneBeat'
        /\ Alive' = Alive \cup {} /\ Fresh' = Fresh \ {}
    BY <1>head, <1>types, <2>1, <2>2, <2>3, HandlerKeeps
  <2>5. ExecutorsAwaited' /\ BehaviourFits'
    BY <2>1, <2>4 DEF coordinatorVars, ExecutorsAwaited, AliveIsAwaited, BehaviourFits, Awaited
  <2> QED BY <2>4, <2>5
<1>7. ASSUME Signal PROVE Bookkeeping'
  <2> DEFINE m == [type |-> "Beat"]
  <2>1. /\ ~ signalled /\ signalled' /\ mailbox' = Append(mailbox, m) /\ m \in Message /\ m.type = "Beat"
        /\ UNCHANGED <<coordinatorVars, exec>>
    BY <1>7 DEF Signal, Message
  <2> HIDE DEF m
  <2>2. /\ \A i \in 1..Len(mailbox') : \/ i \in 1..Len(mailbox) /\ mailbox'[i] = mailbox[i]
                                       \/ i = Len(mailbox') /\ mailbox'[i] = m
        /\ mailbox' # <<>>
        /\ mailbox # <<>> => mailbox'[1] = mailbox[1]
        /\ mailbox = <<>> => mailbox'[1] = m
    BY <2>1, AppendToMailbox
  <2>3. ExecutorsAwaited' /\ BehaviourFits'
    BY <2>1 DEF coordinatorVars, ExecutorsAwaited, AliveIsAwaited, BehaviourFits, Awaited, Alive, Fresh
  <2>4. StartComesFirst'
    BY <2>1, <2>2 DEF coordinatorVars, StartComesFirst
  <2>5. ReportsOfTheEnded'
    BY <2>1, <2>2 DEF ReportsOfTheEnded
  <2>6. OneBeat'
    BY <2>1, <2>2 DEF coordinatorVars, OneBeat
  <2> QED BY <2>3, <2>4, <2>5, <2>6
<1>8. ASSUME NEW e \in Executors, ExecStart(e) PROVE Bookkeeping'
  <2>1. /\ exec[e] = "started" /\ exec' = [exec EXCEPT ![e] = "running"]
        /\ UNCHANGED <<coordinatorVars, mailbox, signalled>>
    BY <1>8 DEF ExecStart
  <2>2. \A f \in Executors : exec'[f] = IF f = e THEN "running" ELSE exec[f]
    BY <2>1 DEF TypeOK
  <2>3. Alive' = Alive /\ Fresh' = Fresh
    BY <2>1, <2>2 DEF Alive, Fresh
  <2>4. ExecutorsAwaited' /\ BehaviourFits' /\ OneBeat'
    BY <2>1, <2>3 DEF coordinatorVars, ExecutorsAwaited, AliveIsAwaited, BehaviourFits, OneBeat, Awaited
  <2>5. StartComesFirst'
    BY <2>1 DEF coordinatorVars, StartComesFirst
  <2>6. ReportsOfTheEnded'
    <3>1. \A i \in 1..Len(mailbox) : mailbox[i].type \in {"ActionResult", "Terminated"} => mailbox[i].from \in Executors
      BY MessageType DEF TypeOK
    <3> QED BY <2>1, <2>2, <3>1 DEF ReportsOfTheEnded
  <2> QED BY <2>4, <2>5, <2>6
<1>9. ASSUME NEW e \in Executors, ExecFinish(e) \/ ExecRespond(e) \/ ExecCrash(e) PROVE Bookkeeping'
  <2>1. e \in Alive /\ e \notin Fresh /\ UNCHANGED <<coordinatorVars, signalled>>
    BY <1>9 DEF Alive, Fresh, ExecFinish, ExecRespond, ExecCrash
  <2>2. CASE ExecFinish(e) \/ (ExecRespond(e) /\ Send("ActionResult", e) /\ exec' = [exec EXCEPT ![e] = "done"])
    BY <2>1, <2>2, ExecutorKeeps DEF ExecFinish, ExecState
  <2>3. CASE ExecRespond(e) /\ Send("Delayed", e) /\ UNCHANGED exec
    <3>1. exec' = [exec EXCEPT ![e] = exec[e]] /\ exec[e] \in ExecState \ {"new"}
      BY <2>1, <2>3 DEF TypeOK, Alive
    <3> QED BY <2>1, <2>3, <3>1, ExecutorKeeps
  <2>4. CASE ExecCrash(e)
    BY <2>1, <2>4, ExecutorKeeps DEF ExecCrash, ExecState
  <2> QED BY <1>9, <2>2, <2>3, <2>4 DEF ExecRespond
<1>10. ASSUME NEW e \in Executors, ExecRepeat(e) PROVE Bookkeeping'
  <2>1. /\ exec[e] = "done" /\ exec' = [exec EXCEPT ![e] = "done"] /\ e \notin Fresh
        /\ Send("ActionResult", e) /\ UNCHANGED <<coordinatorVars, signalled>>
    BY <1>10 DEF ExecRepeat, Fresh, TypeOK
  <2> QED BY <2>1, ExecutorKeeps DEF ExecState
<1>11. ASSUME UNCHANGED vars PROVE Bookkeeping'
  BY <1>11 DEF vars, coordinatorVars, ExecutorsAwaited, AliveIsAwaited, BehaviourFits, StartComesFirst,
               ReportsOfTheEnded, OneBeat, Awaited, Alive, Fresh
<1> QED BY <1>1, <1>2, <1>3, <1>4, <1>5, <1>6, <1>7, <1>8, <1>9, <1>10, <1>11 DEF Next, HandleMessage

\* The bookkeeping of the step is never off, at any moment of any run.
THEOREM BookkeepingCorrect == Spec => [](TypeOK /\ Bookkeeping)
<1>1. Init => TypeOK /\ Bookkeeping
  BY InitType, InitBookkeeping
<1>2. TypeOK /\ Bookkeeping /\ [Next]_vars => TypeOK' /\ Bookkeeping'
  BY NextType, NextBookkeeping
<1> QED BY <1>1, <1>2, PTL DEF Spec

-----------------------------------------------------------------------------
(* What follows from it. *)

\* An executor that is alive is waited for, once: no path through the handlers, with
\* executors started by the step, by a result or by the interruption, loses one.
THEOREM AliveIsAwaitedCorrect == Spec => []AliveIsAwaited
<1>1. Bookkeeping => AliveIsAwaited
  BY DEF Bookkeeping, ExecutorsAwaited
<1> QED BY <1>1, BookkeepingCorrect, PTL

\* A step reports when none of its executors is at work.
THEOREM QuietWhenSentCorrect == Spec => []QuietWhenSent
<1>1. Bookkeeping => QuietWhenSent
  BY DEF Bookkeeping, ExecutorsAwaited, AliveIsAwaited, BehaviourFits, Awaited, QuietWhenSent
<1> QED BY <1>1, BookkeepingCorrect, PTL

\* No action of a step that has reported is shown as running.
THEOREM NoDanglingActionCorrect == Spec => []NoDanglingAction
<1>1. Bookkeeping => NoDanglingAction
  BY DEF Bookkeeping, ExecutorsAwaited, BehaviourFits, NoDanglingAction
<1> QED BY <1>1, BookkeepingCorrect, PTL

\* What the plugin adds after an interruption belongs to the interruption.
THEOREM NoNewRegularExecutorCorrect == Spec => NoNewRegularExecutor
<1>1. [Next]_vars => [behaviour = "interrupted" => regularExecutors' \subseteq regularExecutors]_vars
  <2> SUFFICES ASSUME Next, behaviour = "interrupted" PROVE regularExecutors' \subseteq regularExecutors
    OBVIOUS
  <2>1. CASE HandleMessage
    BY <2>1 DEF HandleMessage, HandleStart, HandleActionResult, HandleTerminated, HandleBeat, InterruptedActionResult,
                InterruptedTerminated, AttemptToSignalFinish, DropMessage, coordinatorVars
  <2>2. CASE Signal
    BY <2>2 DEF Signal, coordinatorVars
  <2>3. CASE \E e \in Executors : ExecStart(e) \/ ExecFinish(e) \/ ExecRespond(e) \/ ExecCrash(e) \/ ExecRepeat(e)
    BY <2>3 DEF ExecStart, ExecFinish, ExecRespond, ExecCrash, ExecRepeat, coordinatorVars
  <2> QED BY <2>1, <2>2, <2>3 DEF Next
<1> QED BY <1>1, PTL DEF Spec, NoNewRegularExecutor

-----------------------------------------------------------------------------
(* The contract with the flow. *)

\* An interruption that the coordinator has not read yet, and will.
WaitsForBeat == \E i \in DOMAIN mailbox : mailbox[i].type = "Beat" /\ sent = "none"

LEMMA ReadingKeepsTheBeat ==
  ASSUME TypeOK, Bookkeeping, NEW type, Receive(type)
  PROVE  /\ type = "Beat" /\ sent = "none" => WaitsForBeat
         /\ type = "Beat" => ~ WaitsForBeat'
         /\ type # "Beat" /\ sent' = sent => (WaitsForBeat' <=> WaitsForBeat)
<1>1. /\ mailbox[1].type = type /\ 1 \in 1..Len(mailbox)
      /\ \A i \in 1..Len(mailbox') :
           i + 1 \in 1..Len(mailbox) /\ i + 1 # 1 /\ mailbox'[i] = mailbox[i + 1]
      /\ \A j \in 1..Len(mailbox) : j # 1 => \E i \in 1..Len(mailbox') : mailbox'[i] = mailbox[j]
      /\ mailbox \in Seq(Message) /\ mailbox' \in Seq(Message)
  BY TailOfMailbox DEF TypeOK
<1>2. DOMAIN mailbox = 1..Len(mailbox) /\ DOMAIN mailbox' = 1..Len(mailbox')
  BY <1>1
<1>3. type = "Beat" => \A i \in 1..Len(mailbox') : mailbox'[i].type # "Beat"
  BY <1>1 DEF Bookkeeping, OneBeat
<1>4. ASSUME NEW i \in 1..Len(mailbox'), mailbox'[i].type = "Beat"
      PROVE  \E j \in 1..Len(mailbox) : mailbox[j].type = "Beat"
  <2>1. i + 1 \in 1..Len(mailbox) /\ mailbox[i + 1].type = "Beat"
    BY <1>1, <1>4
  <2> QED BY <2>1
<1>5. ASSUME NEW j \in 1..Len(mailbox), mailbox[j].type = "Beat", type # "Beat"
      PROVE  \E i \in 1..Len(mailbox') : mailbox'[i].type = "Beat"
  <2>1. j # 1
    BY <1>1, <1>5
  <2>2. PICK i \in 1..Len(mailbox') : mailbox'[i] = mailbox[j]
    BY <1>1, <2>1
  <2> QED BY <1>5, <2>2
<1> QED BY <1>1, <1>2, <1>3, <1>4, <1>5 DEF WaitsForBeat

LEMMA SendingKeepsTheBeat ==
  ASSUME TypeOK, NEW m \in Message, mailbox' = Append(mailbox, m), UNCHANGED sent
  PROVE  /\ m.type = "Beat" /\ sent = "none" => WaitsForBeat'
         /\ m.type # "Beat" => (WaitsForBeat' <=> WaitsForBeat)
<1>1. /\ \A i \in 1..Len(mailbox') : \/ i \in 1..Len(mailbox) /\ mailbox'[i] = mailbox[i]
                                     \/ i = Len(mailbox') /\ mailbox'[i] = m
      /\ \A i \in 1..Len(mailbox) : i \in 1..Len(mailbox') /\ mailbox'[i] = mailbox[i] /\ i # Len(mailbox')
      /\ Len(mailbox') \in 1..Len(mailbox') /\ mailbox'[Len(mailbox')] = m
      /\ mailbox' \in Seq(Message)
  BY AppendToMailbox
<1>2. mailbox \in Seq(Message)
  BY DEF TypeOK
<1>3. DOMAIN mailbox = 1..Len(mailbox) /\ DOMAIN mailbox' = 1..Len(mailbox')
  BY <1>1, <1>2
<1> QED BY <1>1, <1>3 DEF WaitsForBeat

LEMMA InitContract == Init => Contract!Init
<1> SUFFICES ASSUME Init PROVE Contract!Init
  OBVIOUS
<1>1. ~ WaitsForBeat
  BY DEF Init, WaitsForBeat
<1>2. ContractState = "started"
  BY DEF Init, ContractState
<1> QED BY <1>1, <1>2 DEF Contract!Init, Init, WaitsForBeat

\* The end of a handler in the regular behaviour, once started: nothing, or the result.
LEMMA RegularFinishIsFinish ==
  ASSUME BehaviourFits, behaviour = "receive", row # "Requested",
         exceptionalResult => exceptionalResult', UNCHANGED startThrew,
         NEW regular, AttemptToRegularFinish(regular), row' = Stored(row),
         sent' = sent => (WaitsForBeat' <=> WaitsForBeat)
  PROVE  Contract!Finish \/ UNCHANGED Contract!vars
<1>1. sent = "none" /\ ContractState = IF startThrew THEN "failing" ELSE "running"
  BY DEF ContractState, BehaviourFits
<1>2. CASE regular # {}
  <2>1. UNCHANGED <<behaviour, sent>> /\ row' = row
    BY <1>1, <1>2 DEF AttemptToRegularFinish, Stored
  <2>2. ContractState' = ContractState
    BY <2>1 DEF ContractState
  <2> QED BY <2>1, <2>2 DEF Contract!vars, WaitsForBeat
<1>3. CASE regular = {}
  <2>1. sent' \in {"ok", "failed", "throwable"} /\ (startThrew => sent' = "throwable")
    BY <1>3 DEF AttemptToRegularFinish, BehaviourFits
  <2>2. ContractState' = "ended" /\ ~ WaitsForBeat'
    BY <2>1 DEF ContractState, WaitsForBeat
  <2>3. /\ sent' = "ok" => row' = "Succeed"
        /\ sent' = "failed" => row' = "Failed"
        /\ sent' = "throwable" => row' = row
    BY DEF Stored
  <2> QED BY <1>1, <2>1, <2>2, <2>3 DEF Contract!Finish, Contract!End, WaitsForBeat
<1> QED BY <1>2, <1>3

\* The end of a handler of the interrupted behaviour: nothing, or the result.
LEMMA SignalFinishIsInterrupted ==
  ASSUME BehaviourFits, OneBeat, TypeOK, behaviour = "interrupted", UNCHANGED row,
         NEW regular, NEW signal, AttemptToSignalFinish(regular, signal),
         sent' = sent => (WaitsForBeat' <=> WaitsForBeat)
  PROVE  Contract!Interrupted \/ UNCHANGED Contract!vars
<1>1. sent = "none" /\ ContractState = "interrupting"
  BY DEF ContractState, BehaviourFits
<1>2. ~ WaitsForBeat
  BY DEF WaitsForBeat, OneBeat, TypeOK
<1>3. CASE regular \cup signal # {}
  <2>1. UNCHANGED sent /\ behaviour' = "interrupted"
    BY <1>3 DEF AttemptToSignalFinish
  <2>2. ContractState' = "interrupting"
    BY <1>1, <2>1 DEF ContractState
  <2> QED BY <1>1, <2>1, <2>2 DEF Contract!vars, WaitsForBeat
<1>4. CASE regular \cup signal = {}
  <2>1. sent' = "interrupt"
    BY <1>4 DEF AttemptToSignalFinish
  <2>2. ContractState' = "ended" /\ ~ WaitsForBeat'
    BY <2>1 DEF ContractState, WaitsForBeat
  <2> QED BY <1>1, <1>2, <2>1, <2>2 DEF Contract!Interrupted, Contract!End, WaitsForBeat
<1> QED BY <1>3, <1>4

LEMMA NextContract == TypeOK /\ Bookkeeping /\ [Next]_vars => [Contract!Next]_(Contract!vars)
<1> SUFFICES ASSUME TypeOK, Bookkeeping, [Next]_vars
             PROVE  Contract!Next \/ UNCHANGED Contract!vars
  OBVIOUS
<1>head. ASSUME NEW type, type # "Start", Receive(type) PROVE row # "Requested"
  BY <1>head, TailOfMailbox DEF StartComesFirst, Bookkeeping
<1>same. ASSUME UNCHANGED <<coordinatorVars>>, WaitsForBeat' <=> WaitsForBeat PROVE UNCHANGED Contract!vars
  <2>1. ContractState' = ContractState
    BY <1>same DEF coordinatorVars, ContractState
  <2> QED BY <1>same, <2>1 DEF Contract!vars, coordinatorVars, WaitsForBeat
<1>1. ASSUME HandleStart PROVE Contract!Start
  <2>1. Receive("Start") /\ behaviour = "receive"
    BY <1>1 DEF HandleStart
  <2>2. PICK batch \in SUBSET Fresh :
          /\ startThrew' \in IF "onStepStart" \in Throws THEN BOOLEAN ELSE {FALSE}
          /\ exceptionalResult' = startThrew' /\ AttemptToRegularFinish(batch)
          /\ row' = Stored(IF startThrew' THEN "Canceled" ELSE "Executing")
    BY <1>1 DEF HandleStart
  <2>3. sent = "none" /\ row = "Requested"
    BY <2>1, TailOfMailbox DEF StartComesFirst, BehaviourFits, Bookkeeping
  <2>4. ContractState = "started"
    BY <2>1, <2>3 DEF ContractState
  <2>5. startThrew' \in BOOLEAN
    BY <2>2
  <2>6. CASE batch # {}
    <3>1. sent' = sent /\ behaviour' = behaviour
      BY <2>2, <2>6 DEF AttemptToRegularFinish
    <3>2. row' = IF startThrew' THEN "Canceled" ELSE "Executing"
      BY <2>2, <2>3, <3>1 DEF Stored
    <3>3. ContractState' = IF startThrew' THEN "failing" ELSE "running"
      BY <2>1, <2>3, <2>5, <3>1, <3>2 DEF ContractState
    <3>4. WaitsForBeat' <=> WaitsForBeat
      BY <2>1, <3>1, ReadingKeepsTheBeat
    <3> QED BY <2>4, <3>1, <3>2, <3>3, <3>4 DEF Contract!Start, WaitsForBeat
  <2>7. CASE batch = {}
    <3>1. sent' \in {"ok", "failed", "throwable"} /\ (startThrew' => sent' = "throwable")
      BY <2>2, <2>7 DEF AttemptToRegularFinish
    <3>2. ContractState' = "ended" /\ ~ WaitsForBeat'
      BY <3>1 DEF ContractState, WaitsForBeat
    <3>3. /\ sent' = "ok" => row' = "Succeed"
          /\ sent' = "failed" => row' = "Failed"
          /\ sent' = "throwable" => row' \in {"Executing", "Canceled"}
      BY <2>2 DEF Stored
    <3> QED BY <2>4, <3>1, <3>2, <3>3 DEF Contract!Start, Contract!End, WaitsForBeat
  <2> QED BY <2>6, <2>7
<1>2. ASSUME HandleActionResult \/ HandleTerminated PROVE Contract!Finish \/ UNCHANGED Contract!vars
  <2>1. /\ behaviour = "receive" /\ UNCHANGED startThrew
        /\ Receive("ActionResult") \/ Receive("Terminated")
    BY <1>2 DEF HandleActionResult, HandleTerminated
  <2>2. PICK batch \in SUBSET Fresh :
          /\ OnActionFinish(From, TRUE, batch) \/ OnActionFinish(From, From \in regularExecutors, batch)
          /\ AttemptToRegularFinish((regularExecutors \ {From}) \cup batch)
          /\ row' = Stored(row)
    BY <1>2 DEF HandleActionResult, HandleTerminated
  <2>3. From \in Executors
    BY <2>1, ReporterIsDead DEF Bookkeeping
  <2>4. exceptionalResult => exceptionalResult'
    <3>1. ActionEnds(From, regularExecutors, batch)
      BY <2>2, <2>3, EndOfAction
    <3> QED BY <3>1, Zenon DEF ActionEnds
  <2>5. row # "Requested" /\ (sent' = sent => (WaitsForBeat' <=> WaitsForBeat))
    BY <1>head, <2>1, ReadingKeepsTheBeat
  <2> QED BY <2>1, <2>2, <2>4, <2>5, RegularFinishIsFinish DEF Bookkeeping
<1>3. ASSUME HandleBeat PROVE Contract!Interrupt
  <2>1. Receive("Beat") /\ behaviour = "receive" /\ row' = "Canceled" /\ UNCHANGED startThrew
    BY <1>3 DEF HandleBeat
  <2>2. PICK batch \in SUBSET Fresh : AttemptToSignalFinish(regularExecutors, signalExecutors \cup batch)
    BY <1>3 DEF HandleBeat
  <2>3. sent = "none" /\ row # "Requested"
    BY <1>head, <2>1 DEF Bookkeeping, BehaviourFits
  <2>4. ContractState \in {"running", "failing"}
    BY <2>1, <2>3 DEF ContractState
  <2>5. WaitsForBeat /\ ~ WaitsForBeat'
    BY <2>1, <2>3, ReadingKeepsTheBeat
  <2>6. \/ ContractState' = "interrupting" /\ UNCHANGED sent
        \/ ContractState' = "ended" /\ sent' = "interrupt"
    BY <2>2, <2>3 DEF AttemptToSignalFinish, ContractState
  <2> QED BY <2>1, <2>4, <2>5, <2>6 DEF Contract!Interrupt, Contract!End, WaitsForBeat
<1>4. ASSUME InterruptedActionResult \/ InterruptedTerminated
      PROVE  Contract!Interrupted \/ UNCHANGED Contract!vars
  <2>1. /\ behaviour = "interrupted" /\ UNCHANGED row
        /\ Receive("ActionResult") \/ Receive("Terminated")
    BY <1>4 DEF InterruptedActionResult, InterruptedTerminated
  <2>2. PICK regular, signal : AttemptToSignalFinish(regular, signal)
    BY <1>4 DEF InterruptedActionResult, InterruptedTerminated
  <2>3. sent' = sent => (WaitsForBeat' <=> WaitsForBeat)
    BY <2>1, ReadingKeepsTheBeat
  <2> QED BY <2>1, <2>2, <2>3, SignalFinishIsInterrupted DEF Bookkeeping
<1>5. ASSUME DropMessage PROVE UNCHANGED Contract!vars
  <2>1. PICK type : Receive(type) /\ (type = "Beat" => behaviour = "ignoreBeat")
    BY <1>5 DEF DropMessage
  <2>2. UNCHANGED <<coordinatorVars>> /\ sent' = sent
    BY <1>5 DEF DropMessage, coordinatorVars
  <2>3. CASE type = "Beat"
    BY <2>1, <2>2, <2>3, <1>same DEF Bookkeeping, BehaviourFits, WaitsForBeat
  <2>4. CASE type # "Beat"
    BY <2>1, <2>2, <2>4, <1>same, ReadingKeepsTheBeat
  <2> QED BY <2>3, <2>4
<1>6. ASSUME Signal PROVE Contract!Beat
  <2> DEFINE m == [type |-> "Beat"]
  <2>1. /\ ~ signalled /\ sent = "none" /\ mailbox' = Append(mailbox, m) /\ m \in Message /\ m.type = "Beat"
        /\ UNCHANGED <<coordinatorVars>>
    BY <1>6 DEF Signal, Message
  <2> HIDE DEF m
  <2>2. UNCHANGED <<ContractState, row, sent>>
    BY <2>1 DEF coordinatorVars, ContractState
  <2>3. ~ WaitsForBeat /\ WaitsForBeat'
    BY <2>1, <2>2, SendingKeepsTheBeat DEF WaitsForBeat, Bookkeeping, OneBeat, TypeOK
  <2>4. ContractState # "interrupting" /\ ContractState # "ended"
    BY <2>1 DEF ContractState, Bookkeeping, OneBeat
  <2> QED BY <2>2, <2>3, <2>4 DEF Contract!Beat, WaitsForBeat
<1>7. ASSUME NEW e \in Executors, ExecStart(e) PROVE UNCHANGED Contract!vars
  BY <1>7, <1>same DEF ExecStart, WaitsForBeat, coordinatorVars
<1>8. ASSUME NEW e \in Executors, ExecFinish(e) \/ ExecRespond(e) \/ ExecCrash(e) \/ ExecRepeat(e)
      PROVE  UNCHANGED Contract!vars
  <2>1. PICK type \in {"ActionResult", "Delayed", "Terminated"} : Send(type, e)
    BY <1>8 DEF ExecFinish, ExecRespond, ExecCrash, ExecRepeat
  <2>2. UNCHANGED <<coordinatorVars>> /\ sent' = sent
    BY <1>8 DEF ExecFinish, ExecRespond, ExecCrash, ExecRepeat, coordinatorVars
  <2>3. WaitsForBeat' <=> WaitsForBeat
    <3>1. /\ [type |-> type, from |-> e] \in Message /\ [type |-> type, from |-> e].type # "Beat"
      BY DEF Message
    <3> QED BY <2>1, <2>2, <3>1, SendingKeepsTheBeat DEF Send
  <2> QED BY <2>2, <2>3, <1>same
<1>9. ASSUME UNCHANGED vars PROVE UNCHANGED Contract!vars
  BY <1>9, <1>same DEF vars, WaitsForBeat, coordinatorVars
<1> QED BY <1>1, <1>2, <1>3, <1>4, <1>5, <1>6, <1>7, <1>8, <1>9 DEF Next, HandleMessage, Contract!Next

\* Towards the flow the coordinator of a step, with its wrappers and executors, is what
\* StepContract says: one result, "interrupt" after it has read an interruption, and a row
\* that agrees with it.
THEOREM ImplementsContractCorrect == Spec => ImplementsContract
<1>1. Init => Contract!Init
  BY InitContract
<1>2. TypeOK /\ Bookkeeping /\ [Next]_vars => [Contract!Next]_(Contract!vars)
  BY NextContract
<1> QED BY <1>1, <1>2, BookkeepingCorrect, PTL DEF Spec, ImplementsContract, Contract!Spec
=============================================================================
