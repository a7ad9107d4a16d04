-------------------------- MODULE InstanceLifecycle --------------------------
(***************************************************************************)
(* One instance (environment) and its workflows: what the request broker,  *)
(* the dispatcher, the flows and the housekeeping at start-up do to the    *)
(* rows of the instance and of its workflows.  Environment and Workflow    *)
(* rows are Optimistic: GS.x.update(row) only succeeds on the version that *)
(* was read, while a partial update (setEnvStatus, housekeeping) neither   *)
(* looks at the version nor changes it.                                    *)
(*                                                                         *)
(* A transaction commits in one step.  Request threads and scheduler jobs  *)
(* are clients; a flow is the GenesisFlowCoordinator of one workflow, with *)
(* the order of its steps left to FlowCoordinator; a reader is a thread    *)
(* that shows a workflow in the UI and fills the cache of workflows.       *)
(***************************************************************************)
EXTENDS Naturals, FiniteSets

CONSTANTS
  Clients,    \* threads that request, reset, mark or cancel
  Readers,    \* threads that read a workflow through the cache
  Workflows,  \* identities for the workflows of the instance
  Kinds,      \* the kinds of workflow its template has: a subset of Kind
  MayWarn,    \* some step has its failure ignored
  MaxResults, \* kind -> step results a flow of that kind stores
  MaxCrashes  \* how often the backend may crash

Kind == {"regular", "readOnly", "destroy"}

ASSUME LifecycleAssumption ==
  /\ Kinds \subseteq Kind
  /\ MayWarn \in BOOLEAN
  /\ MaxResults \in [Kind -> Nat] /\ MaxCrashes \in Nat

VARIABLES
  env,         \* the row of the instance
  rows,        \* workflow -> its row
  cache,       \* workflow -> its row in the WorkflowCache, or Absent
  client,      \* client -> where its request is
  flow,        \* workflow -> its flow
  reader,      \* reader -> the row it is about to cache
  up,          \* the backend runs
  crashes

vars == <<env, rows, cache, client, flow, reader, up, crashes>>

EnvStatus      == {"absent", "Ready", "Busy", "Destroyed", "Broken"}
WorkflowStatus == {"absent", "Requested", "Executing", "Warning", "Succeed", "Failed", "Canceled"}

\* The kind stands for the name of the workflow.
Row    == [status : WorkflowStatus, version : Nat, kind : Kind]
Absent == [status |-> "absent", version |-> 0, kind |-> "regular"]

Client == [ pc       : {"idle", "found", "request", "dispatch", "launch"},
            kind     : Kind \cup {"Ready", "Destroyed"},
            seen     : EnvStatus,    \* status when the request came in, where it matters later
            version  : Nat,          \* its version in the transaction of requestWorkflow
            workflow : SUBSET Workflows ]

Flow == [ pc      : {"none", "created", "deaf", "running", "storing", "finishing", "ended"},
          found   : Row,             \* the row findWorkflow returned
          status  : WorkflowStatus,  \* of the record it is about to store
          signal  : {"Success", "Fail", "Cancel"},
          results : Nat,
          restore : (EnvStatus \ {"absent"}) \cup {"none"} ]

Idle   == [pc |-> "idle", kind |-> "regular", seen |-> "absent", version |-> 0, workflow |-> {}]
NoFlow == [pc |-> "none", found |-> Absent, status |-> "absent", signal |-> "Success",
           results |-> 0, restore |-> "none"]
NoRead == [workflow |-> {}, row |-> Absent]

Live(w) == flow[w].pc \in {"created", "running", "storing", "finishing"}

-----------------------------------------------------------------------------
(* Request broker and store. *)

\* The new workflow row; the identity is any unused one.
InsertWorkflow(w, kind) ==
  /\ rows[w].status = "absent"
  /\ rows' = [rows EXCEPT ![w] = [status |-> "Requested", version |-> 0, kind |-> kind]]

\* createEnv: the instance and its create workflow in one transaction.
CreateEnv(c) ==
  /\ client[c].pc = "idle" /\ env.status = "absent"
  /\ env' = [status |-> "Busy", version |-> 0]
  /\ \E w \in Workflows :
        /\ InsertWorkflow(w, "regular")
        /\ client' = [client EXCEPT ![c] = [Idle EXCEPT !.pc = "dispatch", !.workflow = {w}]]
  /\ UNCHANGED <<cache, flow, reader, up, crashes>>

\* setEnvStatus accepts Broken -> Ready and, unless Busy, anything -> Destroyed.
LegalChange(from, to) == \/ from = "Broken" /\ to = "Ready"
                         \/ from # "Busy" /\ to = "Destroyed"

\* RequestBroker.findEnv, for a workflow of some kind or a change of the status.  The
\* template is evaluated and the parameters are validated before the next step.
FindEnv(c) ==
  /\ client[c].pc = "idle" /\ env.status # "absent"
  /\ \E kind \in Kinds \cup {s \in {"Ready", "Destroyed"} : LegalChange(env.status, s)} :
        client' = [client EXCEPT ![c] =
                     [Idle EXCEPT !.pc = "found", !.kind = kind,
                                  !.seen = IF kind \in {"regular", "destroy"} THEN @ ELSE env.status]]
  /\ UNCHANGED <<env, rows, cache, flow, reader, up, crashes>>

IsReadyForWorkflow(status) == status \notin {"Busy", "Destroyed"}

\* The read of requestWorkflow's transaction, or its refusal.
ReadEnv(c) ==
  /\ client[c].pc = "found" /\ client[c].kind \in Kinds
  /\ client' = [client EXCEPT ![c] =
                  IF IsReadyForWorkflow(env.status) THEN [@ EXCEPT !.pc = "request", !.version = env.version]
                  ELSE Idle]
  /\ UNCHANGED <<env, rows, cache, flow, reader, up, crashes>>

\* Variant: the update of the instance is not optimistic.
RequestWorkflowUnchecked(c) ==
  /\ client[c].pc = "request"
  /\ env' = [status |-> "Busy", version |-> env.version + 1]
  /\ \E w \in Workflows :
        /\ InsertWorkflow(w, client[c].kind)
        /\ client' = [client EXCEPT ![c] = [Idle EXCEPT !.pc = "dispatch", !.seen = client[c].seen, !.workflow = {w}]]
  /\ UNCHANGED <<cache, flow, reader, up, crashes>>

\* Its update and commit, or the StaleUpdateException it turns into a refusal.
RequestWorkflow(c) ==
  /\ client[c].pc = "request"
  /\ \/ /\ client[c].version = env.version
        /\ env' = [status |-> "Busy", version |-> env.version + 1]
        /\ \E w \in Workflows :
              /\ InsertWorkflow(w, client[c].kind)
              /\ client' = [client EXCEPT ![c] = [Idle EXCEPT !.pc = "dispatch", !.seen = client[c].seen, !.workflow = {w}]]
     \/ /\ client[c].version # env.version
        /\ client' = [client EXCEPT ![c] = Idle]
        /\ UNCHANGED <<env, rows>>
  /\ UNCHANGED <<cache, flow, reader, up, crashes>>

\* Variant: the update does not look at the status any more.
SetEnvStatusBlind(c) ==
  /\ client[c].pc = "found" /\ client[c].kind \in {"Ready", "Destroyed"}
  /\ env' = [env EXCEPT !.status = client[c].kind]
  /\ client' = [client EXCEPT ![c] = Idle]
  /\ UNCHANGED <<rows, cache, flow, reader, up, crashes>>

\* storeService.setEnvStatus: a partial update where the status is still the one seen.
SetEnvStatus(c) ==
  /\ client[c].pc = "found" /\ client[c].kind \in {"Ready", "Destroyed"}
  /\ env' = IF env.status = client[c].seen THEN [env EXCEPT !.status = client[c].kind] ELSE env
  /\ client' = [client EXCEPT ![c] = Idle]
  /\ UNCHANGED <<rows, cache, flow, reader, up, crashes>>

-----------------------------------------------------------------------------
(* Dispatcher. *)

Restore(c, w) == IF rows[w].kind = "readOnly" THEN client[c].seen ELSE "none"

\* startWorkflow up to the entry in the coordinators map: the flow and its mailbox exist.
\* The workflow requested is the only active one (OneUnderWay), so retrieveWorkflow returns it.
Dispatch(c) ==
  /\ client[c].pc = "dispatch"
  /\ \E w \in client[c].workflow :
        /\ flow' = [flow EXCEPT ![w] = [NoFlow EXCEPT !.pc = "created", !.restore = Restore(c, w)]]
  /\ client' = [client EXCEPT ![c].pc = "launch", ![c].seen = "absent"]
  /\ UNCHANGED <<env, rows, cache, reader, up, crashes>>

\* Variant: only the workflow is stored.
DispatchFailsHalf(c) ==
  /\ client[c].pc = "dispatch"
  /\ \E w \in client[c].workflow :
        /\ rows' = [rows EXCEPT ![w].status = "Failed", ![w].version = @ + 1]
        /\ cache' = [cache EXCEPT ![w] = Absent]
  /\ client' = [client EXCEPT ![c] = Idle]
  /\ UNCHANGED <<env, flow, reader, up, crashes>>

\* An exception in it (a template that cannot be evaluated): finishWorkflow at once.
DispatchFails(c) ==
  /\ client[c].pc = "dispatch"
  /\ \E w \in client[c].workflow :
        /\ rows' = [rows EXCEPT ![w].status = "Failed", ![w].version = @ + 1]
        /\ cache' = [cache EXCEPT ![w] = Absent]
        /\ env' = [status  |-> IF Restore(c, w) # "none" THEN Restore(c, w) ELSE "Broken",
                   version |-> env.version + 1]
  /\ client' = [client EXCEPT ![c] = Idle]
  /\ UNCHANGED <<flow, reader, up, crashes>>

\* TypedFlowCoordinator.start and onFlowStart: the transaction of startWorkflow, then
\* findWorkflow (an executing workflow is never taken from the cache) to count the steps.
\* A flow cancelled before its Start has finished on a null workflow and hears nothing.
Launch(c) ==
  /\ client[c].pc = "launch"
  /\ \E w \in client[c].workflow :
        LET started == [rows[w] EXCEPT !.status = "Executing", !.version = @ + 1] IN
        \/ /\ flow[w].pc = "created"
           /\ rows' = [rows EXCEPT ![w] = started]
           /\ env' = [status |-> "Busy", version |-> env.version + 1]
           /\ flow' = [flow EXCEPT ![w].pc = "storing", ![w].found = started, ![w].status = "Executing"]
           /\ cache' = [cache EXCEPT ![w] = Absent]
        \/ /\ flow[w].pc # "created"
           /\ UNCHANGED <<rows, env, flow, cache>>
  /\ client' = [client EXCEPT ![c] = Idle]
  /\ UNCHANGED <<reader, up, crashes>>

\* cancelWorkflow, when its Beat is handled by the flow.  Which coordinator the map holds
\* when a cancellation comes is left open: the one of any flow created and not ended, or none.
Cancel(w) ==
  /\ \/ flow[w].pc = "created"
        /\ flow' = [flow EXCEPT ![w] = [NoFlow EXCEPT !.pc = "deaf"]]
     \/ flow[w].pc = "running" /\ flow[w].signal = "Success"
        /\ flow' = [flow EXCEPT ![w].signal = "Cancel"]
  /\ UNCHANGED <<env, rows, cache, client, reader, up, crashes>>

-----------------------------------------------------------------------------
(* The flow of a workflow, once it is started. *)

\* findWorkflow: a cached row that is neither Requested nor Executing is believed.
FindWorkflow(w) == IF cache[w].status \notin {"absent", "Requested", "Executing"}
                   THEN cache[w] ELSE rows[w]

\* onStepFinish finds the row, counts the step in it and notes an ignored failure, and
\* updateWorkflow evicts the cached row.
StepResult(w) ==
  /\ flow[w].pc = "running" /\ flow[w].results < MaxResults[rows[w].kind]
  /\ \E status \in {FindWorkflow(w).status} \cup (IF MayWarn THEN {"Warning"} ELSE {}) :
        flow' = [flow EXCEPT ![w].pc = "storing", ![w].found = FindWorkflow(w),
                             ![w].status = status, ![w].results = @ + 1]
  /\ cache' = [cache EXCEPT ![w] = Absent]
  /\ UNCHANGED <<env, rows, client, reader, up, crashes>>

Stored(w) == [rows[w] EXCEPT !.status = flow[w].status, !.version = flow[w].found.version + 1]

\* The update and commit of updateWorkflow, or the StaleUpdateException that fails the flow.
UpdateWorkflow(w) ==
  /\ flow[w].pc = "storing"
  /\ \/ /\ flow[w].found.version = rows[w].version
        /\ rows' = [rows EXCEPT ![w] = Stored(w)]
        /\ flow' = [flow EXCEPT ![w].pc = "running", ![w].found = Absent]
     \/ /\ flow[w].found.version # rows[w].version
        /\ flow' = [flow EXCEPT ![w].pc = "running", ![w].found = Absent,
                                ![w].signal = IF @ = "Success" THEN "Fail" ELSE @]
        /\ UNCHANGED rows
  /\ UNCHANGED <<env, cache, client, reader, up, crashes>>

\* A step that fails for good, or the timeout of the flow.
Interrupt(w) ==
  /\ flow[w].pc = "running" /\ flow[w].signal = "Success"
  /\ flow' = [flow EXCEPT ![w].signal = "Fail"]
  /\ UNCHANGED <<env, rows, cache, client, reader, up, crashes>>

\* Variant: a success is a success, whatever failure was ignored.
FinalStatusForgiving(w) ==
  CASE flow[w].signal = "Success" -> "Succeed"
    [] flow[w].signal = "Cancel"  -> "Canceled"
    [] OTHER                      -> "Failed"

FinalStatus(w) ==
  CASE flow[w].signal = "Success" -> IF flow[w].status = "Warning" THEN "Warning" ELSE "Succeed"
    [] flow[w].signal = "Cancel"  -> "Canceled"
    [] OTHER                      -> "Failed"

\* onFlowFinish: find the row again; finishWorkflow evicts the cached one.
FlowFinish(w) ==
  /\ flow[w].pc = "running"
  /\ flow' = [flow EXCEPT ![w].pc = "finishing", ![w].found = FindWorkflow(w), ![w].status = FinalStatus(w)]
  /\ cache' = [cache EXCEPT ![w] = Absent]
  /\ UNCHANGED <<env, rows, client, reader, up, crashes>>

\* Variant: the status to restore is used even if there is none.
FinalEnvRestoredOnly(w) == flow[w].restore

FinalEnv(w) == IF flow[w].restore # "none" THEN flow[w].restore
               ELSE IF flow[w].signal # "Success" THEN "Broken"
               ELSE IF rows[w].kind = "destroy" THEN "Destroyed" ELSE "Ready"

\* The transaction of finishWorkflow over both rows.  A StaleUpdateException rolls it back
\* and is only logged.
FinishWorkflow(w) ==
  /\ flow[w].pc = "finishing"
  /\ flow' = [flow EXCEPT ![w] = [NoFlow EXCEPT !.pc = "ended"]]
  /\ \/ /\ flow[w].found.version = rows[w].version
        /\ rows' = [rows EXCEPT ![w] = Stored(w)]
        /\ env' = [status |-> FinalEnv(w), version |-> env.version + 1]
     \/ /\ flow[w].found.version # rows[w].version
        /\ UNCHANGED <<rows, env>>
  /\ UNCHANGED <<cache, client, reader, up, crashes>>

-----------------------------------------------------------------------------
(* Readers of the cache; crash and start of the backend. *)

\* findWorkflow by another thread: on a miss the row is read ...  Only rows that are
\* believed later are followed here: not Requested or Executing, and of a flow at work.
ReadWorkflow(r) ==
  /\ reader[r] = NoRead
  /\ \E w \in Workflows :
        /\ cache[w] = Absent /\ Live(w)
        /\ rows[w].status \notin {"Requested", "Executing"}
        /\ reader' = [reader EXCEPT ![r] = [workflow |-> {w}, row |-> rows[w]]]
  /\ UNCHANGED <<env, rows, cache, client, flow, up, crashes>>

\* ... and put in the cache.
CacheWorkflow(r) ==
  /\ reader[r] # NoRead
  /\ cache' = [w \in Workflows |-> IF w \in reader[r].workflow THEN reader[r].row ELSE cache[w]]
  /\ reader' = [reader EXCEPT ![r] = NoRead]
  /\ UNCHANGED <<env, rows, client, flow, up, crashes>>

\* Everything but the database is lost.
Crash ==
  /\ crashes < MaxCrashes
  /\ crashes' = crashes + 1
  /\ up' = FALSE
  /\ cache' = [w \in Workflows |-> Absent]
  /\ client' = [c \in Clients |-> Idle]
  /\ flow' = [w \in Workflows |-> NoFlow]
  /\ reader' = [r \in Readers |-> NoRead]
  /\ UNCHANGED <<env, rows>>

Active == {w \in Workflows : rows[w].status \in {"Requested", "Executing"}}

\* Variant: requested workflows are not looked for.
RestartForgetsRequested ==
  LET executing == {w \in Workflows : rows[w].status = "Executing"} IN
  /\ ~ up /\ up' = TRUE
  /\ rows' = [w \in Workflows |-> IF w \in executing THEN [rows[w] EXCEPT !.status = "Failed"] ELSE rows[w]]
  /\ env' = IF executing # {} THEN [env EXCEPT !.status = "Broken"] ELSE env
  /\ UNCHANGED <<cache, client, flow, reader, crashes>>

\* Variant: whatever did not succeed is marked.
RestartFailsAll ==
  /\ ~ up /\ up' = TRUE
  /\ rows' = [w \in Workflows |-> IF rows[w].status \notin {"absent", "Succeed"}
                                  THEN [rows[w] EXCEPT !.status = "Failed"] ELSE rows[w]]
  /\ env' = IF Active # {} THEN [env EXCEPT !.status = "Broken"] ELSE env
  /\ UNCHANGED <<cache, client, flow, reader, crashes>>

\* Start-up, with markExecutingWorkflowsAsFailed before any request is served.
Restart ==
  /\ ~ up /\ up' = TRUE
  /\ rows' = [w \in Workflows |-> IF w \in Active THEN [rows[w] EXCEPT !.status = "Failed"] ELSE rows[w]]
  /\ env' = IF Active # {} THEN [env EXCEPT !.status = "Broken"] ELSE env
  /\ UNCHANGED <<cache, client, flow, reader, crashes>>

-----------------------------------------------------------------------------
\* The instance does not exist yet, or exists with its earlier, ended workflows left out.
Init ==
  /\ env \in [status : {"absent", "Ready"}, version : {0}]
  /\ rows = [w \in Workflows |-> Absent] /\ cache = [w \in Workflows |-> Absent]
  /\ client = [c \in Clients |-> Idle]
  /\ flow = [w \in Workflows |-> NoFlow]
  /\ reader = [r \in Readers |-> NoRead]
  /\ up = TRUE /\ crashes = 0

ClientStep(c) == CreateEnv(c) \/ FindEnv(c) \/ ReadEnv(c) \/ RequestWorkflow(c) \/ SetEnvStatus(c)
                 \/ Dispatch(c) \/ DispatchFails(c) \/ Launch(c)

FlowStep(w) == Cancel(w) \/ StepResult(w) \/ UpdateWorkflow(w) \/ Interrupt(w) \/ FlowFinish(w) \/ FinishWorkflow(w)

Next ==
  \/ up /\ \E c \in Clients : ClientStep(c)
  \/ up /\ \E w \in Workflows : FlowStep(w)
  \/ up /\ \E r \in Readers : ReadWorkflow(r) \/ CacheWorkflow(r)
  \/ up /\ Crash
  \/ Restart

Spec == Init /\ [][Next]_vars

-----------------------------------------------------------------------------
TypeOK ==
  /\ env \in [status : EnvStatus, version : Nat]
  /\ rows \in [Workflows -> Row] /\ cache \in [Workflows -> Row]
  /\ client \in [Clients -> Client]
  /\ flow \in [Workflows -> Flow]
  /\ reader \in [Readers -> [workflow : SUBSET Workflows, row : Row]]
  /\ up \in BOOLEAN /\ crashes \in Nat

\* A workflow under way: requested, or with a flow at work on it.
UnderWay(w) == rows[w].status \in {"Requested", "Executing"} \/ Live(w)

\* The instance never has two workflows under way, however requests race: the optimistic
\* lock of requestWorkflow lets one of them through, and a change of status none.
OneUnderWay == \A v, w \in Workflows : UnderWay(v) /\ UnderWay(w) => v = w

\* As long as one is, the instance is Busy: nobody resets it, marks it or starts another.
UnderWayIsBusy == \A w \in Workflows : UnderWay(w) => env.status = "Busy"

\* While the backend runs, every Requested or Executing workflow is somebody's: a request
\* about to start it, or its flow; else it could neither end nor be cancelled.  A flow
\* cancelled between its creation and its Start is the exception.
NoOrphan ==
  up => \A w \in Workflows : rows[w].status \in {"Requested", "Executing"} =>
          \/ \E c \in Clients : client[c].workflow = {w}
          \/ Live(w)
          \/ flow[w].pc = "deaf"

\* The bookkeeping these rest on (inductive with TypeOK).  What a client knows: the change
\* of status it asked for is legal from the status it saw, and the instance it read for a
\* request has no workflow under way unless its version has moved on.
RequestIsCurrent(c) ==
  /\ client[c].pc \in {"found", "request"} => env.status # "absent"
  /\ client[c].pc = "found" /\ client[c].kind \in {"Ready", "Destroyed"} =>
       LegalChange(client[c].seen, client[c].kind)
  /\ client[c].pc = "request" =>
       /\ client[c].kind \in Kinds
       /\ client[c].version <= env.version
       /\ client[c].version = env.version => \A w \in Workflows : ~ UnderWay(w)

\* A workflow being started is one client's: requested and without a flow, then with a flow
\* that has not begun.
Owns(c, w) == \/ client[c].pc = "dispatch" /\ rows[w].status = "Requested" /\ flow[w].pc = "none"
              \/ client[c].pc = "launch" /\ flow[w].pc \in {"created", "deaf"}

OwnedWorkflows ==
  /\ \A c \in Clients : \A w \in client[c].workflow : Owns(c, w)
  /\ \A c, d \in Clients : c # d => client[c].workflow \cap client[d].workflow = {}

\* The status a read-only workflow will restore is one the instance had.
RestoreIsKnown(c) ==
  /\ client[c].pc \in {"found", "request"} /\ client[c].kind = "readOnly" => client[c].seen # "absent"
  /\ client[c].pc = "dispatch" =>
       \A w \in client[c].workflow : rows[w].kind = "readOnly" => client[c].seen # "absent"

AtWork(w) == flow[w].pc \in {"running", "storing", "finishing"}

\* The row of a workflow is where its flow is, whatever the cache made the flow believe.
RowOfFlow(w) ==
  /\ flow[w].pc \in {"created", "deaf"} => rows[w].status = "Requested"
  /\ AtWork(w) => rows[w].status \in {"Executing", "Warning"}
  /\ flow[w].pc = "storing" =>
       flow[w].status = "Warning" \/ (flow[w].status = "Executing" /\ rows[w].status = "Executing")
  /\ flow[w].pc = "finishing" =>
       /\ flow[w].status \in {"Warning", "Succeed", "Failed", "Canceled"}
       /\ flow[w].found.version = rows[w].version \/ rows[w].status = "Warning"
  /\ flow[w].pc = "ended" => rows[w].status \in {"Warning", "Succeed", "Failed", "Canceled"}

\* What a reader has cached, or is about to, is a Warning the workflow already has.
Believed(w, row) == /\ row.status = "Warning"
                    /\ AtWork(w) => rows[w].status = "Warning"
                    /\ AtWork(w) \/ flow[w].pc = "ended"

CacheOfFlow ==
  /\ \A w \in Workflows : cache[w].status # "absent" => Believed(w, cache[w])
  /\ \A r \in Readers : \A w \in reader[r].workflow : Believed(w, reader[r].row)

DownIsEmpty ==
  ~ up => /\ \A c \in Clients : client[c] = Idle
          /\ \A w \in Workflows : flow[w] = NoFlow /\ cache[w] = Absent
          /\ \A r \in Readers : reader[r] = NoRead

Bookkeeping ==
  /\ \A c \in Clients : RequestIsCurrent(c) /\ RestoreIsKnown(c)
  /\ OwnedWorkflows
  /\ \A w \in Workflows : RowOfFlow(w)
  /\ CacheOfFlow
  /\ DownIsEmpty

\* An instance is Busy only while a workflow of it is under way, also over a crash and while
\* the backend is down, but for two cases in which it stays Busy for good: a workflow is left
\* with the Warning of an ignored failure, or a read-only one has put back the Busy it was
\* requested in.
BusyIsExplained ==
  env.status = "Busy" => \E w \in Workflows : \/ UnderWay(w)
                                              \/ rows[w].status = "Warning"
                                              \/ rows[w].kind = "readOnly"

\* A workflow that has Succeeded, Failed or been Canceled keeps that status, and an instance
\* that a workflow has destroyed stays Destroyed: a request that is still on its way meets a
\* later version.  (One that is only marked Destroyed has no such protection.)
DestroyedBy(w) == rows[w].kind = "destroy" /\ rows[w].status = "Succeed"

OutcomeIsFinal ==
  [][\A w \in Workflows :
       /\ rows[w].status \in {"Succeed", "Failed", "Canceled"} => rows'[w].status = rows[w].status
       /\ DestroyedBy(w) => env'.status = "Destroyed"]_vars

\* The flow of w as its contract sees it.  A flow that was cancelled before its Start, or is
\* lost with the backend, is over.
FlowOf(w) == INSTANCE FlowContract WITH
  row <- rows[w].status, env <- env.status, signal <- flow[w].signal,
  over <- flow[w].pc \in {"deaf", "ended"}, restore <- flow[w].restore,
  onSuccess <- IF rows[w].kind = "destroy" THEN "Destroyed" ELSE "Ready", MayLose <- TRUE

\* What FlowCoordinator implements, every flow keeps among the requests, readers and flows
\* of others: from the moment it is created the rows are as its contract says, the instance
\* is its own, and a Warning or a first interruption is not lost on the way to the outcome.
FlowsKeepContract ==
  [][up' => \A w \in Workflows :
       IF Live(w) THEN FlowOf(w)!Next \/ UNCHANGED FlowOf(w)!vars
       ELSE Live(w)' => FlowOf(w)!Init']_vars
=============================================================================
