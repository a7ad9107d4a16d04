----------------------- MODULE InstanceLifecycleProofs -----------------------
(***************************************************************************)
(* Theorems about InstanceLifecycle, for any number of clients, readers    *)
(* and workflows of any kinds, and any number of crashes.                  *)
(***************************************************************************)
EXTENDS InstanceLifecycle, TLAPS

\* The inductive invariant.
IInv == TypeOK /\ OneUnderWay /\ UnderWayIsBusy /\ NoOrphan /\ Bookkeeping

LEMMA AbsentType == Absent \in Row
BY DEF Absent, Row, Kind, WorkflowStatus

LEMMA IdleType == Idle \in Client /\ NoFlow \in Flow
BY AbsentType DEF Idle, NoFlow, Client, Flow, Kind, EnvStatus, WorkflowStatus

\* Where a flow can be.
FlowPc == {"none", "created", "deaf", "running", "storing", "finishing", "ended"}

LEMMA InitInv == Init => IInv
<1> SUFFICES ASSUME Init PROVE IInv
  OBVIOUS
<1> USE DEF Init
<1>1. TypeOK
  <2>1. NoRead \in [workflow : SUBSET Workflows, row : Row]
    BY AbsentType DEF NoRead
  <2> QED BY <2>1, AbsentType, IdleType DEF TypeOK, EnvStatus
<1>2. \A w \in Workflows : ~ UnderWay(w)
  BY DEF UnderWay, Live, NoFlow, Absent
<1>3. OneUnderWay /\ UnderWayIsBusy /\ NoOrphan
  BY <1>2 DEF OneUnderWay, UnderWayIsBusy, NoOrphan, UnderWay
<1>4. OwnedWorkflows /\ \A c \in Clients : RequestIsCurrent(c) /\ RestoreIsKnown(c)
  BY DEF RequestIsCurrent, OwnedWorkflows, RestoreIsKnown, Idle
<1>5. CacheOfFlow /\ DownIsEmpty /\ \A w \in Workflows : RowOfFlow(w)
  BY DEF RowOfFlow, CacheOfFlow, DownIsEmpty, AtWork, NoRead, NoFlow, Absent
<1> QED BY <1>1, <1>3, <1>4, <1>5 DEF IInv, Bookkeeping

-----------------------------------------------------------------------------
(* Steps of a client. *)

\* A client that owns no workflow, before and after.
LEMMA ClientStepInv ==
  ASSUME IInv, up, NEW c \in Clients, NEW new \in Client,
         client' = [client EXCEPT ![c] = new], client[c].workflow = {}, new.workflow = {},
         new.pc \in {"idle", "found", "request"},
         UNCHANGED <<rows, cache, flow, reader, up, crashes>>,
         \/ UNCHANGED env
         \/ /\ env' \in [status : EnvStatus \ {"absent"}, version : {env.version}]
            /\ env.status # "absent"
            /\ \A w \in Workflows : ~ UnderWay(w),
         RequestIsCurrent(c)', RestoreIsKnown(c)'
  PROVE  IInv'
<1> USE DEF IInv, Bookkeeping
<1>1. TypeOK'
  BY DEF TypeOK
<1>2. /\ client'[c] = new
      /\ \A d \in Clients \ {c} : client'[d] = client[d]
  BY DEF TypeOK
<1>3. \A w \in Workflows : UnderWay(w)' <=> UnderWay(w)
  BY DEF UnderWay, Live
<1>4. OneUnderWay' /\ UnderWayIsBusy'
  BY <1>3 DEF OneUnderWay, UnderWayIsBusy
<1>5. NoOrphan'
  BY <1>2 DEF NoOrphan, Live
<1>6. OwnedWorkflows'
  BY <1>2 DEF OwnedWorkflows, Owns
<1>7. ASSUME NEW d \in Clients PROVE RequestIsCurrent(d)' /\ RestoreIsKnown(d)'
  <2>1. CASE d # c
    BY <1>2, <1>3, <2>1 DEF RequestIsCurrent, RestoreIsKnown, TypeOK
  <2> QED BY <2>1
<1>8. \A w \in Workflows : RowOfFlow(w)'
  BY DEF RowOfFlow, AtWork
<1>9. CacheOfFlow' /\ DownIsEmpty'
  BY DEF CacheOfFlow, Believed, AtWork, DownIsEmpty
<1> QED BY <1>1, <1>4, <1>5, <1>6, <1>7, <1>8, <1>9

LEMMA FindEnvInv ==
  ASSUME IInv, up, NEW c \in Clients, FindEnv(c)
  PROVE  IInv'
<1> USE DEF IInv, Bookkeeping
<1>1. PICK kind \in Kinds \cup {s \in {"Ready", "Destroyed"} : LegalChange(env.status, s)} :
        client' = [client EXCEPT ![c] =
                     [Idle EXCEPT !.pc = "found", !.kind = kind,
                                  !.seen = IF kind \in {"regular", "destroy"} THEN @ ELSE env.status]]
  BY DEF FindEnv
<1> DEFINE seen == IF kind \in {"regular", "destroy"} THEN Idle.seen ELSE env.status
           new  == [Idle EXCEPT !.pc = "found", !.kind = kind, !.seen = seen]
<1>2. /\ client[c].pc = "idle" /\ env.status # "absent"
      /\ UNCHANGED <<env, rows, cache, flow, reader, up, crashes>>
  BY DEF FindEnv
<1>3. new \in Client
  BY LifecycleAssumption DEF Client, TypeOK, EnvStatus, Idle
<1>4. client[c].workflow = {}
  BY <1>2 DEF OwnedWorkflows, Owns, TypeOK, Client
<1>5. client' = [client EXCEPT ![c] = new] /\ client'[c] = new
  BY <1>1 DEF TypeOK
<1>6. /\ new.workflow = {} /\ new.pc = "found" /\ new.kind = kind
      /\ kind \in {"readOnly", "Ready", "Destroyed"} => new.seen = env.status
  BY DEF Idle
<1>7. RequestIsCurrent(c)' /\ RestoreIsKnown(c)'
  <2> HIDE DEF new
  <2>1. kind \in {"Ready", "Destroyed"} => LegalChange(env.status, kind)
    BY LifecycleAssumption DEF Kind
  <2> QED BY <1>2, <1>5, <1>6, <2>1 DEF RequestIsCurrent, RestoreIsKnown
<1> HIDE DEF new
<1> QED BY <1>2, <1>3, <1>4, <1>5, <1>6, <1>7, ClientStepInv

LEMMA ReadEnvInv ==
  ASSUME IInv, up, NEW c \in Clients, ReadEnv(c)
  PROVE  IInv'
<1> USE DEF IInv, Bookkeeping
<1> DEFINE new == IF IsReadyForWorkflow(env.status)
                  THEN [client[c] EXCEPT !.pc = "request", !.version = env.version] ELSE Idle
<1>1. /\ client[c].pc = "found" /\ client[c].kind \in Kinds
      /\ client' = [client EXCEPT ![c] = new]
      /\ UNCHANGED <<env, rows, cache, flow, reader, up, crashes>>
  BY DEF ReadEnv
<1>2. new \in Client
  BY IdleType DEF TypeOK, Client
<1>3. client[c].workflow = {}
  BY <1>1 DEF OwnedWorkflows, Owns, TypeOK, Client
<1>4. client'[c] = new
  BY <1>1 DEF TypeOK
<1>5. /\ new.workflow = {} /\ new.pc \in {"idle", "request"}
      /\ new.pc = "request" => /\ IsReadyForWorkflow(env.status)
                               /\ new.kind = client[c].kind /\ new.seen = client[c].seen
                               /\ new.version = env.version
  BY <1>3 DEF Idle, TypeOK, Client
<1>6. IsReadyForWorkflow(env.status) => \A w \in Workflows : ~ UnderWay(w)
  BY DEF UnderWayIsBusy, IsReadyForWorkflow
<1>7. RequestIsCurrent(c)'
  <2> HIDE DEF new
  <2>1. \A w \in Workflows : UnderWay(w)' <=> UnderWay(w)
    BY <1>1 DEF UnderWay, Live
  <2> QED BY <1>1, <1>4, <1>5, <1>6, <2>1 DEF RequestIsCurrent, TypeOK
<1>8. RestoreIsKnown(c)'
  <2> HIDE DEF new
  <2> QED BY <1>1, <1>4, <1>5 DEF RestoreIsKnown
<1> HIDE DEF new
<1> QED BY <1>1, <1>2, <1>3, <1>5, <1>7, <1>8, ClientStepInv

\* A client that gives up.
LEMMA BackToIdle ==
  ASSUME IInv, NEW c \in Clients, client' = [client EXCEPT ![c] = Idle]
  PROVE  /\ RequestIsCurrent(c)' /\ RestoreIsKnown(c)'
         /\ Idle.workflow = {} /\ Idle.pc = "idle"
BY DEF IInv, TypeOK, RequestIsCurrent, RestoreIsKnown, Idle

LEMMA SetEnvStatusInv ==
  ASSUME IInv, up, NEW c \in Clients, SetEnvStatus(c)
  PROVE  IInv'
<1> USE DEF IInv, Bookkeeping
<1>1. /\ client[c].pc = "found" /\ client[c].kind \in {"Ready", "Destroyed"}
      /\ client' = [client EXCEPT ![c] = Idle]
      /\ env' = IF env.status = client[c].seen THEN [env EXCEPT !.status = client[c].kind] ELSE env
      /\ UNCHANGED <<rows, cache, flow, reader, up, crashes>>
  BY DEF SetEnvStatus
<1>2. client[c].workflow = {} /\ env.status # "absent"
  BY <1>1 DEF OwnedWorkflows, Owns, RequestIsCurrent, TypeOK, Client
<1>3. CASE env.status # client[c].seen
  BY <1>1, <1>2, <1>3, BackToIdle, IdleType, ClientStepInv
<1>4. CASE env.status = client[c].seen
  <2>1. env.status # "Busy"
    BY <1>1, <1>4 DEF RequestIsCurrent, LegalChange
  <2>2. \A w \in Workflows : ~ UnderWay(w)
    BY <2>1 DEF UnderWayIsBusy
  <2>3. env' \in [status : EnvStatus \ {"absent"}, version : {env.version}]
    BY <1>1, <1>4 DEF TypeOK, EnvStatus
  <2> QED BY <1>1, <1>2, <2>2, <2>3, BackToIdle, IdleType, ClientStepInv
<1> QED BY <1>3, <1>4

\* A workflow is inserted while none is under way.
LEMMA InsertInv ==
  ASSUME IInv, up, NEW c \in Clients, NEW w \in Workflows, NEW kind \in Kind,
         NEW seen \in EnvStatus, NEW new,
         new = [pc |-> "dispatch", kind |-> "regular", seen |-> seen, version |-> 0, workflow |-> {w}],
         InsertWorkflow(w, kind), client' = [client EXCEPT ![c] = new],
         env' \in [status : {"Busy"}, version : Nat],
         UNCHANGED <<cache, flow, reader, up, crashes>>,
         client[c].workflow = {}, kind = "readOnly" => seen # "absent",
         \A v \in Workflows : ~ UnderWay(v),
         \A d \in Clients : client[d].pc = "request" => client[d].version < env'.version
  PROVE  IInv'
<1> USE DEF IInv, Bookkeeping
<1>client. /\ client'[c] = new /\ \A d \in Clients \ {c} : client'[d] = client[d]
           /\ new.pc = "dispatch" /\ new.seen = seen /\ new.workflow = {w}
           /\ new \in Client
  BY DEF TypeOK, Client, Kind
<1>rows. /\ rows[w].status = "absent"
         /\ rows'[w].status = "Requested" /\ rows'[w].kind = kind
         /\ \A v \in Workflows \ {w} : rows'[v] = rows[v]
         /\ rows' \in [Workflows -> Row]
  BY DEF InsertWorkflow, TypeOK, Row, WorkflowStatus
<1>fresh. flow[w].pc = "none" /\ \A d \in Clients : w \notin client[d].workflow
  BY <1>rows DEF RowOfFlow, AtWork, OwnedWorkflows, Owns, TypeOK, Flow
<1>1. TypeOK'
  BY <1>client, <1>rows DEF TypeOK, EnvStatus
<1>2. \A v \in Workflows : UnderWay(v)' => v = w
  BY <1>rows DEF UnderWay, Live
<1>3. OneUnderWay' /\ UnderWayIsBusy'
  BY <1>2 DEF OneUnderWay, UnderWayIsBusy
<1>4. NoOrphan'
  BY <1>2, <1>client DEF NoOrphan, UnderWay
<1>5. OwnedWorkflows'
  <2>1. ASSUME NEW d \in Clients, NEW v \in client'[d].workflow PROVE Owns(d, v)'
    <3>1. CASE d = c
      BY <3>1, <1>client, <1>rows, <1>fresh DEF Owns
    <3>2. CASE d # c
      <4>1. v # w /\ v \in Workflows /\ v \in client[d].workflow /\ Owns(d, v)
        BY <3>2, <2>1, <1>client, <1>fresh DEF TypeOK, Client, OwnedWorkflows
      <4> QED BY <4>1, <3>2, <1>client, <1>rows DEF Owns
    <3> QED BY <3>1, <3>2
  <2>2. \A d, e \in Clients : d # e => client'[d].workflow \cap client'[e].workflow = {}
    BY <1>client, <1>fresh DEF OwnedWorkflows
  <2> QED BY <2>1, <2>2 DEF OwnedWorkflows
<1>6. ASSUME NEW d \in Clients PROVE RequestIsCurrent(d)' /\ RestoreIsKnown(d)'
  <2>1. CASE d = c
    BY <2>1, <1>client, <1>rows DEF RequestIsCurrent, RestoreIsKnown
  <2>2. CASE d # c
    <3>1. client'[d] = client[d] /\ w \notin client[d].workflow
      BY <2>2, <1>client, <1>fresh
    <3>2. \A v \in client[d].workflow : rows'[v] = rows[v]
      BY <3>1, <1>rows DEF TypeOK, Client
    <3>3. client[d].version \in Nat
      BY DEF TypeOK, Client
    <3>4. RequestIsCurrent(d)'
      BY <3>1, <3>3 DEF RequestIsCurrent
    <3>5. RestoreIsKnown(d)'
      BY <3>1, <3>2 DEF RestoreIsKnown
    <3> QED BY <3>4, <3>5
  <2> QED BY <2>1, <2>2
<1>7. \A v \in Workflows : RowOfFlow(v)'
  BY <1>rows, <1>fresh DEF RowOfFlow, AtWork
<1>8. CacheOfFlow' /\ DownIsEmpty'
  <2>1. \A v \in Workflows : ~ AtWork(v)
    BY DEF AtWork, UnderWay, Live
  <2>2. \A v \in Workflows : \A row : Believed(v, row) => Believed(v, row)'
    BY <2>1 DEF Believed, AtWork
  <2> QED BY <2>2 DEF CacheOfFlow, DownIsEmpty, TypeOK
<1> QED BY <1>1, <1>3, <1>4, <1>5, <1>6, <1>7, <1>8

LEMMA CreateEnvInv ==
  ASSUME IInv, up, NEW c \in Clients, CreateEnv(c)
  PROVE  IInv'
<1> USE DEF IInv, Bookkeeping
<1> DEFINE new(w) == [pc |-> "dispatch", kind |-> "regular", seen |-> "absent", version |-> 0, workflow |-> {w}]
<1>1. /\ client[c].pc = "idle" /\ env.status = "absent"
      /\ env' = [status |-> "Busy", version |-> 0]
      /\ UNCHANGED <<cache, flow, reader, up, crashes>>
  BY DEF CreateEnv
<1>2. PICK w \in Workflows : /\ InsertWorkflow(w, "regular")
                             /\ client' = [client EXCEPT ![c] = new(w)]
  BY DEF CreateEnv, Idle
<1>3. client[c].workflow = {}
  BY <1>1 DEF OwnedWorkflows, Owns, TypeOK, Client
<1>4. \A v \in Workflows : ~ UnderWay(v)
  BY <1>1 DEF UnderWayIsBusy
<1>5. \A d \in Clients : client[d].pc # "request"
  BY <1>1 DEF RequestIsCurrent
<1>6. "regular" \in Kind /\ "absent" \in EnvStatus /\ env' \in [status : {"Busy"}, version : Nat]
  BY <1>1 DEF Kind, EnvStatus
<1> QED BY <1>1, <1>2, <1>3, <1>4, <1>5, <1>6, InsertInv

LEMMA RequestWorkflowInv ==
  ASSUME IInv, up, NEW c \in Clients, RequestWorkflow(c)
  PROVE  IInv'
<1> USE DEF IInv, Bookkeeping
<1> DEFINE new(w) == [pc |-> "dispatch", kind |-> "regular", seen |-> client[c].seen, version |-> 0, workflow |-> {w}]
<1>1. /\ client[c].pc = "request"
      /\ UNCHANGED <<cache, flow, reader, up, crashes>>
  BY DEF RequestWorkflow
<1>2. client[c].workflow = {}
  BY <1>1 DEF OwnedWorkflows, Owns, TypeOK, Client
<1>3. CASE client[c].version # env.version
  <2>1. client' = [client EXCEPT ![c] = Idle] /\ UNCHANGED <<env, rows>>
    BY <1>3 DEF RequestWorkflow
  <2> QED BY <1>1, <1>2, <2>1, BackToIdle, IdleType, ClientStepInv
<1>4. CASE client[c].version = env.version
  <2>1. env' = [status |-> "Busy", version |-> env.version + 1]
    BY <1>4 DEF RequestWorkflow
  <2>2. PICK w \in Workflows : /\ InsertWorkflow(w, client[c].kind)
                               /\ client' = [client EXCEPT ![c] = new(w)]
    BY <1>4 DEF RequestWorkflow, Idle
  <2>3. /\ client[c].kind \in Kind /\ client[c].seen \in EnvStatus
        /\ client[c].kind = "readOnly" => client[c].seen # "absent"
    BY <1>1, LifecycleAssumption DEF RequestIsCurrent, RestoreIsKnown, TypeOK, Client
  <2>4. \A v \in Workflows : ~ UnderWay(v)
    BY <1>1, <1>4 DEF RequestIsCurrent
  <2>5. \A d \in Clients : client[d].pc = "request" => client[d].version < env'.version
    BY <2>1 DEF RequestIsCurrent, TypeOK, Client
  <2>6. env' \in [status : {"Busy"}, version : Nat]
    BY <2>1 DEF TypeOK
  <2> QED BY <1>1, <1>2, <2>2, <2>3, <2>4, <2>5, <2>6, InsertInv
<1> QED BY <1>3, <1>4

-----------------------------------------------------------------------------
(* Steps on the workflow under way. *)

\* A client owns a workflow only while it is under way, and alone.
LEMMA OwnedIsUnderWay ==
  ASSUME IInv, NEW c \in Clients, NEW w \in client[c].workflow
  PROVE  /\ w \in Workflows /\ UnderWay(w) /\ Owns(c, w)
         /\ \A d \in Clients \ {c} : w \notin client[d].workflow
         /\ \A row : ~ Believed(w, row)
         /\ env.status = "Busy"
<1> USE DEF IInv, Bookkeeping
<1>1. w \in Workflows /\ Owns(c, w) /\ \A d \in Clients \ {c} : w \notin client[d].workflow
  BY DEF TypeOK, Client, OwnedWorkflows
<1>2. UnderWay(w) /\ \A row : ~ Believed(w, row)
  BY <1>1 DEF Owns, RowOfFlow, UnderWay, Live, Believed, AtWork
<1> QED BY <1>1, <1>2 DEF UnderWayIsBusy

\* A step that changes the rows and the flow of the workflow under way and no other, by its
\* flow or by the client that starts it.
LEMMA WorkflowStepInv ==
  ASSUME IInv, up, NEW w \in Workflows, UnderWay(w),
         UNCHANGED <<reader, up, crashes>>,
         rows' \in [Workflows -> Row], flow' \in [Workflows -> Flow], client' \in [Clients -> Client],
         rows'[w].kind = rows[w].kind,
         \A v \in Workflows \ {w} : rows'[v] = rows[v] /\ flow'[v] = flow[v],
         cache' \in {cache, [cache EXCEPT ![w] = Absent]},
         \A d \in Clients : \/ client'[d] = client[d]
                            \/ /\ client'[d].pc \in {"idle", "launch"}
                               /\ client'[d].workflow \subseteq client[d].workflow,
         \A d \in Clients : w \in client'[d].workflow => Owns(d, w)',
         RowOfFlow(w)',
         rows'[w].status \in {"Requested", "Executing"} =>
           \/ \E d \in Clients : client'[d].workflow = {w}
           \/ Live(w)'
           \/ flow'[w].pc = "deaf",
         UnderWay(w)' => env'.status = "Busy",
         env' \in [status : EnvStatus \ {"absent"}, version : Nat],
         env'.version >= env.version,
         \A row \in Row : Believed(w, row) => Believed(w, row)'
  PROVE  IInv'
<1> USE DEF IInv, Bookkeeping
<1>1. TypeOK'
  BY AbsentType DEF TypeOK
<1>2. \A v \in Workflows : UnderWay(v) => v = w
  BY DEF OneUnderWay
<1>3. \A v \in Workflows : UnderWay(v)' => v = w
  BY <1>2 DEF UnderWay, Live
<1>4. OneUnderWay' /\ UnderWayIsBusy'
  BY <1>3 DEF OneUnderWay, UnderWayIsBusy
<1>5. NoOrphan'
  <2>1. \A v \in Workflows : rows'[v].status \in {"Requested", "Executing"} => v = w
    BY <1>3 DEF UnderWay
  <2> QED BY <2>1 DEF NoOrphan
<1>6. \A d \in Clients : client'[d].workflow \subseteq client[d].workflow /\ client'[d].workflow \subseteq {w}
  BY <1>2, OwnedIsUnderWay
<1>7. OwnedWorkflows'
  <2>1. ASSUME NEW d \in Clients, NEW v \in client'[d].workflow PROVE Owns(d, v)'
    <3>1. v = w
      BY <1>6
    <3> QED BY <3>1, <2>1
  <2>2. \A d, e \in Clients : d # e => client'[d].workflow \cap client'[e].workflow = {}
    BY <1>6 DEF OwnedWorkflows
  <2> QED BY <2>1, <2>2 DEF OwnedWorkflows
<1>8. ASSUME NEW d \in Clients PROVE RequestIsCurrent(d)' /\ RestoreIsKnown(d)'
  <2>1. CASE client'[d].pc \in {"idle", "launch"}
    BY <2>1 DEF RequestIsCurrent, RestoreIsKnown
  <2>2. CASE client'[d] = client[d]
    <3>1. client[d].pc = "request" => client[d].version < env.version
      <4>1. RequestIsCurrent(d) /\ client[d].version \in Nat /\ env.version \in Nat
        BY DEF TypeOK, Client
      <4> QED BY <4>1 DEF RequestIsCurrent
    <3>2. RequestIsCurrent(d)'
      <4>1. client[d].pc = "request" => client[d].version < env'.version
        BY <3>1 DEF TypeOK, Client
      <4>2. RequestIsCurrent(d) /\ env'.status # "absent"
        OBVIOUS
      <4> QED BY <2>2, <4>1, <4>2 DEF RequestIsCurrent, TypeOK, Client
    <3>3. RestoreIsKnown(d)'
      BY <2>2, <1>6 DEF RestoreIsKnown
    <3> QED BY <3>2, <3>3
  <2> QED BY <2>1, <2>2
<1>9. \A v \in Workflows : RowOfFlow(v)'
  BY DEF RowOfFlow, AtWork
<1>10. CacheOfFlow' /\ DownIsEmpty'
  <2>1. ASSUME NEW v \in Workflows, NEW row \in Row, Believed(v, row) PROVE Believed(v, row)'
    <3>1. CASE v = w
      BY <2>1, <3>1
    <3>2. CASE v # w
      BY <2>1, <3>2 DEF Believed, AtWork
    <3> QED BY <3>1, <3>2
  <2>2. ASSUME NEW v \in Workflows, cache'[v].status # "absent" PROVE Believed(v, cache[v])'
    <3>1. cache'[v] = cache[v] /\ cache[v] \in Row
      BY <2>2 DEF Absent, TypeOK
    <3>2. Believed(v, cache[v])
      <4>1. CacheOfFlow
        OBVIOUS
      <4> QED BY <2>2, <3>1, <4>1 DEF CacheOfFlow
    <3>3. PICK row \in Row : row = cache[v]
      BY <3>1
    <3>4. Believed(v, row)'
      BY <2>1, <3>2, <3>3
    <3> QED BY <3>1, <3>3, <3>4 DEF Believed
  <2>3. ASSUME NEW r \in Readers, NEW v \in reader[r].workflow PROVE Believed(v, reader[r].row)'
    <3>1. v \in Workflows /\ reader[r].row \in Row /\ reader' = reader
      BY DEF TypeOK
    <3>2. Believed(v, reader[r].row)
      <4>1. CacheOfFlow
        OBVIOUS
      <4> QED BY <3>1, <4>1 DEF CacheOfFlow
    <3> QED BY <2>1, <3>1, <3>2 DEF Believed, AtWork
  <2>4. CacheOfFlow'
    BY <2>2, <2>3 DEF CacheOfFlow, Believed
  <2>5. DownIsEmpty'
    BY DEF DownIsEmpty
  <2> QED BY <2>4, <2>5
<1> QED BY <1>1, <1>4, <1>5, <1>7, <1>8, <1>9, <1>10

LEMMA LaunchingClient ==
  ASSUME NEW d \in Client
  PROVE  [d EXCEPT !.pc = "launch", !.seen = "absent"] \in Client
<1>1. /\ "launch" \in {"idle", "found", "request", "dispatch", "launch"}
      /\ "absent" \in EnvStatus
  BY DEF EnvStatus
<1> QED BY <1>1 DEF Client

LEMMA DispatchInv ==
  ASSUME IInv, up, NEW c \in Clients, Dispatch(c)
  PROVE  IInv'
<1> USE DEF IInv, Bookkeeping
<1>1. PICK w \in client[c].workflow :
        flow' = [flow EXCEPT ![w] = [NoFlow EXCEPT !.pc = "created", !.restore = Restore(c, w)]]
  BY DEF Dispatch
<1>2. /\ client[c].pc = "dispatch"
      /\ client' = [client EXCEPT ![c].pc = "launch", ![c].seen = "absent"]
      /\ UNCHANGED <<env, rows, cache, reader, up, crashes>>
  BY DEF Dispatch
<1>3. /\ w \in Workflows /\ UnderWay(w) /\ Owns(c, w)
      /\ \A d \in Clients \ {c} : w \notin client[d].workflow
      /\ \A row : ~ Believed(w, row)
      /\ env.status = "Busy"
  BY OwnedIsUnderWay
<1>4. rows[w].status = "Requested"
  BY <1>2, <1>3 DEF Owns
<1>5. flow' \in [Workflows -> Flow] /\ flow'[w].pc = "created"
  <2>1. Restore(c, w) \in (EnvStatus \ {"absent"}) \cup {"none"}
    BY <1>2 DEF Restore, RestoreIsKnown, TypeOK, Client
  <2>2. [NoFlow EXCEPT !.pc = "created", !.restore = Restore(c, w)] \in Flow
    BY <2>1, IdleType DEF Flow
  <2> QED BY <1>1, <1>3, <2>2 DEF TypeOK, NoFlow
<1>6. /\ client' \in [Clients -> Client]
      /\ client'[c].pc = "launch" /\ client'[c].workflow = client[c].workflow
      /\ \A d \in Clients \ {c} : client'[d] = client[d]
  <2>1. client[c] \in Client
    BY DEF TypeOK
  <2>2. [client[c] EXCEPT !.pc = "launch", !.seen = "absent"] \in Client
    BY <2>1, LaunchingClient
  <2>3. client' = [client EXCEPT ![c] = [client[c] EXCEPT !.pc = "launch", !.seen = "absent"]]
    BY <1>2 DEF TypeOK
  <2> QED BY <2>2, <2>3 DEF TypeOK, Client
<1>7. RowOfFlow(w)' /\ Live(w)' /\ Owns(c, w)'
  BY <1>2, <1>4, <1>5, <1>6 DEF RowOfFlow, AtWork, Live, Owns
<1>8. env \in [status : EnvStatus \ {"absent"}, version : Nat] /\ env.version >= env.version
  BY <1>3 DEF TypeOK
<1> QED BY <1>1, <1>2, <1>3, <1>5, <1>6, <1>7, <1>8, WorkflowStepInv DEF TypeOK

LEMMA DispatchFailsInv ==
  ASSUME IInv, up, NEW c \in Clients, DispatchFails(c)
  PROVE  IInv'
<1> USE DEF IInv, Bookkeeping
<1>1. PICK w \in client[c].workflow :
        /\ rows' = [rows EXCEPT ![w].status = "Failed", ![w].version = @ + 1]
        /\ cache' = [cache EXCEPT ![w] = Absent]
        /\ env' = [status  |-> IF Restore(c, w) # "none" THEN Restore(c, w) ELSE "Broken",
                   version |-> env.version + 1]
  BY DEF DispatchFails
<1>2. /\ client[c].pc = "dispatch" /\ client' = [client EXCEPT ![c] = Idle]
      /\ UNCHANGED <<flow, reader, up, crashes>>
  BY DEF DispatchFails
<1>3. /\ w \in Workflows /\ UnderWay(w) /\ Owns(c, w)
      /\ \A d \in Clients \ {c} : w \notin client[d].workflow
      /\ \A row : ~ Believed(w, row)
  BY OwnedIsUnderWay
<1>4. flow[w].pc = "none"
  BY <1>2, <1>3 DEF Owns
<1>5. /\ rows' \in [Workflows -> Row]
      /\ rows'[w].status = "Failed" /\ rows'[w].kind = rows[w].kind
      /\ \A v \in Workflows \ {w} : rows'[v] = rows[v]
  BY <1>1, <1>3 DEF TypeOK, Row, WorkflowStatus
<1>6. /\ client' \in [Clients -> Client]
      /\ client'[c].pc = "idle" /\ client'[c].workflow = {}
      /\ \A d \in Clients \ {c} : client'[d] = client[d]
  BY <1>2, IdleType DEF TypeOK, Idle
<1>7. RowOfFlow(w)' /\ ~ UnderWay(w)'
  BY <1>2, <1>4, <1>5 DEF RowOfFlow, AtWork, UnderWay, Live
<1>8. env' \in [status : EnvStatus \ {"absent"}, version : Nat] /\ env'.version >= env.version
  <2>1. Restore(c, w) \in (EnvStatus \ {"absent"}) \cup {"none"}
    BY <1>2 DEF Restore, RestoreIsKnown, TypeOK, Client
  <2> QED BY <1>1, <2>1 DEF TypeOK, EnvStatus
<1> QED BY <1>1, <1>2, <1>3, <1>5, <1>6, <1>7, <1>8, WorkflowStepInv DEF TypeOK

LEMMA LaunchInv ==
  ASSUME IInv, up, NEW c \in Clients, Launch(c)
  PROVE  IInv'
<1> USE DEF IInv, Bookkeeping
<1> DEFINE started(w) == [rows[w] EXCEPT !.status = "Executing", !.version = @ + 1]
<1>1. /\ client[c].pc = "launch" /\ client' = [client EXCEPT ![c] = Idle]
      /\ UNCHANGED <<reader, up, crashes>>
  BY DEF Launch
<1>2. PICK w \in client[c].workflow :
        \/ /\ flow[w].pc = "created"
           /\ rows' = [rows EXCEPT ![w] = started(w)]
           /\ env' = [status |-> "Busy", version |-> env.version + 1]
           /\ flow' = [flow EXCEPT ![w].pc = "storing", ![w].found = started(w), ![w].status = "Executing"]
           /\ cache' = [cache EXCEPT ![w] = Absent]
        \/ /\ flow[w].pc # "created"
           /\ UNCHANGED <<rows, env, flow, cache>>
  BY DEF Launch
<1>3. /\ w \in Workflows /\ UnderWay(w) /\ Owns(c, w)
      /\ \A d \in Clients \ {c} : w \notin client[d].workflow
      /\ \A row : ~ Believed(w, row)
      /\ env.status = "Busy"
  BY OwnedIsUnderWay
<1>4. /\ client' \in [Clients -> Client]
      /\ client'[c].pc = "idle" /\ client'[c].workflow = {}
      /\ \A d \in Clients \ {c} : client'[d] = client[d]
  BY <1>1, IdleType DEF TypeOK, Idle
<1>5. CASE flow[w].pc = "created"
  <2>1. started(w) \in Row /\ started(w).status = "Executing" /\ started(w).kind = rows[w].kind
    <3>1. rows[w] \in Row /\ rows[w].version + 1 \in Nat /\ "Executing" \in WorkflowStatus
      BY <1>3 DEF TypeOK, Row, WorkflowStatus
    <3> QED BY <3>1 DEF Row
  <2> HIDE DEF started
  <2>2. /\ rows' \in [Workflows -> Row] /\ rows'[w] = started(w)
        /\ \A v \in Workflows \ {w} : rows'[v] = rows[v]
    BY <1>2, <1>3, <1>5, <2>1 DEF TypeOK
  <2>3. /\ flow' \in [Workflows -> Flow] /\ flow'[w].pc = "storing" /\ flow'[w].status = "Executing"
        /\ \A v \in Workflows \ {w} : flow'[v] = flow[v]
    <3>1. "storing" \in FlowPc /\ "Executing" \in WorkflowStatus /\ flow[w] \in Flow
      BY <1>3 DEF FlowPc, WorkflowStatus, TypeOK
    <3> DEFINE f == [flow[w] EXCEPT !.pc = "storing", !.found = started(w), !.status = "Executing"]
    <3>2. f \in Flow /\ f.pc = "storing" /\ f.status = "Executing"
      BY <2>1, <3>1 DEF Flow, FlowPc
    <3>3. flow' = [flow EXCEPT ![w] = f]
      BY <1>2, <1>3, <1>5 DEF TypeOK
    <3> HIDE DEF f
    <3> QED BY <1>3, <3>2, <3>3 DEF TypeOK
  <2>4. RowOfFlow(w)' /\ Live(w)'
    BY <2>1, <2>2, <2>3 DEF RowOfFlow, AtWork, Live
  <2>5. /\ env' \in [status : EnvStatus \ {"absent"}, version : Nat] /\ env'.version >= env.version
        /\ env'.status = "Busy" /\ cache' = [cache EXCEPT ![w] = Absent]
    BY <1>2, <1>5 DEF TypeOK, EnvStatus
  <2> QED BY <1>1, <1>3, <1>4, <2>1, <2>2, <2>3, <2>4, <2>5, WorkflowStepInv
<1>6. CASE flow[w].pc # "created"
  <2>1. flow[w].pc = "deaf" /\ UNCHANGED <<rows, env, flow, cache>>
    BY <1>1, <1>2, <1>3, <1>6 DEF Owns
  <2>2. RowOfFlow(w)'
    BY <1>3, <2>1 DEF RowOfFlow, AtWork
  <2>3. env \in [status : EnvStatus \ {"absent"}, version : Nat] /\ env.version >= env.version
    BY <1>3 DEF TypeOK
  <2> QED BY <1>1, <1>3, <1>4, <2>1, <2>2, <2>3, WorkflowStepInv DEF TypeOK
<1> QED BY <1>5, <1>6

-----------------------------------------------------------------------------
(* Steps of a flow. *)

LEMMA FlowStepInv ==
  ASSUME IInv, up, NEW w \in Workflows, NEW f \in Flow, NEW row \in Row,
         flow' = [flow EXCEPT ![w] = f], rows' = [rows EXCEPT ![w] = row],
         cache' \in {cache, [cache EXCEPT ![w] = Absent]},
         UNCHANGED <<client, reader, up, crashes>>,
         AtWork(w), f.pc \in {"running", "storing", "finishing", "ended"},
         row.kind = rows[w].kind,
         rows[w].status = "Warning" => row.status = "Warning" \/ f.pc = "ended",
         RowOfFlow(w)',
         \/ UNCHANGED env
         \/ f.pc = "ended" /\ env' \in [status : EnvStatus \ {"absent"}, version : {env.version + 1}]
  PROVE  IInv'
<1> USE DEF IInv, Bookkeeping
<1>1. UnderWay(w) /\ env.status = "Busy"
  BY DEF UnderWayIsBusy, UnderWay, Live, AtWork
<1>2. \A d \in Clients : w \notin client[d].workflow
  BY DEF OwnedWorkflows, Owns, AtWork
<1>3. /\ rows' \in [Workflows -> Row] /\ flow' \in [Workflows -> Flow]
      /\ rows'[w] = row /\ flow'[w] = f
      /\ \A v \in Workflows \ {w} : rows'[v] = rows[v] /\ flow'[v] = flow[v]
  BY DEF TypeOK
<1>4. f.pc = "ended" => ~ UnderWay(w)' /\ rows'[w].status \notin {"Requested", "Executing"}
  BY <1>3 DEF RowOfFlow, UnderWay, Live
<1>5. f.pc # "ended" => Live(w)'
  BY <1>3 DEF Live
<1>6. \A r \in Row : Believed(w, r) => Believed(w, r)'
  BY <1>3 DEF Believed, AtWork
<1>7. env' \in [status : EnvStatus \ {"absent"}, version : Nat] /\ env'.version >= env.version
  BY <1>1 DEF TypeOK
<1>8. UnderWay(w)' => env'.status = "Busy"
  BY <1>1, <1>4
<1> QED BY <1>1, <1>2, <1>3, <1>4, <1>5, <1>6, <1>7, <1>8, WorkflowStepInv DEF TypeOK

\* The facts the lemmas below start from.
LEMMA FlowFacts ==
  ASSUME IInv, NEW w \in Workflows, AtWork(w)
  PROVE  /\ flow[w] \in Flow /\ rows[w] \in Row /\ RowOfFlow(w)
         /\ rows' = rows => rows' = [rows EXCEPT ![w] = rows[w]]
         /\ \/ FindWorkflow(w) = rows[w]
            \/ /\ FindWorkflow(w) \in Row /\ FindWorkflow(w).status = "Warning"
               /\ rows[w].status = "Warning"
         /\ \A f : flow' = [flow EXCEPT ![w] = f] => flow'[w] = f
<1> USE DEF IInv, Bookkeeping
<1>1. flow[w] \in Flow /\ rows[w] \in Row /\ cache[w] \in Row /\ RowOfFlow(w)
  BY DEF TypeOK
<1>2. rows' = rows => rows' = [rows EXCEPT ![w] = rows[w]]
  BY DEF TypeOK
<1>3. cache[w].status # "absent" => Believed(w, cache[w])
  BY DEF CacheOfFlow
<1>4. \/ FindWorkflow(w) = rows[w]
      \/ /\ FindWorkflow(w) \in Row /\ FindWorkflow(w).status = "Warning"
         /\ rows[w].status = "Warning"
  BY <1>1, <1>3 DEF FindWorkflow, Believed
<1>5. \A f : flow' = [flow EXCEPT ![w] = f] => flow'[w] = f
  BY DEF TypeOK
<1> QED BY <1>1, <1>2, <1>4, <1>5

LEMMA CancelInv ==
  ASSUME IInv, up, NEW w \in Workflows, Cancel(w)
  PROVE  IInv'
<1> USE DEF IInv, Bookkeeping
<1>1. UNCHANGED <<env, rows, cache, client, reader, up, crashes>>
  BY DEF Cancel
<1>2. CASE flow[w].pc = "created"
  <2> DEFINE f == [NoFlow EXCEPT !.pc = "deaf"]
  <2>1. flow' = [flow EXCEPT ![w] = f]
    BY <1>2 DEF Cancel
  <2>2. f \in Flow /\ f.pc = "deaf"
    BY IdleType DEF Flow, NoFlow
  <2> HIDE DEF f
  <2>3. /\ flow' \in [Workflows -> Flow] /\ flow'[w].pc = "deaf"
        /\ \A v \in Workflows \ {w} : flow'[v] = flow[v]
    BY <2>1, <2>2 DEF TypeOK
  <2>4. UnderWay(w) /\ rows[w].status = "Requested"
    BY <1>2 DEF UnderWay, Live, RowOfFlow
  <2>5. RowOfFlow(w)'
    BY <1>1, <2>3, <2>4 DEF RowOfFlow, AtWork
  <2>6. env.status = "Busy" /\ env \in [status : EnvStatus \ {"absent"}, version : Nat] /\ env.version >= env.version
    BY <2>4 DEF UnderWayIsBusy, TypeOK
  <2>7. \A d \in Clients : w \in client[d].workflow => Owns(d, w)'
    BY <1>1, <1>2, <2>3 DEF OwnedWorkflows, Owns
  <2>8. \A row \in Row : ~ Believed(w, row)
    BY <1>2 DEF Believed, AtWork
  <2> QED BY <1>1, <2>3, <2>4, <2>5, <2>6, <2>7, <2>8, WorkflowStepInv DEF TypeOK
<1>3. CASE flow[w].pc # "created"
  <2> DEFINE f == [flow[w] EXCEPT !.signal = "Cancel"]
  <2>1. AtWork(w) /\ flow[w].pc = "running" /\ flow' = [flow EXCEPT ![w] = f]
    BY <1>3 DEF Cancel, AtWork, TypeOK
  <2>2. f \in Flow /\ f.pc = "running"
    BY <2>1, FlowFacts DEF Flow
  <2> HIDE DEF f
  <2>3. RowOfFlow(w)'
    BY <1>1, <2>1, <2>2, FlowFacts DEF RowOfFlow, AtWork
  <2> QED BY <1>1, <2>1, <2>2, <2>3, FlowFacts, FlowStepInv
<1> QED BY <1>2, <1>3

LEMMA StepResultInv ==
  ASSUME IInv, up, NEW w \in Workflows, StepResult(w)
  PROVE  IInv'
<1>1. /\ flow[w].pc = "running" /\ AtWork(w)
      /\ cache' = [cache EXCEPT ![w] = Absent]
      /\ UNCHANGED <<env, rows, client, reader, up, crashes>>
  BY DEF StepResult, AtWork
<1>2. PICK status \in {FindWorkflow(w).status} \cup (IF MayWarn THEN {"Warning"} ELSE {}) :
        flow' = [flow EXCEPT ![w].pc = "storing", ![w].found = FindWorkflow(w),
                             ![w].status = status, ![w].results = @ + 1]
  BY DEF StepResult
<1>3. /\ FindWorkflow(w) \in Row /\ status \in WorkflowStatus
      /\ status = "Warning" \/ (status = "Executing" /\ rows[w].status = "Executing")
  BY <1>1, FlowFacts DEF Row, WorkflowStatus, RowOfFlow
<1> DEFINE f == [flow[w] EXCEPT !.pc = "storing", !.found = FindWorkflow(w),
                                !.status = status, !.results = @ + 1]
<1>4. f \in Flow /\ f.pc = "storing" /\ f.status = status
  <2>1. "storing" \in FlowPc /\ flow[w] \in Flow
    BY <1>1, FlowFacts DEF FlowPc
  <2>2. flow[w].results + 1 \in Nat
    BY <2>1 DEF Flow
  <2> QED BY <1>3, <2>1, <2>2 DEF Flow, FlowPc
<1>5. flow' = [flow EXCEPT ![w] = f]
  BY <1>2 DEF IInv, TypeOK
<1> HIDE DEF f
<1>6. RowOfFlow(w)'
  BY <1>1, <1>3, <1>4, <1>5, FlowFacts DEF RowOfFlow, AtWork
<1> QED BY <1>1, <1>4, <1>5, <1>6, FlowFacts, FlowStepInv

LEMMA UpdateWorkflowInv ==
  ASSUME IInv, up, NEW w \in Workflows, UpdateWorkflow(w)
  PROVE  IInv'
<1>1. /\ flow[w].pc = "storing" /\ AtWork(w)
      /\ UNCHANGED <<env, cache, client, reader, up, crashes>>
  BY DEF UpdateWorkflow, AtWork
<1>2. CASE flow[w].found.version = rows[w].version
  <2> DEFINE f == [flow[w] EXCEPT !.pc = "running", !.found = Absent]
             row == Stored(w)
  <2>1. rows' = [rows EXCEPT ![w] = row] /\ flow' = [flow EXCEPT ![w] = f]
    BY <1>2 DEF UpdateWorkflow, IInv, TypeOK
  <2>2. f \in Flow /\ f.pc = "running"
    BY <1>1, FlowFacts, AbsentType DEF Flow
  <2>3. row \in Row /\ row.status = flow[w].status /\ row.kind = rows[w].kind
    <3>1. /\ rows[w] \in Row /\ flow[w].status \in WorkflowStatus
          /\ flow[w].found.version + 1 \in Nat
      BY <1>1, FlowFacts DEF Flow, Row
    <3> QED BY <3>1 DEF Stored, Row
  <2> HIDE DEF f, row
  <2>4. rows'[w] = row
    BY <2>1 DEF IInv, TypeOK
  <2>5. row.status \in {"Executing", "Warning"} /\ (rows[w].status = "Warning" => row.status = "Warning")
    BY <1>1, <2>3, FlowFacts DEF RowOfFlow
  <2>6. RowOfFlow(w)'
    BY <1>1, <2>1, <2>2, <2>4, <2>5, FlowFacts DEF RowOfFlow, AtWork
  <2> QED BY <1>1, <2>1, <2>2, <2>3, <2>5, <2>6, FlowStepInv
<1>3. CASE flow[w].found.version # rows[w].version
  <2> DEFINE f == [flow[w] EXCEPT !.pc = "running", !.found = Absent,
                                  !.signal = IF @ = "Success" THEN "Fail" ELSE @]
  <2>1. UNCHANGED rows /\ flow' = [flow EXCEPT ![w] = f]
    BY <1>3 DEF UpdateWorkflow, IInv, TypeOK
  <2>2. f \in Flow /\ f.pc = "running"
    BY <1>1, FlowFacts, AbsentType DEF Flow
  <2> HIDE DEF f
  <2>3. RowOfFlow(w)'
    BY <1>1, <2>1, <2>2, FlowFacts DEF RowOfFlow, AtWork
  <2> QED BY <1>1, <2>1, <2>2, <2>3, FlowFacts, FlowStepInv
<1> QED BY <1>2, <1>3

LEMMA InterruptInv ==
  ASSUME IInv, up, NEW w \in Workflows, Interrupt(w)
  PROVE  IInv'
<1> DEFINE f == [flow[w] EXCEPT !.signal = "Fail"]
<1>1. /\ flow[w].pc = "running" /\ AtWork(w) /\ flow' = [flow EXCEPT ![w] = f]
      /\ UNCHANGED <<env, rows, cache, client, reader, up, crashes>>
  BY DEF Interrupt, AtWork, IInv, TypeOK
<1>2. f \in Flow /\ f.pc = "running"
  BY <1>1, FlowFacts DEF Flow
<1> HIDE DEF f
<1>3. RowOfFlow(w)'
  BY <1>1, <1>2, FlowFacts DEF RowOfFlow, AtWork
<1> QED BY <1>1, <1>2, <1>3, FlowFacts, FlowStepInv

LEMMA FlowFinishInv ==
  ASSUME IInv, up, NEW w \in Workflows, FlowFinish(w)
  PROVE  IInv'
<1> DEFINE f == [flow[w] EXCEPT !.pc = "finishing", !.found = FindWorkflow(w), !.status = FinalStatus(w)]
<1>1. /\ flow[w].pc = "running" /\ AtWork(w) /\ flow' = [flow EXCEPT ![w] = f]
      /\ cache' = [cache EXCEPT ![w] = Absent]
      /\ UNCHANGED <<env, rows, client, reader, up, crashes>>
  BY DEF FlowFinish, AtWork, IInv, TypeOK
<1>2. FinalStatus(w) \in {"Warning", "Succeed", "Failed", "Canceled"}
  BY DEF FinalStatus
<1>3. f \in Flow /\ f.pc = "finishing" /\ f.found = FindWorkflow(w) /\ f.status = FinalStatus(w)
  <2>1. FindWorkflow(w) \in Row /\ FinalStatus(w) \in WorkflowStatus
    BY <1>1, <1>2, FlowFacts DEF WorkflowStatus
  <2> QED BY <1>1, <2>1, FlowFacts DEF Flow
<1> HIDE DEF f
<1>4. RowOfFlow(w)'
  BY <1>1, <1>2, <1>3, FlowFacts DEF RowOfFlow, AtWork
<1> QED BY <1>1, <1>3, <1>4, FlowFacts, FlowStepInv

LEMMA FinishWorkflowInv ==
  ASSUME IInv, up, NEW w \in Workflows, FinishWorkflow(w)
  PROVE  IInv'
<1> DEFINE f == [NoFlow EXCEPT !.pc = "ended"]
<1>1. /\ flow[w].pc = "finishing" /\ AtWork(w) /\ flow' = [flow EXCEPT ![w] = f]
      /\ UNCHANGED <<cache, client, reader, up, crashes>>
  BY DEF FinishWorkflow, AtWork
<1>2. f \in Flow /\ f.pc = "ended"
  BY IdleType DEF Flow, NoFlow
<1> HIDE DEF f
<1>3. CASE flow[w].found.version = rows[w].version
  <2> DEFINE row == Stored(w)
  <2>1. /\ rows' = [rows EXCEPT ![w] = row]
        /\ env' = [status |-> FinalEnv(w), version |-> env.version + 1]
    BY <1>3 DEF FinishWorkflow
  <2>2. row \in Row /\ row.status = flow[w].status /\ row.kind = rows[w].kind
    <3>1. /\ rows[w] \in Row /\ flow[w].status \in WorkflowStatus
          /\ flow[w].found.version + 1 \in Nat
      BY <1>1, FlowFacts DEF Flow, Row
    <3> QED BY <3>1 DEF Stored, Row
  <2> HIDE DEF row
  <2>3. rows'[w] = row
    BY <2>1 DEF IInv, TypeOK
  <2>4. RowOfFlow(w)'
    BY <1>1, <1>2, <2>2, <2>3, FlowFacts DEF RowOfFlow, AtWork
  <2>5. FinalEnv(w) \in EnvStatus \ {"absent"}
    BY <1>1, FlowFacts DEF FinalEnv, Flow, EnvStatus
  <2> QED BY <1>1, <1>2, <2>1, <2>2, <2>4, <2>5, FlowStepInv
<1>4. CASE flow[w].found.version # rows[w].version
  <2>1. UNCHANGED <<rows, env>>
    BY <1>4 DEF FinishWorkflow
  <2>2. RowOfFlow(w)'
    BY <1>1, <1>2, <1>4, <2>1, FlowFacts DEF RowOfFlow, AtWork
  <2> QED BY <1>1, <1>2, <2>1, <2>2, FlowFacts, FlowStepInv
<1> QED BY <1>3, <1>4

-----------------------------------------------------------------------------
(* Readers, crash and start. *)

\* A step of the readers and the cache, or none at all.
LEMMA CacheStepInv ==
  ASSUME IInv, UNCHANGED <<env, rows, client, flow, up>>, TypeOK', CacheOfFlow', DownIsEmpty'
  PROVE  IInv'
<1> USE DEF IInv, Bookkeeping
<1>1. \A w \in Workflows : UnderWay(w)' <=> UnderWay(w)
  BY DEF UnderWay, Live
<1>2. OneUnderWay' /\ UnderWayIsBusy' /\ NoOrphan'
  BY <1>1 DEF OneUnderWay, UnderWayIsBusy, NoOrphan, Live
<1>3. \A c \in Clients : RequestIsCurrent(c)' /\ RestoreIsKnown(c)'
  BY <1>1 DEF RequestIsCurrent, RestoreIsKnown
<1>4. OwnedWorkflows' /\ \A w \in Workflows : RowOfFlow(w)'
  BY DEF OwnedWorkflows, Owns, RowOfFlow, AtWork
<1> QED BY <1>2, <1>3, <1>4

LEMMA ReadWorkflowInv ==
  ASSUME IInv, up, NEW r \in Readers, ReadWorkflow(r)
  PROVE  IInv'
<1> USE DEF IInv, Bookkeeping
<1>1. UNCHANGED <<env, rows, cache, client, flow, up, crashes>>
  BY DEF ReadWorkflow
<1>2. PICK w \in Workflows :
        /\ Live(w) /\ rows[w].status \notin {"Requested", "Executing"}
        /\ reader' = [reader EXCEPT ![r] = [workflow |-> {w}, row |-> rows[w]]]
  BY DEF ReadWorkflow
<1>3. TypeOK'
  BY <1>1, <1>2 DEF TypeOK
<1>4. Believed(w, rows[w])
  BY <1>2 DEF Believed, Live, RowOfFlow, AtWork
<1>5. CacheOfFlow'
  <2>1. \A v \in Workflows : cache[v].status # "absent" => Believed(v, cache[v])'
    BY <1>1 DEF CacheOfFlow, Believed, AtWork
  <2>2. ASSUME NEW q \in Readers, NEW v \in reader'[q].workflow PROVE Believed(v, reader[q].row)'
    <3>1. CASE q = r
      BY <1>1, <1>2, <1>4, <3>1, <2>2 DEF Believed, AtWork, TypeOK
    <3>2. CASE q # r
      BY <1>1, <1>2, <3>2, <2>2 DEF CacheOfFlow, Believed, AtWork, TypeOK
    <3> QED BY <3>1, <3>2
  <2> QED BY <1>1, <2>1, <2>2 DEF CacheOfFlow, Believed
<1> QED BY <1>1, <1>3, <1>5, CacheStepInv DEF DownIsEmpty

LEMMA CacheWorkflowInv ==
  ASSUME IInv, up, NEW r \in Readers, CacheWorkflow(r)
  PROVE  IInv'
<1> USE DEF IInv, Bookkeeping
<1>1. /\ UNCHANGED <<env, rows, client, flow, up, crashes>>
      /\ cache' = [w \in Workflows |-> IF w \in reader[r].workflow THEN reader[r].row ELSE cache[w]]
      /\ reader' = [reader EXCEPT ![r] = NoRead]
  BY DEF CacheWorkflow
<1>2. TypeOK'
  BY <1>1, AbsentType DEF TypeOK, NoRead
<1>3. CacheOfFlow'
  <2>1. CacheOfFlow
    OBVIOUS
  <2>2. ASSUME NEW v \in Workflows, cache'[v].status # "absent" PROVE Believed(v, cache[v])'
    BY <1>1, <2>1, <2>2 DEF CacheOfFlow, Believed, AtWork
  <2>3. ASSUME NEW q \in Readers, NEW v \in reader'[q].workflow PROVE Believed(v, reader[q].row)'
    <3>1. q # r /\ reader'[q] = reader[q] /\ v \in reader[q].workflow
      BY <1>1, <2>3 DEF NoRead, TypeOK
    <3> QED BY <1>1, <2>1, <3>1 DEF CacheOfFlow, Believed, AtWork
  <2> QED BY <2>2, <2>3 DEF CacheOfFlow, Believed
<1> QED BY <1>1, <1>2, <1>3, CacheStepInv DEF DownIsEmpty

LEMMA CrashInv ==
  ASSUME IInv, up, Crash
  PROVE  IInv'
<1> USE DEF IInv, Bookkeeping, Crash
<1>1. TypeOK'
  <2>1. NoRead \in [workflow : SUBSET Workflows, row : Row]
    BY AbsentType DEF NoRead
  <2>2. crashes' \in Nat
    BY DEF TypeOK
  <2>3. env' \in [status : EnvStatus, version : Nat] /\ rows' \in [Workflows -> Row] /\ up' \in BOOLEAN
    BY DEF TypeOK
  <2>4. /\ client' \in [Clients -> Client] /\ flow' \in [Workflows -> Flow]
        /\ cache' \in [Workflows -> Row]
    BY AbsentType, IdleType
  <2>5. reader' \in [Readers -> [workflow : SUBSET Workflows, row : Row]]
    BY <2>1
  <2> QED BY <2>2, <2>3, <2>4, <2>5 DEF TypeOK
<1>2. \A w \in Workflows : UnderWay(w)' => UnderWay(w)
  BY DEF UnderWay, Live, NoFlow
<1>3. OneUnderWay' /\ UnderWayIsBusy' /\ NoOrphan'
  BY <1>2 DEF OneUnderWay, UnderWayIsBusy, NoOrphan
<1>4. OwnedWorkflows' /\ \A c \in Clients : RequestIsCurrent(c)' /\ RestoreIsKnown(c)'
  BY DEF RequestIsCurrent, OwnedWorkflows, RestoreIsKnown, Idle
<1>5. CacheOfFlow' /\ DownIsEmpty' /\ \A w \in Workflows : RowOfFlow(w)'
  BY DEF RowOfFlow, CacheOfFlow, DownIsEmpty, AtWork, NoRead, NoFlow, Absent
<1> QED BY <1>1, <1>3, <1>4, <1>5

LEMMA RestartInv ==
  ASSUME IInv, Restart
  PROVE  IInv'
<1> USE DEF IInv, Bookkeeping, Restart
<1>1. /\ \A c \in Clients : client'[c] = Idle
      /\ \A w \in Workflows : flow'[w] = NoFlow /\ cache'[w] = Absent
      /\ \A r \in Readers : reader'[r] = NoRead
  BY DEF DownIsEmpty
<1>2. TypeOK'
  <2>1. \A w \in Workflows : [rows[w] EXCEPT !.status = "Failed"] \in Row
    BY DEF TypeOK, Row, WorkflowStatus
  <2>2. env' \in [status : EnvStatus, version : Nat]
    BY DEF TypeOK, EnvStatus
  <2> QED BY <2>1, <2>2 DEF TypeOK
<1>3. \A w \in Workflows : ~ UnderWay(w)'
  <2>1. \A w \in Workflows : rows[w] \in Row
    BY DEF TypeOK
  <2>2. \A w \in Workflows : rows'[w].status \notin {"Requested", "Executing"}
    BY <2>1 DEF Active, Row
  <2> QED BY <1>1, <2>2 DEF UnderWay, Live, NoFlow
<1>4. OneUnderWay' /\ UnderWayIsBusy' /\ NoOrphan'
  BY <1>3 DEF OneUnderWay, UnderWayIsBusy, NoOrphan, UnderWay
<1>5. OwnedWorkflows' /\ \A c \in Clients : RequestIsCurrent(c)' /\ RestoreIsKnown(c)'
  BY <1>1 DEF RequestIsCurrent, OwnedWorkflows, RestoreIsKnown, Idle
<1>6. CacheOfFlow' /\ DownIsEmpty' /\ \A w \in Workflows : RowOfFlow(w)'
  BY <1>1 DEF RowOfFlow, CacheOfFlow, DownIsEmpty, AtWork, NoRead, NoFlow, Absent
<1> QED BY <1>2, <1>4, <1>5, <1>6

LEMMA StutterInv ==
  ASSUME IInv, UNCHANGED vars
  PROVE  IInv'
<1> USE DEF IInv, Bookkeeping, vars
<1>1. TypeOK' /\ DownIsEmpty'
  BY DEF TypeOK, DownIsEmpty
<1>2. CacheOfFlow'
  BY DEF CacheOfFlow, Believed, AtWork
<1> QED BY <1>1, <1>2, CacheStepInv

LEMMA NextInv == IInv /\ [Next]_vars => IInv'
<1> SUFFICES ASSUME IInv, [Next]_vars PROVE IInv'
  OBVIOUS
<1>1. ASSUME up, NEW c \in Clients, ClientStep(c) PROVE IInv'
  BY <1>1, CreateEnvInv, FindEnvInv, ReadEnvInv, RequestWorkflowInv, SetEnvStatusInv,
     DispatchInv, DispatchFailsInv, LaunchInv DEF ClientStep
<1>2. ASSUME up, NEW w \in Workflows, FlowStep(w) PROVE IInv'
  BY <1>2, CancelInv, StepResultInv, UpdateWorkflowInv, InterruptInv, FlowFinishInv,
     FinishWorkflowInv DEF FlowStep
<1>3. ASSUME up, NEW r \in Readers, ReadWorkflow(r) \/ CacheWorkflow(r) PROVE IInv'
  BY <1>3, ReadWorkflowInv, CacheWorkflowInv
<1>4. CASE up /\ Crash
  BY <1>4, CrashInv
<1>5. CASE Restart
  BY <1>5, RestartInv
<1>6. CASE UNCHANGED vars
  BY <1>6, StutterInv
<1> QED BY <1>1, <1>2, <1>3, <1>4, <1>5, <1>6 DEF Next

LEMMA SpecInv == Spec => []IInv
BY InitInv, NextInv, PTL DEF Spec

-----------------------------------------------------------------------------
\* Every variable stays in its type, whatever the constants.
THEOREM TypeCorrect == Spec => []TypeOK
<1>1. IInv => TypeOK
  BY DEF IInv
<1> QED BY <1>1, SpecInv, PTL

\* Two requests that race for an instance never both get a workflow under way.
THEOREM OneUnderWayCorrect == Spec => []OneUnderWay
<1>1. IInv => OneUnderWay
  BY DEF IInv
<1> QED BY <1>1, SpecInv, PTL

\* The instance is Busy from the request of a workflow to the commit of its end, so that
\* setEnvStatus, which reads no version, cannot reset or mark it in between.
THEOREM UnderWayIsBusyCorrect == Spec => []UnderWayIsBusy
<1>1. IInv => UnderWayIsBusy
  BY DEF IInv
<1> QED BY <1>1, SpecInv, PTL

\* No workflow stays Requested or Executing with nobody to start or finish it, over any
\* number of crashes: the housekeeping at start-up finds every one of them.
THEOREM NoOrphanCorrect == Spec => []NoOrphan
<1>1. IInv => NoOrphan
  BY DEF IInv
<1> QED BY <1>1, SpecInv, PTL

\* What the clients, the flows and the cache of workflows know of the rows.
THEOREM BookkeepingCorrect == Spec => []Bookkeeping
<1>1. IInv => Bookkeeping
  BY DEF IInv
<1> QED BY <1>1, SpecInv, PTL

-----------------------------------------------------------------------------
(* Why an instance is Busy. *)

\* Only the flow of a read-only workflow has a status to restore.
RestoreIsReadOnly ==
  \A w \in Workflows : flow[w].restore # "none" => rows[w].kind = "readOnly" /\ rows[w].status # "absent"

BusyInv == BusyIsExplained /\ RestoreIsReadOnly

LEMMA InitBusy == Init => BusyInv
BY DEF Init, NoFlow, BusyInv, BusyIsExplained, RestoreIsReadOnly

LEMMA ClientBusy ==
  ASSUME IInv, BusyInv, NEW c \in Clients, ClientStep(c)
  PROVE  BusyInv'
<1> USE DEF IInv
<1>1. ASSUME NEW w \in Workflows, NEW kind, InsertWorkflow(w, kind), UNCHANGED flow PROVE BusyInv'
  <2>1. /\ rows'[w].status = "Requested" /\ rows[w].status = "absent"
        /\ \A v \in Workflows \ {w} : rows'[v] = rows[v]
    BY <1>1 DEF InsertWorkflow, TypeOK
  <2>2. UnderWay(w)'
    BY <2>1 DEF UnderWay
  <2> QED BY <1>1, <2>1, <2>2 DEF BusyInv, BusyIsExplained, RestoreIsReadOnly
<1>2. CASE UNCHANGED <<rows, flow>> /\ (env'.status = "Busy" => env.status = "Busy")
  BY <1>2 DEF BusyInv, BusyIsExplained, RestoreIsReadOnly, UnderWay, Live
<1>3. CASE CreateEnv(c)
  BY <1>1, <1>3 DEF CreateEnv
<1>4. CASE FindEnv(c) \/ ReadEnv(c)
  BY <1>2, <1>4 DEF FindEnv, ReadEnv
<1>5. CASE RequestWorkflow(c)
  BY <1>1, <1>2, <1>5 DEF RequestWorkflow
<1>6. CASE SetEnvStatus(c)
  <2>1. env'.status \in {env.status, "Ready", "Destroyed"} /\ UNCHANGED <<rows, flow>>
    BY <1>6 DEF SetEnvStatus, TypeOK
  <2> QED BY <1>2, <2>1
<1>7. CASE Dispatch(c)
  <2>1. PICK w \in client[c].workflow :
          flow' = [flow EXCEPT ![w] = [NoFlow EXCEPT !.pc = "created", !.restore = Restore(c, w)]]
    BY <1>7 DEF Dispatch
  <2>2. w \in Workflows /\ Owns(c, w) /\ client[c].pc = "dispatch" /\ UNCHANGED <<rows, env>>
    BY <1>7, OwnedIsUnderWay DEF Dispatch
  <2>3. /\ flow'[w].pc = "created" /\ flow'[w].restore = Restore(c, w)
        /\ \A v \in Workflows \ {w} : flow'[v] = flow[v]
    BY <2>1, <2>2 DEF TypeOK, NoFlow
  <2>4. Restore(c, w) # "none" => rows[w].kind = "readOnly" /\ rows[w].status # "absent"
    BY <2>2 DEF Restore, Owns
  <2>5. \A v \in Workflows : UnderWay(v) => UnderWay(v)'
    BY <2>2, <2>3 DEF UnderWay, Live
  <2> QED BY <2>2, <2>3, <2>4, <2>5 DEF BusyInv, BusyIsExplained, RestoreIsReadOnly
<1>8. CASE DispatchFails(c)
  <2>1. PICK w \in client[c].workflow :
          /\ rows' = [rows EXCEPT ![w].status = "Failed", ![w].version = @ + 1]
          /\ env' = [status  |-> IF Restore(c, w) # "none" THEN Restore(c, w) ELSE "Broken",
                     version |-> env.version + 1]
    BY <1>8 DEF DispatchFails
  <2>2. w \in Workflows /\ UNCHANGED flow
    BY <1>8, OwnedIsUnderWay DEF DispatchFails
  <2>3. /\ rows'[w].kind = rows[w].kind /\ rows'[w].status = "Failed"
        /\ \A v \in Workflows \ {w} : rows'[v] = rows[v]
    BY <2>1, <2>2 DEF TypeOK, Row
  <2>4. env'.status = "Busy" => rows'[w].kind = "readOnly"
    BY <2>1, <2>3 DEF Restore
  <2> QED BY <2>2, <2>3, <2>4 DEF BusyInv, BusyIsExplained, RestoreIsReadOnly
<1>9. CASE Launch(c)
  <2>1. PICK w \in client[c].workflow :
          LET started == [rows[w] EXCEPT !.status = "Executing", !.version = @ + 1] IN
          \/ /\ flow[w].pc = "created"
             /\ rows' = [rows EXCEPT ![w] = started]
             /\ flow' = [flow EXCEPT ![w].pc = "storing", ![w].found = started, ![w].status = "Executing"]
          \/ UNCHANGED <<rows, env, flow>>
    BY <1>9 DEF Launch
  <2>2. w \in Workflows
    BY OwnedIsUnderWay
  <2>3. CASE UNCHANGED <<rows, env, flow>>
    BY <1>2, <2>3
  <2>4. CASE ~ UNCHANGED <<rows, env, flow>>
    <3> DEFINE started == [rows[w] EXCEPT !.status = "Executing", !.version = @ + 1]
               f == [flow[w] EXCEPT !.pc = "storing", !.found = started, !.status = "Executing"]
    <3>1. started.status = "Executing" /\ started.kind = rows[w].kind
      BY <2>2 DEF TypeOK, Row
    <3>2. f.restore = flow[w].restore
      BY <2>2 DEF TypeOK, Flow
    <3>3. rows' = [rows EXCEPT ![w] = started] /\ flow' = [flow EXCEPT ![w] = f]
      BY <2>1, <2>2, <2>4 DEF TypeOK
    <3>4. /\ rows'[w].status = "Executing" /\ rows'[w].kind = rows[w].kind
          /\ flow'[w].restore = flow[w].restore
          /\ \A v \in Workflows \ {w} : rows'[v] = rows[v] /\ flow'[v] = flow[v]
      <4> HIDE DEF started, f
      <4> QED BY <2>2, <3>1, <3>2, <3>3 DEF TypeOK
    <3>5. UnderWay(w)'
      BY <3>4 DEF UnderWay
    <3> QED BY <2>2, <3>4, <3>5 DEF BusyInv, BusyIsExplained, RestoreIsReadOnly
  <2> QED BY <2>3, <2>4
<1> QED BY <1>3, <1>4, <1>5, <1>6, <1>7, <1>8, <1>9 DEF ClientStep

\* A flow whose update failed runs on, with the status to restore that it had.
LEMMA FlowAfterUpdate ==
  ASSUME NEW old \in [Workflows -> Flow], NEW w \in Workflows
  PROVE  \E f : /\ [old EXCEPT ![w].pc = "running", ![w].found = Absent,
                               ![w].signal = IF @ = "Success" THEN "Fail" ELSE @]
                      = [old EXCEPT ![w] = f]
               /\ f.pc = "running" /\ f.restore = old[w].restore
<1> DEFINE signal == IF old[w].signal = "Success" THEN "Fail" ELSE old[w].signal
           f == [old[w] EXCEPT !.pc = "running", !.found = Absent, !.signal = signal]
<1>1. old[w] \in Flow
  OBVIOUS
<1>2. [old EXCEPT ![w].pc = "running", ![w].found = Absent,
                  ![w].signal = IF @ = "Success" THEN "Fail" ELSE @] = [old EXCEPT ![w] = f]
  BY <1>1 DEF Flow
<1>3. f.pc = "running" /\ f.restore = old[w].restore
  <2> HIDE DEF signal
  <2> QED BY <1>1 DEF Flow
<1> QED BY <1>2, <1>3

LEMMA FlowBusy ==
  ASSUME IInv, BusyInv, NEW w \in Workflows, FlowStep(w)
  PROVE  BusyInv'
<1> USE DEF IInv, Bookkeeping
<1>1. CASE Cancel(w) \/ StepResult(w) \/ Interrupt(w) \/ FlowFinish(w)
  <2>1. PICK f : flow' = [flow EXCEPT ![w] = f] /\ f.restore \in {flow[w].restore, "none"}
                 /\ (f.pc \in {"running", "storing", "finishing"} \/ rows[w].status = "Requested")
    <3>1. CASE Cancel(w) /\ flow[w].pc = "created"
      <4>1. rows[w].status = "Requested"
        BY <3>1 DEF RowOfFlow
      <4> QED BY <3>1, <4>1 DEF Cancel, NoFlow
    <3>2. CASE (Cancel(w) /\ flow[w].pc # "created") \/ Interrupt(w)
      <4>1. PICK signal : flow' = [flow EXCEPT ![w] = [flow[w] EXCEPT !.signal = signal]] /\ flow[w].pc = "running"
        BY <3>2 DEF Cancel, Interrupt
      <4> DEFINE f == [flow[w] EXCEPT !.signal = signal]
      <4>2. f.pc = "running" /\ f.restore = flow[w].restore
        BY <4>1 DEF TypeOK, Flow
      <4> QED BY <4>1, <4>2
    <3>3. CASE StepResult(w)
      <4>1. PICK status : flow' = [flow EXCEPT ![w].pc = "storing", ![w].found = FindWorkflow(w),
                                               ![w].status = status, ![w].results = @ + 1]
        BY <3>3 DEF StepResult
      <4> DEFINE f == [flow[w] EXCEPT !.pc = "storing", !.found = FindWorkflow(w),
                                      !.status = status, !.results = @ + 1]
      <4>2. flow' = [flow EXCEPT ![w] = f] /\ f.pc = "storing" /\ f.restore = flow[w].restore
        BY <4>1 DEF TypeOK, Flow
      <4> QED BY <4>2
    <3>4. CASE FlowFinish(w)
      <4> DEFINE f == [flow[w] EXCEPT !.pc = "finishing", !.found = FindWorkflow(w), !.status = FinalStatus(w)]
      <4>1. flow' = [flow EXCEPT ![w] = f] /\ f.pc = "finishing" /\ f.restore = flow[w].restore
        BY <3>4 DEF FlowFinish, TypeOK, Flow
      <4> QED BY <4>1
    <3> QED BY <1>1, <3>1, <3>2, <3>3, <3>4
  <2>2. UNCHANGED <<env, rows>>
    BY <1>1 DEF Cancel, StepResult, Interrupt, FlowFinish
  <2>3. flow'[w] = f /\ \A v \in Workflows \ {w} : flow'[v] = flow[v]
    BY <2>1 DEF TypeOK
  <2>4. UnderWay(w)' /\ \A v \in Workflows \ {w} : UnderWay(v) => UnderWay(v)'
    BY <2>1, <2>2, <2>3 DEF UnderWay, Live
  <2> QED BY <2>1, <2>2, <2>3, <2>4 DEF BusyInv, BusyIsExplained, RestoreIsReadOnly
<1>2. CASE UpdateWorkflow(w)
  <2>1. rows' \in {rows, [rows EXCEPT ![w] = Stored(w)]}
    BY <1>2 DEF UpdateWorkflow
  <2>2. /\ rows'[w].kind = rows[w].kind /\ rows'[w].status \in {rows[w].status, flow[w].status}
        /\ \A v \in Workflows \ {w} : rows'[v] = rows[v]
    <3>1. Stored(w).kind = rows[w].kind /\ Stored(w).status = flow[w].status
      BY DEF Stored, TypeOK, Row
    <3> QED BY <2>1, <3>1 DEF TypeOK
  <2>3. PICK f : flow' = [flow EXCEPT ![w] = f] /\ f.pc = "running" /\ f.restore = flow[w].restore
    <3>1. CASE flow' = [flow EXCEPT ![w].pc = "running", ![w].found = Absent]
      <4> DEFINE f == [flow[w] EXCEPT !.pc = "running", !.found = Absent]
      <4>1. flow' = [flow EXCEPT ![w] = f] /\ f.pc = "running" /\ f.restore = flow[w].restore
        BY <3>1 DEF TypeOK, Flow
      <4> QED BY <4>1
    <3>2. CASE flow' = [flow EXCEPT ![w].pc = "running", ![w].found = Absent,
                                    ![w].signal = IF @ = "Success" THEN "Fail" ELSE @]
      <4>1. flow \in [Workflows -> Flow]
        BY DEF TypeOK
      <4> DEFINE updated == [flow EXCEPT ![w].pc = "running", ![w].found = Absent,
                                         ![w].signal = IF @ = "Success" THEN "Fail" ELSE @]
      <4>2. PICK f : updated = [flow EXCEPT ![w] = f] /\ f.pc = "running" /\ f.restore = flow[w].restore
        BY <4>1, FlowAfterUpdate
      <4>3. flow' = updated
        BY <3>2
      <4> HIDE DEF updated
      <4> QED BY <4>2, <4>3
    <3> QED BY <1>2, <3>1, <3>2 DEF UpdateWorkflow
  <2>4. flow'[w] = f /\ \A v \in Workflows \ {w} : flow'[v] = flow[v]
    BY <2>3 DEF TypeOK
  <2>5. rows[w].status \in {"Executing", "Warning"} /\ flow[w].status \in {"Executing", "Warning"}
    BY <1>2 DEF UpdateWorkflow, RowOfFlow, AtWork
  <2>6. UnderWay(w)'
    BY <2>3, <2>4 DEF UnderWay, Live
  <2> QED BY <2>2, <2>3, <2>4, <2>5, <2>6 DEF BusyInv, BusyIsExplained, RestoreIsReadOnly
<1>3. CASE FinishWorkflow(w)
  <2>1. flow' = [flow EXCEPT ![w] = [NoFlow EXCEPT !.pc = "ended"]]
    BY <1>3 DEF FinishWorkflow
  <2>2. flow'[w].restore = "none" /\ \A v \in Workflows \ {w} : flow'[v] = flow[v]
    BY <2>1 DEF TypeOK, NoFlow
  <2>3. CASE rows' = [rows EXCEPT ![w] = Stored(w)] /\ env' = [status |-> FinalEnv(w), version |-> env.version + 1]
    <3>1. /\ rows'[w].kind = rows[w].kind
          /\ \A v \in Workflows \ {w} : rows'[v] = rows[v]
      BY <2>3 DEF Stored, TypeOK, Row
    <3>2. env'.status = "Busy" => rows'[w].kind = "readOnly"
      BY <2>3, <3>1 DEF FinalEnv, BusyInv, RestoreIsReadOnly
    <3> QED BY <2>2, <3>1, <3>2 DEF BusyInv, BusyIsExplained, RestoreIsReadOnly
  <2>4. CASE UNCHANGED <<rows, env>> /\ flow[w].found.version # rows[w].version
    <3>1. rows[w].status = "Warning"
      BY <1>3, <2>4 DEF FinishWorkflow, RowOfFlow
    <3> QED BY <2>2, <2>4, <3>1 DEF BusyInv, BusyIsExplained, RestoreIsReadOnly
  <2> QED BY <1>3, <2>3, <2>4 DEF FinishWorkflow
<1> QED BY <1>1, <1>2, <1>3 DEF FlowStep

LEMMA BackendBusy ==
  ASSUME IInv, BusyInv, Crash \/ Restart
  PROVE  BusyInv'
<1> USE DEF IInv, Bookkeeping
<1>1. CASE Crash
  <2>1. \A w \in Workflows : Live(w) => rows[w].status \in {"Requested", "Executing", "Warning"}
    BY DEF Live, RowOfFlow, AtWork
  <2>2. UNCHANGED <<env, rows>> /\ \A w \in Workflows : flow'[w] = NoFlow
    BY <1>1 DEF Crash
  <2> QED BY <2>1, <2>2 DEF BusyInv, BusyIsExplained, RestoreIsReadOnly, UnderWay, NoFlow
<1>2. CASE Restart
  <2>1. \A w \in Workflows : flow'[w] = NoFlow /\ flow[w] = NoFlow
    BY <1>2 DEF Restart, DownIsEmpty
  <2>2. CASE Active = {}
    <3>1. env' = env /\ \A w \in Workflows : rows'[w] = rows[w]
      BY <1>2, <2>2 DEF Restart
    <3> QED BY <2>1, <3>1 DEF BusyInv, BusyIsExplained, RestoreIsReadOnly, UnderWay, Live, NoFlow
  <2>3. CASE Active # {}
    <3>1. env'.status = "Broken"
      BY <1>2, <2>3 DEF Restart, TypeOK
    <3> QED BY <2>1, <3>1 DEF BusyInv, BusyIsExplained, RestoreIsReadOnly, NoFlow
  <2> QED BY <2>2, <2>3
<1> QED BY <1>1, <1>2

LEMMA SpecBusy == Spec => []BusyInv
<1>1. IInv /\ BusyInv /\ [Next]_vars => BusyInv'
  <2> SUFFICES ASSUME IInv, BusyInv, [Next]_vars PROVE BusyInv'
    OBVIOUS
  <2>1. CASE UNCHANGED <<env, rows, flow>>
    BY <2>1 DEF BusyInv, BusyIsExplained, RestoreIsReadOnly, UnderWay, Live
  <2>2. ASSUME NEW r \in Readers, ReadWorkflow(r) \/ CacheWorkflow(r) PROVE UNCHANGED <<env, rows, flow>>
    BY <2>2 DEF ReadWorkflow, CacheWorkflow
  <2> QED BY <2>1, <2>2, ClientBusy, FlowBusy, BackendBusy DEF Next, vars
<1> QED BY <1>1, InitBusy, SpecInv, PTL DEF Spec

\* An instance is Busy with a workflow under way, or for one of the two reasons known; no
\* race, failed dispatch, lost update or crash adds a third.
THEOREM BusyIsExplainedCorrect == Spec => []BusyIsExplained
<1>1. BusyInv => BusyIsExplained
  BY DEF BusyInv
<1> QED BY <1>1, SpecBusy, PTL

-----------------------------------------------------------------------------
(* Every flow keeps its contract. *)

\* While nothing has interrupted it, a flow knows the status its row has; what it stores last
\* is what its contract makes of the row and of its signal.
KnowsRow(w) ==
  /\ flow[w].pc = "running" /\ flow[w].signal = "Success" => flow[w].status = rows[w].status
  /\ flow[w].pc = "finishing" => flow[w].status = FlowOf(w)!FinalStatus(flow[w].signal, rows[w].status)

FlowsKnowRows == \A w \in Workflows : KnowsRow(w)

Keeps(w) == IF Live(w) THEN FlowOf(w)!Next \/ UNCHANGED FlowOf(w)!vars
            ELSE Live(w)' => FlowOf(w)!Init'

\* What a step that the backend survives keeps.
KeepsAll == FlowsKnowRows' /\ \A w \in Workflows : Keeps(w)

\* A step that concerns no flow: an instance with a flow at work stays as it is.
LEMMA NoFlowConcerned ==
  ASSUME FlowsKnowRows, UNCHANGED flow,
         \/ UNCHANGED rows /\ (env'.status = env.status \/ \A w \in Workflows : ~ Live(w))
         \/ \A w \in Workflows : ~ Live(w)
  PROVE  KeepsAll
<1>1. ASSUME NEW w \in Workflows PROVE KnowsRow(w)' /\ Keeps(w)
  <2>1. CASE ~ Live(w)
    BY <2>1 DEF Live, KnowsRow, Keeps
  <2>2. CASE Live(w)
    <3>1. rows' = rows /\ env'.status = env.status /\ flow' = flow
      BY <2>2
    <3>2. KnowsRow(w)
      BY DEF FlowsKnowRows
    <3>3. KnowsRow(w)'
      BY <3>1, <3>2 DEF KnowsRow, FlowOf!FinalStatus
    <3>4. UNCHANGED FlowOf(w)!vars
      BY <3>1 DEF FlowOf!vars
    <3> QED BY <2>2, <3>3, <3>4 DEF Keeps
  <2> QED BY <2>1, <2>2
<1> QED BY <1>1 DEF KeepsAll, FlowsKnowRows

\* A step of one workflow under way is no step of the others.
LEMMA OneFlowConcerned ==
  ASSUME IInv, FlowsKnowRows, NEW w \in Workflows, UnderWay(w),
         \A v \in Workflows \ {w} : rows'[v] = rows[v] /\ flow'[v] = flow[v],
         KnowsRow(w)', Keeps(w)
  PROVE  KeepsAll
<1>1. ASSUME NEW v \in Workflows, v # w PROVE KnowsRow(v)' /\ Keeps(v)
  <2>1. ~ Live(v)
    BY <1>1 DEF IInv, OneUnderWay, UnderWay
  <2>2. flow'[v] = flow[v]
    BY <1>1
  <2> QED BY <2>1, <2>2 DEF Live, KnowsRow, Keeps
<1> QED BY <1>1 DEF KeepsAll, FlowsKnowRows

\* A step of a flow that is not its last.
LEMMA FlowProceeds ==
  ASSUME NEW w \in Workflows, Live(w), flow'[w].pc \notin {"deaf", "ended"},
         flow'[w].restore = flow[w].restore, rows'[w].kind = rows[w].kind,
         env'.status = env.status,
         \/ rows'[w].status = rows[w].status
         \/ rows'[w].status = "Executing" /\ rows[w].status = "Requested"
         \/ rows'[w].status = "Warning" /\ rows[w].status = "Executing",
         \/ flow'[w].signal = flow[w].signal
         \/ flow[w].signal = "Success" /\ flow'[w].signal \in {"Fail", "Cancel"}
  PROVE  Keeps(w)
<1>1. rows'[w].status \in FlowOf(w)!Forward
  BY DEF FlowOf!Forward
<1>2. flow'[w].signal \in FlowOf(w)!Reportable
  BY DEF FlowOf!Reportable, FlowOf!Signal
<1>3. FlowOf(w)!Proceed
  BY <1>1, <1>2 DEF FlowOf!Proceed, Live
<1> QED BY <1>3 DEF Keeps, FlowOf!Next

LEMMA InitKnows == Init => FlowsKnowRows
BY DEF Init, NoFlow, FlowsKnowRows, KnowsRow

LEMMA ClientKeeps ==
  ASSUME IInv, FlowsKnowRows, NEW c \in Clients, ClientStep(c)
  PROVE  KeepsAll
<1> USE DEF IInv, Bookkeeping
<1>1. CASE CreateEnv(c) \/ RequestWorkflow(c)
  <2>1. UNCHANGED flow
    BY <1>1 DEF CreateEnv, RequestWorkflow
  <2>2. \/ UNCHANGED <<env, rows>>
        \/ \A w \in Workflows : ~ UnderWay(w)
    <3>1. CASE CreateEnv(c)
      BY <3>1 DEF CreateEnv, UnderWayIsBusy
    <3>2. CASE RequestWorkflow(c)
      BY <3>2 DEF RequestWorkflow, RequestIsCurrent
    <3> QED BY <1>1, <3>1, <3>2
  <2> QED BY <2>1, <2>2, NoFlowConcerned DEF UnderWay
<1>2. CASE FindEnv(c) \/ ReadEnv(c)
  <2>1. UNCHANGED <<env, rows, flow>>
    BY <1>2 DEF FindEnv, ReadEnv
  <2> QED BY <2>1, NoFlowConcerned
<1>3. CASE SetEnvStatus(c)
  <2>1. UNCHANGED <<rows, flow>> /\ (env' = env \/ env.status = client[c].seen)
    BY <1>3 DEF SetEnvStatus
  <2>2. client[c].seen # "Busy"
    BY <1>3 DEF SetEnvStatus, RequestIsCurrent, LegalChange
  <2>3. env' = env \/ \A w \in Workflows : ~ Live(w)
    BY <2>1, <2>2 DEF UnderWayIsBusy, UnderWay
  <2> QED BY <2>1, <2>3, NoFlowConcerned
<1>4. CASE Dispatch(c)
  <2>1. PICK w \in client[c].workflow :
          flow' = [flow EXCEPT ![w] = [NoFlow EXCEPT !.pc = "created", !.restore = Restore(c, w)]]
    BY <1>4 DEF Dispatch
  <2>2. /\ w \in Workflows /\ UnderWay(w) /\ Owns(c, w) /\ env.status = "Busy"
        /\ client[c].pc = "dispatch" /\ UNCHANGED <<env, rows>>
    BY <1>4, OwnedIsUnderWay DEF Dispatch
  <2>3. /\ flow'[w].pc = "created" /\ flow'[w].signal = "Success"
        /\ \A v \in Workflows \ {w} : flow'[v] = flow[v]
    BY <2>1, <2>2 DEF TypeOK, NoFlow
  <2>4. rows[w].status = "Requested" /\ ~ Live(w)
    BY <2>2 DEF Owns, Live
  <2>5. KnowsRow(w)' /\ Keeps(w)
    BY <2>2, <2>3, <2>4 DEF KnowsRow, Keeps, FlowOf!Init
  <2> QED BY <2>2, <2>3, <2>5, OneFlowConcerned
<1>5. CASE DispatchFails(c)
  <2>1. PICK w \in client[c].workflow :
          rows' = [rows EXCEPT ![w].status = "Failed", ![w].version = @ + 1]
    BY <1>5 DEF DispatchFails
  <2>2. /\ w \in Workflows /\ UnderWay(w) /\ Owns(c, w)
        /\ client[c].pc = "dispatch" /\ UNCHANGED flow
    BY <1>5, OwnedIsUnderWay DEF DispatchFails
  <2>3. flow[w].pc = "none"
    BY <2>2 DEF Owns
  <2>4. KnowsRow(w)' /\ Keeps(w)
    BY <2>2, <2>3 DEF KnowsRow, Keeps, Live
  <2>5. \A v \in Workflows \ {w} : rows'[v] = rows[v]
    BY <2>1 DEF TypeOK
  <2> QED BY <2>2, <2>4, <2>5, OneFlowConcerned
<1>6. CASE Launch(c)
  <2> DEFINE started(w) == [rows[w] EXCEPT !.status = "Executing", !.version = @ + 1]
             f(w) == [flow[w] EXCEPT !.pc = "storing", !.found = started(w), !.status = "Executing"]
  <2>1. PICK w \in client[c].workflow :
          \/ /\ flow[w].pc = "created"
             /\ rows' = [rows EXCEPT ![w] = started(w)]
             /\ env' = [status |-> "Busy", version |-> env.version + 1]
             /\ flow' = [flow EXCEPT ![w].pc = "storing", ![w].found = started(w), ![w].status = "Executing"]
          \/ UNCHANGED <<rows, env, flow>>
    BY <1>6 DEF Launch
  <2>2. w \in Workflows /\ UnderWay(w) /\ env.status = "Busy"
    BY OwnedIsUnderWay
  <2>3. CASE UNCHANGED <<rows, env, flow>>
    BY <2>3, NoFlowConcerned
  <2>4. CASE ~ UNCHANGED <<rows, env, flow>>
    <3>1. started(w).status = "Executing" /\ started(w).kind = rows[w].kind
      BY <2>2 DEF TypeOK, Row
    <3>2. f(w).pc = "storing" /\ f(w).restore = flow[w].restore /\ f(w).signal = flow[w].signal
      BY <2>2 DEF TypeOK, Flow
    <3>3. /\ rows' = [rows EXCEPT ![w] = started(w)] /\ flow[w].pc = "created"
          /\ flow' = [flow EXCEPT ![w].pc = "storing", ![w].found = started(w), ![w].status = "Executing"]
          /\ env'.status = "Busy"
      BY <2>1, <2>4
    <3> HIDE DEF started
    <3>f. flow' = [flow EXCEPT ![w] = f(w)]
      BY <2>2, <3>3 DEF TypeOK
    <3> HIDE DEF f
    <3>4. /\ rows'[w] = started(w) /\ flow'[w] = f(w)
          /\ \A v \in Workflows \ {w} : rows'[v] = rows[v] /\ flow'[v] = flow[v]
      BY <2>2, <3>3, <3>f DEF TypeOK
    <3>5. rows[w].status = "Requested" /\ Live(w)
      BY <2>2, <3>3 DEF RowOfFlow, Live
    <3>6. KnowsRow(w)' /\ Keeps(w)
      BY <2>2, <3>1, <3>2, <3>3, <3>4, <3>5, FlowProceeds DEF KnowsRow
    <3> QED BY <2>2, <3>4, <3>6, OneFlowConcerned
  <2> QED BY <2>3, <2>4
<1> QED BY <1>1, <1>2, <1>3, <1>4, <1>5, <1>6 DEF ClientStep

LEMMA FlowKeeps ==
  ASSUME IInv, FlowsKnowRows, NEW w \in Workflows, FlowStep(w)
  PROVE  KeepsAll
<1> USE DEF IInv, Bookkeeping
<1>know. KnowsRow(w)
  BY DEF FlowsKnowRows
<1>type. flow[w] \in Flow /\ rows[w] \in Row /\ flow \in [Workflows -> Flow] /\ rows \in [Workflows -> Row]
  BY DEF TypeOK
<1>row. RowOfFlow(w)
  OBVIOUS
<1>only. ASSUME UnderWay(w), KnowsRow(w)', Keeps(w),
                NEW f, flow' = [flow EXCEPT ![w] = f],
                NEW row, rows' = [rows EXCEPT ![w] = row]
         PROVE  KeepsAll
  <2>1. \A v \in Workflows \ {w} : rows'[v] = rows[v] /\ flow'[v] = flow[v]
    BY <1>only, <1>type
  <2> QED BY <2>1, <1>only, OneFlowConcerned
<1>same. UNCHANGED rows => rows' = [rows EXCEPT ![w] = rows[w]] /\ rows'[w] = rows[w]
  BY <1>type
<1>1. CASE Cancel(w) /\ flow[w].pc = "created"
  <2> DEFINE f == [NoFlow EXCEPT !.pc = "deaf"]
  <2>1. flow' = [flow EXCEPT ![w] = f] /\ UNCHANGED <<env, rows>> /\ f.pc = "deaf"
    BY <1>1 DEF Cancel, NoFlow
  <2> HIDE DEF f
  <2>2. flow'[w].pc = "deaf"
    BY <2>1, <1>type
  <2>3. KnowsRow(w)'
    BY <2>2 DEF KnowsRow
  <2>4. rows'[w].status \in FlowOf(w)!Forward
    BY <2>1, <1>1, <1>row DEF FlowOf!Forward, RowOfFlow
  <2>5. FlowOf(w)!Lose
    BY <2>1, <2>2, <2>4, <1>1 DEF FlowOf!Lose
  <2>6. Keeps(w) /\ UnderWay(w)
    BY <2>5, <1>1 DEF Keeps, Live, UnderWay, FlowOf!Next
  <2> QED BY <1>only, <1>same, <2>1, <2>3, <2>6
<1>2. CASE (Cancel(w) /\ flow[w].pc # "created") \/ Interrupt(w)
  <2>1. PICK signal \in {"Cancel", "Fail"} :
          /\ flow' = [flow EXCEPT ![w] = [flow[w] EXCEPT !.signal = signal]] /\ UNCHANGED <<env, rows>>
          /\ flow[w].pc = "running" /\ flow[w].signal = "Success"
    BY <1>2 DEF Cancel, Interrupt
  <2> DEFINE f == [flow[w] EXCEPT !.signal = signal]
  <2>2. f.pc = "running" /\ f.restore = flow[w].restore /\ f.signal = signal
    BY <2>1, <1>type DEF Flow
  <2>3. flow' = [flow EXCEPT ![w] = f]
    BY <2>1
  <2> HIDE DEF f
  <2>4. flow'[w] = f
    BY <2>3, <1>type
  <2>5. KnowsRow(w)'
    BY <2>1, <2>2, <2>4 DEF KnowsRow
  <2>6. UnderWay(w) /\ Keeps(w)
    BY <2>1, <2>2, <2>4, <1>same, FlowProceeds DEF Live, UnderWay
  <2> QED BY <1>only, <1>same, <2>1, <2>3, <2>5, <2>6
<1>3. CASE StepResult(w)
  <2>1. PICK status : flow' = [flow EXCEPT ![w].pc = "storing", ![w].found = FindWorkflow(w),
                                           ![w].status = status, ![w].results = @ + 1]
    BY <1>3 DEF StepResult
  <2> DEFINE f == [flow[w] EXCEPT !.pc = "storing", !.found = FindWorkflow(w),
                                  !.status = status, !.results = @ + 1]
  <2>2. flow' = [flow EXCEPT ![w] = f] /\ f.pc = "storing" /\ f.restore = flow[w].restore /\ f.signal = flow[w].signal
    BY <2>1, <1>type DEF Flow
  <2> HIDE DEF f
  <2>3. flow'[w] = f /\ flow[w].pc = "running" /\ UNCHANGED <<env, rows>>
    BY <1>3, <2>2, <1>type DEF StepResult
  <2>4. KnowsRow(w)'
    BY <2>2, <2>3 DEF KnowsRow
  <2>5. UnderWay(w) /\ Keeps(w)
    BY <2>2, <2>3, <1>same, FlowProceeds DEF Live, UnderWay
  <2> QED BY <1>only, <1>same, <2>2, <2>3, <2>4, <2>5
<1>4. CASE UpdateWorkflow(w)
  <2>live. flow[w].pc = "storing" /\ UNCHANGED env /\ Live(w) /\ UnderWay(w) /\ AtWork(w)
    BY <1>4 DEF UpdateWorkflow, Live, UnderWay, AtWork
  <2>1. CASE flow[w].found.version = rows[w].version
    <3> DEFINE f == [flow[w] EXCEPT !.pc = "running", !.found = Absent]
               row == Stored(w)
    <3>1. flow' = [flow EXCEPT ![w] = f] /\ rows' = [rows EXCEPT ![w] = row]
      BY <1>4, <2>1, <1>type DEF UpdateWorkflow
    <3>2. f.pc = "running" /\ f.restore = flow[w].restore /\ f.signal = flow[w].signal /\ f.status = flow[w].status
      BY <1>type DEF Flow
    <3>3. row.status = flow[w].status /\ row.kind = rows[w].kind
      BY <1>type DEF Stored, Row
    <3> HIDE DEF f, row
    <3>4. flow'[w] = f /\ rows'[w] = row
      BY <3>1, <1>type
    <3>5. KnowsRow(w)'
      BY <3>2, <3>3, <3>4 DEF KnowsRow
    <3>6. \/ flow[w].status = rows[w].status
          \/ flow[w].status = "Warning" /\ rows[w].status = "Executing"
      BY <2>live, <1>row DEF RowOfFlow
    <3>7. Keeps(w)
      BY <2>live, <3>2, <3>3, <3>4, <3>6, FlowProceeds
    <3> QED BY <1>only, <2>live, <3>1, <3>5, <3>7
  <2>2. CASE flow[w].found.version # rows[w].version
    <3> DEFINE signal == IF flow[w].signal = "Success" THEN "Fail" ELSE flow[w].signal
               f == [flow[w] EXCEPT !.pc = "running", !.found = Absent, !.signal = signal]
    <3>1. flow' = [flow EXCEPT ![w] = f] /\ UNCHANGED rows
      BY <1>4, <2>2, <1>type DEF UpdateWorkflow, Flow
    <3>2. f.pc = "running" /\ f.restore = flow[w].restore /\ f.signal = signal
      <4> HIDE DEF signal
      <4> QED BY <1>type DEF Flow
    <3> HIDE DEF f
    <3>3. flow'[w] = f
      BY <3>1, <1>type
    <3>4. KnowsRow(w)'
      BY <3>2, <3>3 DEF KnowsRow
    <3>5. Keeps(w)
      BY <2>live, <3>1, <3>2, <3>3, <1>same, FlowProceeds
    <3> QED BY <1>only, <1>same, <2>live, <3>1, <3>4, <3>5
  <2> QED BY <2>1, <2>2
<1>5. CASE FlowFinish(w)
  <2> DEFINE f == [flow[w] EXCEPT !.pc = "finishing", !.found = FindWorkflow(w), !.status = FinalStatus(w)]
  <2>1. flow' = [flow EXCEPT ![w] = f] /\ flow[w].pc = "running" /\ UNCHANGED <<env, rows>>
    BY <1>5 DEF FlowFinish
  <2>2. /\ f.pc = "finishing" /\ f.restore = flow[w].restore /\ f.signal = flow[w].signal
        /\ f.status = FinalStatus(w)
    BY <1>type DEF Flow
  <2> HIDE DEF f
  <2>3. flow'[w] = f
    BY <2>1, <1>type
  <2>4. FinalStatus(w) = FlowOf(w)!FinalStatus(flow[w].signal, rows[w].status)
    BY <1>know, <2>1 DEF KnowsRow, FinalStatus, FlowOf!FinalStatus
  <2>5. KnowsRow(w)'
    BY <2>1, <2>2, <2>3, <2>4, <1>same DEF KnowsRow, FlowOf!FinalStatus
  <2>6. UnderWay(w) /\ Keeps(w)
    BY <2>1, <2>2, <2>3, <1>same, FlowProceeds DEF Live, UnderWay
  <2> QED BY <1>only, <1>same, <2>1, <2>5, <2>6
<1>6. CASE FinishWorkflow(w)
  <2> DEFINE f == [NoFlow EXCEPT !.pc = "ended"]
  <2>1. flow' = [flow EXCEPT ![w] = f] /\ flow[w].pc = "finishing" /\ f.pc = "ended"
    BY <1>6 DEF FinishWorkflow, NoFlow
  <2> HIDE DEF f
  <2>2. flow'[w].pc = "ended" /\ UnderWay(w) /\ Live(w)
    BY <2>1, <1>type DEF UnderWay, Live
  <2>3. KnowsRow(w)'
    BY <2>2 DEF KnowsRow
  <2>4. rows[w].status \in {"Executing", "Warning"}
    BY <2>1, <1>row DEF RowOfFlow, AtWork
  <2>5. CASE flow[w].found.version = rows[w].version
    <3> DEFINE row == Stored(w)
    <3>1. rows' = [rows EXCEPT ![w] = row] /\ env' = [status |-> FinalEnv(w), version |-> env.version + 1]
      BY <1>6, <2>5 DEF FinishWorkflow
    <3>2. row.status = flow[w].status
      BY <1>type DEF Stored, Row
    <3> HIDE DEF row
    <3>3. rows'[w] = row
      BY <3>1, <1>type
    <3>4. row.status = FlowOf(w)!FinalStatus(flow[w].signal, rows[w].status)
      BY <3>2, <2>1, <1>know DEF KnowsRow
    <3>5. env'.status = FlowOf(w)!FinalEnv(flow[w].signal)
      BY <3>1 DEF FinalEnv, FlowOf!FinalEnv
    <3>6. flow[w].signal \in FlowOf(w)!Reportable
      BY <1>type DEF FlowOf!Reportable, FlowOf!Signal
    <3>7. rows[w].status \in FlowOf(w)!Forward \ {"Requested"}
      BY <2>4 DEF FlowOf!Forward
    <3>8. FlowOf(w)!Record
      BY <2>1, <2>2, <3>3, <3>4, <3>5, <3>6, <3>7 DEF FlowOf!Record
    <3>9. Keeps(w)
      BY <2>2, <3>8 DEF Keeps, FlowOf!Next
    <3> QED BY <1>only, <2>1, <2>2, <2>3, <3>1, <3>9
  <2>6. CASE flow[w].found.version # rows[w].version
    <3>1. UNCHANGED <<rows, env>>
      BY <1>6, <2>6 DEF FinishWorkflow
    <3>2. rows'[w].status \in FlowOf(w)!Forward
      BY <2>4, <3>1 DEF FlowOf!Forward
    <3>3. FlowOf(w)!Lose
      BY <2>1, <2>2, <3>1, <3>2 DEF FlowOf!Lose
    <3>4. Keeps(w)
      BY <2>2, <3>3 DEF Keeps, FlowOf!Next
    <3> QED BY <1>only, <1>same, <2>1, <2>2, <2>3, <3>1, <3>4
  <2> QED BY <2>5, <2>6
<1> QED BY <1>1, <1>2, <1>3, <1>4, <1>5, <1>6 DEF FlowStep

LEMMA NextKeeps == IInv /\ FlowsKnowRows /\ [Next]_vars
                   => FlowsKnowRows' /\ (up' => \A w \in Workflows : Keeps(w))
<1> DEFINE Step == up' => \A w \in Workflows : Keeps(w)
<1> SUFFICES ASSUME IInv, FlowsKnowRows, [Next]_vars PROVE FlowsKnowRows' /\ Step
  OBVIOUS
<1> HIDE DEF Step
<1>1. KeepsAll => FlowsKnowRows' /\ Step
  BY DEF KeepsAll, Step
<1>2. ASSUME NEW r \in Readers, ReadWorkflow(r) \/ CacheWorkflow(r) PROVE KeepsAll
  BY <1>2, NoFlowConcerned DEF ReadWorkflow, CacheWorkflow
<1>3. CASE UNCHANGED vars
  BY <1>1, <1>3, NoFlowConcerned DEF vars
<1>4. CASE up /\ Crash
  BY <1>4 DEF Crash, FlowsKnowRows, KnowsRow, NoFlow, Step
<1>5. CASE Restart
  <2>1. UNCHANGED flow /\ \A w \in Workflows : ~ Live(w)
    BY <1>5 DEF Restart, IInv, Bookkeeping, DownIsEmpty, Live, NoFlow
  <2> QED BY <1>1, <2>1, NoFlowConcerned
<1> QED BY <1>1, <1>2, <1>3, <1>4, <1>5, ClientKeeps, FlowKeeps DEF Next

LEMMA SpecKnows == Spec => []FlowsKnowRows
BY NextKeeps, InitKnows, SpecInv, PTL DEF Spec

\* Every flow keeps, among clients, readers and other flows that race with it and over crashes
\* of the backend, the contract that FlowCoordinator is proved to implement: its instance is
\* its own and Busy until it ends, the rows go only forward, neither a stale cached row nor a
\* lost update takes the Warning of an ignored failure from the outcome, and both rows get
\* the outcome of the first interruption, or neither does.
THEOREM FlowsKeepContractCorrect == Spec => FlowsKeepContract
<1> DEFINE Step == up' => \A w \in Workflows : Keeps(w)
<1>1. IInv /\ FlowsKnowRows /\ [Next]_vars => [Step]_vars
  BY NextKeeps
<1>2. [][Step]_vars => FlowsKeepContract
  BY PTL DEF FlowsKeepContract, Keeps
<1> QED BY <1>1, <1>2, SpecKnows, SpecInv, PTL DEF Spec

-----------------------------------------------------------------------------
(* An outcome is final. *)

\* How a row may change: an outcome never does, and only the flow that ends makes it a success.
RowStep(w) ==
  \/ rows'[w] = rows[w]
  \/ /\ rows[w].status \notin {"Succeed", "Failed", "Canceled"}
     /\ rows'[w].status # "Succeed" \/ (FinishWorkflow(w) /\ rows' = [rows EXCEPT ![w] = Stored(w)])

LEMMA RowsStep ==
  ASSUME IInv, [Next]_vars
  PROVE  \A w \in Workflows : RowStep(w)
<1> USE DEF IInv, Bookkeeping
<1> DEFINE Stepped == \A w \in Workflows : RowStep(w)
           Only(v) == \A w \in Workflows \ {v} : rows'[w] = rows[w]
<1>1. ASSUME NEW v \in Workflows, RowStep(v), Only(v) PROVE Stepped
  BY <1>1 DEF RowStep
<1>2. CASE UNCHANGED rows
  BY <1>2 DEF RowStep
<1>3. ASSUME NEW c \in Clients, ClientStep(c) PROVE Stepped
  <2>1. ASSUME NEW w \in Workflows, NEW kind, InsertWorkflow(w, kind) PROVE Stepped
    <3>1. rows[w].status = "absent" /\ rows'[w].status = "Requested" /\ Only(w)
      BY <2>1 DEF InsertWorkflow, TypeOK
    <3> QED BY <1>1, <3>1 DEF RowStep
  <2>2. CASE CreateEnv(c) \/ RequestWorkflow(c)
    BY <1>2, <2>1, <2>2 DEF CreateEnv, RequestWorkflow
  <2>3. CASE DispatchFails(c) \/ Launch(c)
    <3>1. PICK w \in client[c].workflow :
            /\ Only(w)
            /\ UNCHANGED rows \/ rows'[w].status \in {"Failed", "Executing"}
      <4>1. ASSUME NEW w \in client[c].workflow, NEW status, NEW version,
                   rows' = [rows EXCEPT ![w].status = status, ![w].version = version]
            PROVE  Only(w) /\ rows'[w].status = status
        BY <4>1, OwnedIsUnderWay DEF TypeOK, Row
      <4>2. CASE DispatchFails(c)
        <5>1. PICK w \in client[c].workflow :
                rows' = [rows EXCEPT ![w].status = "Failed", ![w].version = @ + 1]
          BY <4>2 DEF DispatchFails
        <5>2. Only(w) /\ rows'[w].status = "Failed"
          BY <5>1, OwnedIsUnderWay DEF TypeOK, Row
        <5> QED BY <5>2
      <4>3. CASE Launch(c)
        <5>1. PICK w \in client[c].workflow :
                \/ rows' = [rows EXCEPT ![w] = [rows[w] EXCEPT !.status = "Executing", !.version = @ + 1]]
                \/ UNCHANGED rows
          BY <4>3 DEF Launch
        <5>2. [rows[w] EXCEPT !.status = "Executing", !.version = @ + 1].status = "Executing"
          BY OwnedIsUnderWay DEF TypeOK, Row
        <5>3. Only(w) /\ (UNCHANGED rows \/ rows'[w].status = "Executing")
          BY <5>1, <5>2, OwnedIsUnderWay DEF TypeOK
        <5> QED BY <5>3
      <4> QED BY <2>3, <4>2, <4>3
    <3>2. w \in Workflows /\ Owns(c, w)
      BY OwnedIsUnderWay
    <3>3. rows[w].status = "Requested"
      BY <3>2 DEF Owns, RowOfFlow
    <3>4. RowStep(w)
      BY <3>1, <3>3 DEF RowStep
    <3> QED BY <1>1, <3>1, <3>2, <3>4
  <2>4. CASE FindEnv(c) \/ ReadEnv(c) \/ SetEnvStatus(c) \/ Dispatch(c)
    BY <1>2, <2>4 DEF FindEnv, ReadEnv, SetEnvStatus, Dispatch
  <2> HIDE DEF Stepped
  <2> QED BY <1>3, <2>2, <2>3, <2>4 DEF ClientStep
<1>4. ASSUME NEW w \in Workflows, FlowStep(w) PROVE Stepped
  <2>1. CASE UpdateWorkflow(w) \/ FinishWorkflow(w)
    <3>1. AtWork(w) /\ (UNCHANGED rows \/ rows' = [rows EXCEPT ![w] = Stored(w)])
      BY <2>1 DEF UpdateWorkflow, FinishWorkflow, AtWork
    <3>2. rows[w].status \in {"Executing", "Warning"}
      BY <3>1 DEF RowOfFlow
    <3>3. rows' = [rows EXCEPT ![w] = Stored(w)] =>
            Only(w) /\ rows'[w].status = flow[w].status
      BY DEF Stored, TypeOK, Row
    <3>4. UpdateWorkflow(w) => flow[w].status # "Succeed"
      BY DEF UpdateWorkflow, RowOfFlow
    <3>5. CASE rows' = [rows EXCEPT ![w] = Stored(w)]
      <4>1. RowStep(w)
        BY <2>1, <3>2, <3>3, <3>4, <3>5 DEF RowStep
      <4> QED BY <1>1, <3>3, <3>5, <4>1
    <3> QED BY <1>2, <3>1, <3>5
  <2>2. CASE Cancel(w) \/ StepResult(w) \/ Interrupt(w) \/ FlowFinish(w)
    BY <1>2, <2>2 DEF Cancel, StepResult, Interrupt, FlowFinish
  <2> HIDE DEF Stepped
  <2> QED BY <1>4, <2>1, <2>2 DEF FlowStep
<1>5. ASSUME NEW r \in Readers, ReadWorkflow(r) \/ CacheWorkflow(r) PROVE Stepped
  BY <1>2, <1>5 DEF ReadWorkflow, CacheWorkflow
<1>6. ASSUME Crash \/ UNCHANGED vars PROVE Stepped
  BY <1>2, <1>6 DEF Crash, vars
<1>7. ASSUME Restart PROVE Stepped
  <2>1. ASSUME NEW w \in Workflows PROVE RowStep(w)
    <3>1. CASE w \in Active
      <4>1. rows'[w].status = "Failed" /\ rows[w].status \in {"Requested", "Executing"}
        BY <1>7, <3>1 DEF Restart, Active, TypeOK, Row
      <4> QED BY <4>1 DEF RowStep
    <3>2. CASE w \notin Active
      BY <1>7, <3>2 DEF Restart, RowStep
    <3> QED BY <3>1, <3>2
  <2> QED BY <2>1
<1> HIDE DEF Stepped, Only, IInv, Bookkeeping
<1>8. Stepped
  BY <1>3, <1>4, <1>5, <1>6, <1>7 DEF Next
<1> QED BY <1>8 DEF Stepped

\* No request that is still on its way has read an instance as late as its destruction.
NothingReaches ==
  env.status = "Destroyed" /\ \A c \in Clients : client[c].pc = "request" => client[c].version < env.version

DestroyedInv == \A w \in Workflows : DestroyedBy(w) => NothingReaches

LEMMA NothingReachesStays ==
  ASSUME IInv, [Next]_vars, NothingReaches
  PROVE  NothingReaches'
<1> USE DEF IInv, Bookkeeping
<1>1. \A w \in Workflows : ~ UnderWay(w) /\ ~ Live(w) /\ ~ AtWork(w)
  BY DEF NothingReaches, UnderWayIsBusy, UnderWay, Live, AtWork
<1>2. CASE UNCHANGED <<env, client>>
  BY <1>2 DEF NothingReaches
<1>3. ASSUME NEW c \in Clients, ClientStep(c) PROVE NothingReaches'
  <2>1. ASSUME NEW new, client' = [client EXCEPT ![c] = new], new.pc # "request",
               env'.status = "Destroyed", env'.version = env.version
        PROVE  NothingReaches'
    BY <2>1 DEF NothingReaches, TypeOK
  <2>2. CASE CreateEnv(c)
    BY <2>2 DEF CreateEnv, NothingReaches
  <2>3. CASE FindEnv(c)
    <3>1. PICK new : client' = [client EXCEPT ![c] = new] /\ new.pc = "found"
      <4>1. PICK kind \in Kinds \cup {s \in {"Ready", "Destroyed"} : LegalChange(env.status, s)} :
              client' = [client EXCEPT ![c] =
                [Idle EXCEPT !.pc = "found", !.kind = kind,
                             !.seen = IF kind \in {"regular", "destroy"} THEN @ ELSE env.status]]
        BY <2>3 DEF FindEnv
      <4> DEFINE seen == IF kind \in {"regular", "destroy"} THEN Idle.seen ELSE env.status
                 new  == [Idle EXCEPT !.pc = "found", !.kind = kind, !.seen = seen]
      <4>2. client' = [client EXCEPT ![c] = new]
        BY <4>1
      <4>3. new.pc = "found"
        <5> HIDE DEF seen
        <5> QED BY DEF Idle
      <4> QED BY <4>2, <4>3
    <3> QED BY <2>1, <2>3, <3>1 DEF FindEnv, NothingReaches
  <2>4. CASE ReadEnv(c)
    BY <2>1, <2>4 DEF ReadEnv, IsReadyForWorkflow, NothingReaches, Idle
  <2>5. CASE RequestWorkflow(c)
    <3>1. client[c].pc = "request" /\ client[c].version \in Nat /\ env.version \in Nat
      BY <2>5 DEF RequestWorkflow, TypeOK, Client
    <3>2. client[c].version # env.version
      BY <3>1 DEF NothingReaches
    <3>3. client' = [client EXCEPT ![c] = Idle] /\ UNCHANGED env
      BY <2>5, <3>2 DEF RequestWorkflow
    <3>4. Idle.pc # "request" /\ env'.status = "Destroyed" /\ env'.version = env.version
      BY <3>3 DEF Idle, NothingReaches
    <3> QED BY <2>1, <3>3, <3>4
  <2>6. CASE SetEnvStatus(c)
    <3>1. env.status = client[c].seen => client[c].kind = "Destroyed"
      BY <2>6 DEF SetEnvStatus, RequestIsCurrent, LegalChange, NothingReaches
    <3>2. env'.status = "Destroyed" /\ env'.version = env.version
      BY <2>6, <3>1 DEF SetEnvStatus, NothingReaches, TypeOK
    <3>3. client' = [client EXCEPT ![c] = Idle]
      BY <2>6 DEF SetEnvStatus
    <3>4. Idle.pc # "request"
      BY DEF Idle
    <3> QED BY <2>1, <3>2, <3>3, <3>4
  <2>7. CASE Dispatch(c) \/ DispatchFails(c) \/ Launch(c)
    <3>1. PICK w \in client[c].workflow : TRUE
      BY <2>7 DEF Dispatch, DispatchFails, Launch
    <3>2. w \in Workflows /\ UnderWay(w)
      BY OwnedIsUnderWay
    <3> QED BY <1>1, <3>2
  <2> QED BY <1>3, <2>2, <2>3, <2>4, <2>5, <2>6, <2>7 DEF ClientStep
<1>4. ASSUME NEW w \in Workflows, FlowStep(w) PROVE FALSE
  BY <1>1, <1>4 DEF FlowStep, Cancel, StepResult, UpdateWorkflow, Interrupt, FlowFinish,
                    FinishWorkflow, Live
<1>5. ASSUME NEW r \in Readers, ReadWorkflow(r) \/ CacheWorkflow(r) PROVE NothingReaches'
  BY <1>2, <1>5 DEF ReadWorkflow, CacheWorkflow
<1>6. CASE Crash
  BY <1>6 DEF Crash, NothingReaches, Idle
<1>7. CASE Restart
  <2>1. Active = {}
    BY <1>1 DEF Active, UnderWay
  <2> QED BY <1>2, <1>7, <2>1 DEF Restart
<1> QED BY <1>2, <1>3, <1>4, <1>5, <1>6, <1>7 DEF Next, vars

\* The flow that destroys an instance leaves it beyond every request on its way.
LEMMA DestroyedNow ==
  ASSUME IInv, BusyInv, FlowsKnowRows, NEW w \in Workflows,
         FinishWorkflow(w), rows' = [rows EXCEPT ![w] = Stored(w)], DestroyedBy(w)'
  PROVE  NothingReaches'
<1> USE DEF IInv, Bookkeeping
<1>1. flow[w].pc = "finishing" /\ AtWork(w) /\ UNCHANGED client
  BY DEF FinishWorkflow, AtWork
<1>2. rows'[w].status = flow[w].status /\ rows'[w].kind = rows[w].kind
  BY DEF Stored, TypeOK, Row
<1>3. rows[w].kind = "destroy" /\ flow[w].status = "Succeed"
  BY <1>2 DEF DestroyedBy
<1>4. rows[w].status = "Warning" \/ rows[w].status = "Executing"
  BY <1>1 DEF RowOfFlow
<1>5. flow[w].signal = "Success"
  BY <1>1, <1>3 DEF FlowsKnowRows, KnowsRow, FlowOf!FinalStatus
<1>6. rows'[w] # rows[w]
  BY <1>2, <1>3, <1>4
<1>7. env' = [status |-> FinalEnv(w), version |-> env.version + 1]
  BY <1>6 DEF FinishWorkflow
<1>8. flow[w].restore = "none"
  BY <1>3 DEF BusyInv, RestoreIsReadOnly
<1>9. env'.status = "Destroyed" /\ env'.version = env.version + 1
  BY <1>3, <1>5, <1>7, <1>8 DEF FinalEnv
<1>10. ASSUME NEW c \in Clients, client[c].pc = "request" PROVE client[c].version < env'.version
  BY <1>9, <1>10 DEF RequestIsCurrent, TypeOK, Client
<1> QED BY <1>1, <1>9, <1>10 DEF NothingReaches

\* No late step result, stale cached row, dispatch or restart takes back the outcome of a
\* workflow, and no request, dispatch or restart an instance that a workflow has destroyed.
THEOREM OutcomeIsFinalCorrect == Spec => OutcomeIsFinal
<1> DEFINE Kept == \A w \in Workflows :
                      /\ rows[w].status \in {"Succeed", "Failed", "Canceled"} => rows'[w].status = rows[w].status
                      /\ DestroyedBy(w) => env'.status = "Destroyed"
           All == IInv /\ BusyInv /\ FlowsKnowRows
<1>1. All /\ DestroyedInv /\ [Next]_vars => Kept /\ DestroyedInv'
  <2> SUFFICES ASSUME All, DestroyedInv, [Next]_vars PROVE Kept /\ DestroyedInv'
    OBVIOUS
  <2>1. \A w \in Workflows : RowStep(w)
    BY RowsStep
  <2>2. NothingReaches => NothingReaches'
    BY NothingReachesStays
  <2>3. Kept
    <3>1. NothingReaches' => env'.status = "Destroyed"
      BY DEF NothingReaches
    <3> QED BY <2>1, <2>2, <3>1 DEF DestroyedInv, RowStep
  <2>4. ASSUME NEW w \in Workflows, DestroyedBy(w)' PROVE NothingReaches'
    <3>1. CASE rows'[w] = rows[w]
      BY <2>2, <2>4, <3>1 DEF DestroyedInv, DestroyedBy
    <3>2. CASE rows'[w] # rows[w]
      BY <2>1, <2>4, <3>2, DestroyedNow DEF RowStep, DestroyedBy
    <3> QED BY <3>1, <3>2
  <2> QED BY <2>3, <2>4 DEF DestroyedInv
<1>2. All /\ DestroyedInv /\ [Next]_vars => [Kept]_vars
  BY <1>1
<1>3. Init => DestroyedInv
  BY DEF Init, DestroyedInv, DestroyedBy, Absent
<1>4. Spec => []All
  BY SpecInv, SpecBusy, SpecKnows, PTL
<1>5. [][Kept]_vars => OutcomeIsFinal
  BY PTL DEF OutcomeIsFinal
<1> QED BY <1>1, <1>2, <1>3, <1>4, <1>5, PTL DEF Spec
=============================================================================
