------------------------------ MODULE RemoteAgent ------------------------------
(***************************************************************************)
(* One action that is executed by a remote agent: the actor on the server  *)
(* that looks for an agent and watches the executor there                  *)
(* (AgentCommunicatingActor.scala), the agents that take the task          *)
(* (FrontActor.scala) and the executors they create (ExecutorActor.scala). *)
(*                                                                         *)
(* Messages between server and agents may be lost, are never duplicated    *)
(* and keep their order between two actors.  An agent may die.  The search *)
(* for an agent is a future: what it does when it completes runs beside    *)
(* the actor, whatever the actor has become by then.                       *)
(***************************************************************************)
EXTENDS Integers, Sequences

CONSTANTS
    Agents,      \* hosts of the active agents with the action's tag
    MaxTries,    \* tries per host that are not too many (10 in doSubmit)
    MaxExecutors, \* bound: executors that the agents create
    MaxMail      \* bound: the clock waits while so many messages are queued

ASSUME RemoteAssumption == MaxTries \in Nat /\ MaxExecutors \in Nat

\* Executors are numbered in the order of their creation; 0 is deadLetters.
Executors == 1 .. MaxExecutors
NoExecutor == 0

VARIABLES
    mode,       \* the actor's behaviour: receive, executorWatcher, or stopped
    mail,       \* its mailbox
    executor,   \* the executor it watches
    search,     \* the future of getActiveAgent is not completed
    command,    \* a CommandTimeout is scheduled
    tries,      \* task.history
    sincePong,  \* periods since lastPongReceived
    tasks,      \* tasks on their way to an agent
    state,      \* what each executor is doing
    toAgent,    \* messages on their way to the watched executor
    started,    \* history: the executors that were sent Start
    told,       \* history: what the supervisor was told
    mishap,     \* history: a search failed, or a Start was lost
    beaten      \* the supervisor's interrupt has been sent

server == <<mode, mail, executor, search, command, tries, sincePong>>
agents == <<tasks, state, toAgent>>
histories == <<started, told, mishap>>
remoteVars == <<server, agents, histories, beaten>>

Kinds == {"Start", "CommandTimeout", "Beat", "ActorRef", "Result", "CheckStatus",
          "CheckStatusTimeout", "Pong", "PoisonPill"}
Mail == [kind : Kinds, ref : Executors \cup {NoExecutor}]

Message(k) == [kind |-> k, ref |-> NoExecutor]
Reference(e) == [kind |-> "ActorRef", ref |-> e]

RemoteTypeOK ==
    /\ mode \in {"receive", "executorWatcher", "stopped"}
    /\ mail \in Seq(Mail)
    /\ executor \in Executors \cup {NoExecutor}
    /\ search \in BOOLEAN
    /\ command \in BOOLEAN
    /\ tries \in [Agents -> 0 .. MaxTries + 1]
    /\ sincePong \in 0 .. 3
    /\ tasks \in Nat
    /\ state \in [Executors -> {"none", "created", "running", "gone"}]
    /\ toAgent \in Seq({"Start", "Ping", "Beat"})
    /\ started \subseteq Executors
    /\ told \subseteq {"result", "no agent", "timeout"}
    /\ mishap \in BOOLEAN
    /\ beaten \in BOOLEAN

RemoteInit ==
    /\ mode = "receive"
    /\ mail = <<Message("Start")>>
    /\ executor = NoExecutor
    /\ search = FALSE
    /\ command = FALSE
    /\ tries = [a \in Agents |-> 0]
    /\ sincePong = 0
    /\ tasks = 0
    /\ state = [e \in Executors |-> "none"]
    /\ toAgent = <<>>
    /\ started = {}
    /\ told = {}
    /\ mishap = FALSE
    /\ beaten = FALSE

-----------------------------------------------------------------------------
\* Mistakes the properties are there to catch: a host is given up one try too
\* late; the watcher takes the next executor as well; a timeout tells nobody.
tooManyLate == \E a \in Agents : tries[a] > MaxTries + 1

awaitingAlways == mode # "stopped"

timeoutUntold == /\ toAgent' = Append(toAgent, "Beat")
                 /\ mail' = Append(Tail(mail), Message("PoisonPill"))
                 /\ UNCHANGED told

\* ... or CommandTimeout is never scheduled.
commandForgotten(a) ==
    /\ tries' = [tries EXCEPT ![a] = @ + 1]
    /\ tasks' = tasks + 1
    /\ UNCHANGED command

-----------------------------------------------------------------------------
\* The search for an agent

tooMany == \E a \in Agents : tries[a] > MaxTries

failWithNoAgent ==
    /\ told' = told \cup {"no agent"}
    /\ mail' = IF mode = "stopped" THEN mail ELSE Append(mail, Message("PoisonPill"))
    /\ UNCHANGED <<tries, tasks, command>>

submitRemoteJob(a) ==
    /\ tries' = [tries EXCEPT ![a] = @ + 1]
    /\ tasks' = tasks + 1
    /\ command' = TRUE

\* The future completes: with an agent, or with none.
doSubmit ==
    /\ search
    /\ search' = FALSE
    /\ \/ failWithNoAgent
       \/ tooMany /\ failWithNoAgent
       \/ ~tooMany /\ (\E a \in Agents : submitRemoteJob(a)) /\ UNCHANGED <<told, mail>>
    /\ UNCHANGED <<mode, executor, sincePong, state, toAgent,
                   started, mishap, beaten>>

\* The agents' tracker does not answer within its second: nothing is submitted
\* and nothing is scheduled.
searchFails ==
    /\ search
    /\ search' = FALSE
    /\ mishap' = TRUE
    /\ UNCHANGED <<mode, mail, executor, command, tries, sincePong, agents,
                   started, told, beaten>>

-----------------------------------------------------------------------------
\* The actor takes its next mail.

Takes(k) == mail # <<>> /\ Head(mail).kind = k

\* Start and CommandTimeout begin a search; the watcher ignores them.
submit ==
    /\ Takes("Start") \/ Takes("CommandTimeout")
    /\ mail' = Tail(mail)
    /\ search' = (search \/ mode = "receive")
    /\ UNCHANGED <<mode, executor, command, tries, sincePong, agents, histories,
                   beaten>>

awaiting == mode = "receive"

\* The reference of an executor: it is started, and watched from now on.
executorFound ==
    /\ Takes("ActorRef") /\ awaiting
    /\ mode' = "executorWatcher"
    /\ executor' = Head(mail).ref
    /\ mail' = Tail(mail)
    /\ toAgent' = <<"Start", "Ping">>
    /\ started' = started \cup {Head(mail).ref}
    /\ UNCHANGED <<search, command, tries, sincePong, tasks, state,
                   told, mishap, beaten>>

\* A second executor is an "unexpected message" to the watcher.
executorIgnored ==
    /\ Takes("ActorRef") /\ ~awaiting
    /\ mail' = Tail(mail)
    /\ UNCHANGED <<mode, executor, search, command, tries, sincePong, agents,
                   histories, beaten>>

\* A beat goes to the executor, or back to the mailbox while there is none.
beat ==
    /\ Takes("Beat")
    /\ IF mode = "receive"
         THEN mail' = Append(Tail(mail), Message("Beat")) /\ UNCHANGED toAgent
         ELSE mail' = Tail(mail) /\ toAgent' = Append(toAgent, "Beat")
    /\ UNCHANGED <<mode, executor, search, command, tries, sincePong, tasks,
                   state, histories, beaten>>

actionResult ==
    /\ Takes("Result")
    /\ mail' = Append(Tail(mail), Message("PoisonPill"))
    /\ told' = told \cup {"result"}
    /\ UNCHANGED <<mode, executor, search, command, tries, sincePong, agents,
                   started, mishap, beaten>>

\* The last pong is too old after two periods; the third one is surely past
\* them, the second one may be, depending on the clock's jitter.
checkStatus ==
    /\ Takes("CheckStatus")
    /\ \/ /\ sincePong <= 2
          /\ mail' = Tail(mail)
          /\ toAgent' = Append(toAgent, "Ping")
       \/ /\ sincePong >= 2
          /\ mail' = Append(Tail(mail), Message("CheckStatusTimeout"))
          /\ UNCHANGED toAgent
    /\ UNCHANGED <<mode, executor, search, command, tries, sincePong, tasks,
                   state, histories, beaten>>

\* The executor is told to cancel, just in case, and the supervisor that its
\* agent became unreachable.
giveUp == /\ toAgent' = Append(toAgent, "Beat")
          /\ mail' = Append(Tail(mail), Message("PoisonPill"))
          /\ told' = told \cup {"timeout"}

checkStatusTimeout ==
    /\ Takes("CheckStatusTimeout")
    /\ giveUp
    /\ UNCHANGED <<mode, executor, search, command, tries, sincePong, tasks,
                   state, started, mishap, beaten>>

pong ==
    /\ Takes("Pong")
    /\ mail' = Tail(mail)
    /\ sincePong' = 0
    /\ UNCHANGED <<mode, executor, search, command, tries, agents, histories, beaten>>

\* The mails behind the pill are dropped.
poisonPill ==
    /\ Takes("PoisonPill")
    /\ mode' = "stopped"
    /\ mail' = <<>>
    /\ UNCHANGED <<executor, search, command, tries, sincePong, agents, histories,
                   beaten>>

receive ==
    \/ submit \/ executorFound \/ executorIgnored \/ beat \/ actionResult
    \/ checkStatus \/ checkStatusTimeout \/ pong \/ poisonPill

-----------------------------------------------------------------------------
\* The clock and the supervisor

\* One period of timeout: a scheduled CommandTimeout and the watcher's
\* CheckStatus are due.  A message to the executor arrives or is lost within
\* the period.  (The schedule of CheckStatus is never cancelled; what
\* it sends to a stopped actor is dropped.)
period ==
    /\ mode # "stopped"
    /\ Len(mail) < MaxMail
    /\ toAgent = <<>>
    /\ sincePong' = IF sincePong < 3 THEN sincePong + 1 ELSE 3
    /\ mail' = mail \o (IF command THEN <<Message("CommandTimeout")>> ELSE <<>>)
                    \o (IF mode = "executorWatcher" THEN <<Message("CheckStatus")>> ELSE <<>>)
    /\ command' = FALSE
    /\ UNCHANGED <<mode, executor, search, tries, agents, histories, beaten>>

\* The step is interrupted once.
interrupt ==
    /\ ~beaten
    /\ mode # "stopped"
    /\ beaten' = TRUE
    /\ mail' = Append(mail, Message("Beat"))
    /\ UNCHANGED <<mode, executor, search, command, tries, sincePong, agents,
                   histories>>

-----------------------------------------------------------------------------
\* The agents and the network.  An answer that is late is an answer given late:
\* what agents send either reaches the mailbox with the step or is lost.

sent(m) == {mail} \cup {Append(mail, m) : x \in {mode} \ {"stopped"}}

\* FrontActor creates an executor and answers with its reference.
taskTaken ==
    /\ tasks > 0
    /\ tasks' = tasks - 1
    /\ \E e \in Executors :
         /\ state[e] = "none" /\ \A f \in 1 .. (e - 1) : state[f] # "none"
         /\ state' = [state EXCEPT ![e] = "created"]
         /\ mail' \in sent(Reference(e))
    /\ UNCHANGED <<mode, executor, search, command, tries, sincePong, toAgent,
                   histories, beaten>>

\* The task is lost, the agent has no executor for it, or fails to create one.
taskLost ==
    /\ tasks > 0
    /\ tasks' = tasks - 1
    /\ UNCHANGED <<server, state, toAgent, histories, beaten>>

\* Start runs the job; a running executor that can respond to the signal of a
\* beat ends with an interrupt for a result (one that was never started fails
\* to finish and is restarted), otherwise it is delayed; every executor that
\* lives answers pings.
executorReceives ==
    /\ toAgent # <<>>
    /\ toAgent' = Tail(toAgent)
    /\ \/ /\ Head(toAgent) = "Start" /\ state[executor] = "created"
          /\ state' = [state EXCEPT ![executor] = "running"]
          /\ UNCHANGED mail
       \/ /\ Head(toAgent) = "Ping" /\ state[executor] # "gone"
          /\ mail' \in sent(Message("Pong"))
          /\ UNCHANGED state
       \/ /\ Head(toAgent) = "Beat" /\ state[executor] \in {"created", "running"}
          /\ state' = [state EXCEPT ![executor] = IF @ = "running" THEN "gone" ELSE @]
          /\ mail' \in sent(Message("Result"))
       \/ /\ Head(toAgent) = "Beat" \/ state[executor] = "gone"
          /\ UNCHANGED <<state, mail>>
    /\ UNCHANGED <<mode, executor, search, command, tries, sincePong, tasks,
                   histories, beaten>>

\* A message to the executor is lost.
messageLost ==
    /\ toAgent # <<>>
    /\ toAgent' = Tail(toAgent)
    /\ mishap' = (mishap \/ Head(toAgent) = "Start")
    /\ UNCHANGED <<server, tasks, state, started, told, beaten>>

\* A beat of the executor finds the job's result: it is sent once.
jobEnds ==
    /\ \E e \in Executors :
         /\ state[e] = "running"
         /\ state' = [state EXCEPT ![e] = "gone"]
    /\ mail' \in sent(Message("Result"))
    /\ UNCHANGED <<mode, executor, search, command, tries, sincePong, tasks,
                   toAgent, histories, beaten>>

\* The death of an executor that nobody watches changes nothing for anyone.
agentDies ==
    /\ executor # NoExecutor
    /\ state[executor] \in {"created", "running"}
    /\ state' = [state EXCEPT ![executor] = "gone"]
    /\ UNCHANGED <<server, tasks, toAgent, histories, beaten>>

network == taskTaken \/ taskLost \/ executorReceives \/ messageLost

RemoteNext ==
    \/ doSubmit \/ searchFails \/ receive \/ period \/ interrupt
    \/ network \/ jobEnds \/ agentDies

\* Futures complete, mail is taken, the clock runs, messages arrive or are
\* lost, and the job itself ends.
RemoteFairness ==
    /\ WF_remoteVars(doSubmit \/ searchFails)
    /\ WF_remoteVars(receive)
    /\ WF_remoteVars(period)
    /\ WF_remoteVars(taskTaken \/ taskLost)
    /\ WF_remoteVars(executorReceives \/ messageLost)
    /\ WF_remoteVars(jobEnds)

RemoteSpec == RemoteInit /\ [][RemoteNext]_remoteVars /\ RemoteFairness

-----------------------------------------------------------------------------

\* However many agents the task was sent to, and however late they answer, the
\* action is started on one executor at most.
StartedOnce == \A e, f \in started : e = f

\* A host gets one try more than MaxTries, and only one host does: then the
\* action is given up.
TriesBounded ==
    /\ \A a \in Agents : tries[a] <= MaxTries + 1
    /\ \A a, b \in Agents : tries[a] > MaxTries /\ tries[b] > MaxTries => a = b

\* The actor never stops without a word to the supervisor, and when it leaves
\* a running executor behind, it had told that the agent was lost or that
\* there was none.
NoSilentStop ==
    mode = "stopped" =>
        /\ told # {}
        /\ (\E e \in Executors : state[e] = "running") => told # {"result"}

\* The supervisor hears of every action, whatever messages are lost and
\* whichever agents die, except after the two mishaps the actor has no timeout
\* for: a search that fails, and a Start that is lost while pings get through.
ActionAnswered == <>(told # {} \/ mishap)
=============================================================================
