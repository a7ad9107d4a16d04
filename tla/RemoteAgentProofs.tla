--------------------------- MODULE RemoteAgentProofs ---------------------------
(***************************************************************************)
(* Theorems about RemoteAgent, for any agents, tries, executors and any    *)
(* bound on the mailbox.                                                   *)
(***************************************************************************)
EXTENDS RemoteAgent, SequenceTheorems, TLAPS

\* No Start is on its way to the watched executor.
NoStart == \A i \in 1 .. Len(toAgent) : toAgent[i] # "Start"

\* The executor that was watched has answered, and never runs again.
Over == executor \in Executors /\ state[executor] # "running" /\ NoStart

\* What a queued mail tells of the state it finds.
Fits(m) ==
  /\ m.kind = "ActorRef" => m.ref \in Executors
  /\ m.kind \in {"Pong", "CheckStatus", "CheckStatusTimeout"} => executor # NoExecutor
  /\ m.kind = "Result" => Over
  /\ m.kind = "PoisonPill" => told # {}

MailFits == \A i \in 1 .. Len(mail) : Fits(mail[i])

\* The behaviour says whether an executor is watched; nothing is sent to any other, and the
\* actor has a reason to stop.
Watching ==
  /\ mode = "receive" => executor = NoExecutor
  /\ mode = "executorWatcher" => executor # NoExecutor
  /\ mode = "stopped" => mail = <<>> /\ told # {}
  /\ executor = NoExecutor => toAgent = <<>>
  /\ started \subseteq {executor}

\* Only the watched executor runs a job, and its Start is behind it.
OnlyWatchedRuns == \A e \in Executors : state[e] = "running" => e = executor /\ NoStart

\* Start is the first message an executor gets.
StartIsFirst == \A i \in 2 .. Len(toAgent) : toAgent[i] # "Start"

ResultIsLast == "result" \in told => Over

IInv ==
  /\ RemoteTypeOK
  /\ MailFits
  /\ Watching
  /\ OnlyWatchedRuns
  /\ StartIsFirst
  /\ ResultIsLast
  /\ TriesBounded

-----------------------------------------------------------------------------
\* What fits keeps fitting: an executor stays watched, an answer given stays given.
Steady ==
  /\ executor # NoExecutor => executor' # NoExecutor
  /\ Over => Over'
  /\ told # {} => told' # {}

LEMMA FitsKept ==
  ASSUME Steady, NEW m, Fits(m)
  PROVE  Fits(m)'
BY DEF Steady, Fits

\* A mailbox whose mails were there before, or fit now, fits.
LEMMA MailboxFits ==
  ASSUME mail \in Seq(Mail), MailFits, Steady, mail' \in Seq(Mail),
         NEW x, NEW y, Fits(x)', Fits(y)',
         \A i \in 1 .. Len(mail') : mail'[i] \in {x, y} \/ \E j \in 1 .. Len(mail) : mail'[i] = mail[j]
  PROVE  MailFits'
<1> SUFFICES ASSUME NEW i \in 1 .. Len(mail') PROVE Fits(mail[i])'
  BY DEF MailFits
<1>1. CASE mail'[i] \in {x, y}
  BY <1>1 DEF Fits
<1>2. ASSUME NEW j \in 1 .. Len(mail), mail'[i] = mail[j] PROVE Fits(mail[i])'
  <2>1. PICK m \in Mail : m = mail[j]
    OBVIOUS
  <2>2. Fits(m)
    BY <2>1 DEF MailFits
  <2>3. Fits(m)'
    BY <2>2, FitsKept
  <2> QED BY <1>2, <2>1, <2>3 DEF Fits
<1> QED BY <1>1, <1>2

\* What an element of a longer sequence is.
LEMMA AppendAt ==
  ASSUME NEW S, NEW s \in Seq(S), NEW e \in S
  PROVE  /\ Append(s, e) \in Seq(S)
         /\ Len(Append(s, e)) = Len(s) + 1
         /\ \A i \in 1 .. Len(Append(s, e)) :
              Append(s, e)[i] = e \/ (i \in 1 .. Len(s) /\ Append(s, e)[i] = s[i])
<1>1. Append(s, e) \in Seq(S) /\ Len(Append(s, e)) = Len(s) + 1
  OBVIOUS
<1>2. \A i \in 1 .. Len(s) + 1 : Append(s, e)[i] = IF i = Len(s) + 1 THEN e ELSE s[i]
  OBVIOUS
<1> QED BY <1>1, <1>2

\* The mailbox loses its head, gets a mail that fits, or both.
LEMMA MailKept ==
  ASSUME mail \in Seq(Mail), MailFits, Steady,
         \/ mail' = mail
         \/ mail # <<>> /\ mail' = Tail(mail)
  PROVE  mail' \in Seq(Mail) /\ MailFits'
<1> DEFINE nothing == [kind |-> "Start", ref |-> NoExecutor]
<1>1. Fits(nothing)'
  BY DEF Fits
<1>2. CASE mail' = mail
  <2>1. \A i \in 1 .. Len(mail') : mail'[i] = mail[i] /\ i \in 1 .. Len(mail)
    BY <1>2
  <2> QED BY <1>1, <1>2, <2>1, MailboxFits
<1>3. CASE mail # <<>> /\ mail' = Tail(mail)
  <2>1. /\ mail' \in Seq(Mail)
        /\ Len(mail') = Len(mail) - 1
        /\ \A i \in 1 .. Len(mail') : mail'[i] = mail[i + 1]
    BY <1>3
  <2>2. \A i \in 1 .. Len(mail') : i + 1 \in 1 .. Len(mail)
    BY <2>1
  <2> QED BY <1>1, <2>1, <2>2, MailboxFits
<1> QED BY <1>2, <1>3

LEMMA MailGrows ==
  ASSUME mail \in Seq(Mail), MailFits, Steady, NEW x \in Mail, Fits(x)',
         \/ mail' = Append(mail, x)
         \/ mail # <<>> /\ mail' = Append(Tail(mail), x)
  PROVE  mail' \in Seq(Mail) /\ MailFits'
<1>1. CASE mail' = Append(mail, x)
  <2>1. /\ mail' \in Seq(Mail)
        /\ \A i \in 1 .. Len(mail') : mail'[i] = x \/ (i \in 1 .. Len(mail) /\ mail'[i] = mail[i])
    BY <1>1, AppendAt
  <2> QED BY <2>1, MailboxFits
<1>2. CASE mail # <<>> /\ mail' = Append(Tail(mail), x)
  <2>1. PICK t \in Seq(Mail) : t = Tail(mail)
    BY <1>2, HeadTailProperties
  <2>2. Len(t) = Len(mail) - 1 /\ \A i \in 1 .. Len(t) : t[i] = mail[i + 1]
    BY <1>2, <2>1, HeadTailProperties
  <2>3. mail' = Append(t, x)
    BY <1>2, <2>1
  <2>4. mail' \in Seq(Mail) /\ \A i \in 1 .. Len(mail') : mail'[i] = x \/ (i \in 1 .. Len(t) /\ mail'[i] = t[i])
    BY <2>3, AppendAt
  <2>5. \A i \in 1 .. Len(t) : i + 1 \in 1 .. Len(mail) /\ t[i] = mail[i + 1]
    BY <2>2
  <2> QED BY <2>4, <2>5, MailboxFits
<1> QED BY <1>1, <1>2

\* What an agent sends reaches the mailbox or does not.
LEMMA SentIsKept ==
  ASSUME mail \in Seq(Mail), MailFits, Steady, NEW x \in Mail, Fits(x)', mail' \in sent(x)
  PROVE  mail' \in Seq(Mail) /\ MailFits'
<1>1. mail' = mail \/ mail' = Append(mail, x)
  BY DEF sent
<1> QED BY <1>1, MailKept, MailGrows

LEMMA MessageIsMail ==
  /\ \A k \in Kinds : Message(k) \in Mail /\ Message(k).kind = k
  /\ \A e \in Executors : Reference(e) \in Mail /\ Reference(e).kind = "ActorRef" /\ Reference(e).ref = e
BY DEF Message, Reference, Mail, Kinds

\* A mail that was taken is the first of them, and fits.
LEMMA TakenFits ==
  ASSUME IInv, NEW k, Takes(k)
  PROVE  mail # <<>> /\ Head(mail).kind = k /\ Head(mail) \in Mail /\ Fits(Head(mail)) /\ mode # "stopped"
<1>1. mail \in Seq(Mail) /\ mail # <<>> /\ Head(mail).kind = k
  BY DEF IInv, RemoteTypeOK, Takes
<1>2. Head(mail) = mail[1] /\ 1 \in 1 .. Len(mail) /\ Head(mail) \in Mail
  BY <1>1
<1> QED BY <1>1, <1>2 DEF IInv, MailFits, Watching

-----------------------------------------------------------------------------
\* The messages to the executor lose their head or get one that is not Start.
LEMMA MessagesKept ==
  ASSUME toAgent \in Seq({"Start", "Ping", "Beat"}), StartIsFirst,
         \/ toAgent' = toAgent
         \/ \E k \in {"Ping", "Beat"} : toAgent' = Append(toAgent, k)
  PROVE  /\ toAgent' \in Seq({"Start", "Ping", "Beat"})
         /\ StartIsFirst'
         /\ NoStart => NoStart'
<1>1. CASE toAgent' = toAgent
  BY <1>1 DEF StartIsFirst, NoStart
<1>2. ASSUME NEW k \in {"Ping", "Beat"}, toAgent' = Append(toAgent, k)
      PROVE  /\ toAgent' \in Seq({"Start", "Ping", "Beat"})
             /\ StartIsFirst'
             /\ NoStart => NoStart'
  <2>1. Len(toAgent') = Len(toAgent) + 1 /\ \A i \in 1 .. Len(toAgent') :
          toAgent'[i] = k \/ (i \in 1 .. Len(toAgent) /\ toAgent'[i] = toAgent[i])
    BY <1>2, AppendAt
  <2>2. \A i \in 2 .. Len(toAgent') :
          toAgent'[i] = k \/ (i \in 2 .. Len(toAgent) /\ toAgent'[i] = toAgent[i])
    BY <2>1
  <2> QED BY <1>2, <2>1, <2>2 DEF StartIsFirst, NoStart
<1> QED BY <1>1, <1>2

\* When a message arrives or is lost, what is behind it is no Start.
LEMMA MessageGone ==
  ASSUME toAgent \in Seq({"Start", "Ping", "Beat"}), StartIsFirst, toAgent # <<>>,
         toAgent' = Tail(toAgent)
  PROVE  toAgent' \in Seq({"Start", "Ping", "Beat"}) /\ StartIsFirst' /\ NoStart'
<1>1. Len(toAgent') = Len(toAgent) - 1 /\ \A i \in 1 .. Len(toAgent') : toAgent'[i] = toAgent[i + 1]
  OBVIOUS
<1>2. \A i \in 1 .. Len(toAgent') : i + 1 \in 2 .. Len(toAgent)
  BY <1>1
<1>3. NoStart'
  BY <1>1, <1>2 DEF StartIsFirst, NoStart
<1> QED BY <1>1, <1>2, <1>3 DEF StartIsFirst, NoStart

THEOREM RemoteBegins == RemoteInit => IInv
<1> SUFFICES ASSUME RemoteInit PROVE IInv
  OBVIOUS
<1>1. mail = <<Message("Start")>> /\ Message("Start") \in Mail /\ Message("Start").kind = "Start"
  BY MessageIsMail DEF RemoteInit, Kinds
<1>2. mail \in Seq(Mail) /\ Len(mail) = 1 /\ mail[1] = Message("Start")
  BY <1>1
<1>3. MailFits
  BY <1>1, <1>2 DEF MailFits, Fits
<1>4. RemoteTypeOK
  <2>1. tries \in [Agents -> 0 .. MaxTries + 1] /\ sincePong \in 0 .. 3
    BY RemoteAssumption DEF RemoteInit
  <2>2. toAgent \in Seq({"Start", "Ping", "Beat"})
    BY DEF RemoteInit
  <2> QED BY <1>2, <2>1, <2>2 DEF RemoteInit, RemoteTypeOK, NoExecutor
<1>5. TriesBounded
  BY RemoteAssumption DEF RemoteInit, TriesBounded
<1>6. Watching /\ OnlyWatchedRuns /\ StartIsFirst /\ ResultIsLast
  BY <1>1, <1>2 DEF RemoteInit, Watching, OnlyWatchedRuns, StartIsFirst, ResultIsLast, NoExecutor
<1> QED BY <1>3, <1>4, <1>5, <1>6 DEF IInv

-----------------------------------------------------------------------------
\* A step of the server that tells the executor nothing, or anything but Start, keeps what is
\* said of executors.
LEMMA ServerKeeps ==
  ASSUME IInv, UNCHANGED <<executor, state>>,
         \/ toAgent' = toAgent
         \/ \E k \in {"Ping", "Beat"} : toAgent' = Append(toAgent, k),
         told \subseteq told',
         "result" \in told' => "result" \in told \/ Over
  PROVE  /\ toAgent' \in Seq({"Start", "Ping", "Beat"})
         /\ Steady /\ OnlyWatchedRuns' /\ StartIsFirst' /\ ResultIsLast'
<1>1. /\ toAgent' \in Seq({"Start", "Ping", "Beat"})
      /\ StartIsFirst'
      /\ NoStart => NoStart'
  BY MessagesKept DEF IInv, RemoteTypeOK
<1>2. Over => Over'
  BY <1>1 DEF Over
<1>3. Steady
  BY <1>2 DEF Steady
<1>4. OnlyWatchedRuns'
  BY <1>1 DEF IInv, OnlyWatchedRuns
<1>5. ResultIsLast'
  BY <1>2 DEF IInv, ResultIsLast
<1> QED BY <1>1, <1>3, <1>4, <1>5

\* So does a step of the agents or the network, in which nothing begins to run but the watched
\* executor, by its Start.
LEMMA AgentKeeps ==
  ASSUME IInv, UNCHANGED <<executor, told>>,
         \/ toAgent' = toAgent
         \/ toAgent # <<>> /\ toAgent' = Tail(toAgent),
         \A e \in Executors : state'[e] = "running" =>
            \/ state[e] = "running"
            \/ /\ e = executor
               /\ toAgent # <<>> /\ Head(toAgent) = "Start" /\ toAgent' = Tail(toAgent)
  PROVE  /\ toAgent' \in Seq({"Start", "Ping", "Beat"})
         /\ Steady /\ OnlyWatchedRuns' /\ StartIsFirst' /\ ResultIsLast'
<1>1. /\ toAgent' \in Seq({"Start", "Ping", "Beat"})
      /\ StartIsFirst'
      /\ NoStart => NoStart'
      /\ toAgent # <<>> /\ toAgent' = Tail(toAgent) => NoStart'
  <2>1. CASE toAgent' = toAgent
    BY <2>1, MessageGone DEF IInv, RemoteTypeOK, StartIsFirst, NoStart
  <2>2. CASE toAgent # <<>> /\ toAgent' = Tail(toAgent)
    BY <2>2, MessageGone DEF IInv, RemoteTypeOK
  <2> QED BY <2>1, <2>2
<1>2. NoStart => ~(toAgent # <<>> /\ Head(toAgent) = "Start")
  <2>1. toAgent # <<>> => Head(toAgent) = toAgent[1] /\ 1 \in 1 .. Len(toAgent)
    <3>1. toAgent \in Seq({"Start", "Ping", "Beat"})
      BY DEF IInv, RemoteTypeOK
    <3>2. toAgent # <<>> => Len(toAgent) \in Nat \ {0}
      BY <3>1, EmptySeq
    <3> QED BY <3>1, <3>2
  <2> QED BY <2>1 DEF NoStart
<1>3. Over => Over'
  BY <1>1, <1>2 DEF Over
<1>4. Steady
  BY <1>3 DEF Steady
<1>5. OnlyWatchedRuns'
  BY <1>1 DEF IInv, OnlyWatchedRuns
<1>6. ResultIsLast'
  BY <1>3 DEF IInv, ResultIsLast
<1> QED BY <1>1, <1>4, <1>5, <1>6

LEMMA TriesKept ==
  ASSUME IInv, UNCHANGED tries
  PROVE  tries' \in [Agents -> 0 .. MaxTries + 1] /\ TriesBounded'
BY DEF IInv, RemoteTypeOK, TriesBounded

-----------------------------------------------------------------------------
\* Every step keeps the invariant.
THEOREM RemoteStep == IInv /\ [RemoteNext]_remoteVars => IInv'
<1> SUFFICES ASSUME IInv, [RemoteNext]_remoteVars PROVE IInv'
  OBVIOUS
<1> USE DEF IInv
<1>1. CASE doSubmit
  <2>1. search' = FALSE /\ UNCHANGED <<mode, executor, sincePong, state, toAgent, started, mishap, beaten>>
    BY <1>1 DEF doSubmit
  <2>2. CASE failWithNoAgent
    <3>1. told' = told \cup {"no agent"} /\ UNCHANGED <<tries, tasks, command>>
      BY <2>2 DEF failWithNoAgent
    <3>2. toAgent' \in Seq({"Start", "Ping", "Beat"})
          /\ Steady /\ OnlyWatchedRuns' /\ StartIsFirst' /\ ResultIsLast'
      BY <2>1, <3>1, ServerKeeps
    <3>3. mail' \in Seq(Mail) /\ MailFits' /\ (mode = "stopped" => mail' = mail)
      <4>1. Message("PoisonPill") \in Mail /\ Fits(Message("PoisonPill"))'
        BY <3>1, MessageIsMail DEF Kinds, Fits
      <4>2. CASE mode = "stopped"
        BY <4>2, <2>2, <3>2, MailKept DEF failWithNoAgent, RemoteTypeOK
      <4>3. CASE mode # "stopped"
        <5>1. mail' = Append(mail, Message("PoisonPill"))
          BY <4>3, <2>2 DEF failWithNoAgent
        <5> QED BY <4>1, <4>3, <5>1, <3>2, MailGrows DEF RemoteTypeOK
      <4> QED BY <4>2, <4>3
    <3>4. RemoteTypeOK'
      BY <2>1, <3>1, <3>2, <3>3 DEF RemoteTypeOK
    <3>5. Watching'
      BY <2>1, <3>1, <3>3 DEF Watching
    <3> QED BY <3>1, <3>2, <3>3, <3>4, <3>5, TriesKept
  <2>3. CASE ~tooMany /\ (\E a \in Agents : submitRemoteJob(a)) /\ UNCHANGED <<told, mail>>
    <3>1. PICK a \in Agents : submitRemoteJob(a)
      BY <2>3
    <3>2. tries' = [tries EXCEPT ![a] = @ + 1] /\ tasks' = tasks + 1 /\ command' = TRUE
      BY <3>1 DEF submitRemoteJob
    <3>3. tries \in [Agents -> 0 .. MaxTries + 1] /\ MaxTries \in Nat
      BY RemoteAssumption DEF RemoteTypeOK
    <3>4. tries' \in [Agents -> 0 .. MaxTries + 1] /\ \A b \in Agents \ {a} : tries'[b] <= MaxTries
      <4>1. \A b \in Agents : tries[b] \in 0 .. MaxTries
        BY <2>3, <3>3 DEF tooMany
      <4>2. tries[a] + 1 \in 0 .. MaxTries + 1
        BY <4>1, <3>3
      <4>3. tries' \in [Agents -> 0 .. MaxTries + 1] /\ \A b \in Agents \ {a} : tries'[b] = tries[b]
        BY <3>2, <3>3, <4>2
      <4> QED BY <4>1, <4>3
    <3>5. TriesBounded'
      BY <3>4, RemoteAssumption DEF TriesBounded
    <3>6. toAgent' \in Seq({"Start", "Ping", "Beat"})
          /\ Steady /\ OnlyWatchedRuns' /\ StartIsFirst' /\ ResultIsLast'
      BY <2>1, <2>3, ServerKeeps
    <3>7. mail' \in Seq(Mail) /\ MailFits'
      BY <2>3, <3>6, MailKept DEF RemoteTypeOK
    <3>8. RemoteTypeOK'
      <4>1. tasks' \in Nat
        <5>1. tasks \in Nat /\ tasks' = tasks + 1
          BY <3>2 DEF RemoteTypeOK
        <5> QED BY <5>1
      <4>2. command' \in BOOLEAN /\ search' \in BOOLEAN
        BY <2>1, <3>2
      <4> QED BY <2>1, <2>3, <3>4, <3>7, <4>1, <4>2 DEF RemoteTypeOK
    <3>9. Watching'
      BY <2>1, <2>3 DEF Watching
    <3> QED BY <3>5, <3>6, <3>7, <3>8, <3>9
  <2> QED BY <1>1, <2>2, <2>3 DEF doSubmit
<1>2. CASE searchFails
  <2>1. UNCHANGED <<mode, mail, executor, tries, state, toAgent, started, told>>
    BY <1>2 DEF searchFails, agents
  <2>2. toAgent' \in Seq({"Start", "Ping", "Beat"})
        /\ Steady /\ OnlyWatchedRuns' /\ StartIsFirst' /\ ResultIsLast'
    BY <2>1, ServerKeeps
  <2>3. mail' \in Seq(Mail) /\ MailFits'
    BY <2>1, <2>2, MailKept DEF RemoteTypeOK
  <2>4. RemoteTypeOK'
    BY <1>2, <2>1 DEF searchFails, agents, RemoteTypeOK
  <2>5. Watching'
    BY <2>1 DEF Watching
  <2> QED BY <2>1, <2>2, <2>3, <2>4, <2>5, TriesKept
<1>3. CASE submit
  <2>1. /\ mail # <<>> /\ mode # "stopped" /\ mail' = Tail(mail)
        /\ UNCHANGED <<mode, executor, tries, state, toAgent, started, told>>
    BY <1>3, TakenFits DEF submit, agents, histories
  <2>2. toAgent' \in Seq({"Start", "Ping", "Beat"})
        /\ Steady /\ OnlyWatchedRuns' /\ StartIsFirst' /\ ResultIsLast'
    BY <2>1, ServerKeeps
  <2>3. mail' \in Seq(Mail) /\ MailFits'
    BY <2>1, <2>2, MailKept DEF RemoteTypeOK
  <2>4. RemoteTypeOK'
    <3>1. search' \in BOOLEAN
      BY <1>3 DEF submit, RemoteTypeOK
    <3> QED BY <1>3, <2>1, <2>3, <3>1 DEF submit, agents, histories, RemoteTypeOK
  <2>5. Watching'
    BY <2>1 DEF Watching
  <2> QED BY <2>1, <2>2, <2>3, <2>4, <2>5, TriesKept
<1>4. CASE executorFound
  <2>1. /\ mail # <<>> /\ Head(mail).ref \in Executors /\ mode = "receive" /\ executor = NoExecutor
        /\ mail' = Tail(mail) /\ mode' = "executorWatcher" /\ executor' = Head(mail).ref
        /\ toAgent' = <<"Start", "Ping">> /\ started' = started \cup {Head(mail).ref}
        /\ UNCHANGED <<search, command, tries, sincePong, tasks, state, told, mishap, beaten>>
    BY <1>4, TakenFits DEF executorFound, awaiting, Fits, Watching
  <2>2. executor' # NoExecutor /\ NoExecutor \notin Executors
    BY <2>1, RemoteAssumption DEF Executors, NoExecutor
  <2>3. ~Over
    BY <2>1, <2>2 DEF Over
  <2>4. Steady
    BY <2>2, <2>3, <2>1 DEF Steady
  <2>5. mail' \in Seq(Mail) /\ MailFits'
    BY <2>1, <2>4, MailKept DEF RemoteTypeOK
  <2>6. started' = {executor'}
    BY <2>1, <2>2 DEF Watching, RemoteTypeOK
  <2>7. RemoteTypeOK'
    <3>1. toAgent' \in Seq({"Start", "Ping", "Beat"})
      BY <2>1
    <3>2. started' \subseteq Executors /\ executor' \in Executors \cup {NoExecutor}
      BY <2>1, <2>6
    <3> QED BY <2>1, <2>5, <3>1, <3>2 DEF RemoteTypeOK
  <2>8. Watching'
    BY <2>1, <2>2, <2>6 DEF Watching
  <2>9. OnlyWatchedRuns'
    <3>1. \A e \in Executors : state[e] # "running"
      BY <2>1, <2>2 DEF OnlyWatchedRuns
    <3> QED BY <2>1, <3>1 DEF OnlyWatchedRuns
  <2>10. StartIsFirst'
    <3>1. Len(toAgent') = 2 /\ toAgent'[2] = "Ping"
      BY <2>1
    <3> QED BY <3>1 DEF StartIsFirst
  <2>11. ResultIsLast'
    BY <2>1, <2>3 DEF ResultIsLast
  <2> QED BY <2>1, <2>5, <2>7, <2>8, <2>9, <2>10, <2>11, TriesKept
<1>5. CASE executorIgnored
  <2>1. /\ mail # <<>> /\ mode # "stopped" /\ mail' = Tail(mail)
        /\ UNCHANGED <<mode, executor, search, command, tries, sincePong, tasks, state, toAgent,
                       started, told, mishap, beaten>>
    BY <1>5, TakenFits DEF executorIgnored, agents, histories
  <2>2. toAgent' \in Seq({"Start", "Ping", "Beat"})
        /\ Steady /\ OnlyWatchedRuns' /\ StartIsFirst' /\ ResultIsLast'
    BY <2>1, ServerKeeps
  <2>3. mail' \in Seq(Mail) /\ MailFits'
    BY <2>1, <2>2, MailKept DEF RemoteTypeOK
  <2>4. RemoteTypeOK'
    BY <2>1, <2>3 DEF RemoteTypeOK
  <2>5. Watching'
    BY <2>1 DEF Watching
  <2> QED BY <2>1, <2>2, <2>3, <2>4, <2>5, TriesKept
<1>6. CASE beat
  <2>1. /\ mail # <<>> /\ mode # "stopped"
        /\ UNCHANGED <<mode, executor, search, command, tries, sincePong, tasks, state,
                       started, told, mishap, beaten>>
    BY <1>6, TakenFits DEF beat, histories
  <2>2. \/ mode = "receive" /\ mail' = Append(Tail(mail), Message("Beat")) /\ toAgent' = toAgent
        \/ mode = "executorWatcher" /\ mail' = Tail(mail) /\ toAgent' = Append(toAgent, "Beat")
    BY <1>6, <2>1 DEF beat, RemoteTypeOK
  <2>3. toAgent' \in Seq({"Start", "Ping", "Beat"})
        /\ Steady /\ OnlyWatchedRuns' /\ StartIsFirst' /\ ResultIsLast'
    BY <2>1, <2>2, ServerKeeps
  <2>4. mail' \in Seq(Mail) /\ MailFits'
    <3>1. Message("Beat") \in Mail /\ Fits(Message("Beat"))'
      BY MessageIsMail DEF Kinds, Fits
    <3> QED BY <2>1, <2>2, <2>3, <3>1, MailKept, MailGrows DEF RemoteTypeOK
  <2>5. RemoteTypeOK'
    BY <2>1, <2>3, <2>4 DEF RemoteTypeOK
  <2>6. Watching'
    BY <2>1, <2>2 DEF Watching
  <2> QED BY <2>1, <2>3, <2>4, <2>5, <2>6, TriesKept
<1>7. CASE actionResult
  <2>1. /\ mail # <<>> /\ mode # "stopped" /\ Over
        /\ mail' = Append(Tail(mail), Message("PoisonPill")) /\ told' = told \cup {"result"}
        /\ UNCHANGED <<mode, executor, search, command, tries, sincePong, tasks, state, toAgent,
                       started, mishap, beaten>>
    BY <1>7, TakenFits DEF actionResult, agents, Fits
  <2>2. toAgent' \in Seq({"Start", "Ping", "Beat"})
        /\ Steady /\ OnlyWatchedRuns' /\ StartIsFirst' /\ ResultIsLast'
    BY <2>1, ServerKeeps
  <2>3. mail' \in Seq(Mail) /\ MailFits'
    <3>1. Message("PoisonPill") \in Mail /\ Fits(Message("PoisonPill"))'
      BY <2>1, MessageIsMail DEF Kinds, Fits
    <3> QED BY <2>1, <2>2, <3>1, MailGrows DEF RemoteTypeOK
  <2>4. RemoteTypeOK'
    BY <2>1, <2>3 DEF RemoteTypeOK
  <2>5. Watching'
    BY <2>1 DEF Watching
  <2> QED BY <2>1, <2>2, <2>3, <2>4, <2>5, TriesKept
<1>8. CASE checkStatus
  <2>1. /\ mail # <<>> /\ mode # "stopped" /\ executor # NoExecutor
        /\ UNCHANGED <<mode, executor, search, command, tries, sincePong, tasks, state,
                       started, told, mishap, beaten>>
    BY <1>8, TakenFits DEF checkStatus, histories, Fits
  <2>2. \/ mail' = Tail(mail) /\ toAgent' = Append(toAgent, "Ping")
        \/ mail' = Append(Tail(mail), Message("CheckStatusTimeout")) /\ toAgent' = toAgent
    BY <1>8 DEF checkStatus
  <2>3. toAgent' \in Seq({"Start", "Ping", "Beat"})
        /\ Steady /\ OnlyWatchedRuns' /\ StartIsFirst' /\ ResultIsLast'
    BY <2>1, <2>2, ServerKeeps
  <2>4. mail' \in Seq(Mail) /\ MailFits'
    <3>1. Message("CheckStatusTimeout") \in Mail /\ Fits(Message("CheckStatusTimeout"))'
      BY <2>1, MessageIsMail DEF Kinds, Fits
    <3> QED BY <2>1, <2>2, <2>3, <3>1, MailKept, MailGrows DEF RemoteTypeOK
  <2>5. RemoteTypeOK'
    BY <2>1, <2>3, <2>4 DEF RemoteTypeOK
  <2>6. Watching'
    BY <2>1 DEF Watching
  <2> QED BY <2>1, <2>3, <2>4, <2>5, <2>6, TriesKept
<1>9. CASE checkStatusTimeout
  <2>1. /\ mail # <<>> /\ mode # "stopped" /\ executor # NoExecutor
        /\ toAgent' = Append(toAgent, "Beat") /\ told' = told \cup {"timeout"}
        /\ mail' = Append(Tail(mail), Message("PoisonPill"))
        /\ UNCHANGED <<mode, executor, search, command, tries, sincePong, tasks, state,
                       started, mishap, beaten>>
    BY <1>9, TakenFits DEF checkStatusTimeout, giveUp, Fits
  <2>2. toAgent' \in Seq({"Start", "Ping", "Beat"})
        /\ Steady /\ OnlyWatchedRuns' /\ StartIsFirst' /\ ResultIsLast'
    BY <2>1, ServerKeeps
  <2>3. mail' \in Seq(Mail) /\ MailFits'
    <3>1. Message("PoisonPill") \in Mail /\ Fits(Message("PoisonPill"))'
      BY <2>1, MessageIsMail DEF Kinds, Fits
    <3> QED BY <2>1, <2>2, <3>1, MailGrows DEF RemoteTypeOK
  <2>4. RemoteTypeOK'
    BY <2>1, <2>2, <2>3 DEF RemoteTypeOK
  <2>5. Watching'
    BY <2>1 DEF Watching
  <2> QED BY <2>1, <2>2, <2>3, <2>4, <2>5, TriesKept
<1>10. CASE pong
  <2>1. /\ mail # <<>> /\ mode # "stopped" /\ mail' = Tail(mail) /\ sincePong' = 0
        /\ UNCHANGED <<mode, executor, search, command, tries, tasks, state, toAgent,
                       started, told, mishap, beaten>>
    BY <1>10, TakenFits DEF pong, agents, histories
  <2>2. toAgent' \in Seq({"Start", "Ping", "Beat"})
        /\ Steady /\ OnlyWatchedRuns' /\ StartIsFirst' /\ ResultIsLast'
    BY <2>1, ServerKeeps
  <2>3. mail' \in Seq(Mail) /\ MailFits'
    BY <2>1, <2>2, MailKept DEF RemoteTypeOK
  <2>4. RemoteTypeOK'
    <3>1. sincePong' \in 0 .. 3
      BY <2>1
    <3> QED BY <2>1, <2>3, <3>1 DEF RemoteTypeOK
  <2>5. Watching'
    BY <2>1 DEF Watching
  <2> QED BY <2>1, <2>2, <2>3, <2>4, <2>5, TriesKept
<1>11. CASE poisonPill
  <2>1. /\ told # {} /\ mode' = "stopped" /\ mail' = <<>>
        /\ UNCHANGED <<executor, search, command, tries, sincePong, tasks, state, toAgent,
                       started, told, mishap, beaten>>
    BY <1>11, TakenFits DEF poisonPill, agents, histories, Fits
  <2>2. toAgent' \in Seq({"Start", "Ping", "Beat"})
        /\ Steady /\ OnlyWatchedRuns' /\ StartIsFirst' /\ ResultIsLast'
    BY <2>1, ServerKeeps
  <2>3. mail' \in Seq(Mail) /\ Len(mail') = 0
    BY <2>1
  <2>4. MailFits'
    BY <2>3 DEF MailFits
  <2>5. RemoteTypeOK'
    BY <2>1, <2>3 DEF RemoteTypeOK
  <2>6. Watching'
    BY <2>1 DEF Watching
  <2> QED BY <2>1, <2>2, <2>4, <2>5, <2>6, TriesKept
<1>12. CASE period
  <2>1. /\ mode # "stopped"
        /\ UNCHANGED <<mode, executor, search, tries, tasks, state, toAgent, started, told, mishap, beaten>>
        /\ command' = FALSE
    BY <1>12 DEF period, agents, histories
  <2>2. toAgent' \in Seq({"Start", "Ping", "Beat"})
        /\ Steady /\ OnlyWatchedRuns' /\ StartIsFirst' /\ ResultIsLast'
    BY <2>1, ServerKeeps
  <2>3. mail' \in Seq(Mail) /\ MailFits'
    <3>1. PICK timeout \in Mail, check \in Mail :
            /\ timeout = Message("CommandTimeout") /\ check = Message("CheckStatus")
            /\ timeout.kind = "CommandTimeout" /\ check.kind = "CheckStatus"
      BY MessageIsMail DEF Kinds
    <3>2. Fits(timeout)' /\ (mode = "executorWatcher" => Fits(check)')
      BY <2>1, <3>1 DEF Fits, Watching
    <3>3. mail' = mail \o (IF command THEN <<timeout>> ELSE <<>>)
                       \o (IF mode = "executorWatcher" THEN <<check>> ELSE <<>>)
      BY <1>12, <3>1 DEF period
    <3>4. mail \in Seq(Mail)
      BY DEF RemoteTypeOK
    <3>5. PICK s \in Seq(Mail) : /\ s = mail \o (IF command THEN <<timeout>> ELSE <<>>)
                                 /\ s = mail \/ s = Append(mail, timeout)
      <4>1. CASE command
        BY <3>4, <4>1, AppendIsConcat, AppendProperties
      <4>2. CASE ~command
        BY <3>4, <4>2, ConcatEmptySeq
      <4> QED BY <4>1, <4>2
    <3>6. \A i \in 1 .. Len(s) : s[i] = timeout \/ (i \in 1 .. Len(mail) /\ s[i] = mail[i])
      BY <3>4, <3>5, AppendAt
    <3>7. CASE mode = "executorWatcher"
      <4>1. mail' = Append(s, check)
        BY <3>3, <3>5, <3>7
      <4>2. mail' \in Seq(Mail)
            /\ \A i \in 1 .. Len(mail') : mail'[i] = check \/ (i \in 1 .. Len(s) /\ mail'[i] = s[i])
        BY <4>1, AppendAt
      <4> QED BY <2>2, <3>2, <3>4, <3>6, <3>7, <4>2, MailboxFits
    <3>8. CASE mode # "executorWatcher"
      <4>1. mail' = s
        BY <3>3, <3>5, <3>8
      <4> QED BY <2>2, <3>2, <3>4, <3>6, <4>1, MailboxFits
    <3> QED BY <3>7, <3>8
  <2>4. RemoteTypeOK'
    <3>1. sincePong' = (IF sincePong < 3 THEN sincePong + 1 ELSE 3) /\ sincePong \in 0 .. 3
      BY <1>12 DEF period, RemoteTypeOK
    <3>2. sincePong' \in 0 .. 3
      BY <3>1
    <3> QED BY <2>1, <2>3, <3>2 DEF RemoteTypeOK
  <2>5. Watching'
    BY <2>1 DEF Watching
  <2> QED BY <2>1, <2>2, <2>3, <2>4, <2>5, TriesKept
<1>13. CASE interrupt
  <2>1. /\ mode # "stopped" /\ beaten' = TRUE /\ mail' = Append(mail, Message("Beat"))
        /\ UNCHANGED <<mode, executor, search, command, tries, sincePong, tasks, state, toAgent,
                       started, told, mishap>>
    BY <1>13 DEF interrupt, agents, histories
  <2>2. toAgent' \in Seq({"Start", "Ping", "Beat"})
        /\ Steady /\ OnlyWatchedRuns' /\ StartIsFirst' /\ ResultIsLast'
    BY <2>1, ServerKeeps
  <2>3. mail' \in Seq(Mail) /\ MailFits'
    <3>1. Message("Beat") \in Mail /\ Fits(Message("Beat"))'
      BY MessageIsMail DEF Kinds, Fits
    <3> QED BY <2>1, <2>2, <3>1, MailGrows DEF RemoteTypeOK
  <2>4. RemoteTypeOK'
    BY <2>1, <2>3 DEF RemoteTypeOK
  <2>5. Watching'
    BY <2>1 DEF Watching
  <2> QED BY <2>1, <2>2, <2>3, <2>4, <2>5, TriesKept
<1>14. CASE taskTaken
  <2>1. PICK e \in Executors : /\ state' = [state EXCEPT ![e] = "created"]
                               /\ mail' \in sent(Reference(e))
    BY <1>14 DEF taskTaken
  <2>2. /\ tasks > 0 /\ tasks' = tasks - 1
        /\ UNCHANGED <<mode, executor, search, command, tries, sincePong, toAgent,
                       started, told, mishap, beaten>>
    BY <1>14 DEF taskTaken, histories
  <2>3. toAgent' \in Seq({"Start", "Ping", "Beat"})
        /\ Steady /\ OnlyWatchedRuns' /\ StartIsFirst' /\ ResultIsLast'
    BY <2>1, <2>2, AgentKeeps DEF RemoteTypeOK
  <2>4. mail' \in Seq(Mail) /\ MailFits'
    <3>1. Reference(e) \in Mail /\ Fits(Reference(e))'
      BY MessageIsMail DEF Fits
    <3> QED BY <2>1, <2>3, <3>1, SentIsKept DEF RemoteTypeOK
  <2>5. RemoteTypeOK'
    <3>1. tasks \in Nat /\ state \in [Executors -> {"none", "created", "running", "gone"}]
      BY DEF RemoteTypeOK
    <3>2. tasks' \in Nat
      BY <2>2, <3>1
    <3>3. state' \in [Executors -> {"none", "created", "running", "gone"}]
      BY <2>1, <3>1
    <3> QED BY <2>2, <2>4, <3>2, <3>3 DEF RemoteTypeOK
  <2>6. Watching'
    BY <2>1, <2>2 DEF Watching, sent
  <2> QED BY <2>2, <2>3, <2>4, <2>5, <2>6, TriesKept
<1>15. CASE taskLost
  <2>1. /\ tasks > 0 /\ tasks' = tasks - 1
        /\ UNCHANGED <<mode, mail, executor, search, command, tries, sincePong, state, toAgent,
                       started, told, mishap, beaten>>
    BY <1>15 DEF taskLost, server, histories
  <2>2. toAgent' \in Seq({"Start", "Ping", "Beat"})
        /\ Steady /\ OnlyWatchedRuns' /\ StartIsFirst' /\ ResultIsLast'
    BY <2>1, AgentKeeps
  <2>3. mail' \in Seq(Mail) /\ MailFits'
    BY <2>1, <2>2, MailKept DEF RemoteTypeOK
  <2>4. RemoteTypeOK'
    <3>1. tasks \in Nat
      BY DEF RemoteTypeOK
    <3>2. tasks' \in Nat
      BY <2>1, <3>1
    <3> QED BY <2>1, <3>2 DEF RemoteTypeOK
  <2>5. Watching'
    BY <2>1 DEF Watching
  <2> QED BY <2>1, <2>2, <2>3, <2>4, <2>5, TriesKept
<1>16. CASE executorReceives
  <2>1. /\ toAgent # <<>> /\ toAgent' = Tail(toAgent) /\ executor \in Executors
        /\ UNCHANGED <<mode, executor, search, command, tries, sincePong, tasks,
                       started, told, mishap, beaten>>
    BY <1>16 DEF executorReceives, histories, Watching, RemoteTypeOK
  <2>2. \/ /\ Head(toAgent) = "Start" /\ mail' = mail
           /\ state' = [state EXCEPT ![executor] = "running"]
        \/ mail' \in sent(Message("Pong")) /\ state' = state
        \/ /\ Head(toAgent) = "Beat" /\ mail' \in sent(Message("Result"))
           /\ state' = [state EXCEPT ![executor] = IF @ = "running" THEN "gone" ELSE @]
        \/ mail' = mail /\ state' = state
    BY <1>16 DEF executorReceives
  <2>3. state' \in [Executors -> {"none", "created", "running", "gone"}]
    BY <2>2 DEF RemoteTypeOK
  <2>4. toAgent' \in Seq({"Start", "Ping", "Beat"})
        /\ Steady /\ OnlyWatchedRuns' /\ StartIsFirst' /\ ResultIsLast'
    <3>1. \A e \in Executors : state'[e] = "running" =>
             state[e] = "running" \/ (e = executor /\ Head(toAgent) = "Start")
      BY <2>1, <2>2 DEF RemoteTypeOK
    <3> QED BY <2>1, <3>1, AgentKeeps
  <2>5. mail' \in Seq(Mail) /\ MailFits'
    <3>1. CASE mail' = mail
      BY <2>4, <3>1, MailKept DEF RemoteTypeOK
    <3>2. CASE mail' \in sent(Message("Pong"))
      <4>1. Message("Pong") \in Mail /\ Fits(Message("Pong"))'
        BY <2>1, MessageIsMail DEF Kinds, Fits, Watching
      <4> QED BY <2>4, <3>2, <4>1, SentIsKept DEF RemoteTypeOK
    <3>3. CASE /\ Head(toAgent) = "Beat" /\ mail' \in sent(Message("Result"))
               /\ state' = [state EXCEPT ![executor] = IF @ = "running" THEN "gone" ELSE @]
      <4>1. state'[executor] # "running"
        BY <2>1, <3>3 DEF RemoteTypeOK
      <4>2. NoStart'
        BY <2>1, MessageGone DEF RemoteTypeOK
      <4>3. Over'
        BY <2>1, <4>1, <4>2 DEF Over
      <4>4. Message("Result") \in Mail /\ Fits(Message("Result"))'
        BY <4>3, MessageIsMail DEF Kinds, Fits
      <4> QED BY <2>4, <3>3, <4>4, SentIsKept DEF RemoteTypeOK
    <3> QED BY <2>2, <3>1, <3>2, <3>3
  <2>6. RemoteTypeOK'
    BY <2>1, <2>3, <2>4, <2>5 DEF RemoteTypeOK
  <2>7. Watching'
    <3>1. mode = "stopped" => mail' = mail
      BY <2>2 DEF sent
    <3> QED BY <2>1, <3>1 DEF Watching
  <2> QED BY <2>1, <2>4, <2>5, <2>6, <2>7, TriesKept
<1>17. CASE messageLost
  <2>1. /\ toAgent # <<>> /\ toAgent' = Tail(toAgent) /\ mishap' = (mishap \/ Head(toAgent) = "Start")
        /\ UNCHANGED <<mode, mail, executor, search, command, tries, sincePong, tasks, state,
                       started, told, beaten>>
    BY <1>17 DEF messageLost, server
  <2>2. toAgent' \in Seq({"Start", "Ping", "Beat"})
        /\ Steady /\ OnlyWatchedRuns' /\ StartIsFirst' /\ ResultIsLast'
    BY <2>1, AgentKeeps
  <2>3. mail' \in Seq(Mail) /\ MailFits'
    BY <2>1, <2>2, MailKept DEF RemoteTypeOK
  <2>4. RemoteTypeOK'
    <3>1. mishap' \in BOOLEAN
      BY <2>1
    <3> QED BY <2>1, <2>2, <3>1 DEF RemoteTypeOK
  <2>5. Watching'
    BY <2>1 DEF Watching
  <2> QED BY <2>1, <2>2, <2>3, <2>4, <2>5, TriesKept
<1>18. CASE jobEnds
  <2>1. PICK e \in Executors : state[e] = "running" /\ state' = [state EXCEPT ![e] = "gone"]
    BY <1>18 DEF jobEnds
  <2>2. /\ mail' \in sent(Message("Result"))
        /\ UNCHANGED <<mode, executor, search, command, tries, sincePong, tasks, toAgent,
                       started, told, mishap, beaten>>
    BY <1>18 DEF jobEnds, histories
  <2>3. state' \in [Executors -> {"none", "created", "running", "gone"}]
    BY <2>1 DEF RemoteTypeOK
  <2>4. toAgent' \in Seq({"Start", "Ping", "Beat"})
        /\ Steady /\ OnlyWatchedRuns' /\ StartIsFirst' /\ ResultIsLast'
    BY <2>1, <2>2, AgentKeeps DEF RemoteTypeOK
  <2>5. mail' \in Seq(Mail) /\ MailFits'
    <3>1. e = executor /\ NoStart
      BY <2>1 DEF OnlyWatchedRuns
    <3>2. Over'
      BY <2>1, <2>2, <3>1 DEF Over, NoStart, RemoteTypeOK
    <3>3. Message("Result") \in Mail /\ Fits(Message("Result"))'
      BY <3>2, MessageIsMail DEF Kinds, Fits
    <3> QED BY <2>2, <2>4, <3>3, SentIsKept DEF RemoteTypeOK
  <2>6. RemoteTypeOK'
    BY <2>2, <2>3, <2>5 DEF RemoteTypeOK
  <2>7. Watching'
    BY <2>2 DEF Watching, sent
  <2> QED BY <2>2, <2>4, <2>5, <2>6, <2>7, TriesKept
<1>19. CASE agentDies
  <2>1. /\ state' = [state EXCEPT ![executor] = "gone"]
        /\ UNCHANGED <<mode, mail, executor, search, command, tries, sincePong, tasks, toAgent,
                       started, told, mishap, beaten>>
    BY <1>19 DEF agentDies, server, histories
  <2>2. toAgent' \in Seq({"Start", "Ping", "Beat"})
        /\ Steady /\ OnlyWatchedRuns' /\ StartIsFirst' /\ ResultIsLast'
    BY <2>1, AgentKeeps DEF RemoteTypeOK
  <2>3. mail' \in Seq(Mail) /\ MailFits'
    BY <2>1, <2>2, MailKept DEF RemoteTypeOK
  <2>4. RemoteTypeOK'
    BY <2>1 DEF RemoteTypeOK
  <2>5. Watching'
    BY <2>1 DEF Watching
  <2> QED BY <2>1, <2>2, <2>3, <2>4, <2>5, TriesKept
<1>20. CASE UNCHANGED remoteVars
  <2>1. UNCHANGED <<mode, mail, executor, search, command, tries, sincePong, tasks, state, toAgent,
                    started, told, mishap, beaten>>
    BY <1>20 DEF remoteVars, server, agents, histories
  <2>2. toAgent' \in Seq({"Start", "Ping", "Beat"})
        /\ Steady /\ OnlyWatchedRuns' /\ StartIsFirst' /\ ResultIsLast'
    BY <2>1, AgentKeeps
  <2>3. mail' \in Seq(Mail) /\ MailFits'
    BY <2>1, <2>2, MailKept DEF RemoteTypeOK
  <2>4. RemoteTypeOK'
    BY <2>1 DEF RemoteTypeOK
  <2>5. Watching'
    BY <2>1 DEF Watching
  <2> QED BY <2>1, <2>2, <2>3, <2>4, <2>5, TriesKept
<1> HIDE DEF IInv
<1> QED BY <1>1, <1>2, <1>3, <1>4, <1>5, <1>6, <1>7, <1>8, <1>9, <1>10, <1>11, <1>12, <1>13,
           <1>14, <1>15, <1>16, <1>17, <1>18, <1>19, <1>20
        DEF RemoteNext, receive, network

-----------------------------------------------------------------------------
\* The inductive invariant: what a queued mail, the actor's behaviour and the messages to the
\* executor say of the executor that is watched.
THEOREM RemoteInvariant == RemoteSpec => []IInv
<1> QED BY RemoteBegins, RemoteStep, PTL DEF RemoteSpec

\* However many agents the task was sent to, one executor at most is started.
THEOREM ActionStartsOnce == RemoteSpec => []StartedOnce
<1>1. IInv => StartedOnce
  BY DEF IInv, Watching, StartedOnce
<1> QED BY <1>1, RemoteInvariant, PTL

\* A host is tried at most once more than MaxTries, and only one host is.
THEOREM TriesAreBounded == RemoteSpec => []TriesBounded
<1>1. IInv => TriesBounded
  BY DEF IInv
<1> QED BY <1>1, RemoteInvariant, PTL

\* The actor stops only when the supervisor was told something, and leaves a job running only
\* when it has told that the agent was lost or that there was none.
THEOREM StopsWithAWord == RemoteSpec => []NoSilentStop
<1>1. ASSUME IInv PROVE NoSilentStop
  <2>1. "result" \in told => \A e \in Executors : state[e] # "running"
    BY <1>1 DEF IInv, OnlyWatchedRuns, ResultIsLast, Over
  <2>2. mode = "stopped" => told # {}
    BY <1>1 DEF IInv, Watching
  <2> QED BY <2>1, <2>2 DEF NoSilentStop
<1> QED BY <1>1, RemoteInvariant, PTL
=============================================================================
