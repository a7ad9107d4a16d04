--------------------------- MODULE SchedulerProofs ---------------------------
(***************************************************************************)
(* Theorems about Scheduler, for any dates, delays and bounds.             *)
(***************************************************************************)
EXTENDS Scheduler, TLAPS

\* An instance with a workflow under way is not destroyed, and EnvDestroyed is only owed by
\* the flow of a destroyed one: its jobs may then be removed.
EventIsDeserved ==
  /\ flow # "none" => ~destroyed
  /\ event => destroyed

IInv == TypeOK /\ EventIsDeserved /\ DestructionIsWatched /\ NoStrayReminder

\* The triggers the service leaves are triggers.
LEMMA AtIsTrigger == \A n \in Nat : At(n) \in Trigger
BY DEF At, Trigger

LEMMA WithoutIsTyped ==
  ASSUME TypeOK, NEW jobs
  PROVE  without(jobs) \in [Job -> Trigger]
BY DEF without, TypeOK, NoTrigger, Trigger

\* The dates of a destruction are in the future, and one of them is that of the check.
LEMMA DatesAreNatural ==
  ASSUME NEW n \in Ahead
  PROVE  /\ "check" \in DOMAIN datesOf(n) /\ DOMAIN datesOf(n) \subseteq Job
         /\ \A j \in DOMAIN datesOf(n) : datesOf(n)[j] \in Nat
<1> DEFINE days == n \div Day
           lead == IF days > 2 THEN Day ELSE HalfDay
<1>1. n \in Nat \ {0} /\ Day \in Nat \ {0} /\ HalfDay \in Nat /\ HalfDay <= Day /\ CheckDelay \in Nat
  BY SchedulerAssumption
<1>2. days \in Nat /\ Day * days <= n
  BY <1>1
<1>3. lead \in Nat /\ lead <= Day
  BY <1>1
<1>4. ASSUME days > 1 PROVE n - lead \in Nat
  <2>1. Day <= n
    BY <1>1, <1>2, <1>4
  <2> QED BY <2>1, <1>1, <1>3
<1>5. n + CheckDelay \in Nat
  BY <1>1
<1> HIDE DEF days, lead
<1>6. datesOf(n) = [j \in IF days > 1 THEN DestructionJobs ELSE DestructionJobs \ {"notification"} |->
                      CASE j = "destruction"  -> n
                        [] j = "notification" -> n - lead
                        [] j = "check"        -> n + CheckDelay]
  BY DEF datesOf, days, lead
<1>7. CASE days > 1
  BY <1>7, <1>4, <1>5, <1>6, <1>1 DEF DestructionJobs, Job
<1>8. CASE ~(days > 1)
  BY <1>8, <1>5, <1>6, <1>1 DEF DestructionJobs, Job
<1> QED BY <1>7, <1>8

THEOREM SchedulerInit == Init => IInv
<1> SUFFICES ASSUME Init PROVE IInv
  OBVIOUS
<1>1. TypeOK
  BY DEF Init, TypeOK, NoTrigger, Trigger
<1>2. EventIsDeserved /\ DestructionIsWatched
  BY DEF Init, EventIsDeserved, DestructionIsWatched
<1>3. NoStrayReminder
  BY DEF Init, NoStrayReminder, Pending, NoTrigger, Job
<1> QED BY <1>1, <1>2, <1>3 DEF IInv

\* What every handler of a job's end or of a removal owes: triggers that stay typed, a check
\* that stays unless nobody waits for it, no reminder that was not there.
Harmless ==
  /\ trigger' \in [Job -> Trigger]
  /\ trigger'["check"].state = "absent" => trigger["check"].state = "absent"
  /\ trigger'["notification"].state = "waiting" => trigger["notification"].state = "waiting"

LEMMA HarmlessKeeps ==
  ASSUME IInv, Harmless, UNCHANGED <<asked, told, lost>>, destroyed => destroyed'
  PROVE  DestructionIsWatched' /\ NoStrayReminder'
BY DEF IInv, Harmless, DestructionIsWatched, NoStrayReminder, Pending

LEMMA RescheduledIsHarmless ==
  ASSUME TypeOK, NEW j \in Job \ {"notification"}, NEW delay \in Nat, trigger' = rescheduled(j, delay)
  PROVE  Harmless
<1>1. At(delay) \in Trigger /\ At(delay).state = "waiting"
  BY AtIsTrigger DEF At
<1> QED BY <1>1 DEF Harmless, rescheduled, TypeOK, Job

LEMMA EndedIsHarmless ==
  ASSUME TypeOK, NEW j \in Job \ {"check"}, trigger' = ended(j)
  PROVE  Harmless
<1>1. without({j}) \in [Job -> Trigger]
  BY WithoutIsTyped
<1>2. without({j})["check"] = trigger["check"]
  BY DEF without, Job
<1>3. without({j})["notification"] \in {trigger["notification"], NoTrigger}
  BY DEF without, Job
<1> QED BY <1>1, <1>2, <1>3 DEF Harmless, ended, TypeOK, NoTrigger

\* Only a destruction with a next date takes its check along.
LEMMA ListedIsHarmless ==
  ASSUME TypeOK, trigger' = without(listed)
  PROVE  /\ trigger' \in [Job -> Trigger]
         /\ trigger'["notification"].state = "waiting" => trigger["notification"].state = "waiting"
         /\ Pending("destruction") => trigger'["notification"].state = "absent"
         /\ ~Pending("destruction") => Harmless
<1>1. trigger' \in [Job -> Trigger]
  BY WithoutIsTyped
<1>2. \A j \in Job : trigger'[j] = IF j \in listed THEN NoTrigger ELSE trigger[j]
  BY DEF without
<1>3. Pending("destruction") => "notification" \in listed
  BY DEF listed, DestructionJobs
<1>4. ~Pending("destruction") => "check" \notin listed
  BY DEF listed
<1> QED BY <1>1, <1>2, <1>3, <1>4 DEF Harmless, NoTrigger, Job

\* Every step keeps the invariant.
THEOREM SchedulerStep == IInv /\ [Next]_vars => IInv'
<1> SUFFICES ASSUME IInv, [Next]_vars PROVE IInv'
  OBVIOUS
<1> USE DEF IInv
<1>1. CASE scheduleDestruction
  <2>1. PICK n \in Ahead :
          LET kept == IF Pending("destruction") THEN without(ofDestruction) ELSE trigger
          IN  trigger' = [j \in Job |-> IF j \in DOMAIN datesOf(n) THEN At(datesOf(n)[j]) ELSE kept[j]]
    BY <1>1 DEF scheduleDestruction
  <2> DEFINE kept == IF Pending("destruction") THEN without(ofDestruction) ELSE trigger
             dates == datesOf(n)
  <2>2. kept \in [Job -> Trigger]
    BY WithoutIsTyped DEF TypeOK
  <2>3. "check" \in DOMAIN dates /\ \A j \in DOMAIN dates : At(dates[j]) \in Trigger
    BY DatesAreNatural, AtIsTrigger
  <2>4. trigger' = [j \in Job |-> IF j \in DOMAIN dates THEN At(dates[j]) ELSE kept[j]]
    BY <2>1
  <2> HIDE DEF kept, dates
  <2>5. trigger' \in [Job -> Trigger]
    BY <2>2, <2>3, <2>4
  <2>6. trigger'["check"].state = "waiting"
    BY <2>3, <2>4 DEF At, Job
  <2>7. TypeOK'
    <3>1. asked' \in BOOLEAN /\ told' \in {"nothing", "failed", "destroyed"} /\ lost' \in BOOLEAN
      BY <1>1 DEF scheduleDestruction
    <3>2. requests' \in Nat
      BY <1>1 DEF scheduleDestruction, Ask, TypeOK
    <3> QED BY <1>1, <2>5, <3>1, <3>2 DEF scheduleDestruction, instance, TypeOK
  <2>8. EventIsDeserved'
    BY <1>1 DEF scheduleDestruction, instance, EventIsDeserved
  <2>9. DestructionIsWatched'
    BY <2>6 DEF DestructionIsWatched
  <2>10. NoStrayReminder'
    BY <1>1 DEF scheduleDestruction, NoStrayReminder
  <2> QED BY <2>7, <2>8, <2>9, <2>10
<1>2. CASE removeScheduledDestruction
  <2>1. trigger' \in [Job -> Trigger]
    BY <1>2, WithoutIsTyped DEF removeScheduledDestruction
  <2>2. trigger'["notification"] = NoTrigger
    BY <1>2 DEF removeScheduledDestruction, without, ofDestruction, DestructionJobs, Job
  <2>3. asked' = FALSE
    BY <1>2 DEF removeScheduledDestruction
  <2>4. asked' \in BOOLEAN
    BY <2>3
  <2>5. TypeOK'
    BY <1>2, <2>1, <2>4 DEF removeScheduledDestruction, instance, TypeOK
  <2>6. EventIsDeserved'
    BY <1>2 DEF removeScheduledDestruction, instance, EventIsDeserved
  <2>7. DestructionIsWatched'
    BY <2>3 DEF DestructionIsWatched
  <2>8. NoStrayReminder'
    BY <2>2 DEF NoStrayReminder, Pending, NoTrigger
  <2> QED BY <2>5, <2>6, <2>7, <2>8
<1>3. CASE scheduleWorkflow
  <2>1. PICK n \in Ahead : trigger' = [trigger EXCEPT !["workflow"] = At(n)]
    BY <1>3 DEF scheduleWorkflow
  <2>2. At(n) \in Trigger
    BY AtIsTrigger, SchedulerAssumption
  <2>3. Harmless
    BY <2>1, <2>2 DEF Harmless, TypeOK, Job
  <2>4. TypeOK'
    BY <1>3, <2>3 DEF scheduleWorkflow, Ask, Harmless, instance, TypeOK
  <2>5. EventIsDeserved'
    BY <1>3 DEF scheduleWorkflow, instance, EventIsDeserved
  <2>6. DestructionIsWatched' /\ NoStrayReminder'
    BY <1>3, <2>3, HarmlessKeeps DEF scheduleWorkflow, instance
  <2> QED BY <2>4, <2>5, <2>6
<1>4. CASE removeJob
  <2>1. Harmless
    BY <1>4, WithoutIsTyped DEF removeJob, Harmless, without, Job
  <2>2. TypeOK'
    BY <1>4, <2>1 DEF removeJob, Harmless, instance, TypeOK
  <2>3. EventIsDeserved'
    BY <1>4 DEF removeJob, instance, EventIsDeserved
  <2>4. DestructionIsWatched' /\ NoStrayReminder'
    BY <1>4, <2>1, HarmlessKeeps DEF removeJob, instance
  <2> QED BY <2>2, <2>3, <2>4
<1>5. CASE requestWorkflow
  <2>1. Harmless
    BY <1>5 DEF requestWorkflow, Harmless, TypeOK
  <2>2. TypeOK'
    BY <1>5 DEF requestWorkflow, Ask, TypeOK
  <2>3. EventIsDeserved'
    BY <1>5 DEF requestWorkflow, Status, EventIsDeserved
  <2>4. DestructionIsWatched' /\ NoStrayReminder'
    BY <1>5, <2>1, HarmlessKeeps DEF requestWorkflow
  <2> QED BY <2>2, <2>3, <2>4
<1>6. CASE markPublishes
  <2>1. trigger' = without(listed) /\ UNCHANGED <<flow, destroyed, event, running, told, lost, crashes>>
    BY <1>6 DEF markPublishes, instance
  <2>2. mark' \in BOOLEAN /\ requests' \in Nat
    BY <1>6 DEF markPublishes, Ask, TypeOK
  <2>3. asked' = IF Pending("destruction") THEN FALSE ELSE asked
    BY <1>6 DEF markPublishes
  <2>4. asked' \in BOOLEAN
    BY <2>3 DEF TypeOK
  <2>5. trigger' \in [Job -> Trigger]
    BY <2>1, ListedIsHarmless
  <2>6. TypeOK'
    BY <2>1, <2>2, <2>4, <2>5 DEF TypeOK
  <2>7. EventIsDeserved'
    BY <2>1 DEF EventIsDeserved
  <2>8. DestructionIsWatched' /\ NoStrayReminder'
    <3>1. CASE Pending("destruction")
      <4>1. asked' = FALSE /\ trigger'["notification"].state = "absent"
        BY <3>1, <2>1, <2>3, ListedIsHarmless
      <4> QED BY <4>1 DEF DestructionIsWatched, NoStrayReminder, Pending
    <3>2. CASE ~Pending("destruction")
      <4>1. Harmless /\ asked' = asked
        BY <3>2, <2>1, <2>3, ListedIsHarmless
      <4> QED BY <4>1, <2>1, HarmlessKeeps
    <3> QED BY <3>1, <3>2
  <2> QED BY <2>6, <2>7, <2>8
<1>7. CASE \E j \in Job : fire(j)
  <2>1. PICK j \in Job : fire(j)
    BY <1>7
  <2>2. Harmless
    BY <2>1 DEF fire, Harmless, TypeOK, Trigger, Job
  <2>3. TypeOK'
    BY <2>1, <2>2 DEF fire, Harmless, instance, TypeOK
  <2>4. EventIsDeserved'
    BY <2>1 DEF fire, instance, EventIsDeserved
  <2>5. DestructionIsWatched' /\ NoStrayReminder'
    BY <2>1, <2>2, HarmlessKeeps DEF fire, instance
  <2> QED BY <2>3, <2>4, <2>5
<1>8. CASE \E j \in Job : execute(j)
  <2>1. PICK j \in Job : execute(j)
    BY <1>8
  <2>2. Status \in {"Ready", "Busy", "Destroyed"}
    BY DEF Status
  <2>3. Harmless
    BY <2>1 DEF execute, Harmless, TypeOK
  <2>4. TypeOK'
    BY <2>1, <2>2 DEF execute, instance, TypeOK
  <2>5. EventIsDeserved'
    BY <2>1 DEF execute, instance, EventIsDeserved
  <2>6. DestructionIsWatched' /\ NoStrayReminder'
    BY <2>1, <2>3, HarmlessKeeps DEF execute, instance
  <2> QED BY <2>4, <2>5, <2>6
<1>9. CASE \E j \in Job : executeWorkflow(j)
  <2>1. PICK j \in {"workflow", "destruction"} : executeWorkflow(j)
    BY <1>9 DEF executeWorkflow
  <2>2. trigger' = rescheduled(j, RetryDelay) \/ trigger' = ended(j)
    BY <2>1 DEF executeWorkflow
  <2>3. Harmless
    BY <2>2, RescheduledIsHarmless, EndedIsHarmless, SchedulerAssumption DEF Job
  <2>4. flow' = flow \/ (Status = "Ready" /\ flow' \in {"ordinary", "destroy"})
    BY <2>1 DEF executeWorkflow
  <2>5. UNCHANGED <<destroyed, event, mark, asked, told, lost, requests, crashes>> /\ Ends(j)
    BY <2>1 DEF executeWorkflow
  <2>6. TypeOK'
    BY <2>3, <2>4, <2>5 DEF Ends, Harmless, TypeOK
  <2>7. EventIsDeserved'
    BY <2>4, <2>5 DEF Status, EventIsDeserved
  <2>8. DestructionIsWatched' /\ NoStrayReminder'
    BY <2>3, <2>5, HarmlessKeeps
  <2> QED BY <2>6, <2>7, <2>8
<1>10. CASE notifyExpiration
  <2>1. Harmless
    BY <1>10, EndedIsHarmless DEF notifyExpiration, Job
  <2>2. TypeOK'
    BY <1>10, <2>1 DEF notifyExpiration, Ends, Harmless, instance, TypeOK
  <2>3. EventIsDeserved'
    BY <1>10 DEF notifyExpiration, instance, EventIsDeserved
  <2>4. DestructionIsWatched' /\ NoStrayReminder'
    BY <1>10, <2>1, HarmlessKeeps DEF notifyExpiration, instance
  <2> QED BY <2>2, <2>3, <2>4
<1>11. CASE executeCheck
  <2>1. Ends("check") /\ UNCHANGED <<flow, destroyed, event, mark, asked, lost, requests, crashes>>
    BY <1>11 DEF executeCheck, instance
  <2>2. \/ trigger' = rescheduled("check", RecheckDelay) /\ told' = told
        \/ trigger' = ended("check") /\ told' \in {"failed", "destroyed"}
    BY <1>11 DEF executeCheck, checkState
  <2>3. CASE trigger' = rescheduled("check", RecheckDelay) /\ told' = told
    <3>1. Harmless
      BY <2>3, RescheduledIsHarmless, SchedulerAssumption DEF Job
    <3>2. TypeOK'
      BY <2>1, <2>3, <3>1 DEF Ends, Harmless, TypeOK
    <3>3. DestructionIsWatched' /\ NoStrayReminder'
      BY <2>1, <2>3, <3>1, HarmlessKeeps
    <3> QED BY <2>1, <3>2, <3>3 DEF EventIsDeserved
  <2>4. CASE trigger' = ended("check") /\ told' \in {"failed", "destroyed"}
    <3>1. trigger' \in [Job -> Trigger]
      BY <2>4, WithoutIsTyped DEF ended, TypeOK
    <3>2. trigger'["notification"] = trigger["notification"]
      BY <2>4 DEF ended, without, Job
    <3>3. TypeOK'
      BY <2>1, <2>4, <3>1 DEF Ends, TypeOK
    <3>4. DestructionIsWatched'
      BY <2>4 DEF DestructionIsWatched
    <3>5. NoStrayReminder'
      BY <2>1, <3>2 DEF NoStrayReminder, Pending
    <3> QED BY <2>1, <3>3, <3>4, <3>5 DEF EventIsDeserved
  <2> QED BY <2>2, <2>3, <2>4
<1>12. CASE onFlowFinish
  <2>1. Harmless
    BY <1>12 DEF onFlowFinish, Harmless, TypeOK
  <2>2. destroyed' \in BOOLEAN /\ event' = destroyed' /\ flow' = "none"
    BY <1>12 DEF onFlowFinish
  <2>3. ~destroyed
    BY <1>12 DEF onFlowFinish, EventIsDeserved
  <2>4. TypeOK'
    BY <1>12, <2>2 DEF onFlowFinish, TypeOK
  <2>5. EventIsDeserved'
    BY <2>2 DEF EventIsDeserved
  <2>6. DestructionIsWatched' /\ NoStrayReminder'
    BY <1>12, <2>1, <2>3, HarmlessKeeps DEF onFlowFinish
  <2> QED BY <2>4, <2>5, <2>6
<1>13. CASE publishEnvDestroyed
  <2>1. destroyed /\ trigger' = without(listed)
    BY <1>13 DEF publishEnvDestroyed, EventIsDeserved
  <2>2. UNCHANGED <<flow, destroyed, mark, running, asked, told, lost, requests, crashes>>
    BY <1>13 DEF publishEnvDestroyed
  <2>3. event' \in BOOLEAN
    BY <1>13 DEF publishEnvDestroyed
  <2>4. TypeOK'
    BY <2>1, <2>2, <2>3, ListedIsHarmless DEF TypeOK
  <2>5. EventIsDeserved'
    BY <2>1, <2>2 DEF EventIsDeserved
  <2>6. DestructionIsWatched'
    BY <2>1, <2>2 DEF DestructionIsWatched
  <2>7. NoStrayReminder'
    BY <2>1, <2>2, ListedIsHarmless DEF NoStrayReminder, Pending
  <2> QED BY <2>4, <2>5, <2>6, <2>7
<1>14. CASE setEnvStatus
  <2>1. Harmless
    BY <1>14 DEF setEnvStatus, Harmless, TypeOK
  <2>2. destroyed' = (destroyed \/ Status # "Busy")
    BY <1>14 DEF setEnvStatus
  <2>3. destroyed' \in BOOLEAN
    BY <2>2
  <2>4. mark' \in BOOLEAN
    BY <1>14 DEF setEnvStatus
  <2>5. TypeOK'
    BY <1>14, <2>3, <2>4 DEF setEnvStatus, TypeOK
  <2>6. EventIsDeserved'
    BY <1>14, <2>2 DEF setEnvStatus, Status, EventIsDeserved
  <2>7. DestructionIsWatched' /\ NoStrayReminder'
    BY <1>14, <2>1, <2>2, HarmlessKeeps DEF setEnvStatus
  <2> QED BY <2>5, <2>6, <2>7
<1>15. CASE Tick
  <2>1. trigger' = [j \in Job |-> IF Pending(j) THEN [trigger[j] EXCEPT !.left = @ - 1] ELSE trigger[j]]
    BY <1>15 DEF Tick
  <2>2. \A j \in Job : Pending(j) => [trigger[j] EXCEPT !.left = @ - 1] \in Trigger
    <3> SUFFICES ASSUME NEW j \in Job, Pending(j) PROVE [trigger[j] EXCEPT !.left = @ - 1] \in Trigger
      OBVIOUS
    <3>1. trigger[j] \in Trigger /\ trigger[j].left # 0
      BY <1>15 DEF Tick, Due, TypeOK
    <3>2. trigger[j].left - 1 \in Nat
      BY <3>1 DEF Trigger
    <3> QED BY <3>1, <3>2 DEF Trigger
  <2>3. trigger' \in [Job -> Trigger]
    BY <2>1, <2>2 DEF TypeOK
  <2>4. \A j \in Job : trigger'[j].state = trigger[j].state
    BY <2>1 DEF TypeOK, Trigger
  <2>5. Harmless
    BY <2>3, <2>4 DEF Harmless, Job
  <2>6. TypeOK'
    BY <1>15, <2>3 DEF Tick, instance, TypeOK
  <2>7. EventIsDeserved'
    BY <1>15 DEF Tick, instance, EventIsDeserved
  <2>8. DestructionIsWatched' /\ NoStrayReminder'
    BY <1>15, <2>5, HarmlessKeeps DEF Tick, instance
  <2> QED BY <2>6, <2>7, <2>8
<1>16. CASE Crash
  <2>1. trigger' = [j \in Job |-> IF Pending(j) THEN trigger[j] ELSE NoTrigger]
    BY <1>16 DEF Crash
  <2>2. trigger' \in [Job -> Trigger]
    BY <2>1 DEF NoTrigger, Trigger, TypeOK
  <2>3. lost' = (lost \/ trigger["check"].state = "complete")
    BY <1>16 DEF Crash
  <2>4. lost' \in BOOLEAN
    BY <2>3
  <2>5. event' = FALSE /\ mark' = FALSE /\ flow' = "none"
    BY <1>16 DEF Crash
  <2>6. event' \in BOOLEAN /\ mark' \in BOOLEAN
    BY <2>5
  <2>7. crashes' \in Nat /\ running' \in [Job -> {"no", "started", "Ready", "Busy", "Destroyed"}]
    BY <1>16 DEF Crash, TypeOK
  <2>8. UNCHANGED <<destroyed, asked, told, requests>>
    BY <1>16 DEF Crash
  <2>9. TypeOK'
    BY <2>2, <2>4, <2>5, <2>6, <2>7, <2>8 DEF TypeOK
  <2>10. EventIsDeserved'
    BY <2>5 DEF EventIsDeserved
  <2>11. trigger["check"].state = "waiting" => trigger'["check"] = trigger["check"]
    BY <2>1 DEF Pending, Job
  <2>12. trigger["check"].state \in {"absent", "waiting", "complete"}
    BY DEF TypeOK, Trigger, Job
  <2>13. DestructionIsWatched'
    BY <2>3, <2>8, <2>11, <2>12 DEF DestructionIsWatched
  <2>14. NoStrayReminder'
    BY <2>1, <2>8 DEF NoStrayReminder, Pending, NoTrigger, Job
  <2> QED BY <2>9, <2>10, <2>13, <2>14
<1>17. CASE UNCHANGED vars
  BY <1>17 DEF vars, TypeOK, EventIsDeserved, DestructionIsWatched, NoStrayReminder, Pending
<1> QED
  BY <1>1, <1>2, <1>3, <1>4, <1>5, <1>6, <1>7, <1>8, <1>9, <1>10, <1>11, <1>12, <1>13, <1>14,
     <1>15, <1>16, <1>17 DEF Next, Users, Jobs

\* The inductive invariant: every value has its type, and the two properties below.
THEOREM SchedulerInvariant == Spec => []IInv
BY SchedulerInit, SchedulerStep, PTL DEF Spec

\* A destruction that was asked for is watched until its creator is told
\* (DestructionStatusCheckJob and its removal by EnvironmentJobServiceImpl).
THEOREM WatchIsKept == Spec => []DestructionIsWatched
<1>1. IInv => DestructionIsWatched
  BY DEF IInv
<1> QED BY <1>1, SchedulerInvariant, PTL

\* Nobody is reminded of a destruction that was withdrawn (removeScheduledDestruction).
THEOREM RemindersAreWithdrawn == Spec => []NoStrayReminder
<1>1. IInv => NoStrayReminder
  BY DEF IInv
<1> QED BY <1>1, SchedulerInvariant, PTL
=============================================================================
