---------------------------- MODULE UserInterface ----------------------------
(***************************************************************************)
(* One browser: its pages and their pollers (PagePollers) together with    *)
(* the inactivity tracker (SessionExpiry).  They meet in three places:     *)
(* following a link or leaving an error dialog is activity, so it resets   *)
(* the tracker; the same clock makes the user idle and requests time out;  *)
(* and the end of the session stops every poller (app.js, inactivity).     *)
(***************************************************************************)
EXTENDS SessionExpiry, PagePollers

\* The pages opened on the way to the end of the session have their answers
\* before it: two requests in a row take less than an idle session lasts.
ASSUME AnswersBeforeEnd == 2 * RequestTimeout < Timeout + Grace

VARIABLES
    stirred,  \* history: the user did something after the session had ended
    caught    \* history: the jobs dashboards that it ended in mid-refresh

uiVars == <<sessionVars, pageVars, stirred, caught>>

UIInit == SessionInit /\ PagesInit /\ stirred = FALSE /\ caught = {}

\* The user acts: the listeners of initHandlers see it.
UserActs ==
    /\ \/ reset /\ (navigate \/ pressDialogOK \/ UNCHANGED pageVars)
       \/ pressOK /\ UNCHANGED pageVars
    /\ stirred' = (stirred \/ expired)
    /\ UNCHANGED caught

\* The button of the 'Session expired' dialog.
Refresh ==
    /\ expired
    /\ left' = TRUE
    /\ UNCHANGED <<kind, phase, age, current, projectVars, early, active, chain,
                   dialog, logoutDisabled, rejected, sessionVars, stirred, caught>>

\* Five seconds pass.  The interval is cleared when the session has ended.
Clock ==
    /\ timePasses
    /\ IF expired THEN UNCHANGED sessionVars ELSE increaseTimeout
    /\ UNCHANGED <<stirred, caught>>

\* A dashboard is refreshing while its poll or a renewed job view waits for an
\* answer.
Refreshing(v) ==
    \/ kind[v] = "jobs" /\ Waiting(<<v, "main">>)
    \/ \E j \in JobViews : host[j] = v /\ kind[j] = "renewed" /\ phase[j] \in Loading

\* An alarm goes off, and stops every poller when it ends the session.
Alarm ==
    /\ \E a \in Due : alarmGoesOff(a)
    /\ IF shutdown THEN stopAll /\ caught' = {v \in Pages : Refreshing(v)}
                   ELSE UNCHANGED <<pageVars, caught>>
    /\ UNCHANGED stirred

Request(v) == requestEnds(v) /\ UNCHANGED <<sessionVars, stirred, caught>>

Turn(p) == run(p) /\ UNCHANGED <<sessionVars, stirred, caught>>

Answer(p) == pollEnds(p) /\ UNCHANGED <<sessionVars, stirred, caught>>

UINext ==
    /\ ~left
    /\ \/ UserActs \/ Refresh \/ Clock \/ Alarm
       \/ \E v \in Views : Request(v)
       \/ \E p \in Pollers : Turn(p) \/ Answer(p)

\* Timers fire, and every request is answered or times out ($.ajaxSetup).
UIFairness ==
    /\ WF_uiVars(~left /\ Clock)
    /\ WF_uiVars(~left /\ Alarm)
    /\ WF_uiVars(~left /\ \E v \in Views : Request(v))
    /\ \A v \in Views : WF_uiVars(~left /\ (Turn(<<v, "main">>) \/ Answer(<<v, "main">>)))

UISpec == UIInit /\ [][UINext]_uiVars /\ UIFairness

-----------------------------------------------------------------------------

\* A view whose first answer is still to come is on the screen or was closed
\* early; with LeakExplained, this is what the pages keep in order.
LoadingPlaced ==
    \A v \in Views :
        /\ phase[v] = "loading" => OnScreen(v) \/ v \in early
        /\ phase[v] = "creating" /\ v \in JobViews => host[v] = current \/ v \in early

\* Only views inside a page are renewed.
RenewedInside ==
    \A v \in Views : kind[v] = "renewed" => v \in JobViews /\ host[v] \in Pages

PagesInv ==
    /\ PagesTypeOK /\ RenewedInside
    /\ LoadingPlaced /\ LeakExplained /\ OnlyRefusalSilences

\* Once the session has ended, and until the user does something, no poller is
\* active but those of the job views that a jobs dashboard opens again by
\* itself, and these only if the session ended in the middle of its refresh:
\* with a poll of it out, or the requests for such a view.  (Asking whether a
\* lost connection is back, pollServerStatus of app.js, is no poller.)
EndedIsSilent ==
    expired /\ ~stirred =>
        \A p \in Pollers :
            active[p] => kind[p[1]] = "renewed" /\ host[p[1]] \in caught

\* What it rests on: a view that the user asked for and that still waits for
\* its first answer was opened no longer ago than its requests can last.
LoadingIsRecent ==
    \A v \in Views :
        kind[v] # "renewed" =>
            /\ phase[v] = "creating" => inactive <= age[v]
            /\ phase[v] = "loading" => inactive <= age[v] + RequestTimeout

QuietWhenEnded ==
    expired /\ ~stirred =>
        /\ \A v \in Views :
             phase[v] \in Loading => kind[v] = "renewed" /\ host[v] \in caught
        /\ \A v \in Pages :
             kind[v] = "jobs" /\ Waiting(<<v, "main">>) => v \in caught

\* An abandoned session ends: idleness past the timeout is followed by the end
\* of the session, unless the user comes back or the browser leaves the page.
AbandonedSessionEnds ==
    inactive > Timeout ~> expired \/ inactive = 0 \/ left

\* Everything the proof of EndedIsSilent carries along.
UIInv ==
    /\ SessionInv /\ PagesInv
    /\ stirred \in BOOLEAN
    /\ caught \subseteq Pages
    /\ LoadingIsRecent /\ QuietWhenEnded /\ EndedIsSilent

\* The instance list on the screen asks the server again and again, whatever
\* its polls are answered with, until it is closed, the session ends or the
\* server refuses the login.
ListShown(v) == current = v /\ kind[v] = "list" /\ phase[v] = "ready"

ListKeepsAsking ==
    \A v \in Views :
        ListShown(v) ~> Waiting(<<v, "main">>) \/ ~ListShown(v)
                          \/ rejected \/ expired \/ left
=============================================================================
