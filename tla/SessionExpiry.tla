---------------------------- MODULE SessionExpiry ----------------------------
(***************************************************************************)
(* The inactivity tracker of the user interface (utils/inactivity.coffee)  *)
(* and the two dialogs app.js shows for it.  Every 5 seconds the tracker   *)
(* adds to the time the user has been idle; past the timeout a warning     *)
(* opens and an alarm is set for one minute later.  Nothing ever cancels   *)
(* the alarm: what protects a user who came back is only the test that     *)
(* shutdown makes when the alarm goes off.                                 *)
(*                                                                         *)
(* Time is counted in ticks of the 5 second interval.                      *)
(***************************************************************************)
EXTENDS Integers

CONSTANTS
    Timeout,   \* ticks of idleness that are allowed (180 in app.js)
    Grace      \* ticks between the warning and its alarm (12 in app.js)

\* The alarm of a warning is over before the next warning can open, and a
\* tick fits between the two.
ASSUME TimesAssumption ==
    /\ Timeout \in Nat
    /\ Grace \in Nat
    /\ 1 <= Grace
    /\ Grace <= Timeout

VARIABLES
    inactive,  \* ticks since the last activity of the user
    warning,   \* the 'Session expiry' dialog is open
    alarms,    \* ticks left to each alarm that was set and has not gone off
    expired    \* shutdown took place: the interval is cleared

sessionVars == <<inactive, warning, alarms, expired>>

SessionTypeOK ==
    /\ inactive \in Nat
    /\ warning \in BOOLEAN
    /\ alarms \subseteq 0 .. Grace
    /\ expired \in BOOLEAN

SessionInit ==
    /\ inactive = 0
    /\ warning = FALSE
    /\ alarms = {}
    /\ expired = FALSE

\* Two mistakes the properties are there to catch: the alarm does not ask again
\* whether the user is idle; any activity cancels the alarm of an open warning.
shutdownUnasked == TRUE

resetCancelsAlarm ==
    /\ inactive' = 0
    /\ alarms' = {}
    /\ UNCHANGED <<warning, expired>>

-----------------------------------------------------------------------------

\* Bound: the count a session cannot outlive (SessionInv), where the model stops.
IdleBound == Timeout + Grace + 1

\* A tick.  The 'session-expire' handler opens the warning and sets an alarm
\* only when the warning is not open.  An alarm that is due goes off before
\* the next tick.
increaseTimeout ==
    /\ ~expired
    /\ 0 \notin alarms
    /\ inactive < IdleBound
    /\ inactive' = inactive + 1
    /\ warning' = (warning \/ inactive' > Timeout)
    /\ alarms' = {left - 1 : left \in alarms}
                   \cup (IF inactive' > Timeout /\ ~warning THEN {Grace} ELSE {})
    /\ UNCHANGED expired

\* A key, a mouse button, scrolling or a change of the page's hash.
reset ==
    /\ inactive' = 0
    /\ UNCHANGED <<warning, alarms, expired>>

\* The OK button of the warning: its alarm stays set.
pressOK ==
    /\ warning
    /\ warning' = FALSE
    /\ inactive' = 0
    /\ UNCHANGED <<alarms, expired>>

\* An alarm is set inside a tick, so it competes with the tick a whole number
\* of intervals later: it may go off just before or just after it.
Due == alarms \cap {0, 1}

\* The session ends when the alarm finds the user still idle.
shutdown == inactive > Timeout

alarmGoesOff(left) ==
    /\ left \in Due
    /\ alarms' = alarms \ {left}
    /\ warning' = FALSE
    /\ IF shutdown
         THEN expired' = TRUE /\ inactive' = 0
         ELSE UNCHANGED <<expired, inactive>>

SessionNext ==
    \/ increaseTimeout
    \/ reset
    \/ pressOK
    \/ \E left \in Due : alarmGoesOff(left)

SessionSpec == SessionInit /\ [][SessionNext]_sessionVars

-----------------------------------------------------------------------------

\* Why the alarms need no cancelling: an alarm either has watched the user
\* being idle ever since its warning opened, or the user came back after it
\* was set and has not been idle for longer than that.
AlarmsTellTime ==
    \A left \in alarms :
        \/ inactive = Timeout + 1 + (Grace - left)
        \/ inactive <= Grace - left

\* As long as the session lives nobody is idle past the timeout unwarned, and
\* an open warning has its alarm still to come.
IdleIsWarned ==
    /\ ~expired /\ inactive > Timeout => warning
    /\ warning => alarms # {}

SessionInv == SessionTypeOK /\ AlarmsTellTime /\ IdleIsWarned

\* A session never ends on a user who did anything at all since the warning
\* appeared, and never before the warning stood for its minute (a tick less,
\* for the race of the alarm with the tick): an alarm left over from a warning
\* that was answered ends nothing.
EndsOnlyAfterGrace ==
    [][expired' /\ ~expired => inactive >= Timeout + Grace]_sessionVars
=============================================================================
