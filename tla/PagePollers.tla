----------------------------- MODULE PagePollers -----------------------------
(***************************************************************************)
(* Navigation between the pages of the user interface and the pollers that *)
(* keep them fresh (router.js, utils/poller.js, modules/environments.js,   *)
(* modules/env_details, modules/dashboard), with the way app.js answers    *)
(* failed requests.                                                        *)
(*                                                                         *)
(* A page is a view of one of five kinds:                                  *)
(*   plain    no poller (overview, properties, settings, forms ...)        *)
(*   list     the instances of a project: created when the project has     *)
(*            been fetched, its poller starts when its first answer is in   *)
(*   details  one instance: its poller starts with the view, those of its   *)
(*            scheduled jobs when its first answer is in                    *)
(*   stat     running workflows, or the agents of the settings: an          *)
(*            interruptible poller, started with the first answer           *)
(*   jobs     the scheduled jobs of all projects: polled like stat; in it   *)
(*            the user opens projects                                       *)
(* An opened project is a view inside its page, a job view: two requests   *)
(* come before it exists, one more before its own poller starts.  It is    *)
(* asked for by a click (kind job), and again for every project on the     *)
(* page's list whenever a poll of the page brings new numbers (renewed):   *)
(* then a new one takes the place of the old one.                          *)
(*                                                                         *)
(* fetch-cache hides the request from the poller, so stop aborts nothing:  *)
(* it only clears the poller's active flag, which the next turn reads.     *)
(***************************************************************************)
EXTENDS Integers, Functions

CONSTANTS
    MaxPages,        \* bound: pages opened in a behaviour
    MaxJobViews,     \* bound: job views asked for in a behaviour
    MaxProjects,     \* projects of the jobs dashboard
    Opens,           \* bound: the kinds of pages that are opened
    Failures,        \* how requests fail: with a dialog, or without
    Logouts,         \* values of logout_disabled: is there no login page
    RequestTimeout   \* ticks after which a request fails ($.ajaxSetup: 30 s)

Pages == 1 .. MaxPages
JobViews == (MaxPages + 1) .. (MaxPages + MaxJobViews)
Views == 1 .. (MaxPages + MaxJobViews)
Projects == 1 .. MaxProjects
PageKinds == {"plain", "list", "details", "stat", "jobs"}
Kinds == PageKinds \cup {"job", "renewed"}

ASSUME PagesAssumption ==
    /\ MaxPages \in Nat
    /\ MaxJobViews \in Nat
    /\ MaxProjects \in Nat
    /\ RequestTimeout \in Nat
    /\ Opens \subseteq PageKinds
    /\ Failures \subseteq {"error", "silent"}
    /\ Logouts \subseteq BOOLEAN

Roles == {"main", "jobs"}            \* a view's own poller, its jobs' pollers
Pollers == Views \X Roles

VARIABLES
    kind,            \* what page a view shows
    phase,           \* how far a view has come
    age,             \* ticks since the view's request was sent, while it is out
    current,         \* router.currentView (0: the null object)
    host,            \* the page a job view belongs to (0: a page, or none yet)
    project,         \* the project it shows (0: likewise)
    subviews,        \* the job views that are in the @subviews of their page
    opened,          \* @opened of the pages: the openings that pushed an entry
    early,           \* history: views closed before their first answer, and
                     \* job views asked for when their page had been closed
    active,          \* options.active of each poller
    chain,           \* what each poller waits for: its timer or an answer
    dialog,          \* the error dialog: what its OK button will do
    logoutDisabled,  \* currentConfiguration.logout_disabled
    rejected,        \* history: a request was refused (401) twice in a row
    left             \* the browser went to the login page or reloaded

projectVars == <<host, project, subviews, opened>>

pageVars == <<kind, phase, age, current, projectVars, early, active, chain,
              dialog, logoutDisabled, rejected, left>>

Phases == {"none", "creating", "loading", "retrying", "ready", "failed"}
Outstanding == {"creating", "loading", "retrying"}

PagesTypeOK ==
    /\ kind \in [Views -> Kinds]
    /\ phase \in [Views -> Phases]
    /\ age \in [Views -> 0 .. RequestTimeout]
    /\ current \in Pages \cup {0}
    /\ host \in [Views -> Pages \cup {0}]
    /\ project \in [Views -> Projects \cup {0}]
    /\ subviews \subseteq JobViews
    /\ opened \subseteq JobViews
    /\ early \subseteq Views
    /\ active \in [Pollers -> BOOLEAN]
    /\ chain \in [Pollers -> {"none", "timer", "request", "retry"}]
    /\ dialog \in {"none", "error", "reload"}
    /\ logoutDisabled \in BOOLEAN
    /\ rejected \in BOOLEAN
    /\ left \in BOOLEAN

PagesInit ==
    /\ kind = [v \in Views |-> "plain"]
    /\ phase = [v \in Views |-> "none"]
    /\ age = [v \in Views |-> 0]
    /\ current = 0
    /\ host = [v \in Views |-> 0]
    /\ project = [v \in Views |-> 0]
    /\ subviews = {}
    /\ opened = {}
    /\ early = {}
    /\ active = [p \in Pollers |-> FALSE]
    /\ chain = [p \in Pollers |-> "none"]
    /\ dialog = "none"
    /\ logoutDisabled \in Logouts
    /\ rejected = FALSE
    /\ left = FALSE

Fresh(v) == phase[v] = "none" /\ \A u \in 1 .. (v - 1) : phase[u] # "none"

\* Job views are used in the order of their numbers, too.
FreshJobViews(new) ==
    /\ new \subseteq {j \in JobViews : phase[j] = "none"}
    /\ \A j \in new : \A i \in JobViews : i < j => i \in new \/ phase[i] # "none"

\* Page v and the job views in it.
Within(u, v) == u = v \/ (u \in JobViews /\ host[u] = v)

\* Views whose poller has not been started yet but may be.
Loading == {"creating", "loading"}

-----------------------------------------------------------------------------
\* Errors

\* "server-communication-error": a dialog that is open keeps its text and its
\* button, the later message is dropped.
show(what) ==
    dialog' = IF dialog = "none" /\ what # "silent" THEN what ELSE dialog

-----------------------------------------------------------------------------
\* Opening, closing and loading pages

\* What the user has before them: the page and the job views that it has.
OnScreen(v) == v = current \/ (v \in subviews /\ host[v] = current)

\* Mistakes the properties are there to catch: a page is closed but the pollers
\* of its job views are not stopped; an error ends a poller without a word.
activeLeft(v, k) ==
    [p \in Pollers |-> IF p = <<v, "main">> THEN k = "details"
                       ELSE active[p] /\ p[1] # current]

chainBroken(p) == chain' = [chain EXCEPT ![p] = "none"] /\ UNCHANGED active

\* ... or an error stops every poller; or shutdown knows the current page only.
errorStops(p) ==
    /\ chain' = [chain EXCEPT ![p] = "none"]
    /\ active' = [active EXCEPT ![p] = FALSE]

currentStopped == [p \in Pollers |-> active[p] /\ p[1] # current]

\* The pollers that are active once view v of kind k took the current one's
\* place: onClose stops those of the closed page and of the job views it has by
\* then; a details view's is started.
activeAfter(v, k) ==
    [p \in Pollers |-> IF p = <<v, "main">> THEN k = "details"
                       ELSE active[p] /\ ~OnScreen(p[1])]

\* Opening view v of kind k closes the current one, which stops the pollers it
\* has by then.  A details view starts its lazy poller at once.
setCurrentView(v, k) ==
    /\ kind' = [kind EXCEPT ![v] = k]
    /\ phase' = [phase EXCEPT ![v] = IF k = "plain" THEN "ready" ELSE "loading"]
    /\ age' = [age EXCEPT ![v] = 0]
    /\ current' = v
    /\ early' = early \cup {u \in Views : Within(u, current) /\ phase[u] \in Loading}
    /\ active' = activeAfter(v, k)
    /\ chain' = [p \in Pollers |-> IF p = <<v, "main">> /\ k = "details"
                                   THEN "timer" ELSE chain[p]]
    /\ UNCHANGED projectVars

\* Pages that open as soon as their route is followed.
openPage(k) ==
    /\ \E v \in Pages : Fresh(v) /\ setCurrentView(v, k)
    /\ UNCHANGED <<dialog, logoutDisabled, rejected, left>>

\* The instances and the properties of a project first fetch the project: until
\* it is there the old page stays the current one.
askProject(k) ==
    /\ \E v \in Pages :
         /\ Fresh(v)
         /\ kind' = [kind EXCEPT ![v] = k]
         /\ phase' = [phase EXCEPT ![v] = "creating"]
         /\ age' = [age EXCEPT ![v] = 0]
    /\ UNCHANGED <<current, projectVars, early, active, chain, dialog,
                   logoutDisabled, rejected, left>>

\* The jobs of a project and its instances are asked for, once for each of the
\* new job views, whatever became of the page v in the meantime.  @opened gets
\* another entry each time: nobody looks whether the project is there already.
showProjectDetails(v, new, k) ==
    /\ FreshJobViews(new)
    /\ kind' = [u \in Views |-> IF u \in new THEN k ELSE kind[u]]
    /\ phase' = [u \in Views |-> IF u \in new THEN "creating" ELSE phase[u]]
    /\ age' = [u \in Views |-> IF u \in new THEN 0 ELSE age[u]]
    /\ host' = [u \in Views |-> IF u \in new THEN v ELSE host[u]]
    /\ early' = IF v = current THEN early ELSE early \cup new
    /\ UNCHANGED <<current, subviews>>

\* A click on a project of the jobs dashboard, to open it or to fold it.
clickProject ==
    /\ current # 0 /\ kind[current] = "jobs" /\ phase[current] = "ready"
    /\ \E j \in JobViews, x \in Projects :
         /\ showProjectDetails(current, {j}, "job")
         /\ project' = [project EXCEPT ![j] = x]
         /\ opened' = opened \cup {j}
    /\ UNCHANGED <<active, chain, dialog, logoutDisabled, rejected, left>>

navigate ==
    \/ \E k \in Opens \ {"list"} : openPage(k)
    \/ \E k \in Opens \cap {"plain", "list"} : askProject(k)
    \/ clickProject

projectAnswered(v) ==
    /\ v \in Pages
    /\ phase[v] = "creating"
    /\ setCurrentView(v, kind[v])
    /\ UNCHANGED <<dialog, logoutDisabled, rejected, left>>

\* Both answers for a project are in: its job view takes the place of the one
\* its page has for the project, and asks for the jobs once more.  Closing the
\* old one stops the poller that it has by then.
jobViewCreated(j) ==
    LET replaced == {u \in subviews : host[u] = host[j] /\ project[u] = project[j]}
    IN  /\ j \in JobViews
        /\ phase[j] = "creating"
        /\ phase' = [phase EXCEPT ![j] = "loading"]
        /\ age' = [age EXCEPT ![j] = 0]
        /\ subviews' = (subviews \ replaced) \cup {j}
        /\ active' = [p \in Pollers |-> active[p] /\ p[1] \notin replaced]
        /\ early' = early \cup {u \in replaced : phase[u] = "loading"}
        /\ UNCHANGED <<kind, current, host, project, opened, chain, dialog,
                       logoutDisabled, rejected, left>>

\* The poller that the first answer of view v starts, whether or not the view
\* is still open: nothing tells the callback that it was closed.
awaited(v) == <<v, IF kind[v] = "details" THEN "jobs" ELSE "main">>

firstAnswer(v) ==
    /\ phase[v] = "loading"
    /\ phase' = [phase EXCEPT ![v] = "ready"]
    /\ age' = [age EXCEPT ![v] = 0]
    /\ active' = [active EXCEPT ![awaited(v)] = TRUE]
    /\ chain' = [chain EXCEPT ![awaited(v)] =
                   IF kind[v] = "details" THEN "timer" ELSE "request"]
    /\ UNCHANGED <<kind, current, projectVars, early, dialog, logoutDisabled,
                   rejected, left>>

\* A details page that cannot load offers the way back to its project.
requestFails(v, e) ==
    /\ phase[v] \in Loading
    /\ phase' = [phase EXCEPT ![v] = "failed"]
    /\ age' = [age EXCEPT ![v] = 0]
    /\ show(IF kind[v] = "details" THEN "error" ELSE e)
    /\ UNCHANGED <<kind, current, projectVars, early, active, chain,
                   logoutDisabled, rejected, left>>

\* A 401 sends the browser to the login page, or, where there is none, is
\* tried once more.  The second attempt calls the same callbacks, but the
\* promise the page waits for has failed already.
requestRefused(v) ==
    /\ phase[v] \in Loading
    /\ IF logoutDisabled
         THEN /\ phase' = [phase EXCEPT ![v] = "retrying"]
              /\ age' = [age EXCEPT ![v] = 0]
              /\ show(IF kind[v] = "details" THEN "error" ELSE "silent")
              /\ UNCHANGED left
         ELSE left' = TRUE /\ UNCHANGED <<phase, age, dialog>>
    /\ UNCHANGED <<kind, current, projectVars, early, active, chain,
                   logoutDisabled, rejected>>

retryEnds(v) ==
    /\ phase[v] = "retrying"
    /\ phase' = [phase EXCEPT ![v] = "failed"]
    /\ age' = [age EXCEPT ![v] = 0]
    /\ \/ rejected' = TRUE /\ show("reload")
       \/ UNCHANGED rejected /\ \E e \in Failures : show(e)
    /\ UNCHANGED <<kind, current, projectVars, early, active, chain,
                   logoutDisabled, left>>

-----------------------------------------------------------------------------
\* Pollers

\* run: a poller that was stopped ends here, when its timer fires.
run(p) ==
    /\ chain[p] = "timer"
    /\ chain' = [chain EXCEPT ![p] = IF active[p] THEN "request" ELSE "none"]
    /\ UNCHANGED <<kind, phase, age, current, projectVars, early, active, dialog,
                   logoutDisabled, rejected, left>>

Waiting(p) == chain[p] \in {"request", "retry"}

\* The numbers of the jobs dashboard v have changed: projects that are gone
\* leave @opened, and every entry that is kept opens its project again.
checkUpdates(v) ==
    \E gone \in SUBSET Projects, new \in SUBSET JobViews :
        LET kept == {o \in opened : host[o] = v /\ project[o] \notin gone}
        IN  \E entry \in Bijection(new, kept) :
                /\ showProjectDetails(v, new, "renewed")
                /\ project' = [u \in Views |-> IF u \in new THEN project[entry[u]]
                                                          ELSE project[u]]
                /\ opened' = {o \in opened : host[o] = v => o \in kept} \cup new

\* success: reschedule, even when the poller was stopped in the meantime.  An
\* answer to the jobs dashboard is compared with the one before.
pollAnswered(p) ==
    /\ Waiting(p)
    /\ chain' = [chain EXCEPT ![p] = "timer"]
    /\ \/ \E v \in Pages : p = <<v, "main">> /\ kind[v] = "jobs" /\ checkUpdates(v)
       \/ UNCHANGED <<kind, phase, age, current, projectVars, early>>
    /\ UNCHANGED <<active, dialog, logoutDisabled, rejected, left>>

Noninterruptible(p) == kind[p[1]] \in {"list", "details"}

\* error: a noninterruptible poller is rescheduled, another one stops.
afterError(p) ==
    IF Noninterruptible(p)
      THEN chain' = [chain EXCEPT ![p] = "timer"] /\ UNCHANGED active
      ELSE /\ chain' = [chain EXCEPT ![p] = "none"]
           /\ active' = [active EXCEPT ![p] = FALSE]

pollFails(p, e) ==
    /\ Waiting(p)
    /\ afterError(p)
    /\ show(e)
    /\ UNCHANGED <<kind, phase, age, current, projectVars, early, logoutDisabled,
                   rejected, left>>

\* A 401 never reaches the poller's error callback ($.ajaxPrefilter): after the
\* second one the poller is still active but waits for nothing.
pollRefused(p) ==
    /\ Waiting(p)
    /\ IF ~logoutDisabled
         THEN /\ left' = TRUE
              /\ UNCHANGED <<chain, rejected, dialog>>
         ELSE /\ chain' = [chain EXCEPT ![p] =
                             IF chain[p] = "request" THEN "retry" ELSE "none"]
              /\ rejected' = (rejected \/ chain[p] = "retry")
              /\ show(IF chain[p] = "retry" THEN "reload" ELSE "silent")
              /\ UNCHANGED left
    /\ UNCHANGED <<kind, phase, age, current, projectVars, early, active,
                   logoutDisabled>>

\* PollingManager.shutdown: every poller ever started is stopped.
allStopped == [p \in Pollers |-> FALSE]

stopAll ==
    /\ active' = allStopped
    /\ UNCHANGED <<kind, phase, age, current, projectVars, early, chain, dialog,
                   logoutDisabled, rejected, left>>

-----------------------------------------------------------------------------
\* The user and the clock

\* OK reloads the page after a refused login; after another error it closes
\* the dialog, which for some errors leads back to the overview.
pressDialogOK ==
    /\ dialog # "none"
    /\ dialog' = "none"
    /\ left' = (dialog = "reload")
    /\ \/ dialog = "error" /\ \E v \in Pages : Fresh(v) /\ setCurrentView(v, "plain")
       \/ UNCHANGED <<kind, phase, age, current, projectVars, early, active, chain>>
    /\ UNCHANGED <<logoutDisabled, rejected>>

\* A request that is older than the timeout has failed.
timePasses ==
    /\ \A v \in Views : phase[v] \in Outstanding => age[v] < RequestTimeout
    /\ age' = [v \in Views |-> IF phase[v] \in Outstanding THEN age[v] + 1 ELSE age[v]]
    /\ UNCHANGED <<kind, phase, current, projectVars, early, active, chain, dialog,
                   logoutDisabled, rejected, left>>

requestEnds(v) ==
    \/ projectAnswered(v)
    \/ jobViewCreated(v)
    \/ firstAnswer(v)
    \/ \E e \in Failures : requestFails(v, e)
    \/ requestRefused(v)
    \/ retryEnds(v)

pollEnds(p) ==
    \/ pollAnswered(p)
    \/ \E e \in Failures : pollFails(p, e)
    \/ pollRefused(p)

\* The steps nobody at the keyboard takes part in.
PagesInternal ==
    \/ \E v \in Views : requestEnds(v)
    \/ \E p \in Pollers : run(p) \/ pollEnds(p)

PagesNext ==
    /\ ~left
    /\ navigate \/ pressDialogOK \/ PagesInternal \/ stopAll \/ timePasses

PagesSpec == PagesInit /\ [][PagesNext]_pageVars

-----------------------------------------------------------------------------

\* A poller that is active belongs to what is on the screen, or to a view that
\* was closed, alone or with its page, with a request of its own still out, or
\* to a job view that a poll of a closed page asked for: no poller outlives its
\* page in another way.
LeakExplained ==
    \A p \in Pollers : active[p] => OnScreen(p[1]) \/ p[1] \in early

\* A poller that is active waits for its timer or for an answer, unless the
\* server refused a request twice: no failure of a poll, of whatever kind and
\* whatever the page, leaves an active poller without its next turn.
OnlyRefusalSilences ==
    \A p \in Pollers : active[p] /\ chain[p] = "none" => rejected
=============================================================================
