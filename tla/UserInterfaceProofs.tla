-------------------------- MODULE UserInterfaceProofs --------------------------
(***************************************************************************)
(* Proofs about the user interface, for every timeout, every number of     *)
(* pages and every request timeout that UserInterface allows.              *)
(***************************************************************************)
EXTENDS UserInterface, TLAPS

-----------------------------------------------------------------------------
\* The inactivity tracker

\* Every step of the tracker keeps the alarms in time with the idle user.
LEMMA SessionStep ==
    ASSUME SessionInv, [SessionNext]_sessionVars
    PROVE  SessionInv'
<1> USE TimesAssumption
<1>1. CASE increaseTimeout
  <2>1. SessionTypeOK'
    BY <1>1 DEF SessionInv, SessionTypeOK, increaseTimeout
  <2>2. ASSUME NEW left_ \in alarms'
        PROVE  \/ inactive' = Timeout + 1 + (Grace - left_)
               \/ inactive' <= Grace - left_
    <3>1. CASE \E a \in alarms : left_ = a - 1
      BY <1>1, <3>1 DEF SessionInv, SessionTypeOK, AlarmsTellTime, increaseTimeout
    <3>2. CASE inactive' > Timeout /\ ~warning /\ left_ = Grace
      <4>1. inactive <= Timeout
        BY <1>1, <3>2 DEF SessionInv, IdleIsWarned, SessionTypeOK, increaseTimeout
      <4>2. inactive' = Timeout + 1
        BY <1>1, <3>2, <4>1 DEF SessionInv, SessionTypeOK, increaseTimeout
      <4> QED  BY <4>2, <3>2
    <3> QED  BY <1>1, <2>2, <3>1, <3>2 DEF increaseTimeout
  <2>3. AlarmsTellTime'
    BY <2>2 DEF AlarmsTellTime
  <2>4. warning' => alarms' # {}
    <3>1. CASE alarms # {}
      <4>1. PICK a \in alarms : TRUE
        BY <3>1
      <4>2. a - 1 \in alarms'
        BY <1>1, <4>1 DEF increaseTimeout
      <4> QED  BY <4>2
    <3>2. CASE alarms = {}
      <4>1. ~warning
        BY <3>2 DEF SessionInv, IdleIsWarned
      <4> QED  BY <1>1, <4>1 DEF increaseTimeout
    <3> QED  BY <3>1, <3>2
  <2>5. IdleIsWarned'
    BY <1>1, <2>4 DEF IdleIsWarned, increaseTimeout
  <2> QED  BY <2>1, <2>3, <2>5 DEF SessionInv
<1>2. CASE reset
  BY <1>2 DEF SessionInv, SessionTypeOK, AlarmsTellTime, IdleIsWarned, reset
<1>3. CASE pressOK
  <2>1. warning' \in BOOLEAN
    BY <1>3 DEF pressOK
  <2>2. inactive' = 0 /\ alarms' = alarms /\ expired' = expired /\ ~warning'
    BY <1>3 DEF pressOK
  <2>3. SessionTypeOK'
    BY <2>1, <2>2 DEF SessionInv, SessionTypeOK
  <2>4. AlarmsTellTime' /\ IdleIsWarned'
    BY <2>2 DEF SessionInv, SessionTypeOK, AlarmsTellTime, IdleIsWarned
  <2> QED  BY <2>3, <2>4 DEF SessionInv
<1>4. ASSUME NEW a \in Due, alarmGoesOff(a)
      PROVE  SessionInv'
  <2>1. SessionTypeOK'
    <3>1. warning' \in BOOLEAN /\ alarms' \subseteq alarms
      BY <1>4 DEF alarmGoesOff
    <3>2. CASE shutdown
      <4>1. inactive' = 0 /\ expired' = TRUE
        BY <1>4, <3>2 DEF alarmGoesOff
      <4>2. expired' \in BOOLEAN
        BY <4>1
      <4> QED  BY <3>1, <4>1, <4>2 DEF SessionInv, SessionTypeOK
    <3>3. CASE ~shutdown
      BY <1>4, <3>1, <3>3 DEF SessionInv, SessionTypeOK, alarmGoesOff
    <3> QED  BY <3>2, <3>3
  <2>2. AlarmsTellTime'
    <3>1. CASE shutdown
      BY <1>4, <3>1 DEF SessionInv, SessionTypeOK, AlarmsTellTime, alarmGoesOff
    <3>2. CASE ~shutdown
      BY <1>4, <3>2 DEF SessionInv, AlarmsTellTime, alarmGoesOff
    <3> QED  BY <3>1, <3>2
  <2>3. IdleIsWarned'
    BY <1>4 DEF SessionInv, SessionTypeOK, IdleIsWarned, alarmGoesOff, shutdown
  <2> QED  BY <2>1, <2>2, <2>3 DEF SessionInv
<1>5. CASE UNCHANGED sessionVars
  BY <1>5 DEF SessionInv, SessionTypeOK, AlarmsTellTime, IdleIsWarned, sessionVars
<1> QED  BY <1>1, <1>2, <1>3, <1>4, <1>5 DEF SessionNext

\* An alarm that ends the session has waited out the grace.
LEMMA EndIsLate ==
    ASSUME SessionInv, NEW a \in Due, alarmGoesOff(a), shutdown
    PROVE  inactive >= Timeout + Grace
<1> USE TimesAssumption
<1>1. a \in alarms /\ a \in {0, 1}
  BY DEF Due
<1>2. inactive = Timeout + 1 + (Grace - a) \/ inactive <= Grace - a
  BY <1>1 DEF SessionInv, AlarmsTellTime
<1>3. inactive \in Nat /\ inactive > Timeout
  BY DEF SessionInv, SessionTypeOK, shutdown
<1> QED  BY <1>1, <1>2, <1>3

-----------------------------------------------------------------------------
\* The pages

Chains == {"none", "timer", "request", "retry"}

\* The two sorts of views.
LEMMA SortsOfViews ==
    /\ Pages \subseteq Views /\ JobViews \subseteq Views
    /\ Pages \cap JobViews = {}
    /\ 0 \notin Views
BY PagesAssumption DEF Pages, JobViews, Views

LEMMA InitPages == PagesInit => PagesInv
<1> SUFFICES ASSUME PagesInit PROVE PagesInv
  OBVIOUS
<1>1. PagesTypeOK
  <2>1. /\ kind \in [Views -> Kinds] /\ phase \in [Views -> Phases]
        /\ chain \in [Pollers -> {"none", "timer", "request", "retry"}]
    BY DEF PagesInit, Kinds, PageKinds, Phases
  <2>2. age \in [Views -> 0 .. RequestTimeout]
    BY PagesAssumption DEF PagesInit
  <2>3. active \in [Pollers -> BOOLEAN]
    BY DEF PagesInit
  <2>4. rejected \in BOOLEAN /\ left \in BOOLEAN /\ logoutDisabled \in BOOLEAN
    BY PagesAssumption DEF PagesInit
  <2>5. /\ current \in Pages \cup {0}
        /\ early \subseteq Views
        /\ dialog \in {"none", "error", "reload"}
    BY DEF PagesInit
  <2>6. /\ host \in [Views -> Pages \cup {0}]
        /\ project \in [Views -> Projects \cup {0}]
        /\ subviews \subseteq JobViews /\ opened \subseteq JobViews
    BY DEF PagesInit
  <2> QED  BY <2>1, <2>2, <2>3, <2>4, <2>5, <2>6 DEF PagesTypeOK
<1>2. RenewedInside /\ LoadingPlaced /\ LeakExplained /\ OnlyRefusalSilences
  BY SortsOfViews
     DEF PagesInit, RenewedInside, LoadingPlaced, LeakExplained, OnlyRefusalSilences
<1> QED  BY <1>1, <1>2 DEF PagesInv

\* Replacing the page keeps the pages in order, whatever happens to the dialog.
LEMMA ReplacePage ==
    ASSUME PagesInv, NEW v \in Pages, NEW k \in Kinds, setCurrentView(v, k),
           k = "renewed" => kind[v] = "renewed",
           dialog' \in {"none", "error", "reload"}, left' \in BOOLEAN,
           UNCHANGED <<logoutDisabled, rejected>>
    PROVE  PagesInv'
<1> USE PagesAssumption DEF Pollers
<1>0. v \in Views /\ PagesTypeOK
  BY SortsOfViews DEF PagesInv
<1>p. UNCHANGED <<host, project, subviews, opened>>
  BY DEF setCurrentView, projectVars
<1>1. PagesTypeOK'
  <2>1. kind' \in [Views -> Kinds]
    BY <1>0 DEF PagesTypeOK, setCurrentView
  <2>2. phase' \in [Views -> Phases]
    BY <1>0 DEF PagesTypeOK, setCurrentView, Phases
  <2>3. age' \in [Views -> 0 .. RequestTimeout]
    BY <1>0 DEF PagesTypeOK, setCurrentView
  <2>4. current' \in Pages \cup {0} /\ early' \subseteq Views
    BY <1>0 DEF PagesTypeOK, setCurrentView
  <2>5. active' \in [Pollers -> BOOLEAN]
    <3>1. ASSUME NEW p \in Pollers
          PROVE  (IF p = <<v, "main">> THEN k = "details"
                  ELSE active[p] /\ ~OnScreen(p[1])) \in BOOLEAN
      OBVIOUS
    <3> QED  BY <3>1 DEF setCurrentView, activeAfter
  <2>6. chain' \in [Pollers -> {"none", "timer", "request", "retry"}]
    BY <1>0 DEF PagesTypeOK, setCurrentView
  <2> QED
    BY <1>0, <1>p, <2>1, <2>2, <2>3, <2>4, <2>5, <2>6 DEF PagesTypeOK
<1>2. LoadingPlaced'
  <2>1. ASSUME NEW u \in Views, phase'[u] \in Loading, u # v
        PROVE  /\ phase[u] = phase'[u]
               /\ Within(u, current) \/ u \in early => u \in early'
    BY <1>0, <2>1 DEF PagesTypeOK, setCurrentView
  <2>2. ASSUME NEW u \in Views, phase'[u] = "loading"
        PROVE  OnScreen(u)' \/ u \in early'
    <3>1. CASE u = v
      BY <3>1 DEF setCurrentView, OnScreen
    <3>2. CASE u # v
      <4>1. phase[u] = "loading" /\ (Within(u, current) \/ u \in early => u \in early')
        BY <2>1, <2>2, <3>2 DEF Loading
      <4>2. OnScreen(u) \/ u \in early
        BY <4>1 DEF PagesInv, LoadingPlaced
      <4>3. OnScreen(u) => Within(u, current)
        BY <1>0 DEF OnScreen, Within, PagesTypeOK
      <4> QED  BY <4>1, <4>2, <4>3
    <3> QED  BY <3>1, <3>2
  <2>3. ASSUME NEW u \in Views, phase'[u] = "creating", u \in JobViews
        PROVE  host'[u] = current' \/ u \in early'
    <3>1. u # v
      BY <2>3, SortsOfViews
    <3>2. phase[u] = "creating" /\ (Within(u, current) \/ u \in early => u \in early')
      BY <2>1, <2>3, <3>1 DEF Loading
    <3>3. host[u] = current \/ u \in early
      BY <2>3, <3>2 DEF PagesInv, LoadingPlaced
    <3> QED  BY <2>3, <3>2, <3>3 DEF Within
  <2> QED  BY <2>2, <2>3 DEF LoadingPlaced
<1>3. ASSUME NEW p \in Pollers, active'[p]
      PROVE  OnScreen(p[1])' \/ p[1] \in early'
  <2>1. CASE p = <<v, "main">>
    BY <2>1 DEF setCurrentView, OnScreen
  <2>2. CASE p # <<v, "main">>
    <3>1. active[p] /\ ~OnScreen(p[1])
      BY <1>3, <2>2 DEF setCurrentView, activeAfter
    <3>2. p[1] \in early
      BY <3>1 DEF PagesInv, LeakExplained
    <3> QED  BY <3>2 DEF setCurrentView
  <2> QED  BY <2>1, <2>2
<1>4. LeakExplained'
  BY <1>3 DEF LeakExplained
<1>5. OnlyRefusalSilences'
  BY <1>0 DEF PagesInv, PagesTypeOK, OnlyRefusalSilences, setCurrentView, activeAfter
<1>6. RenewedInside'
  BY <1>0, <1>p DEF PagesInv, PagesTypeOK, RenewedInside, setCurrentView
<1> QED  BY <1>1, <1>2, <1>4, <1>5, <1>6 DEF PagesInv

\* Steps that open and close nothing and start no poller.
LEMMA NothingOpened ==
    ASSUME PagesInv, PagesTypeOK', OnlyRefusalSilences',
           UNCHANGED <<kind, current, host, subviews, early>>,
           \A v \in Views : phase'[v] \in Loading => phase[v] = phase'[v],
           \A p \in Pollers : active'[p] => active[p]
    PROVE  PagesInv'
<1>1. \A v \in Views : OnScreen(v)' <=> OnScreen(v)
  BY DEF OnScreen
<1>2. \A p \in Pollers : p[1] \in Views
  BY DEF Pollers
<1>3. LeakExplained'
  <2>1. ASSUME NEW p \in Pollers, active'[p]
        PROVE  OnScreen(p[1])' \/ p[1] \in early'
    <3>1. OnScreen(p[1]) \/ p[1] \in early
      BY <2>1 DEF PagesInv, LeakExplained
    <3> QED  BY <1>1, <1>2, <3>1
  <2> QED  BY <2>1 DEF LeakExplained
<1>4. LoadingPlaced'
  <2>1. ASSUME NEW v \in Views, phase'[v] = "loading"
        PROVE  OnScreen(v)' \/ v \in early'
    <3>1. phase[v] = "loading"
      BY <2>1 DEF Loading
    <3>2. OnScreen(v) \/ v \in early
      BY <3>1 DEF PagesInv, LoadingPlaced
    <3> QED  BY <1>1, <3>2
  <2>2. ASSUME NEW v \in Views, phase'[v] = "creating", v \in JobViews
        PROVE  host'[v] = current' \/ v \in early'
    <3>1. phase[v] = "creating"
      BY <2>2 DEF Loading
    <3> QED  BY <2>2, <3>1 DEF PagesInv, LoadingPlaced
  <2> QED  BY <2>1, <2>2 DEF LoadingPlaced
<1>5. RenewedInside'
  BY DEF PagesInv, RenewedInside
<1> QED  BY <1>3, <1>4, <1>5 DEF PagesInv

\* Asking for the job views of page v, by a click or by an answer to its poll.
LEMMA AskProjects ==
    ASSUME PagesInv, NEW v \in Pages, NEW new, NEW k \in {"job", "renewed"},
           showProjectDetails(v, new, k),
           opened' \subseteq JobViews,
           project' \in [Views -> Projects \cup {0}],
           active' = active, chain' \in [Pollers -> Chains],
           \A p \in Pollers : chain[p] # "none" => chain'[p] # "none",
           UNCHANGED <<dialog, logoutDisabled, rejected, left>>
    PROVE  /\ PagesInv'
           /\ new \subseteq JobViews
           /\ \A u \in new : kind'[u] = k /\ host'[u] = v /\ phase'[u] = "creating"
           /\ \A u \in Views \ new :
                /\ kind'[u] = kind[u] /\ host'[u] = host[u]
                /\ phase'[u] = phase[u] /\ age'[u] = age[u]
<1> USE PagesAssumption
<1>0. PagesTypeOK
  BY DEF PagesInv
<1>1. /\ new \subseteq JobViews /\ new \subseteq Views
      /\ \A j \in new : phase[j] = "none"
  BY SortsOfViews DEF showProjectDetails, FreshJobViews
<1>2. /\ kind' = [u \in Views |-> IF u \in new THEN k ELSE kind[u]]
      /\ phase' = [u \in Views |-> IF u \in new THEN "creating" ELSE phase[u]]
      /\ age' = [u \in Views |-> IF u \in new THEN 0 ELSE age[u]]
      /\ host' = [u \in Views |-> IF u \in new THEN v ELSE host[u]]
      /\ early' = IF v = current THEN early ELSE early \cup new
      /\ current' = current /\ subviews' = subviews
  BY DEF showProjectDetails
<1>3. PagesTypeOK'
  <2>1. kind' \in [Views -> Kinds] /\ phase' \in [Views -> Phases]
    BY <1>0, <1>2 DEF PagesTypeOK, Kinds, Phases
  <2>2. age' \in [Views -> 0 .. RequestTimeout] /\ host' \in [Views -> Pages \cup {0}]
    BY <1>0, <1>2 DEF PagesTypeOK
  <2>3. early' \subseteq Views
    BY <1>0, <1>1, <1>2 DEF PagesTypeOK
  <2> QED  BY <1>0, <1>2, <2>1, <2>2, <2>3 DEF PagesTypeOK, Chains
<1>4. /\ \A u \in new : kind'[u] = k /\ host'[u] = v /\ phase'[u] = "creating"
      /\ \A u \in Views \ new :
           /\ kind'[u] = kind[u] /\ host'[u] = host[u]
           /\ phase'[u] = phase[u] /\ age'[u] = age[u]
  BY <1>1, <1>2
<1>5. ASSUME NEW u \in Views, OnScreen(u) \/ u \in early
      PROVE  OnScreen(u)' \/ u \in early'
  <2>1. CASE u \in new
    BY <1>2, <1>4, <1>5, <2>1 DEF OnScreen
  <2>2. CASE u \notin new
    BY <1>2, <1>4, <1>5, <2>2 DEF OnScreen
  <2> QED  BY <2>1, <2>2
<1>6. LeakExplained'
  <2>1. \A p \in Pollers : p[1] \in Views
    BY DEF Pollers
  <2> QED  BY <1>5, <2>1 DEF PagesInv, LeakExplained
<1>7. LoadingPlaced'
  <2>1. ASSUME NEW u \in Views, phase'[u] = "loading"
        PROVE  OnScreen(u)' \/ u \in early'
    <3>1. phase[u] = "loading"
      BY <1>4, <2>1
    <3> QED  BY <1>5, <3>1 DEF PagesInv, LoadingPlaced
  <2>2. ASSUME NEW u \in Views, phase'[u] = "creating", u \in JobViews
        PROVE  host'[u] = current' \/ u \in early'
    <3>1. CASE u \in new
      BY <1>2, <1>4, <3>1
    <3>2. CASE u \notin new
      BY <1>2, <1>4, <2>2, <3>2 DEF PagesInv, LoadingPlaced
    <3> QED  BY <3>1, <3>2
  <2> QED  BY <2>1, <2>2 DEF LoadingPlaced
<1>8. OnlyRefusalSilences'
  BY DEF PagesInv, OnlyRefusalSilences
<1>9. RenewedInside'
  <2>1. ASSUME NEW u \in Views, kind'[u] = "renewed"
        PROVE  u \in JobViews /\ host'[u] \in Pages
    <3>1. CASE u \in new
      BY <1>1, <1>4, <3>1
    <3>2. CASE u \notin new
      BY <1>4, <2>1, <3>2 DEF PagesInv, RenewedInside
    <3> QED  BY <3>1, <3>2
  <2> QED  BY <2>1 DEF RenewedInside
<1> QED  BY <1>1, <1>3, <1>4, <1>6, <1>7, <1>8, <1>9 DEF PagesInv

\* What show leaves in the dialog.
LEMMA Shown ==
    ASSUME PagesTypeOK, NEW what \in {"error", "silent", "reload"}, show(what)
    PROVE  dialog' \in {"none", "error", "reload"}
BY DEF PagesTypeOK, show

\* The steps of pages that wait for an answer.
LEMMA RequestKeepsPages ==
    ASSUME PagesInv, NEW v \in Views, requestEnds(v)
    PROVE  PagesInv'
<1> USE PagesAssumption
<1>1. CASE projectAnswered(v)
  <2>1. kind[v] \in Kinds /\ v \in Pages
    BY <1>1 DEF PagesInv, PagesTypeOK, projectAnswered
  <2>2. dialog' \in {"none", "error", "reload"} /\ left' \in BOOLEAN
    BY <1>1 DEF projectAnswered, PagesInv, PagesTypeOK
  <2> QED  BY <1>1, <2>1, <2>2, ReplacePage DEF projectAnswered
<1>c. CASE jobViewCreated(v)
  <2> DEFINE replaced == {u \in subviews : host[u] = host[v] /\ project[u] = project[v]}
  <2>1. /\ v \in JobViews /\ phase[v] = "creating"
        /\ phase' = [phase EXCEPT ![v] = "loading"]
        /\ age' = [age EXCEPT ![v] = 0]
        /\ subviews' = (subviews \ replaced) \cup {v}
        /\ active' = [p \in Pollers |-> active[p] /\ p[1] \notin replaced]
        /\ early' = early \cup {u \in replaced : phase[u] = "loading"}
        /\ UNCHANGED <<kind, current, host, project, opened, chain, dialog,
                       logoutDisabled, rejected, left>>
    BY <1>c DEF jobViewCreated
  <2>0. /\ PagesTypeOK /\ replaced \subseteq Views
        /\ \A p \in Pollers : p[1] \in Views
    BY SortsOfViews DEF PagesInv, PagesTypeOK, Pollers
  <2> HIDE DEF replaced
  <2>2. active' \in [Pollers -> BOOLEAN]
    <3>1. \A p \in Pollers : (active[p] /\ p[1] \notin replaced) \in BOOLEAN
      OBVIOUS
    <3> QED  BY <2>1, <3>1
  <2>3. PagesTypeOK'
    BY <2>0, <2>1, <2>2 DEF PagesTypeOK, Phases
  <2>4. ASSUME NEW u \in Views, OnScreen(u) \/ u \in early, u \notin replaced
        PROVE  OnScreen(u)' \/ u \in early'
    BY <2>1, <2>4 DEF OnScreen
  <2>5. LeakExplained'
    <3>1. ASSUME NEW p \in Pollers, active'[p]
          PROVE  OnScreen(p[1])' \/ p[1] \in early'
      <4>1. active[p] /\ p[1] \notin replaced
        BY <2>1, <3>1
      <4>2. OnScreen(p[1]) \/ p[1] \in early
        BY <4>1 DEF PagesInv, LeakExplained
      <4> QED  BY <2>0, <2>4, <4>1, <4>2
    <3> QED  BY <3>1 DEF LeakExplained
  <2>6. LoadingPlaced'
    <3>1. ASSUME NEW u \in Views, phase'[u] = "loading"
          PROVE  OnScreen(u)' \/ u \in early'
      <4>1. CASE u = v
        <5>1. host[v] = current \/ v \in early
          BY <2>1 DEF PagesInv, LoadingPlaced
        <5> QED  BY <2>1, <4>1, <5>1 DEF OnScreen
      <4>2. CASE u # v
        <5>1. phase[u] = "loading"
          BY <2>0, <2>1, <3>1, <4>2 DEF PagesTypeOK
        <5>2. OnScreen(u) \/ u \in early
          BY <5>1 DEF PagesInv, LoadingPlaced
        <5> QED  BY <2>1, <2>4, <5>1, <5>2
      <4> QED  BY <4>1, <4>2
    <3>2. ASSUME NEW u \in Views, phase'[u] = "creating", u \in JobViews
          PROVE  host'[u] = current' \/ u \in early'
      <4>1. phase[u] = "creating"
        BY <2>0, <2>1, <3>2 DEF PagesTypeOK
      <4> QED  BY <2>1, <3>2, <4>1 DEF PagesInv, LoadingPlaced
    <3> QED  BY <3>1, <3>2 DEF LoadingPlaced
  <2>7. OnlyRefusalSilences' /\ RenewedInside'
    BY <2>1 DEF PagesInv, OnlyRefusalSilences, RenewedInside
  <2> QED  BY <2>3, <2>5, <2>6, <2>7 DEF PagesInv
<1>2. CASE firstAnswer(v)
  <2>1. awaited(v) \in Pollers /\ awaited(v)[1] = v
    BY DEF awaited, Pollers, Roles
  <2>2. /\ phase' \in [Views -> Phases]
        /\ age' \in [Views -> 0 .. RequestTimeout]
        /\ chain' \in [Pollers -> {"none", "timer", "request", "retry"}]
    BY <1>2, <2>1 DEF firstAnswer, PagesInv, PagesTypeOK, Phases
  <2>3. active' \in [Pollers -> BOOLEAN]
    <3>1. active \in [Pollers -> BOOLEAN]
      BY DEF PagesInv, PagesTypeOK
    <3>2. active' = [active EXCEPT ![awaited(v)] = TRUE]
      BY <1>2 DEF firstAnswer
    <3> QED  BY <2>1, <3>1, <3>2
  <2>p. UNCHANGED <<host, project, subviews, opened>>
    BY <1>2 DEF firstAnswer, projectVars
  <2>4. PagesTypeOK'
    BY <1>2, <2>2, <2>3, <2>p DEF firstAnswer, PagesInv, PagesTypeOK
  <2>5. OnScreen(v) \/ v \in early
    BY <1>2 DEF firstAnswer, PagesInv, LoadingPlaced
  <2>6. \A p \in Pollers : p # awaited(v) => active'[p] = active[p] /\ chain'[p] = chain[p]
    BY <1>2, <2>1 DEF firstAnswer, PagesInv, PagesTypeOK
  <2>7. chain'[awaited(v)] # "none"
    BY <1>2, <2>1 DEF firstAnswer, PagesInv, PagesTypeOK
  <2>8. LeakExplained'
    BY <1>2, <2>1, <2>5, <2>6, <2>p DEF firstAnswer, PagesInv, LeakExplained, OnScreen
  <2>9. OnlyRefusalSilences'
    BY <1>2, <2>6, <2>7 DEF firstAnswer, PagesInv, OnlyRefusalSilences
  <2>10. LoadingPlaced'
    BY <1>2, <2>p DEF firstAnswer, PagesInv, PagesTypeOK, LoadingPlaced, OnScreen
  <2>11. RenewedInside'
    BY <1>2, <2>p DEF firstAnswer, PagesInv, RenewedInside
  <2> QED  BY <2>4, <2>8, <2>9, <2>10, <2>11 DEF PagesInv
<1>3. ASSUME NEW e \in Failures, requestFails(v, e)
      PROVE  PagesInv'
  <2>1. dialog' \in {"none", "error", "reload"}
    BY <1>3, Shown DEF requestFails, PagesInv
  <2>2. PagesTypeOK'
    BY <1>3, <2>1 DEF requestFails, projectVars, PagesInv, PagesTypeOK, Phases
  <2>3. \A u \in Views : phase'[u] \in Loading => phase[u] = phase'[u]
    BY <1>3 DEF requestFails, PagesInv, PagesTypeOK, Loading
  <2>4. OnlyRefusalSilences'
    BY <1>3 DEF requestFails, PagesInv, OnlyRefusalSilences
  <2> QED  BY <1>3, <2>2, <2>3, <2>4, NothingOpened DEF requestFails, projectVars
<1>4. CASE requestRefused(v)
  <2>1. dialog' \in {"none", "error", "reload"}
    BY <1>4, Shown DEF requestRefused, PagesInv, PagesTypeOK
  <2>2. /\ phase' \in [Views -> Phases]
        /\ age' \in [Views -> 0 .. RequestTimeout]
    BY <1>4 DEF requestRefused, PagesInv, PagesTypeOK, Phases
  <2>3. left' \in BOOLEAN
    BY <1>4 DEF requestRefused, PagesInv, PagesTypeOK
  <2>4. PagesTypeOK'
    BY <1>4, <2>1, <2>2, <2>3 DEF requestRefused, projectVars, PagesInv, PagesTypeOK
  <2>5. \A u \in Views : phase'[u] \in Loading => phase[u] = phase'[u]
    BY <1>4 DEF requestRefused, PagesInv, PagesTypeOK, Loading
  <2>6. OnlyRefusalSilences'
    BY <1>4 DEF requestRefused, PagesInv, OnlyRefusalSilences
  <2> QED  BY <1>4, <2>4, <2>5, <2>6, NothingOpened DEF requestRefused, projectVars
<1>5. CASE retryEnds(v)
  <2>1. dialog' \in {"none", "error", "reload"}
    BY <1>5, PagesAssumption, Shown DEF retryEnds, PagesInv
  <2>2. rejected' \in BOOLEAN /\ (rejected => rejected')
    BY <1>5 DEF retryEnds, PagesInv, PagesTypeOK
  <2>3. PagesTypeOK'
    BY <1>5, <2>1, <2>2 DEF retryEnds, projectVars, PagesInv, PagesTypeOK, Phases
  <2>4. \A u \in Views : phase'[u] \in Loading => phase[u] = phase'[u]
    BY <1>5 DEF retryEnds, PagesInv, PagesTypeOK, Loading
  <2>5. OnlyRefusalSilences'
    BY <1>5, <2>2 DEF retryEnds, PagesInv, OnlyRefusalSilences
  <2> QED  BY <1>5, <2>3, <2>4, <2>5, NothingOpened DEF retryEnds, projectVars
<1> QED  BY <1>1, <1>c, <1>2, <1>3, <1>4, <1>5 DEF requestEnds

\* What the numbers of a jobs dashboard lead to.
LEMMA UpdatesKeepPages ==
    ASSUME PagesInv, NEW v \in Pages, checkUpdates(v),
           active' = active, chain' \in [Pollers -> Chains],
           \A p \in Pollers : chain[p] # "none" => chain'[p] # "none",
           UNCHANGED <<dialog, logoutDisabled, rejected, left>>
    PROVE  /\ PagesInv'
           /\ \A u \in Views :
                \/ kind'[u] = "renewed" /\ host'[u] = v
                \/ /\ kind'[u] = kind[u] /\ host'[u] = host[u]
                   /\ phase'[u] = phase[u] /\ age'[u] = age[u]
<1>1. PICK gone \in SUBSET Projects, new \in SUBSET JobViews :
        LET kept == {o \in opened : host[o] = v /\ project[o] \notin gone}
        IN  \E entry \in Bijection(new, kept) :
                /\ showProjectDetails(v, new, "renewed")
                /\ project' = [u \in Views |-> IF u \in new THEN project[entry[u]]
                                                          ELSE project[u]]
                /\ opened' = {o \in opened : host[o] = v => o \in kept} \cup new
  BY DEF checkUpdates
<1> DEFINE kept == {o \in opened : host[o] = v /\ project[o] \notin gone}
<1>2. PICK entry \in Bijection(new, kept) :
        /\ showProjectDetails(v, new, "renewed")
        /\ project' = [u \in Views |-> IF u \in new THEN project[entry[u]]
                                                  ELSE project[u]]
        /\ opened' = {o \in opened : host[o] = v => o \in kept} \cup new
  BY <1>1
<1>3. /\ project \in [Views -> Projects \cup {0}]
      /\ opened \subseteq JobViews /\ opened \subseteq Views
  BY SortsOfViews DEF PagesInv, PagesTypeOK
<1>4. \A u \in new : entry[u] \in Views
  BY <1>3 DEF Bijection, Injection
<1>5. project' \in [Views -> Projects \cup {0}]
  BY <1>2, <1>3, <1>4
<1>6. opened' \subseteq JobViews
  BY <1>2, <1>3
<1> HIDE DEF kept
<1>7. /\ PagesInv'
      /\ \A u \in new : kind'[u] = "renewed" /\ host'[u] = v /\ phase'[u] = "creating"
      /\ \A u \in Views \ new :
           /\ kind'[u] = kind[u] /\ host'[u] = host[u]
           /\ phase'[u] = phase[u] /\ age'[u] = age[u]
  BY <1>2, <1>5, <1>6, AskProjects
<1> QED  BY <1>7

\* The steps of one poller.
LEMMA PollKeepsPages ==
    ASSUME PagesInv, NEW p \in Pollers, run(p) \/ pollEnds(p)
    PROVE  PagesInv'
<1>0. /\ active \in [Pollers -> BOOLEAN]
      /\ chain \in [Pollers -> {"none", "timer", "request", "retry"}]
  BY DEF PagesInv, PagesTypeOK
<1>1. CASE run(p)
  <2>1. PagesTypeOK' /\ OnlyRefusalSilences'
    BY <1>0, <1>1 DEF run, projectVars, PagesInv, PagesTypeOK, OnlyRefusalSilences
  <2> QED  BY <1>1, <2>1, NothingOpened DEF run, projectVars
<1>2. CASE pollAnswered(p)
  <2>1. /\ chain' \in [Pollers -> Chains] /\ active' = active
        /\ \A q \in Pollers : chain[q] # "none" => chain'[q] # "none"
        /\ UNCHANGED <<dialog, logoutDisabled, rejected, left>>
    BY <1>0, <1>2 DEF pollAnswered, Chains
  <2>2. ASSUME NEW v \in Pages, checkUpdates(v) PROVE PagesInv'
    BY <2>1, <2>2, UpdatesKeepPages
  <2>3. CASE UNCHANGED <<kind, phase, age, current, projectVars, early>>
    <3>1. PagesTypeOK' /\ OnlyRefusalSilences'
      BY <2>1, <2>3 DEF projectVars, PagesInv, PagesTypeOK, OnlyRefusalSilences, Chains
    <3> QED  BY <2>1, <2>3, <3>1, NothingOpened DEF projectVars
  <2> QED  BY <1>2, <2>2, <2>3 DEF pollAnswered
<1>3. ASSUME NEW e \in Failures, pollFails(p, e)
      PROVE  PagesInv'
  <2>1. dialog' \in {"none", "error", "reload"}
    BY <1>3, PagesAssumption, Shown DEF pollFails, PagesInv
  <2>2. CASE Noninterruptible(p)
    <3>1. chain' = [chain EXCEPT ![p] = "timer"] /\ active' = active
      BY <1>3, <2>2 DEF pollFails, afterError
    <3>2. PagesTypeOK' /\ OnlyRefusalSilences'
      BY <1>0, <1>3, <2>1, <3>1
         DEF pollFails, projectVars, PagesInv, PagesTypeOK, OnlyRefusalSilences
    <3> QED  BY <1>3, <3>1, <3>2, NothingOpened DEF pollFails, projectVars
  <2>3. CASE ~Noninterruptible(p)
    <3>1. /\ chain' = [chain EXCEPT ![p] = "none"]
          /\ active' = [active EXCEPT ![p] = FALSE]
      BY <1>3, <2>3 DEF pollFails, afterError
    <3>2. active' \in [Pollers -> BOOLEAN] /\ ~active'[p]
      BY <1>0, <3>1
    <3>3. \A q \in Pollers : q # p => active'[q] = active[q] /\ chain'[q] = chain[q]
      BY <1>0, <3>1
    <3>4. PagesTypeOK'
      BY <1>0, <1>3, <2>1, <3>1, <3>2 DEF pollFails, projectVars, PagesInv, PagesTypeOK
    <3>5. OnlyRefusalSilences'
      BY <1>3, <3>2, <3>3 DEF pollFails, PagesInv, OnlyRefusalSilences
    <3>6. \A q \in Pollers : active'[q] => active[q]
      BY <3>2, <3>3
    <3> QED  BY <1>3, <3>4, <3>5, <3>6, NothingOpened DEF pollFails, projectVars
  <2> QED  BY <2>2, <2>3
<1>4. CASE pollRefused(p)
  <2>1. CASE ~logoutDisabled
    <3>1. left' \in BOOLEAN
      BY <1>4, <2>1 DEF pollRefused
    <3>2. PagesTypeOK' /\ OnlyRefusalSilences'
      BY <1>0, <1>4, <2>1, <3>1
         DEF pollRefused, projectVars, PagesInv, PagesTypeOK, OnlyRefusalSilences
    <3> QED  BY <1>4, <3>2, NothingOpened DEF pollRefused, projectVars
  <2>2. CASE logoutDisabled
    <3>1. dialog' \in {"none", "error", "reload"}
      BY <1>4, <2>2, Shown DEF pollRefused, PagesInv
    <3>2. /\ chain' = [chain EXCEPT ![p] =
                         IF chain[p] = "request" THEN "retry" ELSE "none"]
          /\ rejected' = (rejected \/ chain[p] = "retry")
          /\ chain[p] \in {"request", "retry"}
      BY <1>4, <2>2 DEF pollRefused, Waiting
    <3>3. rejected' \in BOOLEAN
      BY <3>2
    <3>4. PagesTypeOK'
      BY <1>0, <1>4, <2>2, <3>1, <3>2, <3>3
         DEF pollRefused, projectVars, PagesInv, PagesTypeOK
    <3>5. OnlyRefusalSilences'
      BY <1>0, <1>4, <3>2 DEF pollRefused, PagesInv, OnlyRefusalSilences
    <3> QED  BY <1>4, <3>4, <3>5, NothingOpened DEF pollRefused, projectVars
  <2> QED  BY <2>1, <2>2
<1> QED  BY <1>1, <1>2, <1>3, <1>4 DEF pollEnds

\* The user's steps, and the end of the session.
LEMMA NavigateKeepsPages ==
    ASSUME PagesInv, navigate \/ pressDialogOK
    PROVE  PagesInv'
<1> USE PagesAssumption
<1>0. /\ dialog \in {"none", "error", "reload"} /\ left \in BOOLEAN
      /\ PagesTypeOK /\ Opens \subseteq Kinds
      /\ "plain" \in Kinds /\ "renewed" \notin Opens
  BY DEF PagesInv, PagesTypeOK, Kinds, PageKinds
<1>1. ASSUME NEW k \in Opens, openPage(k)
      PROVE  PagesInv'
  <2>1. PICK v \in Pages : setCurrentView(v, k)
    BY <1>1 DEF openPage
  <2> QED  BY <1>0, <1>1, <2>1, ReplacePage DEF openPage
<1>2. ASSUME NEW k \in Opens, askProject(k)
      PROVE  PagesInv'
  <2>1. PICK v \in Pages :
          /\ kind' = [kind EXCEPT ![v] = k]
          /\ phase' = [phase EXCEPT ![v] = "creating"]
          /\ age' = [age EXCEPT ![v] = 0]
    BY <1>2 DEF askProject
  <2>2. UNCHANGED <<current, host, project, subviews, opened, early, active, chain,
                    dialog, logoutDisabled, rejected, left>>
    BY <1>2 DEF askProject, projectVars
  <2>3. PagesTypeOK'
    BY <1>0, <1>2, <2>1, <2>2, SortsOfViews DEF PagesTypeOK, Phases
  <2>4. \A u \in Views : OnScreen(u)' <=> OnScreen(u)
    BY <2>2 DEF OnScreen
  <2>5. LeakExplained' /\ OnlyRefusalSilences'
    BY <2>2, <2>4 DEF PagesInv, LeakExplained, OnlyRefusalSilences, Pollers, OnScreen
  <2>6. \A u \in Views : u # v => phase'[u] = phase[u] /\ kind'[u] = kind[u]
    BY <1>0, <2>1 DEF PagesTypeOK
  <2>7. v \notin JobViews /\ phase'[v] = "creating" /\ kind'[v] # "renewed"
    BY <1>0, <1>2, <2>1, SortsOfViews DEF PagesTypeOK
  <2>8. LoadingPlaced' /\ RenewedInside'
    BY <2>2, <2>4, <2>6, <2>7 DEF PagesInv, LoadingPlaced, RenewedInside
  <2> QED  BY <2>3, <2>5, <2>8 DEF PagesInv
<1>c. CASE clickProject
  <2>1. PICK j \in JobViews, x \in Projects :
          /\ showProjectDetails(current, {j}, "job")
          /\ project' = [project EXCEPT ![j] = x]
          /\ opened' = opened \cup {j}
    BY <1>c DEF clickProject
  <2>2. /\ current \in Pages
        /\ UNCHANGED <<active, chain, dialog, logoutDisabled, rejected, left>>
    BY <1>0, <1>c DEF clickProject, PagesTypeOK
  <2>3. project' \in [Views -> Projects \cup {0}] /\ opened' \subseteq JobViews
    BY <1>0, <2>1 DEF PagesTypeOK
  <2>4. chain' \in [Pollers -> Chains]
    BY <1>0, <2>2 DEF PagesTypeOK, Chains
  <2> QED  BY <2>1, <2>2, <2>3, <2>4, AskProjects
<1>3. CASE pressDialogOK
  <2>1. left' \in BOOLEAN /\ dialog' \in {"none", "error", "reload"}
    BY <1>3 DEF pressDialogOK
  <2>2. ASSUME NEW v \in Pages, setCurrentView(v, "plain")
        PROVE  PagesInv'
    BY <1>0, <1>3, <2>1, <2>2, ReplacePage DEF pressDialogOK
  <2>3. CASE UNCHANGED <<kind, phase, age, current, projectVars, early, active, chain>>
    <3>1. PagesTypeOK' /\ OnlyRefusalSilences'
      BY <1>0, <1>3, <2>1, <2>3
         DEF pressDialogOK, projectVars, PagesInv, PagesTypeOK, OnlyRefusalSilences
    <3> QED  BY <2>3, <3>1, NothingOpened DEF projectVars
  <2> QED  BY <1>3, <2>2, <2>3 DEF pressDialogOK
<1> QED  BY <1>1, <1>2, <1>c, <1>3 DEF navigate

LEMMA StopKeepsPages ==
    ASSUME PagesInv, stopAll
    PROVE  PagesInv'
<1>1. PagesTypeOK' /\ OnlyRefusalSilences'
  BY DEF PagesInv, PagesTypeOK, OnlyRefusalSilences, stopAll, allStopped, projectVars
<1>2. \A p \in Pollers : active'[p] => active[p]
  BY DEF stopAll, allStopped
<1> QED  BY <1>1, <1>2, NothingOpened DEF stopAll, projectVars

LEMMA TimeKeepsPages ==
    ASSUME PagesInv, timePasses
    PROVE  PagesInv'
<1>1. age' \in [Views -> 0 .. RequestTimeout]
  BY PagesAssumption DEF PagesInv, PagesTypeOK, timePasses
<1>2. PagesTypeOK' /\ OnlyRefusalSilences'
  BY <1>1 DEF PagesInv, PagesTypeOK, OnlyRefusalSilences, timePasses, projectVars
<1> QED  BY <1>2, NothingOpened DEF timePasses, projectVars

-----------------------------------------------------------------------------
\* The two together

\* Each step of the user interface is a step of its parts.
LEMMA PartsKept ==
    ASSUME UIInv, [UINext]_uiVars
    PROVE  SessionInv' /\ PagesInv' /\ stirred' \in BOOLEAN /\ caught' \subseteq Pages
<1>0. /\ SessionInv /\ PagesInv
      /\ stirred \in BOOLEAN /\ caught \subseteq Pages /\ expired \in BOOLEAN
  BY DEF UIInv, SessionInv, SessionTypeOK
<1>s. ASSUME UNCHANGED sessionVars PROVE SessionInv'
  BY <1>0, <1>s, SessionStep
<1>p. ASSUME UNCHANGED pageVars PROVE PagesInv'
  <2>1. PagesTypeOK' /\ OnlyRefusalSilences'
    BY <1>0, <1>p DEF PagesInv, PagesTypeOK, OnlyRefusalSilences, pageVars, projectVars
  <2> QED  BY <1>0, <1>p, <2>1, NothingOpened DEF pageVars, projectVars
<1>1. CASE UserActs
  <2>1. SessionInv'
    BY <1>0, <1>1, SessionStep DEF UserActs, SessionNext
  <2>2. PagesInv'
    BY <1>0, <1>1, <1>p, NavigateKeepsPages DEF UserActs
  <2>3. stirred' \in BOOLEAN /\ caught' = caught
    BY <1>0, <1>1 DEF UserActs
  <2> QED  BY <1>0, <2>1, <2>2, <2>3
<1>2. CASE Refresh
  <2>1. left' \in BOOLEAN
    BY <1>2 DEF Refresh
  <2>2. PagesTypeOK' /\ OnlyRefusalSilences'
    BY <1>0, <1>2, <2>1
       DEF Refresh, projectVars, PagesInv, PagesTypeOK, OnlyRefusalSilences
  <2>3. PagesInv'
    BY <1>0, <1>2, <2>2, NothingOpened DEF Refresh, projectVars
  <2> QED  BY <1>0, <1>2, <1>s, <2>3 DEF Refresh
<1>3. CASE Clock
  BY <1>0, <1>3, <1>s, SessionStep, TimeKeepsPages DEF Clock, SessionNext
<1>4. CASE Alarm
  <2>1. SessionInv'
    BY <1>0, <1>4, SessionStep DEF Alarm, SessionNext
  <2>2. PagesInv' /\ caught' \subseteq Pages
    BY <1>0, <1>4, <1>p, StopKeepsPages DEF Alarm
  <2> QED  BY <1>0, <1>4, <2>1, <2>2 DEF Alarm
<1>5. ASSUME NEW v \in Views, Request(v)
      PROVE  SessionInv' /\ PagesInv' /\ stirred' \in BOOLEAN /\ caught' \subseteq Pages
  BY <1>0, <1>5, <1>s, RequestKeepsPages DEF Request
<1>6. ASSUME NEW p \in Pollers, Turn(p) \/ Answer(p)
      PROVE  SessionInv' /\ PagesInv' /\ stirred' \in BOOLEAN /\ caught' \subseteq Pages
  BY <1>0, <1>6, <1>s, PollKeepsPages DEF Turn, Answer
<1>7. CASE UNCHANGED uiVars
  BY <1>0, <1>7, <1>s, <1>p DEF uiVars
<1> QED  BY <1>1, <1>2, <1>3, <1>4, <1>5, <1>6, <1>7 DEF UINext

\* The steps of one poller open nothing, unless a jobs dashboard is answered.
LEMMA AnswerOpens ==
    ASSUME PagesInv, NEW p \in Pollers, run(p) \/ pollEnds(p)
    PROVE  \/ UNCHANGED <<kind, host, phase, age>>
           \/ \E v \in Pages :
                /\ p = <<v, "main">> /\ kind[v] = "jobs" /\ Waiting(p)
                /\ active' = active
                /\ \A q \in Pollers : Waiting(q)' => Waiting(q)
                /\ \A u \in Views :
                     \/ kind'[u] = "renewed" /\ host'[u] = v
                     \/ /\ kind'[u] = kind[u] /\ host'[u] = host[u]
                        /\ phase'[u] = phase[u] /\ age'[u] = age[u]
<1>0. chain \in [Pollers -> Chains]
  BY DEF PagesInv, PagesTypeOK, Chains
<1>1. CASE run(p)
  BY <1>1 DEF run, projectVars
<1>2. CASE pollAnswered(p)
  <2>1. /\ chain' = [chain EXCEPT ![p] = "timer"] /\ active' = active
        /\ chain' \in [Pollers -> Chains] /\ Waiting(p)
        /\ \A q \in Pollers : chain[q] # "none" => chain'[q] # "none"
        /\ UNCHANGED <<dialog, logoutDisabled, rejected, left>>
    BY <1>0, <1>2 DEF pollAnswered, Chains
  <2>2. \A q \in Pollers : Waiting(q)' => Waiting(q)
    BY <1>0, <2>1 DEF Waiting
  <2>3. ASSUME NEW v \in Pages, checkUpdates(v)
        PROVE  \A u \in Views :
                \/ kind'[u] = "renewed" /\ host'[u] = v
                \/ /\ kind'[u] = kind[u] /\ host'[u] = host[u]
                   /\ phase'[u] = phase[u] /\ age'[u] = age[u]
    BY <2>1, <2>3, UpdatesKeepPages
  <2>4. CASE UNCHANGED <<kind, phase, age, current, projectVars, early>>
    BY <2>4 DEF projectVars
  <2> QED  BY <1>2, <2>1, <2>2, <2>3, <2>4 DEF pollAnswered
<1>3. CASE \E e \in Failures : pollFails(p, e)
  BY <1>3 DEF pollFails, projectVars
<1>4. CASE pollRefused(p)
  BY <1>4 DEF pollRefused, projectVars
<1> QED  BY <1>1, <1>2, <1>3, <1>4 DEF pollEnds

\* A view that the user asked for and that waits for its first answer was opened
\* by an activity, and its requests can be no older than the user is idle.
LEMMA RecentKept ==
    ASSUME UIInv, [UINext]_uiVars
    PROVE  LoadingIsRecent'
<1> USE PagesAssumption
<1>0. /\ phase \in [Views -> Phases]
      /\ kind \in [Views -> Kinds]
      /\ age \in [Views -> 0 .. RequestTimeout]
      /\ inactive \in Nat
      /\ LoadingIsRecent
  BY DEF UIInv, PagesInv, PagesTypeOK, SessionInv, SessionTypeOK
<1>n. age' \in [Views -> 0 .. RequestTimeout]
  BY PartsKept DEF PagesInv, PagesTypeOK
<1>z. ASSUME inactive' = 0 PROVE LoadingIsRecent'
  BY <1>n, <1>z DEF LoadingIsRecent
<1>u. ASSUME inactive' = inactive,
             \A u \in Views :
               \/ kind'[u] = "renewed"
               \/ kind'[u] = kind[u] /\ phase'[u] = phase[u] /\ age'[u] = age[u]
      PROVE LoadingIsRecent'
  BY <1>0, <1>u DEF LoadingIsRecent
<1>1. CASE UserActs
  BY <1>1, <1>z DEF UserActs, reset, pressOK
<1>2. CASE Refresh
  BY <1>2, <1>u DEF Refresh, sessionVars
<1>3. CASE Clock
  <2>1. inactive' \in {inactive, inactive + 1}
    BY <1>3 DEF Clock, increaseTimeout, sessionVars
  <2>2. \A v \in Views : phase[v] \in {"creating", "loading"} => age'[v] = age[v] + 1
    BY <1>0, <1>3 DEF Clock, timePasses, Outstanding
  <2>3. phase' = phase /\ kind' = kind
    BY <1>3 DEF Clock, timePasses
  <2> QED  BY <1>0, <2>1, <2>2, <2>3 DEF LoadingIsRecent
<1>4. CASE Alarm
  <2>1. inactive' = 0 \/ inactive' = inactive
    BY <1>4 DEF Alarm, alarmGoesOff
  <2>2. phase' = phase /\ age' = age /\ kind' = kind
    BY <1>4 DEF Alarm, stopAll, pageVars
  <2> QED  BY <2>1, <2>2, <1>z, <1>u
<1>5. ASSUME NEW v \in Views, Request(v)
      PROVE  LoadingIsRecent'
  <2>0. inactive' = inactive
    BY <1>5 DEF Request, sessionVars
  <2>1. /\ \A u \in Views : u # v => phase'[u] = phase[u] /\ age'[u] = age[u]
        /\ kind' = kind
    BY <1>0, <1>5 DEF Request, requestEnds, projectAnswered, setCurrentView,
                      jobViewCreated, firstAnswer, requestFails, requestRefused,
                      retryEnds
  <2>2. CASE projectAnswered(v) \/ jobViewCreated(v)
    <3>1. phase[v] = "creating" /\ age[v] <= RequestTimeout
      BY <1>0, <2>2 DEF projectAnswered, jobViewCreated
    <3>2. kind[v] # "renewed" => inactive <= age[v]
      BY <1>0, <3>1 DEF LoadingIsRecent
    <3>3. age'[v] = 0 /\ phase'[v] # "creating"
      BY <1>0, <2>2 DEF projectAnswered, setCurrentView, jobViewCreated
    <3> QED  BY <1>0, <2>0, <2>1, <3>1, <3>2, <3>3 DEF LoadingIsRecent
  <2>3. CASE phase'[v] \notin {"creating", "loading"}
    BY <1>0, <2>0, <2>1, <2>3 DEF LoadingIsRecent
  <2>4. CASE phase' = phase /\ age' = age
    BY <1>u, <2>0, <2>1, <2>4
  <2> QED
    BY <1>0, <1>5, <2>2, <2>3, <2>4
       DEF Request, requestEnds, firstAnswer, requestFails, requestRefused, retryEnds
<1>6. ASSUME NEW p \in Pollers, Turn(p) \/ Answer(p)
      PROVE  LoadingIsRecent'
  <2>1. inactive' = inactive /\ (run(p) \/ pollEnds(p)) /\ PagesInv
    BY <1>6 DEF Turn, Answer, sessionVars, UIInv
  <2>2. \A u \in Views :
          \/ kind'[u] = "renewed"
          \/ kind'[u] = kind[u] /\ phase'[u] = phase[u] /\ age'[u] = age[u]
    BY <2>1, AnswerOpens
  <2> QED  BY <1>u, <2>1, <2>2
<1>7. CASE UNCHANGED uiVars
  BY <1>7, <1>u DEF uiVars, sessionVars, pageVars
<1> QED  BY <1>1, <1>2, <1>3, <1>4, <1>5, <1>6, <1>7 DEF UINext

\* When the session ends nothing is loading that the user has asked for, and
\* from then on only the user can open more, but for the dashboards that the
\* end has caught refreshing.
LEMMA QuietKept ==
    ASSUME UIInv, [UINext]_uiVars
    PROVE  QuietWhenEnded' /\ EndedIsSilent'
<1> USE PagesAssumption, TimesAssumption, AnswersBeforeEnd
<1>0. /\ phase \in [Views -> Phases]
      /\ age \in [Views -> 0 .. RequestTimeout]
      /\ active \in [Pollers -> BOOLEAN]
      /\ chain \in [Pollers -> Chains]
      /\ inactive \in Nat
      /\ LoadingIsRecent /\ QuietWhenEnded /\ EndedIsSilent /\ RenewedInside /\ PagesInv
  BY DEF UIInv, PagesInv, PagesTypeOK, SessionInv, SessionTypeOK, Chains
<1>m. \A v \in Pages : v \in Views /\ <<v, "main">> \in Pollers
  BY SortsOfViews DEF Pollers, Roles
<1>v. \A p \in Pollers : p[1] \in Views
  BY DEF Pollers
<1>u. ASSUME UNCHANGED <<expired, stirred, caught, kind, host>>,
             \A v \in Views : phase'[v] \in Loading => phase[v] \in Loading,
             \A p \in Pollers : active'[p] => active[p],
             \A v \in Pages : kind[v] = "jobs" /\ Waiting(<<v, "main">>)'
                              => Waiting(<<v, "main">>) \/ active[<<v, "main">>]
      PROVE  QuietWhenEnded' /\ EndedIsSilent'
  <2>1. EndedIsSilent'
    BY <1>0, <1>u DEF EndedIsSilent
  <2>2. ASSUME expired, ~stirred, NEW v \in Pages, kind[v] = "jobs",
               Waiting(<<v, "main">>)'
        PROVE  v \in caught
    <3>1. ~active[<<v, "main">>]
      <4>1. <<v, "main">>[1] = v
        OBVIOUS
      <4> QED  BY <1>0, <1>m, <2>2, <4>1 DEF EndedIsSilent
    <3> QED  BY <1>0, <1>u, <2>2, <3>1 DEF QuietWhenEnded
  <2>3. QuietWhenEnded'
    BY <1>0, <1>u, <2>2 DEF QuietWhenEnded
  <2> QED  BY <2>1, <2>3
<1>1. CASE UserActs
  <2>1. expired' = expired /\ (expired => stirred')
    BY <1>1 DEF UserActs, reset, pressOK
  <2> QED  BY <2>1 DEF QuietWhenEnded, EndedIsSilent
<1>2. CASE Refresh
  BY <1>2, <1>u DEF Refresh, sessionVars, projectVars, Waiting
<1>3. CASE Clock
  BY <1>3, <1>u DEF Clock, timePasses, increaseTimeout, sessionVars, projectVars,
                    Waiting
<1>4. CASE Alarm
  <2>1. PICK a \in Due : alarmGoesOff(a)
    BY <1>4 DEF Alarm
  <2>2. CASE shutdown
    <3>1. inactive >= Timeout + Grace
      BY <2>1, <2>2, EndIsLate DEF UIInv
    <3>2. /\ UNCHANGED <<kind, host, phase, chain>> /\ active' = allStopped
          /\ caught' = {v \in Pages : Refreshing(v)}
      BY <1>4, <2>2 DEF Alarm, stopAll, projectVars
    <3>3. ASSUME NEW v \in Views, phase[v] \in Loading
          PROVE  kind[v] = "renewed" /\ host[v] \in caught'
      <4>1. age[v] \in 0 .. RequestTimeout
        BY <1>0
      <4>2. kind[v] = "renewed"
        BY <1>0, <3>1, <3>3, <4>1 DEF LoadingIsRecent, Loading
      <4>3. v \in JobViews /\ host[v] \in Pages
        BY <1>0, <4>2 DEF RenewedInside
      <4> QED  BY <3>2, <3>3, <4>2, <4>3 DEF Refreshing
    <3>4. ASSUME NEW v \in Pages, kind[v] = "jobs", Waiting(<<v, "main">>)
          PROVE  v \in caught'
      BY <3>2, <3>4 DEF Refreshing
    <3>5. QuietWhenEnded'
      BY <3>2, <3>3, <3>4 DEF QuietWhenEnded, Waiting
    <3> QED  BY <3>2, <3>5 DEF EndedIsSilent, allStopped
  <2>3. CASE ~shutdown
    <3>1. expired' = expired /\ UNCHANGED <<pageVars, caught, stirred>>
      BY <1>4, <2>1, <2>3 DEF Alarm, alarmGoesOff
    <3> QED  BY <1>u, <3>1 DEF pageVars, projectVars, Waiting
  <2> QED  BY <2>2, <2>3
<1>5. ASSUME NEW v \in Views, Request(v)
      PROVE  QuietWhenEnded' /\ EndedIsSilent'
  <2>1. UNCHANGED <<expired, stirred, caught>> /\ requestEnds(v)
    BY <1>5 DEF Request, sessionVars
  <2>2. ASSUME ~(expired /\ ~stirred) PROVE QuietWhenEnded' /\ EndedIsSilent'
    BY <2>1, <2>2 DEF QuietWhenEnded, EndedIsSilent
  <2>3. ASSUME expired, ~stirred, projectAnswered(v)
        PROVE  FALSE
    <3>1. v \in Pages /\ phase[v] \in Loading
      BY <2>3 DEF projectAnswered, Loading
    <3>2. v \in JobViews
      BY <1>0, <2>3, <3>1 DEF QuietWhenEnded, RenewedInside
    <3> QED  BY <3>1, <3>2, SortsOfViews
  <2>4. CASE jobViewCreated(v)
    <3>1. /\ UNCHANGED <<kind, host, chain>>
          /\ phase[v] = "creating" /\ phase' = [phase EXCEPT ![v] = "loading"]
          /\ \A p \in Pollers : active'[p] => active[p]
      BY <2>4 DEF jobViewCreated
    <3>2. \A u \in Views : phase'[u] \in Loading => phase[u] \in Loading
      BY <1>0, <3>1 DEF Loading
    <3> QED  BY <1>u, <2>1, <3>1, <3>2 DEF Waiting
  <2>5. ASSUME expired, ~stirred, firstAnswer(v)
        PROVE  QuietWhenEnded' /\ EndedIsSilent'
    <3>1. kind[v] = "renewed" /\ host[v] \in caught /\ v \in JobViews
      BY <1>0, <2>5 DEF QuietWhenEnded, RenewedInside, firstAnswer, Loading
    <3>2. awaited(v) = <<v, "main">> /\ awaited(v) \in Pollers /\ awaited(v)[1] = v
      BY <3>1 DEF awaited, Pollers, Roles
    <3>3. /\ UNCHANGED <<kind, host>> /\ phase' = [phase EXCEPT ![v] = "ready"]
          /\ active' = [active EXCEPT ![awaited(v)] = TRUE]
          /\ chain' = [chain EXCEPT ![awaited(v)] = "request"]
      BY <2>5, <3>1 DEF firstAnswer, projectVars
    <3>4. \A p \in Pollers : p # awaited(v) => active'[p] = active[p] /\ chain'[p] = chain[p]
      BY <1>0, <3>2, <3>3
    <3>5. EndedIsSilent'
      BY <1>0, <2>1, <2>5, <3>1, <3>2, <3>3, <3>4 DEF EndedIsSilent
    <3>6. \A u \in Views : phase'[u] \in Loading => phase[u] \in Loading
      BY <1>0, <3>3 DEF Loading
    <3>7. \A u \in Pages : Waiting(<<u, "main">>)' => Waiting(<<u, "main">>)
      <4>1. \A u \in Pages : <<u, "main">> # awaited(v)
        BY <3>1, <3>2, SortsOfViews
      <4> QED  BY <1>m, <3>4, <4>1 DEF Waiting
    <3>8. QuietWhenEnded'
      BY <1>0, <2>1, <2>5, <3>3, <3>6, <3>7 DEF QuietWhenEnded
    <3> QED  BY <3>5, <3>8
  <2>6. CASE \/ \E e \in Failures : requestFails(v, e)
             \/ requestRefused(v) \/ retryEnds(v)
    <3>1. /\ UNCHANGED <<kind, host, chain, active>>
          /\ \/ phase' = phase
             \/ phase' = [phase EXCEPT ![v] = "retrying"]
             \/ phase' = [phase EXCEPT ![v] = "failed"]
      BY <2>6 DEF requestFails, requestRefused, retryEnds, projectVars
    <3>2. \A u \in Views : phase'[u] \in Loading => phase[u] \in Loading
      BY <1>0, <3>1 DEF Loading
    <3> QED  BY <1>u, <2>1, <3>1, <3>2 DEF Waiting
  <2> QED  BY <2>1, <2>2, <2>3, <2>4, <2>5, <2>6 DEF requestEnds
<1>6. ASSUME NEW p \in Pollers, Turn(p) \/ Answer(p)
      PROVE  QuietWhenEnded' /\ EndedIsSilent'
  <2>1. UNCHANGED <<expired, stirred, caught>> /\ (run(p) \/ pollEnds(p))
    BY <1>6 DEF Turn, Answer, sessionVars
  <2>2. CASE UNCHANGED <<kind, host, phase, age>>
    <3>1. /\ active' = active \/ active' = [active EXCEPT ![p] = FALSE]
          /\ chain' \in {[chain EXCEPT ![p] = c] : c \in Chains} \cup {chain}
          /\ Waiting(p)' => Waiting(p) \/ active[p]
      BY <1>0, <2>1 DEF run, pollEnds, pollAnswered, pollFails, afterError, pollRefused,
                        Waiting, Chains
    <3>2. \A q \in Pollers : active'[q] => active[q]
      BY <1>0, <3>1
    <3>3. \A q \in Pollers : Waiting(q)' => Waiting(q) \/ active[q]
      BY <1>0, <3>1 DEF Waiting
    <3> QED  BY <1>u, <1>m, <2>1, <2>2, <3>2, <3>3
  <2>3. ASSUME NEW v \in Pages, p = <<v, "main">>, kind[v] = "jobs", Waiting(p),
               active' = active, \A q \in Pollers : Waiting(q)' => Waiting(q),
               \A u \in Views :
                 \/ kind'[u] = "renewed" /\ host'[u] = v
                 \/ /\ kind'[u] = kind[u] /\ host'[u] = host[u]
                    /\ phase'[u] = phase[u] /\ age'[u] = age[u]
        PROVE  QuietWhenEnded' /\ EndedIsSilent'
    <3>1. SUFFICES ASSUME expired, ~stirred
                   PROVE  QuietWhenEnded' /\ EndedIsSilent'
      BY <2>1 DEF QuietWhenEnded, EndedIsSilent
    <3>2. v \in caught
      BY <1>0, <2>3, <3>1 DEF QuietWhenEnded
    <3>3. EndedIsSilent'
      BY <1>0, <1>v, <2>1, <2>3, <3>1, <3>2 DEF EndedIsSilent
    <3>4. ASSUME NEW u \in Views, phase'[u] \in Loading
          PROVE  kind'[u] = "renewed" /\ host'[u] \in caught
      BY <1>0, <2>3, <3>1, <3>2, <3>4 DEF QuietWhenEnded
    <3>5. ASSUME NEW u \in Pages, kind'[u] = "jobs", Waiting(<<u, "main">>)'
          PROVE  u \in caught
      BY <1>0, <1>m, <2>3, <3>1, <3>5 DEF QuietWhenEnded
    <3> QED  BY <2>1, <3>3, <3>4, <3>5 DEF QuietWhenEnded
  <2> QED  BY <1>0, <2>1, <2>2, <2>3, AnswerOpens
<1>7. CASE UNCHANGED uiVars
  BY <1>7, <1>u DEF uiVars, sessionVars, pageVars, projectVars, Waiting
<1> QED  BY <1>1, <1>2, <1>3, <1>4, <1>5, <1>6, <1>7 DEF UINext

\* The invariant of the user interface.
THEOREM UIInvariant == UISpec => []UIInv
<1>1. UIInit => UIInv
  <2> SUFFICES ASSUME UIInit PROVE UIInv
    OBVIOUS
  <2>1. SessionInv
    <3>1. warning \in BOOLEAN /\ expired \in BOOLEAN
      BY DEF UIInit, SessionInit
    <3>2. inactive = 0 /\ alarms = {} /\ ~warning
      BY DEF UIInit, SessionInit
    <3> QED
      BY TimesAssumption, <3>1, <3>2
         DEF SessionInv, SessionTypeOK, AlarmsTellTime, IdleIsWarned
  <2>2. PagesInv
    BY InitPages DEF UIInit
  <2>3. stirred \in BOOLEAN /\ caught \subseteq Pages /\ ~expired
    BY DEF UIInit, SessionInit
  <2>4. \A v \in Views : phase[v] = "none"
    BY DEF UIInit, PagesInit
  <2>5. LoadingIsRecent /\ QuietWhenEnded /\ EndedIsSilent
    BY <2>3, <2>4 DEF LoadingIsRecent, QuietWhenEnded, EndedIsSilent
  <2> QED  BY <2>1, <2>2, <2>3, <2>5 DEF UIInv
<1>2. UIInv /\ [UINext]_uiVars => UIInv'
  BY PartsKept, RecentKept, QuietKept DEF UIInv
<1> QED  BY <1>1, <1>2, PTL DEF UISpec

\* An active poller belongs to what is on the screen, to a view that was closed
\* with a request out, or to a job view asked for by a poll of a closed page.
THEOREM PollersAreExplained == UISpec => []LeakExplained
<1>1. UIInv => LeakExplained
  BY DEF UIInv, PagesInv
<1> QED  BY <1>1, UIInvariant, PTL

\* No failure of a request but a login refused twice leaves an active poller
\* without its next turn.
THEOREM FailuresSilenceNobody == UISpec => []OnlyRefusalSilences
<1>1. UIInv => OnlyRefusalSilences
  BY DEF UIInv, PagesInv
<1> QED  BY <1>1, UIInvariant, PTL

\* Once the session has ended and until the user acts again, only job views of
\* dashboards that the end has caught refreshing may poll.
THEOREM EndOfSessionIsSilent == UISpec => []EndedIsSilent
<1>1. UIInv => EndedIsSilent
  BY DEF UIInv
<1> QED  BY <1>1, UIInvariant, PTL

\* The session ends only on a user who left the warning alone for its minute.
THEOREM GraceIsGiven == UISpec => EndsOnlyAfterGrace
<1>1. UIInv /\ [UINext]_uiVars => [expired' /\ ~expired => inactive >= Timeout + Grace]_sessionVars
  <2> SUFFICES ASSUME UIInv, [UINext]_uiVars, expired', ~expired
               PROVE  inactive >= Timeout + Grace
    OBVIOUS
  <2>1. Alarm
    <3>1. ASSUME UserActs PROVE FALSE
      BY <3>1 DEF UserActs, reset, pressOK
    <3>2. ASSUME Refresh \/ Clock PROVE FALSE
      BY <3>2 DEF Refresh, Clock, increaseTimeout, sessionVars
    <3>3. ASSUME NEW v \in Views, Request(v) PROVE FALSE
      BY <3>3 DEF Request, sessionVars
    <3>4. ASSUME NEW p \in Pollers, Turn(p) \/ Answer(p) PROVE FALSE
      BY <3>4 DEF Turn, Answer, sessionVars
    <3>5. ASSUME UNCHANGED uiVars PROVE FALSE
      BY <3>5 DEF uiVars, sessionVars
    <3> QED  BY <3>1, <3>2, <3>3, <3>4, <3>5 DEF UINext
  <2>2. PICK a \in Due : alarmGoesOff(a)
    BY <2>1 DEF Alarm
  <2>3. shutdown
    BY <2>2 DEF alarmGoesOff
  <2> QED  BY <2>2, <2>3, EndIsLate DEF UIInv
<1> QED  BY <1>1, UIInvariant, PTL DEF UISpec, EndsOnlyAfterGrace
=============================================================================
