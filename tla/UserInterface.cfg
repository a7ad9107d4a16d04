\* A session of two ticks with a warning of one tick, requests of one tick; two
\* pages of any kind but a jobs dashboard, any failure and both answers to a refusal.
CONSTANTS
    Timeout = 2
    Grace = 1
    RequestTimeout = 1
    MaxPages = 2
    MaxJobViews = 0
    MaxProjects = 0
    Opens = {"plain", "list", "details", "stat"}
    Failures = {"error", "silent"}
    Logouts = {TRUE, FALSE}
SPECIFICATION UISpec
INVARIANT OnlyRefusalSilences
PROPERTIES EndsOnlyAfterGrace AbandonedSessionEnds ListKeepsAsking
\* The browser leaves for the login page or reloads.
CHECK_DEADLOCK FALSE
