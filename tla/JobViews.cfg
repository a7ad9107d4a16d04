\* A jobs dashboard, or an instance list, and the page after it; two job views;
\* a session of two ticks with a warning of one, requests of one.
CONSTANTS
    Timeout = 2
    Grace = 1
    RequestTimeout = 1
    MaxPages = 2
    MaxJobViews = 2
    MaxProjects = 1
    Opens = {"list", "jobs"}
    Failures = {"silent"}
    Logouts = {FALSE}
SPECIFICATION UISpec
INVARIANTS LeakExplained EndedIsSilent
\* The browser leaves for the login page or reloads.
CHECK_DEADLOCK FALSE
