\* Two hosts; a host that was tried twice is given up: three submissions.
CONSTANTS
    Agents = {a1, a2}
    MaxTries = 1
    MaxExecutors = 2
    MaxMail = 2
SPECIFICATION RemoteSpec
INVARIANTS StartedOnce TriesBounded NoSilentStop
PROPERTIES ActionAnswered
\* The actor stops when it has answered.
CHECK_DEADLOCK FALSE
