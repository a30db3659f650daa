\* Two logins and two requests at a time, four calls in all; four ticks; one error.
SPECIFICATION AuthSpec
CONSTANTS
    Logins = {l1, l2}
    Requests = {r1, r2}
    Sessions = {s1}
    Threshold = 2
    Window = 2
    Lock = 3
    Idle = 2
    Lifetime = 3
    MaxTime = 4
    MaxCalls = 4
    MaxErrors = 1
SYMMETRY Symmetry
INVARIANTS GuessesBounded LockAnnounced
PROPERTIES ExpiredOnlyIfIdle
CHECK_DEADLOCK FALSE
