\* Two users, two request goroutines, two addresses, two deletions, one fault.
SPECIFICATION Spec
CONSTANTS
    u1 = u1
    u2 = u2
    r1 = r1
    r2 = r2
    Users = {u1, u2}
    Requests = {r1, r2}
    MaxAddresses = 2
    MaxDeletions = 2
    MaxFaults = 1
INVARIANTS ResidueBounded AccountAgrees DefaultsBounded TicketKeepsAddress
PROPERTIES DueIsAnonymized
\* A behaviour ends when its accounts are deleted and its bounds used up.
CHECK_DEADLOCK FALSE
