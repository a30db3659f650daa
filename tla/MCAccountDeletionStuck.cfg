\* One user whose ticket names an address: violates DueIsServed.
SPECIFICATION Spec
CONSTANTS
    u1 = u1
    u2 = u2
    r1 = r1
    r2 = r2
    Users = {u1}
    Requests = {r1}
    MaxAddresses = 1
    MaxDeletions = 1
    MaxFaults = 0
PROPERTIES DueIsServed
\* A behaviour ends when its accounts are deleted and its bounds used up.
CHECK_DEADLOCK FALSE
