\* Two users, two request goroutines, two exports, batches of one row, one fault.
SPECIFICATION Spec
CONSTANTS
    u1 = u1
    u2 = u2
    r1 = r1
    r2 = r2
    Users = {u1, u2}
    Requests = {r1, r2}
    MaxExports = 2
    BatchLimit = 1
    MaxFaults = 1
INVARIANTS LossBounded DownloadIntact
PROPERTIES PromiseKept PendingIsServed OverdueIsPurged
