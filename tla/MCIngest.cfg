\* A source of any type with two items, two request goroutines, two jobs, three runs
\* of them or two and one fault, a LIMIT of one row.
SPECIFICATION IngestSpec
CONSTANTS
    x1 = x1
    x2 = x2
    r1 = r1
    r2 = r2
    Items = {x1, x2}
    Runners = {r1, r2}
    Batch = 1
    MaxJobs = 2
    MaxRuns = 3
    MaxStamp = 2
    MaxFaults = 1
SYMMETRY Symmetry
INVARIANTS NothingElseIsPassedOver OnceWhenUndisturbed TablesAgree
\* A behaviour ends when its jobs are completed and the source is full.
CHECK_DEADLOCK FALSE
