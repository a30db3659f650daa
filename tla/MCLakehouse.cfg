\* One bronze file and one of another layer, a hold on a source and one of its jobs;
\* the worker, and one sweep of an administrator; two failures.
SPECIFICATION LakeSpec
CONSTANTS
    f1 = f1
    f2 = f2
    s1 = s1
    s2 = s2
    j1 = j1
    h1 = h1
    Files = {f1, f2}
    SourceOf <- MCSourceOf
    BronzeFiles = {f1}
    Holds = {h1}
    Covers <- MCCovers
    Jobs = {j1}
    Sweeps = {worker, admin}
    Worker = worker
    MaxSweeps = 1
    MaxFailures = 2
INVARIANTS DataKept MisplacedBounded
PROPERTIES HoldsHonored RetentionKept
