\* One user with one post at a time, two administrators' requests, one term, three
\* changes of the dictionary; three posts in three ticks; two starts; one fault.
SPECIFICATION Spec
CONSTANTS
    u1 = u1
    t1 = t1
    t2 = t2
    a1 = a1
    a2 = a2
    p1 = p1
    p2 = p2
    Users = {u1}
    Limit = 2
    Window = 2
    MaxTime = 2
    MaxPasses = 3
    MaxBoots = 2
    Terms = {t1}
    Admins = {a1, a2}
    Posters = {p1}
    Author <- AuthorOf
    MaxChanges = 3
    MaxFaults = 1
SYMMETRY Symmetry
INVARIANTS WindowKept CacheAgrees ScreenedAsPromised
CHECK_DEADLOCK FALSE
