\* Three rows of two subjects, pages of two, three requests of which two
\* may overlap, one call of Dispatch.  The catalogue is that of one category:
\* with all of them UpdateOffering would change nothing that is shown.
SPECIFICATION Spec
CONSTANTS
    o1 = o1
    o2 = o2
    c1 = c1
    q1 = q1
    q2 = q2
    d1 = d1
    Subjects = {o1, o2, c1}
    Codes = {c1}
    Marks = {{FALSE}}
    Queries = {{o1}, {o2}}
    Limits = {0}
    Slots = {q1, q2}
    Dispatches = {d1}
    MaxLimit = 3
    DefaultLimit = 2
    MaxRows = 3
    MaxAsks = 3
SYMMETRY Symmetry
INVARIANTS ListComplete NoticeDelivered
CHECK_DEADLOCK FALSE
