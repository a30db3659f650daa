\* A ticket and a review, two submissions and two deletions at a time, at most
\* two files a form, two rows, two files, two faults.
SPECIFICATION Spec
CONSTANTS
    ticket = ticket
    review = review
    r1 = r1
    r2 = r2
    d1 = d1
    d2 = d2
    Forms = {ticket, review}
    Reviews = {review}
    Requests = {r1, r2}
    Deleters = {d1, d2}
    Limit = 2
    MaxOwners = 2
    MaxFiles = 2
    MaxFaults = 2
SYMMETRY Symmetry
INVARIANTS FilesMatchRows FiledOnce
CHECK_DEADLOCK FALSE
