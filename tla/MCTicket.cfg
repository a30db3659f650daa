\* One ticket, two request goroutines, every interleaving with the SLA engine.
SPECIFICATION Spec
CONSTANTS
    cust = cust
    ag = ag
    boss = boss
    NoAgent = NoAgent
    Tickets = {t1}
    Requests = {r1, r2}
    Customers <- MCCustomers
    Agents <- MCAgents
    Admins <- MCAdmins
    Owner <- MCOwner
    MaxRequests = 3
    MaxFaults = 1
INVARIANTS ColumnsMatchHistory BreachNoticesBounded StatusAnnounced
PROPERTIES OverdueIsFlagged PromiseKept
\* A behaviour ends when its MaxRequests requests are done.
CHECK_DEADLOCK FALSE
