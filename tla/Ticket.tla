------------------------------- MODULE Ticket -------------------------------
(***************************************************************************)
(* The ticket service (internal/ticket): PATCH /tickets/:id/status as it   *)
(* runs in concurrent request goroutines, beside the SLA engine.           *)
(*                                                                         *)
(* UpdateStatus is four autocommitted statements, and any other goroutine  *)
(* may run between two of them:                                            *)
(*     Load    SELECT the row, CheckTransition on that snapshot;           *)
(*     Write   UPDATE ... WHERE id = ?, with no test of the status;        *)
(*     Reread  SELECT the row again;                                       *)
(*     Notify  the status-change notification, and for In Service the      *)
(*             upcoming-end reminder (Remind).                             *)
(* A request that CheckTransition refuses changes nothing and has no step. *)
(*                                                                         *)
(* One sweep of the SLA engine is SELECT (SweepSelect), bulk UPDATE with   *)
(* the predicate evaluated afresh (SweepFlag), and one notification per    *)
(* selected row (SweepNotify).  One goroutine runs the sweeps, one after   *)
(* the other; an empty SELECT changes nothing.                             *)
(*                                                                         *)
(* Time: NOW() passing a ticket's sla_deadline is the action Expire.       *)
(***************************************************************************)
EXTENDS Naturals, FiniteSets

CONSTANTS Tickets,       \* the ticket ids that may come to exist
          Customers,     \* callers with neither staff role
          Agents,        \* callers with the role service_agent
          Admins,        \* callers with the role administrator
          Owner,         \* Owner[t]: the user who files ticket t
          Requests,      \* request goroutines
          NoAgent,       \* assigned_agent_id IS NULL
          MaxRequests,   \* bound: status requests accepted in a behaviour
          MaxFaults      \* bound: crashes, lost connections and failed calls

Callers == Customers \cup Agents \cup Admins

ASSUME CallersAssumption == /\ Owner \in [Tickets -> Callers]
                            /\ Customers \cap (Agents \cup Admins) = {}
                            /\ NoAgent \notin Callers
ASSUME BoundsAssumption == MaxRequests \in Nat /\ MaxFaults \in Nat

VARIABLES
    \* Columns of the table tickets.
    status,         \* status[t]; "Absent" before the INSERT
    agent,          \* assigned_agent_id
    reason,         \* cancel_reason IS NOT NULL
    overdue,        \* sla_deadline < NOW()
    breached,       \* sla_breached = 1
    \* Memory of the goroutines.
    req,            \* req[r]: the locals of the request running in slot r
    sweep,          \* where the SLA engine is in its sweep
    toBreach,       \* the sweep's local slice toBreach
    \* What the notification hook was given.
    announced,      \* announced[t]: statuses sent as ticket_status_change
    reminded,       \* reminded[t]: an upcoming_end was sent
    breachNotices,  \* breachNotices[t]: number of sla_breach notifications
    \* History: what no column records.
    reached,        \* reached[t]: every status t has been in
    forced,         \* the tickets an administrator's UPDATE has moved
    reopens,        \* reopens[t]: times t left the statuses a sweep skips
    between,        \* late or reopened between SELECT and UPDATE of a sweep
    accepted,       \* status requests accepted so far
    faults          \* faults so far

columns == <<status, agent, reason, overdue, breached>>
sweeper == <<sweep, toBreach>>
notices == <<announced, reminded, breachNotices>>
history == <<reached, forced, reopens, between>>
vars    == <<columns, req, sweeper, notices, history, accepted, faults>>

Status == {"Accepted", "Dispatched", "In Service", "Completed", "Closed", "Cancelled"}

\* The statuses the SLA sweep leaves alone.
SweepSkips == {"Completed", "Closed", "Cancelled"}

NoRequest == [pc |-> "idle"]

\* The locals of UpdateStatus: assign is setAgent, seen the last status read.
Locals == [pc : {"loaded", "written", "reread", "remind"}, caller : Callers,
           ticket : Tickets, to : Status, assign : BOOLEAN, seen : Status]

Request == { q \in Locals : q.assign => q.caller \in Agents }

TypeOK ==
    /\ status \in [Tickets -> Status \cup {"Absent"}]
    /\ agent \in [Tickets -> Agents \cup {NoAgent}]
    /\ reason \in [Tickets -> BOOLEAN]
    /\ overdue \in [Tickets -> BOOLEAN]
    /\ breached \in [Tickets -> BOOLEAN]
    /\ req \in [Requests -> Request \cup {NoRequest}]
    /\ sweep \in {"idle", "selected", "notifying"}
    /\ toBreach \in SUBSET Tickets
    /\ announced \in [Tickets -> SUBSET Status]
    /\ reminded \in [Tickets -> BOOLEAN]
    /\ breachNotices \in [Tickets -> Nat]
    /\ reached \in [Tickets -> SUBSET Status]
    /\ forced \in SUBSET Tickets
    /\ reopens \in [Tickets -> Nat]
    /\ between \in SUBSET Tickets
    /\ accepted \in 0..MaxRequests
    /\ faults \in 0..MaxFaults

Init ==
    /\ status = [t \in Tickets |-> "Absent"]
    /\ agent = [t \in Tickets |-> NoAgent]
    /\ reason = [t \in Tickets |-> FALSE]
    /\ overdue = [t \in Tickets |-> FALSE]
    /\ breached = [t \in Tickets |-> FALSE]
    /\ req = [r \in Requests |-> NoRequest]
    /\ sweep = "idle"
    /\ toBreach = {}
    /\ announced = [t \in Tickets |-> {}]
    /\ reminded = [t \in Tickets |-> FALSE]
    /\ breachNotices = [t \in Tickets |-> 0]
    /\ reached = [t \in Tickets |-> {}]
    /\ forced = {}
    /\ reopens = [t \in Tickets |-> 0]
    /\ between = {}
    /\ accepted = 0
    /\ faults = 0

-----------------------------------------------------------------------------
(* Creation and time.                                                      *)

\* History: a sweep has read its rows and not yet flagged any.
NoteBetween(T) == between' = IF sweep = "selected" THEN between \cup T ELSE between

\* POST /tickets: the row is inserted Accepted, unassigned, with a deadline.
Create(t) ==
    /\ status[t] = "Absent"
    /\ status' = [status EXCEPT ![t] = "Accepted"]
    /\ reached' = [reached EXCEPT ![t] = {"Accepted"}]
    /\ UNCHANGED <<agent, reason, overdue, breached, req, sweeper, notices,
                   forced, reopens, between, accepted, faults>>

\* The clock passes the deadline of ticket t.
Expire(t) ==
    /\ status[t] # "Absent"
    /\ ~overdue[t]
    /\ overdue' = [overdue EXCEPT ![t] = TRUE]
    /\ NoteBetween({t})
    /\ UNCHANGED <<status, agent, reason, breached, req, sweeper, notices,
                   reached, forced, reopens, accepted, faults>>

-----------------------------------------------------------------------------
(* UpdateStatus.                                                           *)

\* Mutant of AgentSteps: an agent may put a ticket into service undispatched.
AgentStepsSkipDispatch == { <<"Accepted", "Dispatched">>, <<"Accepted", "In Service">>,
                            <<"In Service", "Completed">> }

\* The service agent's table of CheckTransition.
AgentSteps == { <<"Accepted", "Dispatched">>, <<"Dispatched", "In Service">>,
                <<"In Service", "Completed">> }

\* May the caller take a ticket of this owner from one status to the other?
CheckTransition(from, to, caller, owner) ==
    /\ from # to
    /\ \/ caller \in Admins /\ from \notin {"Closed", "Cancelled"}
       \/ caller \in Agents \ Admins /\ <<from, to>> \in AgentSteps
       \/ /\ caller \in Customers
          /\ caller = owner /\ to = "Cancelled" /\ from = "Accepted"

\* Mutant of AutoAssign: the test of the NULL column is inverted.
AutoAssignInverted(t, to, caller) ==
    to = "Dispatched" /\ agent[t] # NoAgent /\ caller \in Agents

\* setAgent: the caller becomes the assigned agent of an unassigned ticket.
AutoAssign(t, to, caller) ==
    to = "Dispatched" /\ agent[t] = NoAgent /\ caller \in Agents

\* Get and CheckTransition: the snapshot is kept in seen and assign.
Load(r, caller, t, to) ==
    /\ req[r] = NoRequest
    /\ accepted < MaxRequests
    /\ status[t] # "Absent"
    /\ CheckTransition(status[t], to, caller, Owner[t])
    /\ req' = [req EXCEPT ![r] =
                  [pc |-> "loaded", caller |-> caller, ticket |-> t, to |-> to,
                   assign |-> AutoAssign(t, to, caller), seen |-> status[t]]]
    /\ accepted' = accepted + 1
    /\ UNCHANGED <<columns, sweeper, notices, history, faults>>

\* The value written to assigned_agent_id.
Assignee(r) == req[r].caller

\* The UPDATE: by id alone.  A cancellation may carry a reason.
Write(r) ==
    /\ req[r].pc = "loaded"
    /\ LET t == req[r].ticket  to == req[r].to IN
       /\ status' = [status EXCEPT ![t] = to]
       /\ \/ /\ to = "Cancelled"
             /\ reason' = [reason EXCEPT ![t] = TRUE]
             /\ UNCHANGED agent
          \/ /\ req[r].assign
             /\ agent' = [agent EXCEPT ![t] = Assignee(r)]
             /\ UNCHANGED reason
          \/ /\ ~req[r].assign
             /\ UNCHANGED <<agent, reason>>
       /\ reached' = [reached EXCEPT ![t] = @ \cup {to}]
       /\ forced' = IF req[r].caller \in Admins THEN forced \cup {t} ELSE forced
       /\ IF status[t] \in SweepSkips /\ to \notin SweepSkips
          THEN reopens' = [reopens EXCEPT ![t] = @ + 1] /\ NoteBetween({t})
          ELSE UNCHANGED <<reopens, between>>
    /\ req' = [req EXCEPT ![r].pc = "written"]
    /\ UNCHANGED <<overdue, breached, sweeper, notices, accepted, faults>>

\* Mutant of Reread: the notification is rendered from the first snapshot.
RereadKeepsSnapshot(r) ==
    /\ req[r].pc = "written"
    /\ req' = [req EXCEPT ![r].pc = "reread"]
    /\ UNCHANGED <<columns, sweeper, notices, history, accepted, faults>>

\* updated, err := s.Get(...)
Reread(r) ==
    /\ req[r].pc = "written"
    /\ req' = [req EXCEPT ![r].pc = "reread", ![r].seen = status[req[r].ticket]]
    /\ UNCHANGED <<columns, sweeper, notices, history, accepted, faults>>

\* The status-change notification is behind; only In Service has a reminder.
Announcing(r) ==
    /\ req[r].pc = "reread"
    /\ req' = [req EXCEPT ![r] =
                  IF @.seen = "In Service" THEN [@ EXCEPT !.pc = "remind"] ELSE NoRequest]

\* notify(ticket_status_change) with the status just read.
Notify(r) ==
    /\ Announcing(r)
    /\ announced' = [announced EXCEPT ![req[r].ticket] = @ \cup {req[r].seen}]
    /\ UNCHANGED <<columns, sweeper, reminded, breachNotices, history, accepted, faults>>

\* notify(upcoming_end), once service has begun.
Remind(r) ==
    /\ req[r].pc = "remind"
    /\ reminded' = [reminded EXCEPT ![req[r].ticket] = TRUE]
    /\ req' = [req EXCEPT ![r] = NoRequest]
    /\ UNCHANGED <<columns, sweeper, announced, breachNotices, history, accepted, faults>>

-----------------------------------------------------------------------------
(* The SLA engine.                                                         *)

\* Mutant of Breaching: the sweep forgets that a flagged ticket is done.
BreachingAgain ==
    { t \in Tickets : /\ status[t] \in Status \ SweepSkips
                      /\ overdue[t] }

\* Mutant of Breaching: only tickets in service are looked at.
BreachingInService ==
    { t \in Tickets : status[t] = "In Service" /\ overdue[t] /\ ~breached[t] }

\* The rows that the WHERE clause of the SELECT and of the UPDATE picks.
Breaching ==
    { t \in Tickets : /\ status[t] \in Status \ SweepSkips
                      /\ overdue[t]
                      /\ ~breached[t] }

SweepSelect ==
    /\ sweep = "idle"
    /\ Breaching # {}
    /\ toBreach' = Breaching
    /\ sweep' = "selected"
    /\ UNCHANGED <<columns, req, notices, history, accepted, faults>>

SweepFlag ==
    /\ sweep = "selected"
    /\ breached' = [t \in Tickets |-> breached[t] \/ t \in Breaching]
    /\ sweep' = "notifying"
    /\ UNCHANGED <<status, agent, reason, overdue, req, toBreach, notices,
                   history, accepted, faults>>

\* The loop over toBreach is done with t; the sweep ends with its last row.
Sent(t) ==
    /\ sweep = "notifying"
    /\ t \in toBreach
    /\ toBreach' = toBreach \ {t}
    /\ sweep' = IF toBreach = {t} THEN "idle" ELSE "notifying"

SweepNotify(t) ==
    /\ Sent(t)
    /\ breachNotices' = [breachNotices EXCEPT ![t] = @ + 1]
    /\ UNCHANGED <<columns, req, announced, reminded, history, accepted, faults>>

-----------------------------------------------------------------------------
(* Faults.                                                                 *)

Fault == faults < MaxFaults /\ faults' = faults + 1

\* A statement of the request fails and UpdateStatus returns; or its context is
\* cancelled, and with it fails all that is left, the notifications included.
RequestFails(r) ==
    /\ Fault
    /\ req[r] # NoRequest
    /\ req' = [req EXCEPT ![r] = NoRequest]
    /\ UNCHANGED <<columns, sweeper, notices, history, accepted>>

\* The status-change notification alone fails: its error is dropped, and the
\* reminder of a service begun is sent all the same.
NotifyFails(r) ==
    /\ Fault
    /\ Announcing(r)
    /\ UNCHANGED <<columns, sweeper, notices, history, accepted>>

\* The bulk UPDATE fails, or a panic is recovered by bgjob.Safe.
SweepFails ==
    /\ Fault
    /\ sweep # "idle"
    /\ sweep' = "idle"
    /\ toBreach' = {}
    /\ UNCHANGED <<columns, req, notices, history, accepted>>

\* notify returns an error for one row; the loop goes on.
SweepDropsNotice(t) ==
    /\ Fault
    /\ Sent(t)
    /\ UNCHANGED <<columns, req, notices, history, accepted>>

\* The process dies and is started again: rows survive, goroutines do not.
Crash ==
    /\ Fault
    /\ req' = [r \in Requests |-> NoRequest]
    /\ sweep' = "idle"
    /\ toBreach' = {}
    /\ UNCHANGED <<columns, notices, history, accepted>>

-----------------------------------------------------------------------------

RequestStep(r) ==
    \/ \E caller \in Callers, t \in Tickets, to \in Status : Load(r, caller, t, to)
    \/ Write(r)
    \/ Reread(r)
    \/ Notify(r)
    \/ Remind(r)
    \/ NotifyFails(r)
    \/ RequestFails(r)

Next ==
    \/ \E t \in Tickets : Create(t) \/ Expire(t) \/ SweepNotify(t) \/ SweepDropsNotice(t)
    \/ \E r \in Requests : RequestStep(r)
    \/ SweepSelect
    \/ SweepFlag
    \/ SweepFails
    \/ Crash

\* The SLA engine's ticker fires every 60 seconds for ever, and each sweep
\* runs to its end.  Nothing is assumed of requests or of time.
Fairness ==
    /\ WF_vars(SweepSelect)
    /\ WF_vars(SweepFlag)
    /\ WF_vars(\E t \in Tickets : SweepNotify(t))

Spec == Init /\ [][Next]_vars /\ Fairness

-----------------------------------------------------------------------------
(* Properties.                                                             *)

\* What the columns and the notifications say of a ticket agrees with its
\* history, although every request writes what it decided on an old row: an
\* agent, a cancel reason, an announced status and a reminder each come from
\* a status the ticket really had; a ticket that agents dispatched has an
\* agent, even when the dispatching request saw the column as another request
\* left it; and only a failed call lets the owner be reminded of the end of a
\* service whose beginning nobody announced.
ColumnsMatchHistory ==
    \A t \in Tickets :
        /\ status[t] # "Absent" => status[t] \in reached[t]
        /\ agent[t] # NoAgent => "Dispatched" \in reached[t]
        /\ "Dispatched" \in reached[t] /\ t \notin forced => agent[t] # NoAgent
        /\ reason[t] => "Cancelled" \in reached[t]
        /\ announced[t] \subseteq reached[t]
        /\ reminded[t] => "In Service" \in reached[t]
        /\ reminded[t] /\ faults = 0 => "In Service" \in announced[t]

\* The owner gets at most one breach notification, plus one for each time the
\* ticket came back from a status the sweep skips: the SELECT and the UPDATE
\* of a sweep see different rows, so a notification can go out for a ticket
\* whose flag was not set, but never twice on one stay in the open statuses.
\* And a ticket whose flag is set gets one at least: without a fault, only one
\* whose deadline passed, or that came back, between the two statements of a
\* sweep can be flagged in silence.
BreachNoticesBounded ==
    \A t \in Tickets :
        /\ breachNotices[t] <= 1 + reopens[t]
        /\ breached[t] /\ faults = 0 =>
              breachNotices[t] > 0 \/ t \in toBreach \/ t \in between

\* When no request is under way and none was cut short, the owner has been
\* told the status the ticket has now, in whatever order the racing requests
\* wrote, re-read and notified.
StatusAnnounced ==
    (faults = 0 /\ \A r \in Requests : req[r] = NoRequest) =>
        \A t \in Tickets :
            status[t] \in announced[t] \/ reached[t] \subseteq {"Accepted"}

\* A ticket that stays open past its deadline is flagged in the end, across
\* failed sweeps and restarts.
OverdueIsFlagged ==
    \A t \in Tickets :
        t \in Breaching ~> (breached[t] \/ status[t] \in SweepSkips)

\* The service keeps its promise about stages and flags (TicketPromise).
Promise == INSTANCE TicketPromise WITH
               late <- { t \in Tickets : overdue[t] },
               flagged <- { t \in Tickets : breached[t] }

PromiseKept == Promise!Spec
=============================================================================
