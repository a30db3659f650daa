---------------------------- MODULE TicketProofs ----------------------------
(***************************************************************************)
(* Theorems about Ticket, for every set of tickets, callers and request    *)
(* goroutines and every bound.                                             *)
(*                                                                         *)
(* RequestInv says what a request may still rely on between its SELECT and *)
(* its UPDATE: the status it saw is one the ticket has had, and a column   *)
(* it saw assigned is assigned still.  SweepInv is the accounting of       *)
(* breach notifications, sent and pending; SilentInv says which flagged    *)
(* tickets may go without one.                                             *)
(***************************************************************************)
EXTENDS Ticket, TLAPS

\* A step that the code lets a customer or a service agent take.
OnPath(from, to) == <<from, to>> \in AgentSteps \cup {<<"Accepted", "Cancelled">>}

\* What the owner of t may have heard: what was announced, and anything once a
\* failed call can have lost an announcement.
Heard == [t \in Tickets |-> IF faults = 0 THEN announced[t] ELSE Status]

\* What the locals q of a request may rely on, given the history rch, the
\* assigned agents ag and the statuses ann the owners have heard: the status
\* seen is one the ticket has had; a request about to write takes a step of the
\* path or is an administrator's; it assigns the ticket, or need not; and a
\* request about to remind has seen and announced the service.
Sound(q, rch, ag, ann) ==
    /\ q.seen \in rch[q.ticket]
    /\ q.pc = "loaded" /\ q.caller \notin Admins => OnPath(q.seen, q.to)
    /\ q.pc = "loaded" /\ q.assign => q.to = "Dispatched"
    /\ (q.pc = "loaded" /\ q.to = "Dispatched" /\ q.caller \notin Admins /\ ~q.assign) =>
          ag[q.ticket] # NoAgent
    /\ q.pc = "remind" => q.seen = "In Service" /\ "In Service" \in ann[q.ticket]

RequestInv ==
    \A r \in Requests : req[r] # NoRequest => Sound(req[r], reached, agent, Heard)

\* Requests are about tickets that exist: TypeOK is inductive with this part.
TicketsExist ==
    \A r \in Requests : req[r] # NoRequest => status[req[r].ticket] # "Absent"

TypeInv == TypeOK /\ TicketsExist

AbsentInv == \A t \in Tickets : status[t] = "Absent" => reached[t] = {}

HistoryInv == TypeInv /\ AbsentInv /\ RequestInv /\ ColumnsMatchHistory

Open(t) == status[t] \in Status \ SweepSkips

\* Notifications of ticket t: sent, or due in the sweep under way.
Due(t) == breachNotices[t] + (IF t \in toBreach THEN 1 ELSE 0)

\* No more is sent and due than the stays of t in the open statuses allow, and
\* one less when the next sweep may still pick it.
Counted(t) ==
    /\ Due(t) <= 1 + reopens[t]
    /\ Open(t) /\ ~breached[t] /\ ~(sweep = "selected" /\ t \in toBreach) =>
          Due(t) <= reopens[t]
    /\ status[t] = "Absent" => Due(t) = 0

SweepInv ==
    /\ TypeInv
    /\ sweep = "idle" => toBreach = {}
    /\ sweep = "selected" => \A t \in toBreach : overdue[t]
    /\ \A t \in Tickets : Counted(t)

\* Flagged, with no notice sent or due, and neither late nor back too recently
\* for the SELECT of the sweep that flagged it.
Silent(t) == breached[t] /\ breachNotices[t] = 0 /\ t \notin toBreach /\ t \notin between

\* Between its two statements a sweep has seen all that it will flag, except
\* what became late or open in between: the induction hypothesis.
SilentInv ==
    /\ TypeInv
    /\ \A t \in Tickets : status[t] = "Absent" => ~overdue[t]
    /\ sweep = "selected" => Breaching \subseteq toBreach \cup between
    /\ faults = 0 => \A t \in Tickets : ~Silent(t)

\* The request r will still announce the status that t has now.
WillAnnounce(r, t) ==
    /\ req[r] # NoRequest
    /\ req[r].ticket = t
    /\ req[r].pc = "written" \/ (req[r].pc = "reread" /\ req[r].seen = status[t])

Told(t) == \/ status[t] \in announced[t]
           \/ reached[t] \subseteq {"Accepted"}
           \/ \E r \in Requests : WillAnnounce(r, t)

AnnouncedInv ==
    /\ TypeInv
    /\ faults = 0 => \A t \in Tickets : Told(t)

-----------------------------------------------------------------------------
(* Type correctness.                                                       *)

\* A request that is past its first SELECT has its locals.
LEMMA ActiveRequest ==
    ASSUME TypeOK, NEW r \in Requests, req[r].pc # "idle"
    PROVE  req[r] \in Request /\ req[r] # NoRequest
BY DEF TypeOK, NoRequest

\* Changing the program counter leaves a request well formed.
LEMMA AtStep ==
    ASSUME NEW q \in Request, NEW pc \in {"loaded", "written", "reread", "remind"}
    PROVE  [q EXCEPT !.pc = pc] \in Request
BY DEF Request, Locals

LEMMA InitType == Init => TypeInv
BY BoundsAssumption DEF Init, TypeOK, TypeInv, TicketsExist

LEMMA NextType == TypeInv /\ [Next]_vars => TypeInv'
<1> SUFFICES ASSUME TypeInv, [Next]_vars
             PROVE  TypeInv'
  OBVIOUS
<1> USE CallersAssumption, BoundsAssumption DEF TypeInv, TypeOK
<1>1. ASSUME NEW t \in Tickets, Create(t)
      PROVE  TypeInv'
  <2>1. TypeOK'
    BY <1>1 DEF Create, Status, sweeper, notices
  <2> QED
    BY <1>1, <2>1 DEF Create, TicketsExist
<1>2. ASSUME NEW t \in Tickets, Expire(t)
      PROVE  TypeInv'
  BY <1>2 DEF Expire, NoteBetween, TicketsExist, sweeper, notices
<1>3. ASSUME NEW t \in Tickets, SweepNotify(t)
      PROVE  TypeInv'
  BY <1>3 DEF SweepNotify, Sent, TicketsExist, columns, history
<1>4. ASSUME NEW t \in Tickets, SweepDropsNotice(t)
      PROVE  TypeInv'
  BY <1>4 DEF SweepDropsNotice, Sent, Fault, TicketsExist, columns, notices, history
<1>5. ASSUME NEW r \in Requests, NEW caller \in Callers, NEW t \in Tickets,
             NEW to \in Status, Load(r, caller, t, to)
      PROVE  TypeInv'
  <2>1. [pc |-> "loaded", caller |-> caller, ticket |-> t, to |-> to,
         assign |-> AutoAssign(t, to, caller), seen |-> status[t]] \in Request
    BY <1>5 DEF Load, Request, Locals, AutoAssign
  <2>2. TypeOK'
    BY <1>5, <2>1 DEF Load, columns, sweeper, notices, history
  <2> QED
    BY <1>5, <2>2 DEF Load, TicketsExist, columns
<1>6. ASSUME NEW r \in Requests, Write(r)
      PROVE  TypeInv'
  <2>1. req[r] \in Request /\ req[r] # NoRequest
    BY <1>6, ActiveRequest DEF Write
  <2>2. [req[r] EXCEPT !.pc = "written"] \in Request
    BY <2>1, AtStep
  <2>3. req' = [req EXCEPT ![r] = [req[r] EXCEPT !.pc = "written"]]
    BY <1>6 DEF Write
  <2>4. req' \in [Requests -> Request \cup {NoRequest}]
    BY <2>2, <2>3
  <2>5. /\ req[r].ticket \in Tickets
        /\ req[r].to \in Status
        /\ req[r].assign => req[r].caller \in Agents
    BY <2>1 DEF Request, Locals
  <2>6. agent' \in [Tickets -> Agents \cup {NoAgent}] /\ reason' \in [Tickets -> BOOLEAN]
    BY <1>6, <2>5 DEF Write, Assignee
  <2>7. /\ status' \in [Tickets -> Status \cup {"Absent"}]
        /\ reached' \in [Tickets -> SUBSET Status]
        /\ forced' \in SUBSET Tickets
        /\ reopens' \in [Tickets -> Nat]
        /\ between' \in SUBSET Tickets
    BY <1>6, <2>5 DEF Write, NoteBetween
  <2>8. TypeOK'
    BY <1>6, <2>4, <2>6, <2>7 DEF Write, sweeper, notices
  <2>9. \A u \in Requests : req'[u] # NoRequest =>
            req[u] # NoRequest /\ req'[u].ticket = req[u].ticket
    BY <2>1, <2>3 DEF Request, Locals
  <2>10. TicketsExist'
    BY <1>6, <2>5, <2>9 DEF Write, TicketsExist, Status, Request, Locals
  <2> QED
    BY <2>8, <2>10
<1>7. ASSUME NEW r \in Requests, Reread(r)
      PROVE  TypeInv'
  <2>1. req[r] \in Request /\ req[r] # NoRequest
    BY <1>7, ActiveRequest DEF Reread
  <2>2. status[req[r].ticket] \in Status
    BY <2>1 DEF TicketsExist, Request, Locals
  <2>3. [req[r] EXCEPT !.pc = "reread", !.seen = status[req[r].ticket]] \in Request
    BY <2>1, <2>2 DEF Request, Locals
  <2>4. req' = [req EXCEPT ![r] = [req[r] EXCEPT !.pc = "reread",
                                                 !.seen = status[req[r].ticket]]]
    BY <1>7 DEF Reread
  <2>5. req' \in [Requests -> Request \cup {NoRequest}]
    BY <2>3, <2>4
  <2>6. TypeOK'
    BY <1>7, <2>5 DEF Reread, columns, sweeper, notices, history
  <2>7. \A u \in Requests : req'[u] # NoRequest =>
            req[u] # NoRequest /\ req'[u].ticket = req[u].ticket
    BY <2>1, <2>4 DEF Request, Locals
  <2> QED
    BY <1>7, <2>6, <2>7 DEF Reread, TicketsExist, columns
<1>8. ASSUME NEW r \in Requests, Notify(r) \/ NotifyFails(r)
      PROVE  TypeInv'
  <2>1. req[r] \in Request /\ req[r] # NoRequest /\ Announcing(r)
    BY <1>8, ActiveRequest DEF Notify, NotifyFails, Announcing
  <2>2. [req[r] EXCEPT !.pc = "remind"] \in Request
    BY <2>1, AtStep
  <2>3. /\ req' \in [Requests -> Request \cup {NoRequest}]
        /\ \A u \in Requests : req'[u] # NoRequest =>
              req[u] # NoRequest /\ req'[u].ticket = req[u].ticket
    BY <2>1, <2>2 DEF Announcing, Request, Locals
  <2>4. announced' \in [Tickets -> SUBSET Status] /\ faults' \in 0..MaxFaults
    BY <1>8, <2>1 DEF Notify, NotifyFails, Fault, Request, Locals, notices
  <2>5. UNCHANGED <<columns, sweeper, reminded, breachNotices, history, accepted>>
    BY <1>8 DEF Notify, NotifyFails, notices
  <2>6. TypeOK'
    BY <2>3, <2>4, <2>5 DEF columns, sweeper, history
  <2> QED
    BY <2>3, <2>5, <2>6 DEF TicketsExist, columns
<1>9. ASSUME NEW r \in Requests, Remind(r)
      PROVE  TypeInv'
  <2>1. req[r] \in Request
    BY <1>9, ActiveRequest DEF Remind
  <2> QED
    BY <1>9, <2>1 DEF Remind, Request, Locals, TicketsExist, columns, sweeper, history
<1>10. ASSUME NEW r \in Requests, RequestFails(r)
       PROVE  TypeInv'
  BY <1>10 DEF RequestFails, Fault, TicketsExist, columns, sweeper, notices, history
<1>11. CASE SweepSelect
  BY <1>11 DEF SweepSelect, Breaching, TicketsExist, columns, notices, history
<1>12. CASE SweepFlag
  BY <1>12 DEF SweepFlag, Breaching, TicketsExist, notices, history
<1>13. CASE SweepFails
  BY <1>13 DEF SweepFails, Fault, TicketsExist, columns, notices, history
<1>14. CASE Crash
  BY <1>14 DEF Crash, Fault, TicketsExist, columns, notices, history
<1>15. CASE UNCHANGED vars
  BY <1>15 DEF vars, TicketsExist, columns, sweeper, notices, history
<1> QED
  BY <1>1, <1>2, <1>3, <1>4, <1>5, <1>6, <1>7, <1>8, <1>9, <1>10, <1>11, <1>12,
     <1>13, <1>14, <1>15 DEF Next, RequestStep

\* Every variable of the ticket service keeps its type.
THEOREM TypeCorrect == Spec => []TypeOK
BY InitType, NextType, PTL DEF Spec, TypeInv

-----------------------------------------------------------------------------
(* Columns and notifications agree with the history.                       *)

LEMMA InitHistory == Init => HistoryInv
<1> SUFFICES ASSUME Init
             PROVE  HistoryInv
  OBVIOUS
<1>1. TypeInv
  BY InitType
<1>2. RequestInv
  BY DEF Init, RequestInv
<1>3. AbsentInv /\ ColumnsMatchHistory
  BY DEF Init, AbsentInv, ColumnsMatchHistory
<1> QED
  BY <1>1, <1>2, <1>3 DEF HistoryInv

\* What a request relies on survives the steps of the others.
LEMMA SoundGrows ==
    ASSUME NEW q \in Locals, NEW rch, NEW ag, NEW ann, NEW rch2, NEW ag2, NEW ann2,
           Sound(q, rch, ag, ann),
           \A t \in Tickets : /\ rch[t] \subseteq rch2[t]
                              /\ ann[t] \subseteq ann2[t]
                              /\ ag[t] # NoAgent => ag2[t] # NoAgent
    PROVE  Sound(q, rch2, ag2, ann2)
<1>1. q.ticket \in Tickets
  BY DEF Locals
<1> QED
  BY <1>1 DEF Sound

\* The columns and the history only grow.
Grows == \A t \in Tickets : /\ reached[t] \subseteq reached'[t]
                            /\ Heard[t] \subseteq Heard'[t]
                            /\ agent[t] # NoAgent => agent'[t] # NoAgent

\* What is announced stays heard, and no failure makes it unheard.
LEMMA NothingForgotten ==
    ASSUME TypeInv, TypeInv', faults' = 0 => faults = 0,
           \A t \in Tickets : /\ reached[t] \subseteq reached'[t]
                              /\ announced[t] \subseteq announced'[t]
                              /\ agent[t] # NoAgent => agent'[t] # NoAgent
    PROVE  Grows
<1>1. ASSUME NEW t \in Tickets
      PROVE  Heard[t] \subseteq Heard'[t]
  BY DEF Heard, TypeInv, TypeOK
<1> QED
  BY <1>1 DEF Grows

\* A step of one request leaves the others what they rely on.
LEMMA OthersSound ==
    ASSUME HistoryInv, Grows, NEW r,
           \A u \in Requests \ {r} : req'[u] = req[u] \/ req'[u] = NoRequest,
           r \in Requests => \/ req'[r] = NoRequest
                             \/ Sound(req'[r], reached', agent', Heard')
    PROVE  RequestInv'
<1> SUFFICES ASSUME NEW u \in Requests, req'[u] # NoRequest
             PROVE  Sound(req'[u], reached', agent', Heard')
  BY DEF RequestInv
<1>1. CASE u = r
  BY <1>1
<1>2. CASE u # r
  <2>1. req'[u] = req[u] /\ req[u] # NoRequest
    BY <1>2
  <2>2. req[u] \in Locals
    BY <2>1 DEF HistoryInv, TypeInv, TypeOK, Request
  <2>3. Sound(req[u], reached, agent, Heard)
    BY <2>1 DEF HistoryInv, RequestInv
  <2> QED
    BY <2>1, <2>2, <2>3, SoundGrows DEF Grows
<1> QED
  BY <1>1, <1>2

\* Steps that only end requests or run the sweep touch nothing of the history.
LEMMA QuietStep ==
    ASSUME HistoryInv, TypeInv', faults' = 0 => faults = 0,
           UNCHANGED <<status, agent, reason, announced, reminded, reached, forced>>,
           \A r \in Requests : req'[r] = req[r] \/ req'[r] = NoRequest
    PROVE  HistoryInv'
<1>1. AbsentInv' /\ ColumnsMatchHistory'
  BY DEF HistoryInv, AbsentInv, ColumnsMatchHistory
<1>2. Grows
  BY NothingForgotten DEF HistoryInv
<1>3. RequestInv'
  <2> SUFFICES ASSUME NEW r \in Requests, req'[r] # NoRequest
               PROVE  Sound(req'[r], reached', agent', Heard')
    BY DEF RequestInv
  <2>1. req'[r] = req[r] /\ req[r] # NoRequest
    OBVIOUS
  <2>2. req[r] \in Locals /\ Sound(req[r], reached, agent, Heard)
    BY <2>1 DEF HistoryInv, RequestInv, TypeInv, TypeOK, Request
  <2> QED
    BY <1>2, <2>1, <2>2, SoundGrows DEF Grows
<1> QED
  BY <1>1, <1>3 DEF HistoryInv

LEMMA LoadHistory ==
    ASSUME HistoryInv, TypeInv', NEW r \in Requests, NEW caller \in Callers,
           NEW t \in Tickets, NEW to \in Status, Load(r, caller, t, to)
    PROVE  HistoryInv'
<1> DEFINE q == [pc |-> "loaded", caller |-> caller, ticket |-> t, to |-> to,
                 assign |-> AutoAssign(t, to, caller), seen |-> status[t]]
<1>1. /\ req'[r] = q
      /\ \A u \in Requests \ {r} : req'[u] = req[u]
      /\ UNCHANGED <<status, agent, reason, announced, reminded, reached, forced, faults>>
  BY DEF Load, HistoryInv, TypeInv, TypeOK, columns, notices, history
<1>2. AbsentInv' /\ ColumnsMatchHistory'
  BY <1>1 DEF HistoryInv, AbsentInv, ColumnsMatchHistory
<1>3. Grows
  BY <1>1, NothingForgotten DEF HistoryInv
<1>4. CheckTransition(status[t], to, caller, Owner[t]) /\ status[t] # "Absent"
  BY DEF Load
<1>5. status[t] \in reached[t]
  BY <1>4 DEF HistoryInv, ColumnsMatchHistory
<1>6. caller \notin Admins => OnPath(status[t], to)
  BY <1>4 DEF CheckTransition, OnPath
<1>7. AutoAssign(t, to, caller) => to = "Dispatched"
  BY DEF AutoAssign
<1>8. (to = "Dispatched" /\ caller \notin Admins /\ ~AutoAssign(t, to, caller)) =>
         agent[t] # NoAgent
  BY <1>4 DEF AutoAssign, CheckTransition
<1> HIDE DEF q
<1>9. /\ q.pc = "loaded" /\ q.caller = caller /\ q.ticket = t /\ q.to = to
      /\ q.assign = AutoAssign(t, to, caller) /\ q.seen = status[t]
  BY DEF q
<1>10. Sound(q, reached, agent, Heard)
  BY <1>5, <1>6, <1>7, <1>8, <1>9 DEF Sound
<1>11. Heard' = Heard
  BY <1>1 DEF Heard
<1>12. RequestInv'
  BY <1>1, <1>3, <1>10, <1>11, OthersSound
<1> QED
  BY <1>2, <1>12 DEF HistoryInv

LEMMA WriteHistory ==
    ASSUME HistoryInv, TypeInv', NEW r \in Requests, Write(r)
    PROVE  HistoryInv'
<1> DEFINE t == req[r].ticket
           to == req[r].to
<1> USE DEF HistoryInv, TypeInv
<1>1. /\ req[r] \in Request /\ req[r] # NoRequest /\ req[r].pc = "loaded"
      /\ t \in Tickets /\ to \in Status
      /\ req[r].assign => req[r].caller \in Agents
  BY ActiveRequest DEF Write, Request, Locals
<1>2. Sound(req[r], reached, agent, Heard)
  BY <1>1 DEF RequestInv
<1>3. /\ req'[r] = [req[r] EXCEPT !.pc = "written"]
      /\ \A u \in Requests \ {r} : req'[u] = req[u]
      /\ UNCHANGED <<announced, reminded, faults>>
  BY DEF Write, TypeOK, notices
<1>4. /\ \A s \in Tickets : status'[s] = IF s = t THEN to ELSE status[s]
      /\ \A s \in Tickets : reached'[s] = IF s = t THEN reached[t] \cup {to} ELSE reached[s]
      /\ forced \subseteq forced'
      /\ req[r].caller \in Admins => t \in forced'
  BY <1>1 DEF Write, TypeOK
<1>5. \/ /\ to = "Cancelled"
         /\ \A s \in Tickets : reason'[s] = (s = t \/ reason[s])
         /\ UNCHANGED agent
      \/ /\ req[r].assign
         /\ \A s \in Tickets : agent'[s] = IF s = t THEN req[r].caller ELSE agent[s]
         /\ UNCHANGED reason
      \/ ~req[r].assign /\ UNCHANGED <<agent, reason>>
  BY <1>1 DEF Write, Assignee, TypeOK
<1>6. req[r].assign => to = "Dispatched" /\ req[r].caller # NoAgent
  BY <1>1, <1>2, CallersAssumption DEF Sound, Callers
<1>7. AbsentInv'
  BY <1>1, <1>4 DEF AbsentInv, Status
<1>8. \A s \in Tickets : agent[s] # NoAgent => agent'[s] # NoAgent
  BY <1>5, <1>6
<1>9. Grows
  BY <1>3, <1>4, <1>8, NothingForgotten
<1>10. (to = "Dispatched" /\ req[r].caller \notin Admins) => agent'[t] # NoAgent
  BY <1>1, <1>2, <1>5, <1>6, <1>8 DEF Sound
<1>11. ColumnsMatchHistory'
  <2> SUFFICES ASSUME NEW s \in Tickets
               PROVE  /\ status'[s] # "Absent" => status'[s] \in reached'[s]
                      /\ agent'[s] # NoAgent => "Dispatched" \in reached'[s]
                      /\ "Dispatched" \in reached'[s] /\ s \notin forced' =>
                            agent'[s] # NoAgent
                      /\ reason'[s] => "Cancelled" \in reached'[s]
                      /\ announced'[s] \subseteq reached'[s]
                      /\ reminded'[s] => "In Service" \in reached'[s]
                      /\ reminded'[s] /\ faults' = 0 => "In Service" \in announced'[s]
    BY DEF ColumnsMatchHistory
  <2> USE DEF ColumnsMatchHistory
  <2>1. status'[s] # "Absent" => status'[s] \in reached'[s]
    BY <1>4
  <2>2. agent'[s] # NoAgent => "Dispatched" \in reached'[s]
    BY <1>4, <1>5, <1>6
  <2>3. "Dispatched" \in reached'[s] /\ s \notin forced' => agent'[s] # NoAgent
    <3> SUFFICES ASSUME "Dispatched" \in reached'[s], s \notin forced'
                 PROVE  agent'[s] # NoAgent
      OBVIOUS
    <3>1. CASE "Dispatched" \in reached[s]
      BY <1>4, <1>8, <3>1
    <3>2. CASE "Dispatched" \notin reached[s]
      <4>1. s = t
        BY <1>4, <3>2
      <4>2. reached'[t] = reached[t] \cup {to}
        BY <1>1, <1>4
      <4>3. to = "Dispatched"
        BY <3>2, <4>1, <4>2
      <4> QED
        BY <1>4, <1>10, <4>1, <4>3
    <3> QED
      BY <3>1, <3>2
  <2>4. reason'[s] => "Cancelled" \in reached'[s]
    BY <1>4, <1>5
  <2>5. announced'[s] \subseteq reached'[s]
    BY <1>3, <1>4
  <2>6. reminded'[s] => "In Service" \in reached'[s]
    BY <1>3, <1>4
  <2>7. reminded'[s] /\ faults' = 0 => "In Service" \in announced'[s]
    BY <1>3
  <2> QED
    BY <2>1, <2>2, <2>3, <2>4, <2>5, <2>6, <2>7
<1>12. Sound(req'[r], reached', agent', Heard')
  <2>1. /\ req'[r].pc = "written"
        /\ req'[r].ticket = t
        /\ req'[r].seen = req[r].seen
    BY <1>1, <1>3 DEF Request, Locals
  <2> QED
    BY <1>1, <1>2, <1>9, <2>1 DEF Sound, Grows
<1>13. RequestInv'
  BY <1>3, <1>9, <1>12, OthersSound
<1> QED
  BY <1>7, <1>11, <1>13

LEMMA RereadHistory ==
    ASSUME HistoryInv, TypeInv', NEW r \in Requests, Reread(r)
    PROVE  HistoryInv'
<1> USE DEF HistoryInv, TypeInv
<1>1. req[r] \in Request /\ req[r] # NoRequest /\ req[r].ticket \in Tickets
  BY ActiveRequest DEF Reread, Request, Locals
<1>2. status[req[r].ticket] \in reached[req[r].ticket]
  BY <1>1 DEF TicketsExist, ColumnsMatchHistory
<1>3. /\ req'[r] = [req[r] EXCEPT !.pc = "reread", !.seen = status[req[r].ticket]]
      /\ \A u \in Requests \ {r} : req'[u] = req[u]
      /\ UNCHANGED <<status, agent, reason, announced, reminded, reached, forced, faults>>
  BY DEF Reread, TypeOK, columns, notices, history
<1>4. AbsentInv' /\ ColumnsMatchHistory'
  BY <1>3 DEF AbsentInv, ColumnsMatchHistory
<1>5. Grows
  BY <1>3, NothingForgotten
<1>6. Sound(req'[r], reached', agent', Heard')
  <2>1. /\ req'[r].pc = "reread"
        /\ req'[r].ticket = req[r].ticket
        /\ req'[r].seen = status[req[r].ticket]
    BY <1>1, <1>3 DEF Request, Locals
  <2> QED
    BY <1>2, <1>3, <2>1 DEF Sound
<1>7. RequestInv'
  BY <1>3, <1>5, <1>6, OthersSound
<1> QED
  BY <1>4, <1>7

\* The request goes on from its notification, whether that was sent or lost.
LEMMA AnnouncingHistory ==
    ASSUME HistoryInv, TypeInv', NEW r \in Requests, Announcing(r),
           \/ announced' = [announced EXCEPT ![req[r].ticket] = @ \cup {req[r].seen}] /\ faults' = faults
           \/ announced' = announced /\ faults' = faults + 1,
           UNCHANGED <<status, agent, reason, reminded, reached, forced>>
    PROVE  HistoryInv'
<1> DEFINE t == req[r].ticket
<1> USE DEF HistoryInv, TypeInv
<1>1. req[r] \in Request /\ req[r] # NoRequest /\ t \in Tickets
  BY ActiveRequest DEF Announcing, Request, Locals
<1>2. req[r].seen \in reached[t]
  BY <1>1 DEF RequestInv, Sound
<1>3. /\ \A s \in Tickets : /\ announced[s] \subseteq announced'[s]
                            /\ announced'[s] \subseteq announced[s] \cup (IF s = t THEN {req[r].seen} ELSE {})
      /\ faults' = 0 => faults = 0 /\ req[r].seen \in announced'[t]
  <2>1. CASE /\ announced' = [announced EXCEPT ![t] = @ \cup {req[r].seen}]
             /\ faults' = faults
    BY <1>1, <2>1 DEF TypeOK
  <2>2. CASE announced' = announced /\ faults' = faults + 1
    BY <2>2 DEF TypeOK
  <2> QED
    BY <2>1, <2>2
<1>4. \A u \in Requests \ {r} : req'[u] = req[u]
  BY DEF Announcing, TypeOK
<1>5. AbsentInv' /\ ColumnsMatchHistory'
  <2>1. \A s \in Tickets : announced'[s] \subseteq reached'[s]
    BY <1>2, <1>3 DEF ColumnsMatchHistory
  <2>2. \A s \in Tickets : reminded'[s] /\ faults' = 0 => "In Service" \in announced'[s]
    BY <1>3 DEF ColumnsMatchHistory
  <2> QED
    BY <2>1, <2>2 DEF AbsentInv, ColumnsMatchHistory
<1>6. Grows
  BY <1>3, NothingForgotten
<1>7. req'[r] = NoRequest \/ Sound(req'[r], reached', agent', Heard')
  <2> SUFFICES ASSUME req'[r] # NoRequest
               PROVE  Sound(req'[r], reached', agent', Heard')
    OBVIOUS
  <2>1. req[r].seen = "In Service" /\ req'[r] = [req[r] EXCEPT !.pc = "remind"]
    BY DEF Announcing, TypeOK
  <2>2. req'[r].pc = "remind" /\ req'[r].ticket = t /\ req'[r].seen = "In Service"
    BY <1>1, <2>1 DEF Request, Locals
  <2>3. "In Service" \in Heard'[t]
    BY <1>1, <1>3, <2>1 DEF Heard, Status
  <2> QED
    BY <1>2, <2>1, <2>2, <2>3 DEF Sound
<1>8. RequestInv'
  BY <1>3, <1>4, <1>6, <1>7, OthersSound
<1> QED
  BY <1>5, <1>8

LEMMA RemindHistory ==
    ASSUME HistoryInv, TypeInv', NEW r \in Requests, Remind(r)
    PROVE  HistoryInv'
<1> DEFINE t == req[r].ticket
<1> USE DEF HistoryInv, TypeInv
<1>1. req[r] \in Request /\ req[r] # NoRequest /\ t \in Tickets
  BY ActiveRequest DEF Remind, Request, Locals
<1>2. "In Service" \in reached[t] /\ "In Service" \in Heard[t]
  BY <1>1 DEF RequestInv, Sound, Remind
<1>3. /\ \A s \in Tickets : reminded'[s] = (s = t \/ reminded[s])
      /\ req'[r] = NoRequest
      /\ \A u \in Requests \ {r} : req'[u] = req[u]
      /\ UNCHANGED <<status, agent, reason, announced, reached, forced, faults>>
  BY <1>1 DEF Remind, TypeOK, columns, history
<1>4. faults = 0 => "In Service" \in announced[t]
  BY <1>1, <1>2 DEF Heard
<1>5. AbsentInv' /\ ColumnsMatchHistory'
  BY <1>2, <1>3, <1>4 DEF AbsentInv, ColumnsMatchHistory
<1>6. Grows
  BY <1>3, NothingForgotten
<1>7. RequestInv'
  BY <1>3, <1>6, OthersSound
<1> QED
  BY <1>5, <1>7

LEMMA CreateHistory ==
    ASSUME HistoryInv, TypeInv', NEW t \in Tickets, Create(t)
    PROVE  HistoryInv'
<1> USE DEF HistoryInv, TypeInv
<1>1. /\ \A s \in Tickets : /\ status'[s] = IF s = t THEN "Accepted" ELSE status[s]
                            /\ reached'[s] = IF s = t THEN {"Accepted"} ELSE reached[s]
      /\ reached[t] = {}
      /\ UNCHANGED <<req, agent, reason, announced, reminded, forced, faults>>
  BY DEF Create, TypeOK, AbsentInv, notices
<1>2. AbsentInv' /\ ColumnsMatchHistory'
  <2> SUFFICES ASSUME NEW s \in Tickets
               PROVE  /\ status'[s] = "Absent" => reached'[s] = {}
                      /\ status'[s] # "Absent" => status'[s] \in reached'[s]
                      /\ agent'[s] # NoAgent => "Dispatched" \in reached'[s]
                      /\ "Dispatched" \in reached'[s] /\ s \notin forced' =>
                            agent'[s] # NoAgent
                      /\ reason'[s] => "Cancelled" \in reached'[s]
                      /\ announced'[s] \subseteq reached'[s]
                      /\ reminded'[s] => "In Service" \in reached'[s]
                      /\ reminded'[s] /\ faults' = 0 => "In Service" \in announced'[s]
    BY DEF AbsentInv, ColumnsMatchHistory
  <2>1. CASE s = t
    <3>1. agent[t] = NoAgent /\ ~reason[t] /\ announced[t] = {} /\ ~reminded[t]
      BY <1>1 DEF ColumnsMatchHistory, TypeOK
    <3>2. /\ agent'[s] = NoAgent /\ ~reason'[s] /\ announced'[s] = {} /\ ~reminded'[s]
          /\ status'[s] = "Accepted" /\ reached'[s] = {"Accepted"}
      BY <1>1, <2>1, <3>1
    <3> QED
      BY <3>2
  <2>2. CASE s # t
    BY <1>1, <2>2 DEF AbsentInv, ColumnsMatchHistory
  <2> QED
    BY <2>1, <2>2
<1>3. Grows
  BY <1>1, NothingForgotten
<1>4. RequestInv'
  <2> SUFFICES ASSUME NEW u \in Requests, req'[u] # NoRequest
               PROVE  Sound(req'[u], reached', agent', Heard')
    BY DEF RequestInv
  <2>1. req'[u] = req[u] /\ req[u] # NoRequest
    BY <1>1
  <2>2. req[u] \in Locals /\ Sound(req[u], reached, agent, Heard)
    BY <2>1 DEF TypeOK, Request, RequestInv
  <2> QED
    BY <1>3, <2>1, <2>2, SoundGrows DEF Grows
<1> QED
  BY <1>2, <1>4

LEMMA NextHistory == HistoryInv /\ [Next]_vars => HistoryInv'
<1> SUFFICES ASSUME HistoryInv, [Next]_vars
             PROVE  HistoryInv'
  OBVIOUS
<1>1. TypeInv'
  BY NextType DEF HistoryInv
<1>2. ASSUME NEW t \in Tickets, Create(t)
      PROVE  HistoryInv'
  BY <1>1, <1>2, CreateHistory
<1>3. ASSUME NEW t \in Tickets, Expire(t) \/ SweepNotify(t) \/ SweepDropsNotice(t)
      PROVE  HistoryInv'
  <2>1. /\ UNCHANGED <<status, agent, reason, announced, reminded, reached, forced, req>>
        /\ faults' = 0 => faults = 0
    BY <1>3 DEF Expire, SweepNotify, SweepDropsNotice, Fault, columns, notices, history,
                HistoryInv, TypeInv, TypeOK
  <2> QED
    BY <1>1, <2>1, QuietStep
<1>4. ASSUME NEW r \in Requests, RequestStep(r)
      PROVE  HistoryInv'
  <2>1. CASE RequestFails(r)
    <3>1. /\ \A u \in Requests : req'[u] = req[u] \/ req'[u] = NoRequest
          /\ faults' = 0 => faults = 0
      BY <2>1 DEF RequestFails, Fault, HistoryInv, TypeInv, TypeOK
    <3> QED
      BY <1>1, <2>1, <3>1, QuietStep DEF RequestFails, columns, notices, history
  <2>2. CASE Notify(r)
    BY <1>1, <2>2, AnnouncingHistory DEF Notify, columns, history
  <2>3. CASE NotifyFails(r)
    BY <1>1, <2>3, AnnouncingHistory DEF NotifyFails, Fault, columns, notices, history
  <2> QED
    BY <1>1, <1>4, <2>1, <2>2, <2>3, LoadHistory, WriteHistory, RereadHistory,
       RemindHistory DEF RequestStep
<1>5. CASE SweepSelect \/ SweepFlag \/ SweepFails \/ Crash \/ UNCHANGED vars
  <2>1. /\ UNCHANGED <<status, agent, reason, announced, reminded, reached, forced>>
        /\ UNCHANGED req \/ req' = [r \in Requests |-> NoRequest]
        /\ faults' = 0 => faults = 0
    BY <1>5 DEF SweepSelect, SweepFlag, SweepFails, Crash, Fault, vars, columns, notices,
                history, HistoryInv, TypeInv, TypeOK
  <2>2. \A r \in Requests : req'[r] = req[r] \/ req'[r] = NoRequest
    BY <2>1
  <2> QED
    BY <1>1, <2>1, <2>2, QuietStep
<1> QED
  BY <1>2, <1>3, <1>4, <1>5 DEF Next

\* Whatever the interleaving of requests, sweeps and crashes: what the columns
\* and the notifications say of a ticket agrees with the statuses it has had.
THEOREM ColumnsAgree == Spec => []ColumnsMatchHistory
BY InitHistory, NextHistory, PTL DEF Spec, HistoryInv

-----------------------------------------------------------------------------
(* Breach notifications.                                                   *)

LEMMA InitSweep == Init => SweepInv
BY InitType DEF Init, SweepInv, Counted, Due, Open

\* Steps that touch neither the sweep nor the rows it looks at.
LEMMA QuietSweep ==
    ASSUME SweepInv, TypeInv',
           UNCHANGED <<status, breached, sweep, toBreach, breachNotices, reopens>>,
           \A t \in Tickets : overdue[t] => overdue'[t]
    PROVE  SweepInv'
<1>1. \A t \in Tickets : Counted(t)'
  BY DEF SweepInv, Counted, Due, Open
<1> QED
  BY <1>1 DEF SweepInv, TypeInv, TypeOK

\* The engine lets go of the rows it selected.
LEMMA AbandonSweep ==
    ASSUME SweepInv, TypeInv', sweep' = "idle", toBreach' = {},
           UNCHANGED <<status, breached, overdue, breachNotices, reopens>>
    PROVE  SweepInv'
<1> SUFFICES ASSUME NEW t \in Tickets
             PROVE  Counted(t)'
  BY DEF SweepInv
<1>1. Counted(t) /\ breachNotices[t] \in Nat /\ reopens[t] \in Nat
  BY DEF SweepInv, TypeInv, TypeOK
<1>2. Due(t)' = breachNotices[t]
  BY <1>1 DEF Due
<1>3. CASE t \in toBreach
  <2>1. Due(t) = breachNotices[t] + 1
    BY <1>3 DEF Due
  <2> QED
    BY <1>1, <1>2, <2>1 DEF Counted
<1>4. CASE t \notin toBreach
  <2>1. Due(t) = breachNotices[t]
    BY <1>1, <1>4 DEF Due
  <2> QED
    BY <1>1, <1>2, <1>4, <2>1 DEF Counted, Open
<1> QED
  BY <1>3, <1>4

LEMMA SelectSweep ==
    ASSUME SweepInv, TypeInv', SweepSelect
    PROVE  SweepInv'
<1>1. toBreach = {} /\ sweep = "idle" /\ sweep' = "selected" /\ toBreach' = Breaching
  BY DEF SweepInv, SweepSelect
<1>2. UNCHANGED <<status, breached, overdue, breachNotices, reopens>>
  BY DEF SweepSelect, columns, notices, history
<1>3. \A t \in toBreach' : overdue'[t]
  BY <1>1, <1>2 DEF Breaching
<1>4. ASSUME NEW t \in Tickets
      PROVE  Counted(t)'
  <2>1. Counted(t) /\ breachNotices[t] \in Nat /\ reopens[t] \in Nat
    BY DEF SweepInv, TypeInv, TypeOK
  <2>2. Due(t) = breachNotices[t]
    BY <1>1, <2>1 DEF Due
  <2>3. CASE t \in Breaching
    <3>1. Open(t) /\ ~breached[t] /\ status[t] # "Absent"
      BY <2>3 DEF Breaching, Open, Status
    <3>2. breachNotices[t] <= reopens[t]
      BY <1>1, <2>1, <2>2, <3>1 DEF Counted
    <3>3. Due(t)' = breachNotices[t] + 1
      BY <1>1, <1>2, <2>3 DEF Due
    <3> QED
      BY <1>1, <1>2, <2>1, <2>3, <3>1, <3>2, <3>3 DEF Counted
  <2>4. CASE t \notin Breaching
    <3>1. Due(t)' = Due(t)
      BY <1>1, <1>2, <2>1, <2>4 DEF Due
    <3> QED
      BY <1>1, <1>2, <2>1, <3>1 DEF Counted, Open
  <2> QED
    BY <2>3, <2>4
<1> QED
  BY <1>1, <1>3, <1>4 DEF SweepInv

LEMMA FlagSweep ==
    ASSUME SweepInv, TypeInv', SweepFlag
    PROVE  SweepInv'
<1>1. sweep = "selected" /\ sweep' = "notifying"
  BY DEF SweepFlag
<1>2. UNCHANGED <<status, overdue, toBreach, breachNotices, reopens>>
  BY DEF SweepFlag, notices, history
<1>3. ASSUME NEW t \in Tickets
      PROVE  Counted(t)'
  <2>1. Counted(t)
    BY DEF SweepInv
  <2>2. Due(t)' = Due(t)
    BY <1>2 DEF Due
  <2>3. Open(t) /\ ~breached'[t] => ~breached[t] /\ t \notin toBreach
    BY <1>1 DEF SweepFlag, SweepInv, Breaching, Open, TypeInv, TypeOK
  <2> QED
    BY <1>2, <2>1, <2>2, <2>3 DEF Counted, Open
<1> QED
  BY <1>1, <1>3 DEF SweepInv

\* A row of the sweep is notified, or its notification is lost.
LEMMA SentSweep ==
    ASSUME SweepInv, TypeInv', NEW t \in Tickets, Sent(t),
           UNCHANGED <<status, breached, overdue, reopens>>,
           \A s \in Tickets : breachNotices'[s] \in Nat,
           \A s \in Tickets \ {t} : breachNotices'[s] = breachNotices[s],
           breachNotices'[t] <= breachNotices[t] + 1
    PROVE  SweepInv'
<1>1. /\ sweep = "notifying" /\ t \in toBreach /\ toBreach' = toBreach \ {t}
      /\ sweep' # "selected" /\ (sweep' = "idle" => toBreach' = {})
  BY DEF Sent
<1>2. ASSUME NEW s \in Tickets
      PROVE  Counted(s)'
  <2>1. Counted(s) /\ breachNotices[s] \in Nat /\ reopens[s] \in Nat
    BY DEF SweepInv, TypeInv, TypeOK
  <2>2. Due(s)' \in Nat /\ Due(s) \in Nat /\ Due(s)' <= Due(s)
    <3>1. CASE s = t
      <4>1. Due(s) = breachNotices[s] + 1 /\ Due(s)' = breachNotices'[s] + 0
        BY <1>1, <3>1 DEF Due
      <4> QED
        BY <2>1, <3>1, <4>1
    <3>2. CASE s # t
      <4>1. Due(s)' = Due(s)
        BY <1>1, <3>2 DEF Due
      <4> QED
        BY <2>1, <4>1 DEF Due
    <3> QED
      BY <3>1, <3>2
  <2> QED
    BY <1>1, <2>1, <2>2 DEF Counted, Open
<1> QED
  BY <1>1, <1>2 DEF SweepInv

LEMMA CreateSweep ==
    ASSUME SweepInv, TypeInv', NEW t \in Tickets, Create(t)
    PROVE  SweepInv'
<1>1. /\ status[t] = "Absent"
      /\ \A s \in Tickets \ {t} : status'[s] = status[s]
      /\ UNCHANGED <<breached, overdue, sweep, toBreach, breachNotices, reopens>>
  BY DEF Create, SweepInv, TypeInv, TypeOK, sweeper, notices
<1>2. ASSUME NEW s \in Tickets
      PROVE  Counted(s)'
  <2>1. Counted(s) /\ breachNotices[s] \in Nat /\ reopens[s] \in Nat
    BY DEF SweepInv, TypeInv, TypeOK
  <2>2. Due(s)' = Due(s)
    BY <1>1 DEF Due
  <2>3. s = t => Due(s) = 0
    BY <1>1, <2>1 DEF Counted
  <2> QED
    BY <1>1, <2>1, <2>2, <2>3 DEF Counted, Open
<1> QED
  BY <1>1, <1>2 DEF SweepInv

LEMMA WriteSweep ==
    ASSUME SweepInv, TypeInv', NEW r \in Requests, Write(r)
    PROVE  SweepInv'
<1> DEFINE t == req[r].ticket
           to == req[r].to
<1>1. req[r] \in Request /\ t \in Tickets /\ to \in Status /\ status[t] # "Absent"
  BY ActiveRequest DEF SweepInv, TypeInv, TicketsExist, Write, Request, Locals
<1>2. /\ \A s \in Tickets : status'[s] = IF s = t THEN to ELSE status[s]
      /\ UNCHANGED <<breached, overdue, sweep, toBreach, breachNotices>>
  BY <1>1 DEF Write, SweepInv, TypeInv, TypeOK, sweeper, notices
<1>3. /\ \A s \in Tickets : reopens'[s] \in Nat /\ reopens'[s] >= reopens[s]
      /\ status[t] \in SweepSkips /\ to \notin SweepSkips => reopens'[t] = reopens[t] + 1
  BY <1>1 DEF Write, SweepInv, TypeInv, TypeOK
<1>4. ASSUME NEW s \in Tickets
      PROVE  Counted(s)'
  <2>1. Counted(s) /\ breachNotices[s] \in Nat /\ reopens[s] \in Nat
    BY DEF SweepInv, TypeInv, TypeOK
  <2>2. Due(s)' = Due(s) /\ Due(s) \in Nat
    BY <1>2, <2>1 DEF Due
  <2>3. status'[s] = "Absent" => status[s] = "Absent"
    BY <1>1, <1>2 DEF Status
  <2>4. Open(s)' /\ ~Open(s) => reopens'[s] = reopens[s] + 1
    <3>1. CASE s = t
      BY <1>1, <1>2, <1>3, <3>1 DEF Open, SweepInv, TypeInv, TypeOK
    <3>2. CASE s # t
      BY <1>2, <3>2 DEF Open
    <3> QED
      BY <3>1, <3>2
  <2> QED
    BY <1>2, <1>3, <2>1, <2>2, <2>3, <2>4 DEF Counted
<1> QED
  BY <1>2, <1>4 DEF SweepInv

LEMMA NextSweep == SweepInv /\ [Next]_vars => SweepInv'
<1> SUFFICES ASSUME SweepInv, [Next]_vars
             PROVE  SweepInv'
  OBVIOUS
<1>1. TypeInv'
  BY NextType DEF SweepInv
<1>2. ASSUME NEW t \in Tickets, Create(t)
      PROVE  SweepInv'
  BY <1>1, <1>2, CreateSweep
<1>3. ASSUME NEW t \in Tickets, Expire(t)
      PROVE  SweepInv'
  BY <1>1, <1>3, QuietSweep
     DEF Expire, sweeper, notices, SweepInv, TypeInv, TypeOK
<1>4. ASSUME NEW t \in Tickets, SweepNotify(t)
      PROVE  SweepInv'
  <2>1. /\ \A s \in Tickets : breachNotices'[s] \in Nat
        /\ \A s \in Tickets \ {t} : breachNotices'[s] = breachNotices[s]
        /\ breachNotices'[t] <= breachNotices[t] + 1
    BY <1>4 DEF SweepNotify, SweepInv, TypeInv, TypeOK
  <2> QED
    BY <1>1, <1>4, <2>1, SentSweep DEF SweepNotify, columns, history
<1>5. ASSUME NEW t \in Tickets, SweepDropsNotice(t)
      PROVE  SweepInv'
  <2>1. /\ \A s \in Tickets : breachNotices'[s] \in Nat /\ breachNotices'[s] = breachNotices[s]
        /\ breachNotices'[t] <= breachNotices[t] + 1
    BY <1>5 DEF SweepDropsNotice, notices, SweepInv, TypeInv, TypeOK
  <2> QED
    BY <1>1, <1>5, <2>1, SentSweep DEF SweepDropsNotice, columns, history
<1>6. ASSUME NEW r \in Requests, RequestStep(r)
      PROVE  SweepInv'
  <2>1. CASE Write(r)
    BY <1>1, <2>1, WriteSweep
  <2>2. CASE ~Write(r)
    <3>1. UNCHANGED <<status, breached, overdue, sweep, toBreach, breachNotices, reopens>>
      BY <1>6, <2>2 DEF RequestStep, Load, Reread, Notify, NotifyFails, Remind,
                        RequestFails, columns, sweeper, notices, history
    <3> QED
      BY <1>1, <3>1, QuietSweep
  <2> QED
    BY <2>1, <2>2
<1>7. CASE SweepSelect
  BY <1>1, <1>7, SelectSweep
<1>8. CASE SweepFlag
  BY <1>1, <1>8, FlagSweep
<1>9. CASE SweepFails \/ Crash
  BY <1>1, <1>9, AbandonSweep DEF SweepFails, Crash, columns, notices, history
<1>10. CASE UNCHANGED vars
  BY <1>1, <1>10, QuietSweep DEF vars, columns, sweeper, notices, history
<1> QED
  BY <1>2, <1>3, <1>4, <1>5, <1>6, <1>7, <1>8, <1>9, <1>10 DEF Next

\* Steps that change no row the sweep looks at, and forget nothing.
LEMMA QuietSilent ==
    ASSUME SilentInv, TypeInv',
           UNCHANGED <<status, overdue, breached, sweep, toBreach, breachNotices, between>>,
           faults' = 0 => faults = 0
    PROVE  SilentInv'
BY DEF SilentInv, Breaching, Silent

LEMMA CreateSilent ==
    ASSUME SilentInv, TypeInv', NEW t \in Tickets, Create(t)
    PROVE  SilentInv'
<1>1. /\ \A s \in Tickets : status'[s] = IF s = t THEN "Accepted" ELSE status[s]
      /\ UNCHANGED <<breached, overdue, sweep, toBreach, breachNotices, between, faults>>
      /\ ~overdue[t]
  BY DEF Create, SilentInv, TypeInv, TypeOK, sweeper, notices
<1>2. Breaching' = Breaching
  BY <1>1 DEF Breaching, SilentInv
<1> QED
  BY <1>1, <1>2 DEF SilentInv, Silent

LEMMA ExpireSilent ==
    ASSUME SilentInv, TypeInv', NEW t \in Tickets, Expire(t)
    PROVE  SilentInv'
<1>1. /\ \A s \in Tickets : overdue'[s] = (s = t \/ overdue[s])
      /\ UNCHANGED <<status, breached, sweep, toBreach, breachNotices, faults>>
      /\ between \subseteq between' /\ (sweep = "selected" => t \in between')
      /\ status[t] # "Absent"
  BY DEF Expire, NoteBetween, SilentInv, TypeInv, TypeOK, sweeper, notices
<1>2. Breaching' \subseteq Breaching \cup {t}
  BY <1>1 DEF Breaching
<1> QED
  BY <1>1, <1>2 DEF SilentInv, Silent

LEMMA WriteSilent ==
    ASSUME SilentInv, TypeInv', NEW r \in Requests, Write(r)
    PROVE  SilentInv'
<1> DEFINE t == req[r].ticket
           to == req[r].to
<1>1. req[r] \in Request /\ t \in Tickets /\ to \in Status /\ status[t] # "Absent"
  BY ActiveRequest DEF SilentInv, TypeInv, TicketsExist, Write, Request, Locals
<1>2. /\ \A s \in Tickets : status'[s] = IF s = t THEN to ELSE status[s]
      /\ UNCHANGED <<breached, overdue, sweep, toBreach, breachNotices, faults>>
  BY <1>1 DEF Write, SilentInv, TypeInv, TypeOK, sweeper, notices
<1>3. /\ between \subseteq between'
      /\ status[t] \in SweepSkips /\ to \notin SweepSkips /\ sweep = "selected" => t \in between'
  BY DEF Write, NoteBetween
<1>4. sweep = "selected" => Breaching' \subseteq Breaching \cup between'
  BY <1>1, <1>2, <1>3 DEF Breaching, SilentInv, TypeInv, TypeOK
<1>5. \A s \in Tickets : status'[s] = "Absent" => status[s] = "Absent"
  BY <1>1, <1>2 DEF Status
<1> QED
  BY <1>2, <1>3, <1>4, <1>5 DEF SilentInv, Silent

LEMMA FlagSilent ==
    ASSUME SilentInv, TypeInv', SweepFlag
    PROVE  SilentInv'
<1>1. /\ sweep = "selected" /\ sweep' = "notifying"
      /\ \A t \in Tickets : breached'[t] = (breached[t] \/ t \in Breaching)
      /\ UNCHANGED <<status, overdue, toBreach, breachNotices, between, faults>>
  BY DEF SweepFlag, notices, history
<1>2. Breaching \subseteq toBreach \cup between
  BY <1>1 DEF SilentInv
<1> QED
  BY <1>1, <1>2 DEF SilentInv, Silent

LEMMA NextSilent == SweepInv /\ SilentInv /\ [Next]_vars => SilentInv'
<1> SUFFICES ASSUME SweepInv, SilentInv, [Next]_vars
             PROVE  SilentInv'
  OBVIOUS
<1>1. TypeInv'
  BY NextType DEF SilentInv
<1>2. ASSUME NEW t \in Tickets, SweepNotify(t)
      PROVE  SilentInv'
  <2>1. /\ breachNotices'[t] = breachNotices[t] + 1 /\ breachNotices[t] \in Nat
        /\ \A s \in Tickets \ {t} : breachNotices'[s] = breachNotices[s]
        /\ toBreach' = toBreach \ {t} /\ sweep' # "selected"
        /\ UNCHANGED <<status, overdue, breached, between, faults>>
    BY <1>2 DEF SweepNotify, Sent, SilentInv, TypeInv, TypeOK, columns, history
  <2>2. ASSUME NEW s \in Tickets, Silent(s)'
        PROVE  Silent(s)
    <3>1. CASE s = t
      BY <2>1, <2>2, <3>1 DEF Silent
    <3>2. CASE s # t
      BY <2>1, <2>2, <3>2 DEF Silent
    <3> QED
      BY <3>1, <3>2
  <2> QED
    BY <1>1, <2>1, <2>2 DEF SilentInv
<1>3. ASSUME NEW t \in Tickets, SweepDropsNotice(t)
      PROVE  SilentInv'
  <2>1. faults' # 0 /\ sweep' # "selected" /\ UNCHANGED <<status, overdue>>
    BY <1>3 DEF SweepDropsNotice, Sent, Fault, SilentInv, TypeInv, TypeOK, columns
  <2> QED
    BY <1>1, <2>1 DEF SilentInv
<1>4. ASSUME NEW r \in Requests, RequestStep(r), ~Write(r)
      PROVE  SilentInv'
  <2>1. UNCHANGED <<status, overdue, breached, sweep, toBreach, breachNotices, between>>
    BY <1>4 DEF RequestStep, Load, Reread, Notify, NotifyFails, Remind, RequestFails,
                columns, sweeper, notices, history
  <2>2. faults' = faults \/ Fault
    BY <1>4 DEF RequestStep, Load, Reread, Notify, NotifyFails, Remind, RequestFails
  <2>3. faults' = 0 => faults = 0
    BY <2>2 DEF Fault, SilentInv, TypeInv, TypeOK
  <2> QED
    BY <1>1, <2>1, <2>3, QuietSilent
<1>5. CASE SweepSelect
  <2>1. /\ sweep = "idle" /\ sweep' = "selected" /\ toBreach' = Breaching
        /\ UNCHANGED <<status, overdue, breached, breachNotices, between, faults>>
    BY <1>5 DEF SweepSelect, columns, notices, history
  <2>2. toBreach = {} /\ Breaching' = Breaching
    BY <2>1 DEF SweepInv, Breaching
  <2> QED
    BY <1>1, <2>1, <2>2 DEF SilentInv, Silent
<1>6. CASE SweepFails \/ Crash
  <2>1. faults' # 0 /\ sweep' = "idle" /\ UNCHANGED <<status, overdue>>
    BY <1>6 DEF SweepFails, Crash, Fault, SilentInv, TypeInv, TypeOK, columns
  <2> QED
    BY <1>1, <2>1 DEF SilentInv
<1>7. CASE UNCHANGED vars
  BY <1>1, <1>7, QuietSilent DEF vars, columns, sweeper, notices, history
<1> QED
  BY <1>1, <1>2, <1>3, <1>4, <1>5, <1>6, <1>7, CreateSilent, ExpireSilent, WriteSilent,
     FlagSilent DEF Next

LEMMA InitSilent == Init => SilentInv
BY InitType DEF Init, SilentInv, Silent

LEMMA SweepBounds == SweepInv /\ SilentInv => BreachNoticesBounded
<1> SUFFICES ASSUME SweepInv, SilentInv, NEW t \in Tickets
             PROVE  /\ breachNotices[t] <= 1 + reopens[t]
                    /\ breached[t] /\ faults = 0 =>
                          breachNotices[t] > 0 \/ t \in toBreach \/ t \in between
  BY DEF BreachNoticesBounded
<1>1. Counted(t) /\ breachNotices[t] \in Nat /\ reopens[t] \in Nat
  BY DEF SweepInv, TypeInv, TypeOK
<1>2. Due(t) >= breachNotices[t]
  BY <1>1 DEF Due
<1>3. breachNotices[t] <= 1 + reopens[t]
  BY <1>1, <1>2 DEF Counted, Due
<1>4. breached[t] /\ faults = 0 =>
          breachNotices[t] > 0 \/ t \in toBreach \/ t \in between
  BY <1>1 DEF SilentInv, Silent
<1> QED
  BY <1>3, <1>4

\* However the sweeps of the SLA engine race with the requests that move the
\* tickets, the owner gets at most one breach notification for each stay of
\* the ticket in the open statuses; and without a fault a flagged ticket goes
\* without one only if its deadline passed, or it came back, between the
\* SELECT and the UPDATE of a sweep.
THEOREM NoticesBounded == Spec => []BreachNoticesBounded
BY InitSweep, NextSweep, InitSilent, NextSilent, SweepBounds, PTL DEF Spec

-----------------------------------------------------------------------------
(* The status is announced.                                                *)

LEMMA InitAnnounced == Init => AnnouncedInv
BY InitType DEF Init, AnnouncedInv, Told

\* A step that keeps the status and the history of ticket t, and whose request
\* r was not the one to announce it, leaves it told.
LEMMA StaysTold ==
    ASSUME NEW t \in Tickets, NEW r, Told(t), ~WillAnnounce(r, t),
           status'[t] = status[t], reached'[t] = reached[t],
           announced[t] \subseteq announced'[t],
           \A u \in Requests \ {r} : req'[u] = req[u]
    PROVE  Told(t)'
<1>1. ASSUME NEW u \in Requests, WillAnnounce(u, t)
      PROVE  WillAnnounce(u, t)'
  <2>1. req'[u] = req[u]
    BY <1>1
  <2> QED
    BY <1>1, <2>1 DEF WillAnnounce
<1> QED
  BY <1>1 DEF Told

LEMMA WriteAnnounced ==
    ASSUME AnnouncedInv, NEW r \in Requests, Write(r), NEW t \in Tickets, Told(t)
    PROVE  Told(t)'
<1> USE DEF AnnouncedInv, TypeInv
<1>1. req[r] \in Request /\ req[r].ticket \in Tickets /\ req[r].pc = "loaded"
  BY ActiveRequest DEF Write, Request, Locals
<1>2. CASE req[r].ticket = t
  <2>1. req'[r] = [req[r] EXCEPT !.pc = "written"]
    BY DEF Write, TypeOK
  <2>2. req'[r].pc = "written" /\ req'[r].ticket = t /\ req'[r] # NoRequest
    BY <1>1, <1>2, <2>1 DEF Request, Locals, NoRequest
  <2>3. WillAnnounce(r, t)'
    BY <2>2 DEF WillAnnounce
  <2> QED
    BY <2>3 DEF Told
<1>3. CASE req[r].ticket # t
  <2>1. ~WillAnnounce(r, t)
    BY <1>3 DEF WillAnnounce
  <2>2. /\ status'[t] = status[t] /\ reached'[t] = reached[t]
        /\ announced' = announced
        /\ \A u \in Requests \ {r} : req'[u] = req[u]
    BY <1>1, <1>3 DEF Write, TypeOK, notices
  <2> QED
    BY <2>1, <2>2, StaysTold
<1> QED
  BY <1>2, <1>3

LEMMA RereadAnnounced ==
    ASSUME AnnouncedInv, NEW r \in Requests, Reread(r), NEW t \in Tickets, Told(t)
    PROVE  Told(t)'
<1> USE DEF AnnouncedInv, TypeInv
<1>1. req[r] \in Request /\ req[r].pc = "written"
  BY ActiveRequest DEF Reread, Request, Locals
<1>2. /\ UNCHANGED <<status, reached, announced>>
      /\ \A u \in Requests \ {r} : req'[u] = req[u]
      /\ req'[r] = [req[r] EXCEPT !.pc = "reread", !.seen = status[req[r].ticket]]
  BY DEF Reread, TypeOK, columns, notices, history
<1>3. CASE req[r].ticket = t
  <2>1. /\ req'[r].pc = "reread" /\ req'[r].ticket = t /\ req'[r].seen = status[t]
        /\ req'[r] # NoRequest
    BY <1>1, <1>2, <1>3 DEF Request, Locals, NoRequest
  <2>2. WillAnnounce(r, t)'
    BY <1>2, <2>1 DEF WillAnnounce
  <2> QED
    BY <2>2 DEF Told
<1>4. CASE req[r].ticket # t
  <2>1. ~WillAnnounce(r, t)
    BY <1>4 DEF WillAnnounce
  <2> QED
    BY <1>2, <2>1, StaysTold
<1> QED
  BY <1>3, <1>4

LEMMA NotifyAnnounced ==
    ASSUME AnnouncedInv, NEW r \in Requests, Notify(r), NEW t \in Tickets, Told(t)
    PROVE  Told(t)'
<1> USE DEF AnnouncedInv, TypeInv
<1>1. req[r] \in Request /\ req[r].ticket \in Tickets /\ req[r].pc = "reread"
  BY ActiveRequest DEF Notify, Announcing, Request, Locals
<1>2. /\ UNCHANGED <<status, reached>>
      /\ \A s \in Tickets : announced[s] \subseteq announced'[s]
      /\ req[r].seen \in announced'[req[r].ticket]
      /\ \A u \in Requests \ {r} : req'[u] = req[u]
  BY <1>1 DEF Notify, Announcing, TypeOK, columns, history
<1>3. CASE WillAnnounce(r, t)
  <2>1. req[r].ticket = t /\ req[r].seen = status[t]
    BY <1>1, <1>3 DEF WillAnnounce
  <2> QED
    BY <1>2, <2>1 DEF Told
<1>4. CASE ~WillAnnounce(r, t)
  BY <1>2, <1>4, StaysTold
<1> QED
  BY <1>3, <1>4

LEMMA NextAnnounced == AnnouncedInv /\ [Next]_vars => AnnouncedInv'
<1> SUFFICES ASSUME AnnouncedInv, [Next]_vars, faults' = 0, NEW t \in Tickets
             PROVE  Told(t)'
  BY NextType DEF AnnouncedInv
<1> USE DEF AnnouncedInv, TypeInv
<1>1. ASSUME Fault
      PROVE  FALSE
  BY <1>1 DEF Fault, TypeOK
<1>2. faults' = faults
  BY <1>1 DEF Next, RequestStep, Create, Expire, SweepNotify, SweepDropsNotice, Load,
              Write, Reread, Notify, NotifyFails, Remind, RequestFails, SweepSelect, SweepFlag,
              SweepFails, Crash, vars
<1>3. Told(t)
  BY <1>2
<1>4. ASSUME NEW s \in Tickets, Create(s)
      PROVE  Told(t)'
  <2>1. CASE s = t
    BY <1>4, <2>1 DEF Create, TypeOK, Told
  <2>2. CASE s # t
    <3>1. status'[t] = status[t] /\ reached'[t] = reached[t]
      BY <1>4, <2>2 DEF Create, TypeOK
    <3>2. UNCHANGED <<req, announced>>
      BY <1>4 DEF Create, notices
    <3> QED
      BY <1>3, <3>1, <3>2 DEF Told, WillAnnounce
  <2> QED
    BY <2>1, <2>2
<1>5. ASSUME UNCHANGED <<status, reached, announced, req>>
      PROVE  Told(t)'
  BY <1>3, <1>5 DEF Told, WillAnnounce
<1>6. ASSUME NEW s \in Tickets, Expire(s) \/ SweepNotify(s) \/ SweepDropsNotice(s)
      PROVE  Told(t)'
  BY <1>5, <1>6 DEF Expire, SweepNotify, SweepDropsNotice, columns, notices, history
<1>7. ASSUME NEW r \in Requests, RequestStep(r)
      PROVE  Told(t)'
  <2>1. ASSUME NEW caller \in Callers, NEW s \in Tickets, NEW to \in Status,
               Load(r, caller, s, to)
        PROVE  Told(t)'
    <3>1. /\ ~WillAnnounce(r, t)
          /\ UNCHANGED <<status, reached, announced>>
          /\ \A u \in Requests \ {r} : req'[u] = req[u]
      BY <2>1 DEF Load, WillAnnounce, TypeOK, columns, notices, history
    <3> QED
      BY <1>3, <3>1, StaysTold
  <2>2. CASE Remind(r)
    <3>1. /\ ~WillAnnounce(r, t)
          /\ UNCHANGED <<status, reached, announced>>
          /\ \A u \in Requests \ {r} : req'[u] = req[u]
      BY <2>2 DEF Remind, WillAnnounce, TypeOK, columns, history
    <3> QED
      BY <1>3, <3>1, StaysTold
  <2>3. CASE RequestFails(r) \/ NotifyFails(r)
    BY <1>1, <2>3 DEF RequestFails, NotifyFails
  <2> QED
    BY <1>3, <1>7, <2>1, <2>2, <2>3, WriteAnnounced, RereadAnnounced, NotifyAnnounced
       DEF RequestStep
<1>8. CASE SweepSelect \/ SweepFlag \/ UNCHANGED vars
  BY <1>5, <1>8 DEF SweepSelect, SweepFlag, vars, columns, notices, history
<1>9. CASE SweepFails \/ Crash
  BY <1>1, <1>9 DEF SweepFails, Crash
<1> QED
  BY <1>4, <1>6, <1>7, <1>8, <1>9 DEF Next

LEMMA ToldIsAnnounced == AnnouncedInv => StatusAnnounced
BY DEF AnnouncedInv, StatusAnnounced, Told, WillAnnounce

\* In whatever order racing requests write, re-read and notify: when all of
\* them are done and none was cut short, the owner of every ticket has been
\* told the status it has.
THEOREM StatusTold == Spec => []StatusAnnounced
BY InitAnnounced, NextAnnounced, ToldIsAnnounced, PTL DEF Spec

-----------------------------------------------------------------------------
(* The service implements TicketPromise.                                   *)

LEMMA PromiseInit == Init => Promise!Init
BY DEF Init, Promise!Init

\* The path of the promise is the code's tables.
LEMMA PathIsOnPath ==
    ASSUME NEW from, NEW to, OnPath(from, to)
    PROVE  <<from, to>> \in Promise!Path
BY DEF OnPath, AgentSteps, Promise!Path

LEMMA WriteKeepsPromise ==
    ASSUME HistoryInv, NEW r \in Requests, Write(r)
    PROVE  Promise!Next
<1> DEFINE t == req[r].ticket
           to == req[r].to
<1> USE DEF HistoryInv, TypeInv
<1>1. req[r] \in Request /\ req[r] # NoRequest /\ t \in Tickets /\ to \in Promise!Stages
  BY ActiveRequest DEF Write, Request, Locals, Status, Promise!Stages
<1>2. Sound(req[r], reached, agent, Heard) /\ req[r].pc = "loaded"
  BY <1>1 DEF RequestInv, Write
<1>3. req[r].seen \in reached[t]
  BY <1>2 DEF Sound
<1>4. Promise!Enter(t, to) /\ UNCHANGED <<overdue, breached>>
  BY DEF Write, Promise!Enter
<1>5. CASE req[r].caller \in Admins
  <2>1. forced' = forced \cup {t}
    BY <1>5 DEF Write
  <2>2. Promise!Force(t, to)
    BY <1>3, <1>4, <2>1 DEF Promise!Force
  <2> QED
    BY <1>1, <2>2 DEF Promise!Next
<1>6. CASE req[r].caller \notin Admins
  <2>1. forced' = forced
    BY <1>6 DEF Write
  <2>2. <<req[r].seen, to>> \in Promise!Path
    BY <1>2, <1>6, PathIsOnPath DEF Sound
  <2>3. Promise!Work(t, to)
    BY <1>3, <1>4, <2>1, <2>2 DEF Promise!Work
  <2> QED
    BY <1>1, <2>3 DEF Promise!Next
<1> QED
  BY <1>5, <1>6

LEMMA PromiseStep == HistoryInv /\ [Next]_vars => [Promise!Next]_(Promise!vars)
<1> SUFFICES ASSUME HistoryInv, [Next]_vars
             PROVE  [Promise!Next]_(Promise!vars)
  OBVIOUS
<1> USE DEF HistoryInv, TypeInv
<1>1. ASSUME UNCHANGED <<reached, forced, overdue, breached>>
      PROVE  UNCHANGED Promise!vars
  BY <1>1 DEF Promise!vars
<1>2. ASSUME NEW t \in Tickets, Create(t)
      PROVE  [Promise!Next]_(Promise!vars)
  <2>1. Promise!File(t)
    BY <1>2 DEF Create, AbsentInv, TypeOK, Promise!File, Promise!Enter
  <2> QED
    BY <2>1 DEF Promise!Next
<1>3. ASSUME NEW t \in Tickets, Expire(t)
      PROVE  [Promise!Next]_(Promise!vars)
  <2>1. reached[t] # {}
    BY <1>3 DEF Expire, ColumnsMatchHistory
  <2>2. { s \in Tickets : overdue'[s] } = { s \in Tickets : overdue[s] } \cup {t}
    BY <1>3 DEF Expire, TypeOK
  <2>3. Promise!Expire(t)
    BY <1>3, <2>1, <2>2 DEF Expire, Promise!Expire
  <2> QED
    BY <2>3 DEF Promise!Next
<1>4. ASSUME NEW t \in Tickets, SweepNotify(t) \/ SweepDropsNotice(t)
      PROVE  [Promise!Next]_(Promise!vars)
  BY <1>1, <1>4 DEF SweepNotify, SweepDropsNotice, columns, history
<1>5. ASSUME NEW r \in Requests, RequestStep(r)
      PROVE  [Promise!Next]_(Promise!vars)
  <2>1. CASE Write(r)
    BY <2>1, WriteKeepsPromise
  <2>2. CASE ~Write(r)
    <3>1. UNCHANGED <<reached, forced, overdue, breached>>
      BY <1>5, <2>2 DEF RequestStep, Load, Reread, Notify, NotifyFails, Remind, RequestFails,
                        columns, history
    <3>2. UNCHANGED Promise!vars
      BY <1>1, <3>1
    <3> QED
      BY <3>2
  <2> QED
    BY <2>1, <2>2
<1>6. CASE SweepFlag
  <2>1. Breaching \in SUBSET Tickets /\ Breaching \subseteq { s \in Tickets : overdue[s] }
    BY DEF Breaching
  <2>2. { s \in Tickets : breached'[s] } = { s \in Tickets : breached[s] } \cup Breaching
    BY <1>6, <2>1 DEF SweepFlag, TypeOK
  <2>3. UNCHANGED <<reached, forced, overdue>>
    BY <1>6 DEF SweepFlag, history
  <2>4. \E T \in SUBSET Tickets : Promise!Flag(T)
    BY <2>1, <2>2, <2>3 DEF Promise!Flag
  <2> QED
    BY <2>4 DEF Promise!Next
<1>7. CASE SweepSelect \/ SweepFails \/ Crash \/ UNCHANGED vars
  BY <1>1, <1>7 DEF SweepSelect, SweepFails, Crash, vars, columns, history
<1> QED
  BY <1>2, <1>3, <1>4, <1>5, <1>6, <1>7 DEF Next

\* The ticket service implements TicketPromise: every step, of any request, of
\* the SLA engine or of a failure, is a step of the promise or changes nothing
\* of it.
THEOREM KeepsPromise == Spec => PromiseKept
BY InitHistory, NextHistory, PromiseInit, PromiseStep, PTL DEF Spec, PromiseKept, Promise!Spec
=============================================================================
