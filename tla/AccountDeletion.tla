-------------------------- MODULE AccountDeletion --------------------------
(***************************************************************************)
(* The end of an account (internal/privacy) beside the requests of its     *)
(* user that are still under way: the address book (internal/address), the *)
(* profile (internal/profile) and the filing of tickets, whose foreign key *)
(* holds on to an address (internal/ticket).                               *)
(*                                                                         *)
(* A request passes RequireAuth once (Begin) and then runs one handler:    *)
(*     profile      an UPDATE (UpdateProfile);                             *)
(*     new address  SELECT of a count and INSERT (CountAddresses, Insert); *)
(*     address      a DELETE (DeleteAddress); or a SELECT and the          *)
(*                  transaction of two UPDATEs (LoadAddress, SetDefault);  *)
(*     new ticket   SELECT the address's owner and INSERT (CheckOwner,     *)
(*                  FileTicket);                                           *)
(*     deletion     SELECT for a pending row, and the transaction that     *)
(*                  inserts one and deactivates the user (CheckPending,    *)
(*                  CommitDeletion).                                       *)
(* Refused requests change nothing and have no step; neither has the       *)
(* update of an address, whose text is not modelled.                       *)
(*                                                                         *)
(* AnonymizeUser is one transaction of blind writes and so one step, taken *)
(* by the hourly worker for each due row that it selected (Anonymize), and *)
(* by an administrator at any time (HardDelete).                           *)
(***************************************************************************)
EXTENDS Naturals, FiniteSets

CONSTANTS Users,
          Requests,      \* request goroutines
          MaxAddresses,  \* bound: addresses ever inserted
          MaxDeletions,  \* bound: deletion requests ever inserted
          MaxFaults      \* bound: crashes, panics and failed statements

Addresses == 1..MaxAddresses
Deletions == 1..MaxDeletions

ASSUME BoundAssumption == MaxAddresses \in Nat /\ MaxDeletions \in Nat /\ MaxFaults \in Nat
ASSUME RequestsAssumption == IsFiniteSet(Requests)

VARIABLES
    \* The table users.
    active,     \* is_active = 1
    deleted,    \* is_deleted = 1
    personal,   \* display_name, phone, bio or avatar hold the user's data
    \* The table addresses; ids are given in ascending order.
    lastId,     \* the id of the last INSERT
    book,       \* book[u]: the ids of the rows of u
    default,    \* is_default = 1
    ticketed,   \* the ids that a row of tickets names
    \* The table data_deletion_requests.
    status,     \* status[i]; "absent" before the INSERT
    asker,      \* asker[i]: its user_id, as a set of at most one
    due,        \* due[i]: scheduled_for <= NOW()
    \* Memory of the goroutines.
    todo,       \* the rows the worker has selected and not yet begun
    req,        \* req[r]: the locals of the request in slot r
    \* History.
    hard,       \* the users whom an administrator deleted
    faults      \* faults so far

account  == <<active, deleted, personal>>
addressT == <<lastId, book, default>>
deletion == <<status, asker, due>>
vars == <<account, addressT, ticketed, deletion, todo, req, hard, faults>>

NoRequest == [pc |-> "idle"]

Locals == [pc : {"authed", "unasked"}, user : Users]
            \cup [pc : {"counted"}, user : Users, first : BOOLEAN]
            \cup [pc : {"loaded", "owned"}, user : Users, address : Addresses]

TypeOK ==
    /\ active \in [Users -> BOOLEAN]
    /\ deleted \in [Users -> BOOLEAN]
    /\ personal \in [Users -> BOOLEAN]
    /\ lastId \in 0..MaxAddresses
    /\ book \in [Users -> SUBSET (1..lastId)]
    /\ default \in SUBSET (1..lastId)
    /\ ticketed \in SUBSET (1..lastId)
    /\ status \in [Deletions -> {"absent", "pending", "anonymized"}]
    /\ asker \in [Deletions -> SUBSET Users]
    /\ due \in [Deletions -> BOOLEAN]
    /\ todo \in SUBSET Deletions
    /\ req \in [Requests -> Locals \cup {NoRequest}]
    /\ hard \in SUBSET Users
    /\ faults \in 0..MaxFaults

Init ==
    /\ active = [u \in Users |-> TRUE]
    /\ deleted = [u \in Users |-> FALSE]
    /\ personal = [u \in Users |-> TRUE]
    /\ lastId = 0
    /\ book = [u \in Users |-> {}]
    /\ default = {}
    /\ ticketed = {}
    /\ status = [i \in Deletions |-> "absent"]
    /\ asker = [i \in Deletions |-> {}]
    /\ due = [i \in Deletions |-> FALSE]
    /\ todo = {}
    /\ req = [r \in Requests |-> NoRequest]
    /\ hard = {}
    /\ faults = 0

\* scheduled_for passes: 30 days after the request.
ComeDue(i) ==
    /\ status[i] # "absent"
    /\ ~due[i]
    /\ due' = [due EXCEPT ![i] = TRUE]
    /\ UNCHANGED <<account, addressT, ticketed, status, asker, todo, req, hard, faults>>

-----------------------------------------------------------------------------
(* Requests of the user.                                                   *)

\* Mutant of Admitted: the account is not looked at again after the login.
AdmittedBySession(u) == u \in Users

\* SELECT is_active FROM users WHERE id = ? AND is_deleted = 0
Admitted(u) == active[u] /\ ~deleted[u]

Fault == faults < MaxFaults /\ faults' = faults + 1

Begin(r, u) ==
    /\ req[r] = NoRequest
    /\ Admitted(u)
    /\ req' = [req EXCEPT ![r] = [pc |-> "authed", user |-> u]]
    /\ UNCHANGED <<account, addressT, ticketed, deletion, todo, hard, faults>>

Done(r) == req' = [req EXCEPT ![r] = NoRequest]

UpdateProfile(r) ==
    /\ req[r].pc = "authed"
    /\ personal' = [personal EXCEPT ![req[r].user] = TRUE]
    /\ Done(r)
    /\ UNCHANGED <<active, deleted, addressT, ticketed, deletion, todo, hard, faults>>

\* Mutant of IsDefault: every new address is made the default.
IsDefaultAlways(u) == u \in Users

\* The first address of the user becomes the default.
IsDefault(u) == book[u] = {}

CountAddresses(r) ==
    /\ req[r].pc = "authed"
    /\ LET u == req[r].user IN
       req' = [req EXCEPT ![r] = [pc |-> "counted", user |-> u, first |-> IsDefault(u)]]
    /\ UNCHANGED <<account, addressT, ticketed, deletion, todo, hard, faults>>

\* The error of the SELECT is ignored, and the count stays zero.
CountFails(r) ==
    /\ Fault
    /\ req[r].pc = "authed"
    /\ req' = [req EXCEPT ![r] = [pc |-> "counted", user |-> @.user, first |-> TRUE]]
    /\ UNCHANGED <<account, addressT, ticketed, deletion, todo, hard>>

Insert(r) ==
    /\ req[r].pc = "counted"
    /\ lastId < MaxAddresses
    /\ lastId' = lastId + 1
    /\ book' = [book EXCEPT ![req[r].user] = @ \cup {lastId + 1}]
    /\ default' = IF req[r].first THEN default \cup {lastId + 1} ELSE default
    /\ Done(r)
    /\ UNCHANGED <<account, ticketed, deletion, todo, hard, faults>>

\* DELETE ... WHERE id = ? AND user_id = ?; the foreign key of tickets may refuse.
DeleteAddress(r, a) ==
    /\ req[r].pc = "authed"
    /\ a \in book[req[r].user] \ ticketed
    /\ book' = [book EXCEPT ![req[r].user] = @ \ {a}]
    /\ default' = default \ {a}
    /\ Done(r)
    /\ UNCHANGED <<account, lastId, ticketed, deletion, todo, hard, faults>>

\* getByID, with the user's id.
LoadAddress(r, a) ==
    /\ req[r].pc = "authed"
    /\ a \in book[req[r].user]
    /\ req' = [req EXCEPT ![r] = [pc |-> "loaded", user |-> @.user, address |-> a]]
    /\ UNCHANGED <<account, addressT, ticketed, deletion, todo, hard, faults>>

\* The transaction: clear the user's defaults, set one, if it is still there.
SetDefault(r) ==
    /\ req[r].pc = "loaded"
    /\ LET mine == book[req[r].user] IN
       default' = (default \ mine) \cup (mine \cap {req[r].address})
    /\ Done(r)
    /\ UNCHANGED <<account, lastId, book, ticketed, deletion, todo, hard, faults>>

\* SELECT user_id FROM addresses WHERE id = ?
CheckOwner(r, a) ==
    /\ req[r].pc = "authed"
    /\ a \in book[req[r].user]
    /\ req' = [req EXCEPT ![r] = [pc |-> "owned", user |-> @.user, address |-> a]]
    /\ UNCHANGED <<account, addressT, ticketed, deletion, todo, hard, faults>>

\* Mutant of Referable: without the foreign key any id may be named.
ReferableAny(a) == a \in Addresses

\* fk_ticket_address: the row must still exist.
Referable(a) == \E u \in Users : a \in book[u]

\* INSERT INTO tickets; without the row the request fails.
FileTicket(r) ==
    /\ req[r].pc = "owned"
    /\ ticketed' = IF Referable(req[r].address) THEN ticketed \cup {req[r].address} ELSE ticketed
    /\ Done(r)
    /\ UNCHANGED <<account, addressT, deletion, todo, hard, faults>>

CheckPending(r) ==
    /\ req[r].pc = "authed"
    /\ \A i \in Deletions : ~(status[i] = "pending" /\ req[r].user \in asker[i])
    /\ req' = [req EXCEPT ![r].pc = "unasked"]
    /\ UNCHANGED <<account, addressT, ticketed, deletion, todo, hard, faults>>

\* Mutant of CommitDeletion: the account stays active during the grace period.
CommitDeletionActive(r) ==
    /\ req[r].pc = "unasked"
    /\ \E i \in Deletions :
           /\ status[i] = "absent"
           /\ \A j \in Deletions : j < i => status[j] # "absent"
           /\ status' = [status EXCEPT ![i] = "pending"]
           /\ asker' = [asker EXCEPT ![i] = {req[r].user}]
    /\ Done(r)
    /\ UNCHANGED <<account, addressT, ticketed, due, todo, hard, faults>>

\* The transaction of RequestDeletion.
CommitDeletion(r) ==
    /\ req[r].pc = "unasked"
    /\ \E i \in Deletions :
           /\ status[i] = "absent"
           /\ \A j \in Deletions : j < i => status[j] # "absent"
           /\ status' = [status EXCEPT ![i] = "pending"]
           /\ asker' = [asker EXCEPT ![i] = {req[r].user}]
    /\ active' = [active EXCEPT ![req[r].user] = FALSE]
    /\ Done(r)
    /\ UNCHANGED <<deleted, personal, addressT, ticketed, due, todo, hard, faults>>

-----------------------------------------------------------------------------
(* Anonymization.                                                          *)

\* The lines of an address are NOT NULL, so the UPDATE fails if the user has
\* any, and the DELETE that it falls back to fails if a ticket names one.
Blocked(u) == book[u] \cap ticketed # {}

\* The transaction of AnonymizeUser; rolled back when it is blocked.
AnonymizeUser(u) ==
    /\ ~Blocked(u)
    /\ active' = [active EXCEPT ![u] = FALSE]
    /\ deleted' = [deleted EXCEPT ![u] = TRUE]
    /\ personal' = [personal EXCEPT ![u] = FALSE]
    /\ book' = [book EXCEPT ![u] = {}]
    /\ default' = default \ book[u]
    /\ status' = [i \in Deletions |->
                     IF status[i] = "pending" /\ u \in asker[i] THEN "anonymized" ELSE status[i]]
    /\ UNCHANGED <<lastId, ticketed, asker, due, req, faults>>

\* Mutant of Due: only the oldest row is looked at.
DueFirst == { i \in Deletions : i = 1 /\ status[i] = "pending" /\ due[i] }

Due == { i \in Deletions : status[i] = "pending" /\ due[i] }

\* The SELECT of ProcessDueDeletions.
SelectDue ==
    /\ todo = {}
    /\ Due # {}
    /\ todo' = Due
    /\ UNCHANGED <<account, addressT, ticketed, deletion, req, hard, faults>>

Anonymize(i) ==
    /\ i \in todo
    /\ todo' = todo \ {i}
    /\ \E u \in asker[i] : AnonymizeUser(u)
    /\ UNCHANGED hard

\* The error is logged and the loop goes on.
AnonymizeBlocked(i) ==
    /\ i \in todo
    /\ todo' = todo \ {i}
    /\ \E u \in asker[i] : Blocked(u)
    /\ UNCHANGED <<account, addressT, ticketed, deletion, req, hard, faults>>

HardDelete(u) ==
    /\ AnonymizeUser(u)
    /\ hard' = hard \cup {u}
    /\ UNCHANGED todo

-----------------------------------------------------------------------------
(* Faults.                                                                 *)

\* A statement of the request fails or its client goes away.
RequestFails(r) ==
    /\ Fault
    /\ req[r] # NoRequest
    /\ Done(r)
    /\ UNCHANGED <<account, addressT, ticketed, deletion, todo, hard>>

\* A statement of the transaction fails: it is rolled back.
AnonymizeFails(i) ==
    /\ Fault
    /\ i \in todo
    /\ todo' = todo \ {i}
    /\ UNCHANGED <<account, addressT, ticketed, deletion, req, hard>>

\* The process dies and is started again.
Crash ==
    /\ Fault
    /\ todo' = {}
    /\ req' = [r \in Requests |-> NoRequest]
    /\ UNCHANGED <<account, addressT, ticketed, deletion, hard>>

-----------------------------------------------------------------------------

Request(r) == \/ \E u \in Users : Begin(r, u)
              \/ UpdateProfile(r)
              \/ CountAddresses(r)
              \/ CountFails(r)
              \/ Insert(r)
              \/ \E a \in Addresses : DeleteAddress(r, a) \/ LoadAddress(r, a) \/ CheckOwner(r, a)
              \/ SetDefault(r)
              \/ FileTicket(r)
              \/ CheckPending(r)
              \/ CommitDeletion(r)
              \/ RequestFails(r)

Next == \/ \E r \in Requests : Request(r)
        \/ \E i \in Deletions : ComeDue(i) \/ Anonymize(i) \/ AnonymizeBlocked(i) \/ AnonymizeFails(i)
        \/ \E u \in Users : HardDelete(u)
        \/ SelectDue
        \/ Crash

\* The worker's ticker fires every hour for ever and each pass runs to its
\* end.  Nothing is assumed of requests, of administrators or of time.
Fairness == /\ WF_vars(SelectDue)
            /\ WF_vars(\E i \in Deletions : Anonymize(i) \/ AnonymizeBlocked(i))

Spec == Init /\ [][Next]_vars /\ Fairness

-----------------------------------------------------------------------------
(* Properties.                                                             *)

Of(u) == { r \in Requests : req[r] # NoRequest /\ req[r].user = u }

\* What requests that were let in before the end of an account leave behind
\* in it afterwards is at most one datum each, and nothing else writes there:
\* RequireAuth looks at the account once, and a profile update or a new
\* address that comes after the anonymization is not undone by anybody.
ResidueBounded ==
    \A u \in Users :
        deleted[u] => Cardinality(book[u]) + (IF personal[u] THEN 1 ELSE 0) + Cardinality(Of(u))
                          <= Cardinality(Requests)

\* The flags of an account agree with its deletion requests and with its
\* administrator's: an account with a request is inactive, an inactive one has
\* a request or was deleted by hand, and the worker deletes none before the
\* grace period of a request is over.
AccountAgrees ==
    \A u \in Users :
        /\ \A i \in Deletions : u \in asker[i] => ~active[u]
        /\ ~active[u] => u \in hard \/ \E i \in Deletions : u \in asker[i]
        /\ deleted[u] => ~active[u] /\ (u \in hard \/ \E i \in Deletions : u \in asker[i] /\ due[i])
        /\ \A i \in Deletions : u \in asker[i] /\ status[i] = "anonymized" => deleted[u]

\* The count and the INSERT of a first address are two statements, so a user
\* may come to have more than one default, but never more than there were
\* requests at once, and counts that failed.
DefaultsBounded ==
    \A u \in Users :
        Cardinality(default \cap book[u])
          + Cardinality({ r \in Of(u) : req[r].pc = "counted" /\ req[r].first })
        <= Cardinality(Requests) + faults

\* A ticket's address does not disappear, whether its user deletes it or the
\* account is anonymized while the ticket is being filed, and only its owner
\* has it in the book.
TicketKeepsAddress ==
    /\ \A a \in ticketed : \E u \in Users : a \in book[u]
    /\ \A u, v \in Users : u # v => book[u] \cap book[v] = {}

\* A due request is carried out in the end, across failures and restarts,
\* unless a ticket holds on to an address of the user.
DueIsAnonymized ==
    \A i \in Deletions :
        status[i] = "pending" /\ due[i] ~> (status[i] = "anonymized" \/ \E u \in asker[i] : Blocked(u))

\* service.go:12-16, "applies Anonymize" to rows past their scheduled_for:
\* every due request is carried out.
DueIsServed ==
    \A i \in Deletions : status[i] = "pending" /\ due[i] ~> status[i] = "anonymized"
=============================================================================
