------------------------------ MODULE Uploads -------------------------------
(***************************************************************************)
(* Files that users send with a ticket or a review: internal/upload, the   *)
(* Create handlers of internal/ticket and internal/review, and the         *)
(* deletion of ticket attachments.                                         *)
(*                                                                         *)
(* Create checks how many files there are (Submit), INSERTs the ticket or  *)
(* the review (Insert), and then for one file after the other writes it to *)
(* the disk (Save) and INSERTs its row (Record).  There is no transaction  *)
(* and nothing is undone: the first file that is refused or fails ends the *)
(* request with an error and leaves the ticket, or the review, with the    *)
(* files that were before it.                                              *)
(*                                                                         *)
(* A view sends its form again after any error, also when its connection   *)
(* broke or the proxy timed out (GiveUp) while the submission went on or   *)
(* its 201 was under way, and nothing tells the second submission from a   *)
(* first: it makes another ticket, and only a review is refused, since     *)
(* ticket_id is UNIQUE in reviews.                                         *)
(*                                                                         *)
(* DeleteAttachment SELECTs the row (LoadAttachment), DELETEs it           *)
(* (DeleteRow) and removes the file without looking at the outcome         *)
(* (RemoveFile).  Files are named by fresh UUIDs and rows name the files,  *)
(* so both go by the number of the UUID.                                   *)
(***************************************************************************)
EXTENDS Naturals, FiniteSets

CONSTANTS Forms,       \* what users mean to file: tickets and reviews
          Reviews,     \* the forms that are reviews
          Requests,    \* goroutines of submissions
          Deleters,    \* goroutines of deletions
          Limit,       \* MaxAttachmentsPerTicket, MaxReviewImages
          MaxOwners,   \* bound: rows of tickets and reviews together
          MaxFiles,    \* bound: UUIDs that are drawn
          MaxFaults    \* bound: crashes, lost answers, failed statements and writes

Owners == 1..MaxOwners

Files == 1..MaxFiles

Nobody == 0            \* of no owner: a file without a row

ASSUME FormAssumption == Reviews \subseteq Forms /\ Nobody \notin Forms
ASSUME PeerAssumption == IsFiniteSet(Requests) /\ IsFiniteSet(Deleters)
ASSUME BoundAssumption == /\ Limit \in Nat \ {0}
                          /\ MaxOwners \in Nat /\ MaxFiles \in Nat /\ MaxFaults \in Nat

VARIABLES
    form,      \* form[o]: the form that row o was made from; Nobody before that
    attached,  \* attached[f]: the owner in the row of file f; Nobody without a row
    disk,      \* files that are in the storage directory
    drawn,     \* UUIDs drawn so far: 1..drawn
    req,       \* req[r]: the locals of a submission
    del,       \* del[d]: the locals of a deletion
    asked,     \* history: asked[o], files that came with the form
    outcome,   \* history: outcome[o], what its submission was answered
    unheard,   \* history: rows whose submission its client gave up on
    deleted,   \* history: deleted[o], its rows that a deletion took away
    stray,     \* history: files that a fault left without a row
    faults     \* faults so far

store   == <<form, attached, disk, drawn>>
history == <<asked, outcome, unheard, deleted, stray>>
vars    == <<store, req, del, history, faults>>

NoRequest == [pc |-> "idle"]

\* left: the files still to be stored; bad: which of them Save refuses, counted
\* from the end, 0 for none; file: the file saved last.  waits: the client is
\* there, until there is a row for unheard to tell.
Locals == [pc : {"checked"}, form : Forms, left : 0..Limit, bad : 0..Limit, waits : BOOLEAN]
             \cup [pc : {"filing"}, owner : Owners, left : 0..Limit, bad : 0..Limit]
             \cup [pc : {"saved"}, owner : Owners, left : 1..Limit, bad : 0..Limit, file : Files]

TypeOK ==
    /\ form \in [Owners -> Forms \cup {Nobody}]
    /\ attached \in [Files -> Owners \cup {Nobody}]
    /\ disk \in SUBSET Files
    /\ drawn \in 0..MaxFiles
    /\ req \in [Requests -> Locals \cup {NoRequest}]
    /\ del \in [Deleters -> [pc : {"loaded", "removing"}, file : Files] \cup {NoRequest}]
    /\ asked \in [Owners -> 0..Limit]
    /\ outcome \in [Owners -> {"none", "created", "error"}]
    /\ unheard \in SUBSET Owners
    /\ deleted \in [Owners -> Nat]
    /\ stray \in SUBSET Files
    /\ faults \in 0..MaxFaults

Init ==
    /\ form = [o \in Owners |-> Nobody]
    /\ attached = [f \in Files |-> Nobody]
    /\ disk = {}
    /\ drawn = 0
    /\ req = [r \in Requests |-> NoRequest]
    /\ del = [d \in Deleters |-> NoRequest]
    /\ asked = [o \in Owners |-> 0]
    /\ outcome = [o \in Owners |-> "none"]
    /\ unheard = {}
    /\ deleted = [o \in Owners |-> 0]
    /\ stray = {}
    /\ faults = 0

Fault == faults < MaxFaults /\ faults' = faults + 1

Goes(r, locals) == req' = [req EXCEPT ![r] = locals]

\* The rows of table ticket_attachments or review_images about owner o.
RowsOf(o) == { f \in Files : attached[f] = o }

MadeFrom(i) == { o \in Owners : form[o] = i }

-----------------------------------------------------------------------------
(* Create.                                                                 *)

\* The client's side: a form is not sent while an answer to it is awaited (the
\* button is disabled), nor after a 201 that arrived (the view is left).
Settled(i) == \/ \E o \in MadeFrom(i) : outcome[o] # "error" /\ o \notin unheard
              \/ \E r \in Requests : req[r].pc = "checked" /\ req[r].form = i /\ req[r].waits

\* n files, of which the one before the last b - 1 will be refused.
Submit(r, i, n, b) ==
    /\ req[r] = NoRequest
    /\ ~Settled(i)
    /\ n <= Limit /\ b <= n
    /\ Goes(r, [pc |-> "checked", form |-> i, left |-> n, bad |-> b, waits |-> TRUE])
    /\ UNCHANGED <<store, del, history, faults>>

\* The connection breaks, the proxy times out or the tab is closed, and the
\* handler does not stop for it.
GiveUp(r) ==
    /\ Fault
    /\ \/ /\ req[r].pc = "checked" /\ req[r].waits
          /\ Goes(r, [pc |-> "checked", form |-> req[r].form, left |-> req[r].left,
                      bad |-> req[r].bad, waits |-> FALSE])
          /\ UNCHANGED unheard
       \/ /\ req[r].pc \in {"filing", "saved"} /\ req[r].owner \notin unheard
          /\ unheard' = unheard \cup {req[r].owner}
          /\ UNCHANGED req
    /\ UNCHANGED <<store, del, asked, outcome, deleted, stray>>

\* A statement fails: by a fault, or because its context ended with the client.
Breaks(gone) == Fault \/ (gone /\ UNCHANGED faults)

\* Mutant of Taken: reviews without the UNIQUE index.
NotTaken(i) == FALSE

\* The UNIQUE index of reviews refuses the INSERT.
Taken(i) == i \in Reviews /\ MadeFrom(i) # {}

\* The INSERT of the ticket or the review, which may fail; if the SELECT after
\* it fails the row stays and the request ends there.
Insert(r) ==
    /\ req[r].pc = "checked"
    /\ LET i == req[r].form  gone == ~req[r].waits IN
       \/ /\ \/ Taken(i) /\ UNCHANGED faults
             \/ Breaks(gone)
          /\ Goes(r, NoRequest)
          /\ UNCHANGED <<form, asked, outcome, unheard>>
       \/ /\ ~Taken(i)
          /\ \E o \in Owners :
              /\ form[o] = Nobody
              /\ \A p \in Owners : p < o => form[p] # Nobody
              /\ form' = [form EXCEPT ![o] = i]
              /\ asked' = [asked EXCEPT ![o] = req[r].left]
              /\ unheard' = IF gone THEN unheard \cup {o} ELSE unheard
              /\ \/ /\ Goes(r, [pc |-> "filing", owner |-> o,
                                left |-> req[r].left, bad |-> req[r].bad])
                    /\ UNCHANGED <<outcome, faults>>
                 \/ /\ Breaks(gone)
                    /\ outcome' = [outcome EXCEPT ![o] = "error"]
                    /\ Goes(r, NoRequest)
    /\ UNCHANGED <<attached, disk, drawn, del, deleted, stray>>

Fails(r) == /\ outcome' = [outcome EXCEPT ![req[r].owner] = "error"]
            /\ Goes(r, NoRequest)

\* upload.Save refuses the next file by its size, type or name.
Refuse(r) ==
    /\ req[r].pc = "filing"
    /\ req[r].left > 0 /\ req[r].left = req[r].bad
    /\ Fails(r)
    /\ UNCHANGED <<store, del, asked, unheard, deleted, stray, faults>>

\* upload.Save writes the next file, or fails and removes what it wrote, or
\* fails in that too and leaves half a file.
Save(r) ==
    /\ req[r].pc = "filing"
    /\ req[r].left > 0 /\ req[r].left # req[r].bad
    /\ \/ /\ drawn < MaxFiles
          /\ drawn' = drawn + 1
          /\ disk' = disk \cup {drawn + 1}
          /\ Goes(r, [pc |-> "saved", owner |-> req[r].owner, left |-> req[r].left,
                      bad |-> req[r].bad, file |-> drawn + 1])
          /\ UNCHANGED <<outcome, stray, faults>>
       \/ /\ Fault /\ Fails(r)
          /\ \/ UNCHANGED <<drawn, disk, stray>>
             \/ /\ drawn < MaxFiles
                /\ drawn' = drawn + 1
                /\ disk' = disk \cup {drawn + 1}
                /\ stray' = stray \cup {drawn + 1}
    /\ UNCHANGED <<form, attached, del, asked, unheard, deleted>>

\* RecordAttachment and RecordImage.
Record(r) ==
    /\ req[r].pc = "saved"
    /\ attached' = [attached EXCEPT ![req[r].file] = req[r].owner]
    /\ Goes(r, [pc |-> "filing", owner |-> req[r].owner,
                left |-> req[r].left - 1, bad |-> req[r].bad])
    /\ UNCHANGED <<form, disk, drawn, del, history, faults>>

\* The INSERT of the row fails, or the SELECT after it.
RecordFails(r) ==
    /\ req[r].pc = "saved"
    /\ Breaks(req[r].owner \in unheard)
    /\ Fails(r)
    /\ \/ stray' = stray \cup {req[r].file} /\ UNCHANGED attached
       \/ /\ form[req[r].owner] \notin Reviews
          /\ attached' = [attached EXCEPT ![req[r].file] = req[r].owner]
          /\ UNCHANGED stray
    /\ UNCHANGED <<form, disk, drawn, del, asked, unheard, deleted>>

\* 201, whether or not the client is there to hear it.
Answer(r) ==
    /\ req[r].pc = "filing" /\ req[r].left = 0
    /\ outcome' = [outcome EXCEPT ![req[r].owner] = "created"]
    /\ Goes(r, NoRequest)
    /\ UNCHANGED <<store, del, asked, unheard, deleted, stray, faults>>

-----------------------------------------------------------------------------
(* DeleteAttachment, by the owner of the ticket or an administrator.       *)

LoadAttachment(d, f) ==
    /\ del[d] = NoRequest
    /\ attached[f] # Nobody /\ form[attached[f]] \notin Reviews
    /\ del' = [del EXCEPT ![d] = [pc |-> "loaded", file |-> f]]
    /\ UNCHANGED <<store, req, history, faults>>

\* Mutant of DeleteRow: the file is removed first.
DeleteFileFirst(d) ==
    /\ del[d].pc = "loaded"
    /\ disk' = disk \ {del[d].file}
    /\ del' = [del EXCEPT ![d].pc = "removing"]
    /\ UNCHANGED <<form, attached, drawn, req, history, faults>>

\* The DELETE affects no row when another deletion came first: 500.
DeleteRow(d) ==
    /\ del[d].pc = "loaded"
    /\ LET f == del[d].file
           o == attached[f]
       IN IF o = Nobody
          THEN del' = [del EXCEPT ![d] = NoRequest] /\ UNCHANGED <<attached, deleted>>
          ELSE /\ attached' = [attached EXCEPT ![f] = Nobody]
               /\ deleted' = [deleted EXCEPT ![o] = @ + 1]
               /\ del' = [del EXCEPT ![d].pc = "removing"]
    /\ UNCHANGED <<form, disk, drawn, req, asked, outcome, unheard, stray, faults>>

\* os.Remove, whose error is dropped.
RemoveFile(d) ==
    /\ del[d].pc = "removing"
    /\ \/ disk' = disk \ {del[d].file} /\ UNCHANGED <<stray, faults>>
       \/ Fault /\ stray' = stray \cup {del[d].file} /\ UNCHANGED disk
    /\ del' = [del EXCEPT ![d] = NoRequest]
    /\ UNCHANGED <<form, attached, drawn, req, asked, outcome, unheard, deleted>>

-----------------------------------------------------------------------------
(* The process dies: files that are half written, written and not recorded *)
(* or deleted and not removed stay on the disk.                            *)

InHand == { f \in Files : \/ \E r \in Requests : req[r].pc = "saved" /\ req[r].file = f
                          \/ \E d \in Deleters : del[d].pc = "removing" /\ del[d].file = f }

Crash ==
    /\ \/ \E r \in Requests : req[r] # NoRequest
       \/ \E d \in Deleters : del[d] # NoRequest
    /\ Fault
    /\ stray' = stray \cup InHand
    /\ outcome' = [o \in Owners |->
                      IF \E r \in Requests : req[r].pc \in {"filing", "saved"} /\ req[r].owner = o
                      THEN "error" ELSE outcome[o]]
    /\ req' = [r \in Requests |-> NoRequest]
    /\ del' = [d \in Deleters |-> NoRequest]
    /\ UNCHANGED <<store, asked, unheard, deleted>>

Create(r) ==
    \/ \E i \in Forms, n \in 0..(Limit + 1), b \in 0..(Limit + 1) : Submit(r, i, n, b)
    \/ GiveUp(r) \/ Insert(r) \/ Refuse(r) \/ Save(r) \/ Record(r) \/ RecordFails(r) \/ Answer(r)

DeleteAttachment(d) ==
    \/ \E f \in Files : LoadAttachment(d, f)
    \/ DeleteRow(d) \/ RemoveFile(d)

Next == \/ \E r \in Requests : Create(r)
        \/ \E d \in Deleters : DeleteAttachment(d)
        \/ Crash

Spec == Init /\ [][Next]_vars

-----------------------------------------------------------------------------
(* Correctness.                                                            *)

\* Rows and files agree, however filings and deletions overlap: every row names
\* a file that is on the disk, since a file is there before its row and until
\* its row is gone, and a file that no row names is about to be recorded or
\* removed, or was left there by a fault (upload.Save with its deferred
\* removal, Create, DeleteAttachment).
FilesMatchRows ==
    /\ \A f \in Files : attached[f] # Nobody => f \in disk
    /\ \A f \in disk : attached[f] = Nobody => f \in InHand \cup stray

\* A ticket or review that was answered with 201 got every file that came with
\* the form, and has those that nobody deleted; one that ended in an error may
\* have fewer, never more, and none has more than the limit.  However often a
\* form is submitted again, at most one of what it made is neither an error nor
\* a submission whose client gave up waiting, those are no more than the faults,
\* and a review is made once: its missing images can never be sent again
\* (Create; handleSubmit of TicketCreateView.vue).
FiledOnce ==
    /\ \A o \in Owners :
        /\ Cardinality(RowsOf(o)) + deleted[o] <= asked[o]
        /\ outcome[o] = "created" => Cardinality(RowsOf(o)) + deleted[o] = asked[o]
        /\ Cardinality(RowsOf(o)) <= Limit
    /\ \A i \in Forms :
        /\ Cardinality({ o \in MadeFrom(i) : outcome[o] # "error" /\ o \notin unheard }) <= 1
        /\ i \in Reviews => Cardinality(MadeFrom(i)) <= 1
    /\ Cardinality(unheard) <= faults
=============================================================================
