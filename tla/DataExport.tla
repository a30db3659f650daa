----------------------------- MODULE DataExport -----------------------------
(***************************************************************************)
(* The data export pipeline (internal/privacy): rows of                    *)
(* data_export_requests, the ZIP files they name, the export worker, and   *)
(* the request goroutines that ask for an export and download it.          *)
(*                                                                         *)
(* One goroutine runs the worker's ticks, one after the other.  A tick     *)
(* polls the oldest pending rows (Poll), generates each (Claim, StartZip,  *)
(* FinishZip, MakeReady), then selects the ready rows past their           *)
(* expires_at (SelectExpired) and purges each (RemoveFile, MarkExpired).   *)
(*                                                                         *)
(* RequestExport is a SELECT (CheckActive) and an INSERT (Insert).         *)
(* Download is a SELECT (Load), os.Stat (Stat), the stream, which opens    *)
(* the file anew (Stream), and an UPDATE by id alone (MarkDownloaded).     *)
(* Requests that are refused change nothing and have no step.              *)
(***************************************************************************)
EXTENDS Naturals, FiniteSets

CONSTANTS Users,
          Requests,     \* request goroutines
          MaxExports,   \* bound: rows that are ever inserted
          BatchLimit,   \* the LIMIT of the poll
          MaxFaults     \* bound: crashes, panics, failed statements and writes

Exports == 1..MaxExports

ASSUME BoundAssumption == /\ MaxExports \in Nat /\ MaxFaults \in Nat
                          /\ BatchLimit \in Nat \ {0}
ASSUME UsersAssumption == Users # {}

VARIABLES
    \* The table data_export_requests.
    status,     \* status[i]; "absent" before the INSERT
    owner,      \* owner[i]: the users to whom row i belongs, one or none
    filed,      \* filed[i]: file_path IS NOT NULL
    overdue,    \* overdue[i]: expires_at < NOW()
    \* The disk.
    file,       \* file[i]: export-<i>.zip is missing, partial or complete
    \* The worker's locals.
    pc,         \* where it is in its tick
    on,         \* the row it is on, as a set of at most one
    todo,       \* the rows of its batch that it has not begun
    req,        \* req[r]: the locals of the request in slot r
    delivered,  \* history: delivered[i], what downloads of row i received
    faults      \* faults so far

table  == <<status, owner, filed, overdue>>
worker == <<pc, on, todo>>
vars   == <<table, file, worker, req, delivered, faults>>

Statuses == {"pending", "processing", "ready", "downloaded", "expired"}

Contents == {"missing", "partial", "complete"}

NoRequest == [pc |-> "idle"]

Locals == [pc : {"checked"}, user : Users]
             \cup [pc : {"loaded", "statted", "streamed"}, export : Exports]

TypeOK ==
    /\ status \in [Exports -> Statuses \cup {"absent"}]
    /\ owner \in [Exports -> SUBSET Users]
    /\ filed \in [Exports -> BOOLEAN]
    /\ overdue \in [Exports -> BOOLEAN]
    /\ file \in [Exports -> Contents]
    /\ pc \in {"idle", "generate", "claimed", "zipping", "zipped", "purge", "removed"}
    /\ on \in SUBSET Exports
    /\ IF pc \in {"claimed", "zipping", "zipped", "removed"} THEN Cardinality(on) = 1
                                                           ELSE on = {}
    /\ todo \in SUBSET Exports
    /\ req \in [Requests -> Locals \cup {NoRequest}]
    /\ delivered \in [Exports -> SUBSET Contents]
    /\ faults \in 0..MaxFaults

Init ==
    /\ status = [i \in Exports |-> "absent"]
    /\ owner = [i \in Exports |-> {}]
    /\ filed = [i \in Exports |-> FALSE]
    /\ overdue = [i \in Exports |-> FALSE]
    /\ file = [i \in Exports |-> "missing"]
    /\ pc = "idle"
    /\ on = {}
    /\ todo = {}
    /\ req = [r \in Requests |-> NoRequest]
    /\ delivered = [i \in Exports |-> {}]
    /\ faults = 0

\* expires_at passes: 48 hours after the row became ready.
Expire(i) ==
    /\ status[i] \in {"ready", "downloaded"}
    /\ ~overdue[i]
    /\ overdue' = [overdue EXCEPT ![i] = TRUE]
    /\ UNCHANGED <<status, owner, filed, file, worker, req, delivered, faults>>

-----------------------------------------------------------------------------
(* RequestExport.                                                          *)

\* The rows that the first SELECT of RequestExport looks for.
Active(u) ==
    { i \in Exports : u \in owner[i] /\ status[i] \in {"pending", "processing", "ready"} }

CheckActive(r, u) ==
    /\ req[r] = NoRequest
    /\ Active(u) = {}
    /\ req' = [req EXCEPT ![r] = [pc |-> "checked", user |-> u]]
    /\ UNCHANGED <<table, file, worker, delivered, faults>>

\* The INSERT: ids are given in ascending order.
Insert(r) ==
    /\ req[r].pc = "checked"
    /\ \E i \in Exports :
           /\ status[i] = "absent"
           /\ \A j \in Exports : j < i => status[j] # "absent"
           /\ status' = [status EXCEPT ![i] = "pending"]
           /\ owner' = [owner EXCEPT ![i] = {req[r].user}]
    /\ req' = [req EXCEPT ![r] = NoRequest]
    /\ UNCHANGED <<filed, overdue, file, worker, delivered, faults>>

-----------------------------------------------------------------------------
(* Download.                                                               *)

\* GetActiveExport, and the tests that the row is ready and names a file.
Load(r, u) ==
    /\ req[r] = NoRequest
    /\ \E i \in Exports :
           /\ u \in owner[i]
           /\ \A j \in Exports : j > i => u \notin owner[j]
           /\ status[i] = "ready" /\ filed[i]
           /\ req' = [req EXCEPT ![r] = [pc |-> "loaded", export |-> i]]
    /\ UNCHANGED <<table, file, worker, delivered, faults>>

\* os.Stat: a missing file ends the request.
Stat(r) ==
    /\ req[r].pc = "loaded"
    /\ req' = [req EXCEPT ![r] = IF file[@.export] = "missing" THEN NoRequest
                                 ELSE [@ EXCEPT !.pc = "statted"]]
    /\ UNCHANGED <<table, file, worker, delivered, faults>>

\* c.File: a file removed in the meantime is a 404, and the handler goes on.
Stream(r) ==
    /\ req[r].pc = "statted"
    /\ LET i == req[r].export IN
       delivered' = [delivered EXCEPT ![i] = @ \cup {file[i]}]
    /\ req' = [req EXCEPT ![r].pc = "streamed"]
    /\ UNCHANGED <<table, file, worker, faults>>

\* Mutant of MarkDownloaded: the row is marked when its file is found, and the
\* stream may still be cut short.
MarkDownloadedFirst(r) ==
    /\ req[r].pc \in {"statted", "streamed"}
    /\ status' = [status EXCEPT ![req[r].export] = "downloaded"]
    /\ req' = [req EXCEPT ![r] = IF @.pc = "streamed" THEN NoRequest ELSE @]
    /\ UNCHANGED <<owner, filed, overdue, file, worker, delivered, faults>>

MarkDownloaded(r) ==
    /\ req[r].pc = "streamed"
    /\ status' = [status EXCEPT ![req[r].export] = "downloaded"]
    /\ req' = [req EXCEPT ![r] = NoRequest]
    /\ UNCHANGED <<owner, filed, overdue, file, worker, delivered, faults>>

-----------------------------------------------------------------------------
(* The worker: generating.                                                 *)

Pending == { i \in Exports : status[i] = "pending" }

\* Mutant of Batch: a row that is ready is generated again.
BatchWithReady == { i \in Exports : status[i] \in {"pending", "ready"} }

\* Mutant of Batch: off by one.
BatchShort == { i \in Pending : Cardinality({ j \in Pending : j <= i }) < BatchLimit }

\* ORDER BY id ASC LIMIT 10.
Batch == { i \in Pending : Cardinality({ j \in Pending : j < i }) < BatchLimit }

Poll ==
    /\ pc = "idle"
    /\ todo' = Batch
    /\ pc' = "generate"
    /\ UNCHANGED <<table, file, on, req, delivered, faults>>

Claim ==
    /\ pc = "generate"
    /\ \E i \in todo :
           /\ \A j \in todo : i <= j
           /\ status' = [status EXCEPT ![i] = IF @ = "pending" THEN "processing" ELSE @]
           /\ on' = {i}
           /\ todo' = todo \ {i}
    /\ pc' = "claimed"
    /\ UNCHANGED <<owner, filed, overdue, file, req, delivered, faults>>

\* os.Create truncates the file; entries are appended until the writer closes.
StartZip ==
    /\ pc = "claimed"
    /\ file' = [i \in Exports |-> IF i \in on THEN "partial" ELSE file[i]]
    /\ pc' = "zipping"
    /\ UNCHANGED <<table, on, todo, req, delivered, faults>>

FinishZip ==
    /\ pc = "zipping"
    /\ file' = [i \in Exports |-> IF i \in on THEN "complete" ELSE file[i]]
    /\ pc' = "zipped"
    /\ UNCHANGED <<table, on, todo, req, delivered, faults>>

\* Mutant of MakeReady: ready is written before the archive is closed.
MakeReadyEarly ==
    /\ pc \in {"zipping", "zipped"}
    /\ status' = [i \in Exports |-> IF i \in on THEN "ready" ELSE status[i]]
    /\ filed' = [i \in Exports |-> filed[i] \/ i \in on]
    /\ on' = IF pc = "zipped" THEN {} ELSE on
    /\ pc' = IF pc = "zipped" THEN "generate" ELSE "zipping"
    /\ UNCHANGED <<owner, overdue, file, todo, req, delivered, faults>>

\* The UPDATE to ready, with a fresh expires_at.
MakeReady ==
    /\ pc = "zipped"
    /\ status' = [i \in Exports |-> IF i \in on THEN "ready" ELSE status[i]]
    /\ filed' = [i \in Exports |-> filed[i] \/ i \in on]
    /\ overdue' = [i \in Exports |-> overdue[i] /\ i \notin on]
    /\ on' = {}
    /\ pc' = "generate"
    /\ UNCHANGED <<owner, file, todo, req, delivered, faults>>

-----------------------------------------------------------------------------
(* The worker: CleanupExpiredExports.                                      *)

\* Mutant of Purgeable: only rows that were downloaded are purged.
PurgeableDownloaded == { i \in Exports : status[i] = "downloaded" /\ overdue[i] }

Purgeable == { i \in Exports : status[i] = "ready" /\ overdue[i] }

SelectExpired ==
    /\ pc = "generate"
    /\ todo = {}
    /\ todo' = Purgeable
    /\ pc' = IF Purgeable = {} THEN "idle" ELSE "purge"
    /\ UNCHANGED <<table, file, on, req, delivered, faults>>

\* os.Remove of one row's file.
RemoveFile(i) ==
    /\ pc = "purge"
    /\ i \in todo
    /\ file' = [file EXCEPT ![i] = "missing"]
    /\ on' = {i}
    /\ todo' = todo \ {i}
    /\ pc' = "removed"
    /\ UNCHANGED <<table, req, delivered, faults>>

\* The purge of a row is over; the tick ends with the last one.
Purged == /\ pc = "removed"
          /\ on' = {}
          /\ pc' = IF todo = {} THEN "idle" ELSE "purge"

\* The UPDATE, by id alone.
MarkExpired ==
    /\ Purged
    /\ status' = [i \in Exports |-> IF i \in on THEN "expired" ELSE status[i]]
    /\ filed' = [i \in Exports |-> filed[i] /\ i \notin on]
    /\ UNCHANGED <<owner, overdue, file, todo, req, delivered, faults>>
-----------------------------------------------------------------------------
(* Faults.                                                                 *)

Fault == faults < MaxFaults /\ faults' = faults + 1

\* The SELECT of the poll fails: the tick goes on to the cleanup.
PollFails ==
    /\ Fault
    /\ pc = "idle"
    /\ pc' = "generate"
    /\ UNCHANGED <<table, file, on, todo, req, delivered>>

\* The claiming UPDATE fails, and with it the row's turn.
ClaimFails ==
    /\ Fault
    /\ pc = "generate"
    /\ \E i \in todo : (\A j \in todo : i <= j) /\ todo' = todo \ {i}
    /\ UNCHANGED <<table, file, pc, on, req, delivered>>

\* writeUserZip returns an error: the row is pending again.
ZipFails ==
    /\ Fault
    /\ pc \in {"claimed", "zipping"}
    /\ status' = [i \in Exports |-> IF i \in on THEN "pending" ELSE status[i]]
    /\ on' = {}
    /\ pc' = "generate"
    /\ UNCHANGED <<owner, filed, overdue, file, todo, req, delivered>>

\* Another step of GenerateExport fails (the SELECT, MkdirAll, the UPDATE back
\* to pending, the UPDATE to ready): the row stays in processing.
GenerateFails ==
    /\ Fault
    /\ pc \in {"claimed", "zipping", "zipped"}
    /\ on' = {}
    /\ pc' = "generate"
    /\ UNCHANGED <<table, file, todo, req, delivered>>

\* A collector's error, or that of the deferred Close of the archive, is
\* ignored: an incomplete file is taken for the export.
ZipTruncated ==
    /\ Fault
    /\ pc = "zipping"
    /\ pc' = "zipped"
    /\ UNCHANGED <<table, file, on, todo, req, delivered>>

\* The error of os.Remove is ignored.
RemoveFails(i) ==
    /\ Fault
    /\ pc = "purge"
    /\ i \in todo
    /\ on' = {i}
    /\ todo' = todo \ {i}
    /\ pc' = "removed"
    /\ UNCHANGED <<table, file, req, delivered>>

\* The error of the UPDATE to expired is ignored.
MarkExpiredFails ==
    /\ Fault
    /\ Purged
    /\ UNCHANGED <<table, file, todo, req, delivered>>

\* The cleanup's SELECT fails, or a panic is recovered by bgjob.Safe.
TickFails ==
    /\ Fault
    /\ pc # "idle"
    /\ pc' = "idle"
    /\ on' = {}
    /\ todo' = {}
    /\ UNCHANGED <<table, file, req, delivered>>

\* A statement of a request fails or its client goes away.
RequestFails(r) ==
    /\ Fault
    /\ req[r] # NoRequest
    /\ req' = [req EXCEPT ![r] = NoRequest]
    /\ UNCHANGED <<table, file, worker, delivered>>

\* The process dies and is started again; nothing repairs the table.
Crash ==
    /\ Fault
    /\ pc' = "idle"
    /\ on' = {}
    /\ todo' = {}
    /\ req' = [r \in Requests |-> NoRequest]
    /\ UNCHANGED <<table, file, delivered>>

-----------------------------------------------------------------------------

Generate == Poll \/ Claim \/ StartZip \/ FinishZip \/ MakeReady

Cleanup == \/ SelectExpired
           \/ \E i \in Exports : RemoveFile(i)
           \/ MarkExpired

WorkerFault == \/ PollFails \/ ClaimFails \/ ZipFails \/ GenerateFails \/ ZipTruncated
               \/ \E i \in Exports : RemoveFails(i)
               \/ MarkExpiredFails \/ TickFails

Request(r) == \/ \E u \in Users : CheckActive(r, u) \/ Load(r, u)
              \/ Insert(r)
              \/ Stat(r)
              \/ Stream(r)
              \/ MarkDownloaded(r)
              \/ RequestFails(r)

Next == \/ Generate
        \/ Cleanup
        \/ WorkerFault
        \/ \E r \in Requests : Request(r)
        \/ \E i \in Exports : Expire(i)
        \/ Crash

\* The worker's ticker fires every 30 seconds for ever and each tick runs to
\* its end.  Nothing is assumed of requests or of time.
Fairness == WF_vars(Generate) /\ WF_vars(Cleanup)

Spec == Init /\ [][Next]_vars /\ Fairness

-----------------------------------------------------------------------------
(* Properties.                                                             *)

\* Each fault costs the users one export at most: a row left in processing
\* that nobody will finish, a row whose file is incomplete, or a file that
\* stays on the disk although its row has expired.
Lost(i) ==
    \/ status[i] = "processing" /\ i \notin on
    \/ status[i] = "ready" /\ file[i] = "partial"
    \/ status[i] = "expired" /\ file[i] # "missing"

LossBounded == Cardinality({ i \in Exports : Lost(i) }) <= faults

\* No download receives an archive that the worker is still writing; it comes
\* too late only for an export past its retention.
DownloadIntact ==
    \A i \in Exports : /\ "partial" \in delivered[i] => faults > 0
                       /\ "missing" \in delivered[i] => overdue[i]

\* The stage of ExportPromise in which a row is, as its user sees it.
StageOf(i) == CASE status[i] = "absent" -> "none"
                [] status[i] \in {"pending", "processing"} -> "asked"
                [] status[i] = "ready" -> "offered"
                [] status[i] = "downloaded" -> "taken"
                [] status[i] = "expired" -> "withdrawn"

ArchiveOf(i) == IF StageOf(i) \in {"offered", "taken", "withdrawn"} THEN file[i] ELSE "none"

\* The pipeline keeps its promise about each row (ExportPromise).
Promise == INSTANCE ExportPromise WITH
              stage <- [i \in Exports |-> StageOf(i)],
              archive <- [i \in Exports |-> ArchiveOf(i)],
              late <- { i \in Exports : overdue[i] },
              got <- delivered
PromiseKept == Promise!Spec

\* A pending row is generated in the end, unless a fault has lost it.
PendingIsServed ==
    \A i \in Exports :
        status[i] = "pending" ~> (status[i] \in {"ready", "downloaded", "expired"} \/ Lost(i))

\* A ready row past its retention does not stay so.
OverdueIsPurged ==
    \A i \in Exports : status[i] = "ready" /\ overdue[i] ~> status[i] # "ready"
=============================================================================
