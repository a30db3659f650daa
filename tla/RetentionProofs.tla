--------------------------- MODULE RetentionProofs ---------------------------
(***************************************************************************)
(* Theorems about DataExport, for every number of users, requests, rows    *)
(* and faults and every size of the batch, and about Lakehouse, for every  *)
(* number of files, holds, sweeps and failures.  The two components share  *)
(* no state.                                                               *)
(***************************************************************************)
EXTENDS DataExport, Lakehouse, FiniteSetTheorems, TLAPS

-----------------------------------------------------------------------------
(* DataExport: type correctness.                                           *)

OnPoints == {"claimed", "zipping", "zipped", "removed"}

\* The worker is on one row or on none.
LEMMA OnOne ==
    ASSUME on \subseteq Exports, IF pc \in OnPoints THEN Cardinality(on) = 1 ELSE on = {}
    PROVE  /\ pc \in OnPoints => \E i \in Exports : on = {i}
           /\ pc \notin OnPoints => on = {}
<1>1. ASSUME pc \in OnPoints
      PROVE  \E i \in Exports : on = {i}
  <2>1. IsFiniteSet(Exports)
    BY FS_Interval, BoundAssumption DEF Exports
  <2>2. IsFiniteSet(on)
    BY <2>1, FS_Subset
  <2> QED
    BY <1>1, <2>2, FS_Singleton
<1> QED
  BY <1>1

LEMMA OneIsOn == ASSUME NEW i PROVE Cardinality({i}) = 1
BY FS_Singleton

LEMMA FaultType == TypeOK /\ Fault => faults' \in 0..MaxFaults /\ faults' = faults + 1
BY BoundAssumption DEF TypeOK, Fault

LEMMA ReqShape ==
    ASSUME TypeOK, NEW r \in Requests
    PROVE  /\ req[r].pc = "checked" => req[r] \in Locals /\ req[r].user \in Users
           /\ req[r].pc \in {"loaded", "statted", "streamed"} => req[r] \in Locals /\ req[r].export \in Exports
BY DEF TypeOK, Locals, NoRequest

LEMMA InitType == Init => TypeOK
<1> SUFFICES ASSUME Init
             PROVE  TypeOK
  OBVIOUS
<1>1. 0 \in 0..MaxFaults
  BY BoundAssumption
<1>2. /\ status \in [Exports -> Statuses \cup {"absent"}] /\ owner \in [Exports -> SUBSET Users]
      /\ filed \in [Exports -> BOOLEAN] /\ overdue \in [Exports -> BOOLEAN]
      /\ file \in [Exports -> Contents] /\ delivered \in [Exports -> SUBSET Contents]
  BY DEF Init, Contents
<1> QED
  BY <1>1, <1>2 DEF Init, TypeOK

TableType ==
    /\ status \in [Exports -> Statuses \cup {"absent"}]
    /\ owner \in [Exports -> SUBSET Users]
    /\ filed \in [Exports -> BOOLEAN]
    /\ overdue \in [Exports -> BOOLEAN]

OnType ==
    /\ pc \in {"idle", "generate", "claimed", "zipping", "zipped", "purge", "removed"}
    /\ on \in SUBSET Exports
    /\ IF pc \in OnPoints THEN Cardinality(on) = 1 ELSE on = {}
    /\ todo \in SUBSET Exports

RestType ==
    /\ file \in [Exports -> Contents]
    /\ req \in [Requests -> Locals \cup {NoRequest}]
    /\ delivered \in [Exports -> SUBSET Contents]
    /\ faults \in 0..MaxFaults

LEMMA TypeParts == TypeOK <=> TableType /\ OnType /\ RestType
BY DEF TypeOK, TableType, OnType, RestType, OnPoints

LEMMA TypePartsNext == TypeOK' <=> TableType' /\ OnType' /\ RestType'
BY TypeParts, PTL

LEMMA RequestType ==
    ASSUME TypeOK, NEW r \in Requests, Request(r)
    PROVE  TypeOK'
<1>0. TableType /\ OnType /\ RestType
  BY TypeParts
<1>1. ASSUME NEW u \in Users, CheckActive(r, u)
      PROVE  TypeOK'
  <2>1. [pc |-> "checked", user |-> u] \in Locals
    BY DEF Locals
  <2>2. RestType'
    BY <1>0, <1>1, <2>1 DEF CheckActive, RestType
  <2>3. TableType' /\ OnType'
    BY <1>0, <1>1 DEF CheckActive, table, worker, TableType, OnType
  <2> QED
    BY <2>2, <2>3, TypePartsNext
<1>2. ASSUME NEW u \in Users, Load(r, u)
      PROVE  TypeOK'
  <2>1. \A i \in Exports : [pc |-> "loaded", export |-> i] \in Locals
    BY DEF Locals
  <2>2. RestType'
    BY <1>0, <1>2, <2>1 DEF Load, RestType
  <2>3. TableType' /\ OnType'
    BY <1>0, <1>2 DEF Load, table, worker, TableType, OnType
  <2> QED
    BY <2>2, <2>3, TypePartsNext
<1>3. CASE Insert(r)
  <2>1. req[r].user \in Users
    BY <1>3, ReqShape DEF Insert
  <2>2. TableType'
    BY <1>0, <1>3, <2>1 DEF Insert, TableType, Statuses
  <2>3. OnType' /\ RestType'
    BY <1>0, <1>3 DEF Insert, worker, OnType, RestType
  <2> QED
    BY <2>2, <2>3, TypePartsNext
<1>4. CASE Stat(r)
  <2>1. req[r].export \in Exports /\ req[r] \in [pc : {"loaded", "statted", "streamed"}, export : Exports]
    BY <1>4, ReqShape DEF Stat, Locals
  <2>2. [req[r] EXCEPT !.pc = "statted"] \in Locals
    BY <2>1 DEF Locals
  <2>3. RestType'
    BY <1>0, <1>4, <2>2 DEF Stat, RestType
  <2>4. TableType' /\ OnType'
    BY <1>0, <1>4 DEF Stat, table, worker, TableType, OnType
  <2> QED
    BY <2>3, <2>4, TypePartsNext
<1>5. CASE Stream(r)
  <2>1. req[r].export \in Exports /\ req[r] \in [pc : {"loaded", "statted", "streamed"}, export : Exports]
    BY <1>5, ReqShape DEF Stream, Locals
  <2>2. [req[r] EXCEPT !.pc = "streamed"] \in Locals
    BY <2>1 DEF Locals
  <2>3. RestType'
    BY <1>0, <1>5, <2>1, <2>2 DEF Stream, RestType
  <2>4. TableType' /\ OnType'
    BY <1>0, <1>5 DEF Stream, table, worker, TableType, OnType
  <2> QED
    BY <2>3, <2>4, TypePartsNext
<1>6. CASE MarkDownloaded(r)
  <2>1. TableType'
    BY <1>0, <1>6 DEF MarkDownloaded, TableType, Statuses
  <2>2. OnType' /\ RestType'
    BY <1>0, <1>6 DEF MarkDownloaded, worker, OnType, RestType
  <2> QED
    BY <2>1, <2>2, TypePartsNext
<1>7. CASE RequestFails(r)
  <2>1. TableType' /\ OnType'
    BY <1>0, <1>7 DEF RequestFails, table, worker, TableType, OnType
  <2>2. RestType'
    BY <1>0, <1>7, FaultType DEF RequestFails, RestType
  <2> QED
    BY <2>1, <2>2, TypePartsNext
<1> QED
  BY <1>1, <1>2, <1>3, <1>4, <1>5, <1>6, <1>7 DEF Request

LEMMA WorkType ==
    ASSUME TypeOK, Generate \/ Cleanup
    PROVE  TypeOK'
<1>0. TableType /\ OnType /\ RestType
  BY TypeParts
<1>1. TableType'
  <2>1. CASE UNCHANGED table
    BY <1>0, <2>1 DEF TableType, table
  <2>2. CASE Claim
    BY <1>0, <2>2 DEF Claim, TableType, Statuses
  <2>3. CASE MakeReady
    BY <1>0, <2>3 DEF MakeReady, TableType, Statuses
  <2>4. CASE MarkExpired
    BY <1>0, <2>4 DEF MarkExpired, TableType, Statuses
  <2> QED
    BY <2>1, <2>2, <2>3, <2>4
       DEF Generate, Cleanup, Poll, StartZip, FinishZip, SelectExpired, RemoveFile
<1>2. RestType'
  <2>1. UNCHANGED <<req, delivered, faults>>
    BY DEF Generate, Cleanup, Poll, Claim, StartZip, FinishZip, MakeReady, SelectExpired, RemoveFile, MarkExpired
  <2>2. file' \in [Exports -> Contents]
    BY <1>0 DEF Generate, Cleanup, Poll, Claim, StartZip, FinishZip, MakeReady,
                SelectExpired, RemoveFile, MarkExpired, RestType, Contents
  <2> QED
    BY <1>0, <2>1, <2>2 DEF RestType
<1>3. OnType'
  <2>1. CASE Poll
    BY <1>0, <2>1 DEF Poll, OnType, OnPoints, Batch, Pending
  <2>2. CASE Claim
    BY <1>0, <2>2, OneIsOn DEF Claim, OnType, OnPoints
  <2>3. CASE StartZip
    BY <1>0, <2>3 DEF StartZip, OnType, OnPoints
  <2>4. CASE FinishZip
    BY <1>0, <2>4 DEF FinishZip, OnType, OnPoints
  <2>5. CASE MakeReady
    BY <1>0, <2>5 DEF MakeReady, OnType, OnPoints
  <2>6. CASE SelectExpired
    BY <1>0, <2>6 DEF SelectExpired, OnType, OnPoints, Purgeable
  <2>7. ASSUME NEW i \in Exports, RemoveFile(i)
        PROVE  OnType'
    BY <1>0, <2>7, OneIsOn DEF RemoveFile, OnType, OnPoints
  <2>8. CASE MarkExpired
    BY <1>0, <2>8 DEF MarkExpired, Purged, OnType, OnPoints
  <2> QED
    BY <2>1, <2>2, <2>3, <2>4, <2>5, <2>6, <2>7, <2>8 DEF Generate, Cleanup
<1> QED
  BY <1>1, <1>2, <1>3, TypePartsNext

LEMMA WorkFaultType ==
    ASSUME TypeOK, WorkerFault
    PROVE  TypeOK'
<1>0. TableType /\ OnType /\ RestType
  BY TypeParts
<1>1. TableType'
  <2>1. CASE UNCHANGED table
    BY <1>0, <2>1 DEF TableType, table
  <2>2. CASE ZipFails
    BY <1>0, <2>2 DEF ZipFails, TableType, Statuses
  <2> QED
    BY <2>1, <2>2 DEF WorkerFault, PollFails, ClaimFails, GenerateFails, ZipTruncated, RemoveFails,
                      MarkExpiredFails, TickFails
<1>2. RestType'
  <2>1. Fault /\ UNCHANGED <<file, req, delivered>>
    BY DEF WorkerFault, PollFails, ClaimFails, ZipFails, GenerateFails, ZipTruncated, RemoveFails,
           MarkExpiredFails, TickFails
  <2> QED
    BY <1>0, <2>1, FaultType DEF RestType
<1>3. OnType'
  <2>1. CASE PollFails \/ ClaimFails
    BY <1>0, <2>1 DEF PollFails, ClaimFails, OnType, OnPoints
  <2>2. CASE ZipFails \/ GenerateFails \/ TickFails
    BY <1>0, <2>2 DEF ZipFails, GenerateFails, TickFails, OnType, OnPoints
  <2>3. CASE ZipTruncated
    BY <1>0, <2>3 DEF ZipTruncated, OnType, OnPoints
  <2>4. ASSUME NEW i \in Exports, RemoveFails(i)
        PROVE  OnType'
    BY <1>0, <2>4, OneIsOn DEF RemoveFails, OnType, OnPoints
  <2>5. CASE MarkExpiredFails
    BY <1>0, <2>5 DEF MarkExpiredFails, Purged, OnType, OnPoints
  <2> QED
    BY <2>1, <2>2, <2>3, <2>4, <2>5 DEF WorkerFault
<1> QED
  BY <1>1, <1>2, <1>3, TypePartsNext

LEMMA NextType == TypeOK /\ [Next]_vars => TypeOK'
<1> SUFFICES ASSUME TypeOK, [Next]_vars
             PROVE  TypeOK'
  OBVIOUS
<1>0. TableType /\ OnType /\ RestType
  BY TypeParts
<1>1. ASSUME NEW i \in Exports, Expire(i)
      PROVE  TypeOK'
  <2>1. TableType' /\ OnType' /\ RestType'
    BY <1>0, <1>1 DEF Expire, worker, TableType, OnType, RestType
  <2> QED
    BY <2>1, TypePartsNext
<1>2. CASE Crash
  <2>1. OnType'
    BY <1>2 DEF Crash, OnType, OnPoints
  <2>2. TableType' /\ RestType'
    BY <1>0, <1>2, FaultType DEF Crash, table, TableType, RestType
  <2> QED
    BY <2>1, <2>2, TypePartsNext
<1>3. CASE UNCHANGED vars
  <2>1. TableType' /\ OnType' /\ RestType'
    BY <1>0, <1>3 DEF vars, table, worker, TableType, OnType, RestType
  <2> QED
    BY <2>1, TypePartsNext
<1> QED
  BY <1>1, <1>2, <1>3, RequestType, WorkType, WorkFaultType DEF Next

\* Rows, files and the worker's locals keep their types: the worker is on one
\* row exactly when it generates or purges one.
THEOREM TypeCorrect == Spec => []TypeOK
BY InitType, NextType, PTL DEF Spec

-----------------------------------------------------------------------------
(* Where the rows of the worker and of the downloads are.                  *)

Served == {"ready", "downloaded", "expired"}

Generating == {"claimed", "zipping", "zipped"}

Stages ==
    /\ pc = "idle" => todo = {}
    /\ pc \in Generating => \A i \in on : status[i] = "processing"
    /\ pc \in Generating \cup {"generate"} => \A i \in todo : status[i] = "pending" /\ i \notin on
    /\ pc \in {"purge", "removed"} =>
          \A i \in todo \cup on : status[i] \in Served /\ overdue[i]
    /\ \A r \in Requests : req[r].pc \in {"loaded", "statted", "streamed"} =>
          status[req[r].export] \in Served

\* The file of a row that is served is there until the row is past its
\* retention, and is complete unless there was a fault.
Archives ==
    /\ pc \in {"zipping", "zipped"} => \A i \in on : file[i] # "missing"
    /\ \A i \in Exports : status[i] \in Served /\ file[i] = "missing" => overdue[i]
    /\ \A i \in Exports : faults = 0 /\ file[i] = "partial" => pc = "zipping" /\ i \in on

\* What was delivered is what the archive was.
Deliveries ==
    \A i \in Exports :
        /\ delivered[i] # {} => status[i] \in Served
        /\ "partial" \in delivered[i] => faults > 0
        /\ "missing" \in delivered[i] => overdue[i]

IntactInv == TypeOK /\ Stages /\ Archives /\ Deliveries

LEMMA RequestIntact ==
    ASSUME IntactInv, NEW r \in Requests, Request(r)
    PROVE  Stages' /\ Archives' /\ Deliveries'
<1> USE DEF IntactInv
<1>1. ASSUME NEW u \in Users, CheckActive(r, u) \/ Load(r, u)
      PROVE  Stages' /\ Archives' /\ Deliveries'
  <2>1. UNCHANGED <<status, overdue, file, pc, on, todo, delivered, faults>>
    BY <1>1 DEF CheckActive, Load, table, worker
  <2>2. \A q \in Requests : req'[q].pc \in {"loaded", "statted", "streamed"} =>
           status[req'[q].export] \in Served
    BY <1>1 DEF CheckActive, Load, Stages, Served, TypeOK
  <2> QED
    BY <2>1, <2>2 DEF Stages, Archives, Deliveries
<1>2. CASE Insert(r)
  <2>1. UNCHANGED <<overdue, file, pc, on, todo, delivered, faults>>
        /\ req' = [req EXCEPT ![r] = NoRequest]
    BY <1>2 DEF Insert, worker
  <2>2. \A i \in Exports : \/ status'[i] = status[i]
                           \/ status[i] = "absent" /\ status'[i] = "pending"
    BY <1>2 DEF Insert, TypeOK
  <2>3. Stages'
    <3>1. \A q \in Requests : req'[q].pc \in {"loaded", "statted", "streamed"} =>
             status'[req'[q].export] \in Served
      BY <2>1, <2>2, ReqShape DEF Stages, Served, TypeOK, NoRequest
    <3>2. todo \subseteq Exports /\ on \subseteq Exports
      BY DEF TypeOK
    <3> QED
      BY <2>1, <2>2, <3>1, <3>2 DEF Stages, Served, Generating
  <2>4. Archives'
    BY <2>1, <2>2 DEF Archives, Served
  <2>5. Deliveries'
    BY <2>1, <2>2 DEF Deliveries, Served
  <2> QED
    BY <2>3, <2>4, <2>5
<1>3. CASE Stat(r)
  <2>1. UNCHANGED <<status, overdue, file, pc, on, todo, delivered, faults>>
    BY <1>3 DEF Stat, table, worker
  <2>2. \A q \in Requests : req'[q].pc \in {"loaded", "statted", "streamed"} =>
           status[req'[q].export] \in Served
    <3>1. \/ req' = [req EXCEPT ![r] = NoRequest]
          \/ req' = [req EXCEPT ![r] = [req[r] EXCEPT !.pc = "statted"]]
      BY <1>3 DEF Stat
    <3>2. req[r] \in [pc : {"loaded", "statted", "streamed"}, export : Exports]
          /\ status[req[r].export] \in Served
      BY <1>3, ReqShape DEF Stat, Locals, Stages
    <3> QED
      BY <3>1, <3>2 DEF Stages, TypeOK, NoRequest
  <2> QED
    BY <2>1, <2>2 DEF Stages, Archives, Deliveries
<1>4. CASE Stream(r)
  <2>1. UNCHANGED <<status, overdue, file, pc, on, todo, faults>>
    BY <1>4 DEF Stream, table, worker
  <2>2. /\ req[r] \in [pc : {"loaded", "statted", "streamed"}, export : Exports]
        /\ status[req[r].export] \in Served
    BY <1>4, ReqShape DEF Stream, Locals, Stages
  <2> PICK i \in Exports : i = req[r].export
    BY <2>2
  <2>3. delivered' = [delivered EXCEPT ![i] = @ \cup {file[i]}]
        /\ req' = [req EXCEPT ![r] = [req[r] EXCEPT !.pc = "streamed"]]
    BY <1>4 DEF Stream
  <2>4. Stages'
    <3>1. \A q \in Requests : req'[q].pc \in {"loaded", "statted", "streamed"} =>
             status[req'[q].export] \in Served
      BY <2>2, <2>3 DEF Stages, TypeOK
    <3> QED
      BY <2>1, <3>1 DEF Stages
  <2>5. file[i] = "partial" => faults > 0
    <3>1. file[i] = "partial" /\ faults = 0 => status[i] = "processing"
      BY DEF Archives, Stages, Generating
    <3> QED
      BY <2>2, <3>1, BoundAssumption DEF Served, TypeOK
  <2>6. file[i] = "missing" => overdue[i]
    BY <2>2 DEF Archives
  <2>7. Deliveries'
    BY <2>1, <2>2, <2>3, <2>5, <2>6 DEF Deliveries, TypeOK
  <2>8. Archives'
    BY <2>1 DEF Archives
  <2> QED
    BY <2>4, <2>7, <2>8
<1>5. CASE MarkDownloaded(r)
  <2>1. req[r].export \in Exports /\ status[req[r].export] \in Served
    BY <1>5, ReqShape DEF MarkDownloaded, Stages
  <2> PICK i \in Exports : i = req[r].export
    BY <2>1
  <2>2. /\ UNCHANGED <<overdue, file, pc, on, todo, delivered, faults>>
        /\ status' = [status EXCEPT ![i] = "downloaded"]
        /\ req' = [req EXCEPT ![r] = NoRequest]
    BY <1>5 DEF MarkDownloaded, worker
  <2>3. \A j \in Exports : \/ status'[j] = status[j]
                           \/ status[j] \in Served /\ status'[j] \in Served
    BY <2>1, <2>2 DEF Served, TypeOK
  <2>4. todo \subseteq Exports /\ on \subseteq Exports
    BY DEF TypeOK
  <2>5. Stages'
    <3>1. \A q \in Requests : req'[q].pc \in {"loaded", "statted", "streamed"} =>
             status'[req'[q].export] \in Served
      BY <2>2, <2>3, ReqShape DEF Stages, TypeOK, NoRequest
    <3> QED
      BY <2>2, <2>3, <2>4, <3>1 DEF Stages, Served, Generating
  <2>6. Archives'
    BY <2>2, <2>3 DEF Archives
  <2>7. Deliveries'
    BY <2>2, <2>3 DEF Deliveries
  <2> QED
    BY <2>5, <2>6, <2>7
<1>6. CASE RequestFails(r)
  <2>1. /\ UNCHANGED <<status, overdue, file, pc, on, todo, delivered>>
        /\ req' = [req EXCEPT ![r] = NoRequest] /\ faults' > 0
    BY <1>6, FaultType, BoundAssumption DEF RequestFails, table, worker, TypeOK
  <2>2. Stages'
    BY <2>1 DEF Stages, NoRequest, TypeOK
  <2> QED
    BY <2>1, <2>2 DEF Archives, Deliveries
<1> QED
  BY <1>1, <1>2, <1>3, <1>4, <1>5, <1>6 DEF Request

LEMMA OnShape == ASSUME TypeOK PROVE \/ pc \in OnPoints /\ \E i \in Exports : on = {i}
                                     \/ pc \notin OnPoints /\ on = {}
BY OnOne DEF TypeOK, OnPoints

\* Requests keep their rows when the worker changes a status it may change.
LEMMA RequestsKeep ==
    ASSUME TypeOK, Stages, UNCHANGED req,
           \A i \in Exports : status[i] \in Served => status'[i] \in Served
    PROVE  \A r \in Requests : req'[r].pc \in {"loaded", "statted", "streamed"} =>
              status'[req'[r].export] \in Served
BY ReqShape DEF Stages

LEMMA WorkIntact ==
    ASSUME IntactInv, Generate \/ Cleanup
    PROVE  Stages' /\ Archives' /\ Deliveries'
<1> USE DEF IntactInv
<1>0. UNCHANGED <<req, delivered, faults>>
  BY DEF Generate, Cleanup, Poll, Claim, StartZip, FinishZip, MakeReady, SelectExpired, RemoveFile, MarkExpired
<1>1. CASE Poll
  <2>1. UNCHANGED <<status, overdue, file, on>> /\ pc' = "generate" /\ todo' = Batch /\ on = {}
    BY <1>1, OnShape DEF Poll, table, OnPoints
  <2>2. \A i \in Batch : status[i] = "pending"
    BY DEF Batch, Pending
  <2>3. Stages'
    BY <1>0, <2>1, <2>2 DEF Stages, Generating
  <2>4. Archives'
    BY <1>0, <1>1, <2>1 DEF Archives, Poll
  <2>5. Deliveries'
    BY <1>0, <2>1 DEF Deliveries
  <2> QED
    BY <2>3, <2>4, <2>5
<1>2. CASE Claim
  <2>1. PICK i \in todo :
           /\ status' = [status EXCEPT ![i] = IF @ = "pending" THEN "processing" ELSE @]
           /\ on' = {i} /\ todo' = todo \ {i}
    BY <1>2 DEF Claim
  <2>2. /\ UNCHANGED <<overdue, file>> /\ pc = "generate" /\ pc' = "claimed"
        /\ i \in Exports /\ todo \subseteq Exports /\ status[i] = "pending"
    BY <1>2, <2>1 DEF Claim, Stages, TypeOK
  <2>3. /\ status'[i] = "processing" /\ \A j \in Exports \ {i} : status'[j] = status[j]
    BY <2>1, <2>2 DEF TypeOK
  <2>4. \A j \in Exports : status[j] \in Served => status'[j] \in Served
    BY <2>2, <2>3 DEF Served
  <2>5. Stages'
    BY <1>0, <2>1, <2>2, <2>3, <2>4, RequestsKeep DEF Stages, Generating
  <2>6. Archives'
    BY <1>0, <2>1, <2>2, <2>3 DEF Archives, Served
  <2>7. Deliveries'
    BY <1>0, <2>2, <2>3 DEF Deliveries, Served
  <2> QED
    BY <2>5, <2>6, <2>7
<1>3. CASE StartZip \/ FinishZip
  <2>1. /\ UNCHANGED <<status, overdue, on, todo>>
        /\ pc \in {"claimed", "zipping"} /\ pc' \in {"zipping", "zipped"}
        /\ \A i \in Exports : i \notin on => file'[i] = file[i]
        /\ \A i \in on : i \in Exports /\ file'[i] \in {"partial", "complete"}
        /\ \A i \in on : file'[i] = "partial" => pc' = "zipping"
        /\ pc = "zipping" => pc' = "zipped"
    BY <1>3 DEF StartZip, FinishZip, table, TypeOK
  <2>2. Stages'
    BY <1>0, <2>1 DEF Stages, Generating
  <2>3. Archives'
    BY <1>0, <2>1 DEF Archives
  <2>4. Deliveries'
    BY <1>0, <2>1 DEF Deliveries
  <2> QED
    BY <2>2, <2>3, <2>4
<1>4. CASE MakeReady
  <2>1. /\ pc = "zipped" /\ pc' = "generate" /\ on' = {} /\ UNCHANGED <<file, todo>>
        /\ \A i \in Exports \ on : status'[i] = status[i] /\ overdue'[i] = overdue[i]
        /\ \A i \in on : i \in Exports /\ status[i] = "processing" /\ status'[i] = "ready"
                         /\ file[i] # "missing"
    BY <1>4 DEF MakeReady, Stages, Generating, Archives, TypeOK
  <2>2. todo \subseteq Exports
    BY DEF TypeOK
  <2>3. \A j \in Exports : status[j] \in Served => status'[j] \in Served
    BY <2>1 DEF Served
  <2>4. Stages'
    BY <1>0, <2>1, <2>2, <2>3, RequestsKeep DEF Stages, Generating
  <2>5. Archives'
    BY <1>0, <2>1 DEF Archives, Served
  <2>6. Deliveries'
    BY <1>0, <2>1 DEF Deliveries, Served
  <2> QED
    BY <2>4, <2>5, <2>6
<1>5. CASE SelectExpired
  <2>1. /\ UNCHANGED <<status, overdue, file, on>> /\ todo' = Purgeable /\ on = {}
        /\ pc = "generate" /\ pc' = IF Purgeable = {} THEN "idle" ELSE "purge"
    BY <1>5, OnShape DEF SelectExpired, table, OnPoints
  <2>2. \A i \in Purgeable : status[i] \in Served /\ overdue[i]
    BY DEF Purgeable, Served
  <2>3. Stages'
    BY <1>0, <2>1, <2>2 DEF Stages, Generating
  <2>4. Archives'
    BY <1>0, <2>1 DEF Archives
  <2>5. Deliveries'
    BY <1>0, <2>1 DEF Deliveries
  <2> QED
    BY <2>3, <2>4, <2>5
<1>6. ASSUME NEW i \in Exports, RemoveFile(i)
      PROVE  Stages' /\ Archives' /\ Deliveries'
  <2>1. /\ UNCHANGED <<status, overdue>> /\ pc = "purge" /\ pc' = "removed"
        /\ on' = {i} /\ todo' = todo \ {i} /\ i \in todo /\ status[i] \in Served /\ overdue[i]
        /\ file'[i] = "missing" /\ \A j \in Exports \ {i} : file'[j] = file[j]
    BY <1>6 DEF RemoveFile, table, Stages, TypeOK
  <2>2. Stages'
    BY <1>0, <2>1 DEF Stages, Generating
  <2>3. Archives'
    BY <1>0, <2>1 DEF Archives
  <2>4. Deliveries'
    BY <1>0, <2>1 DEF Deliveries
  <2> QED
    BY <2>2, <2>3, <2>4
<1>7. CASE MarkExpired
  <2>1. /\ UNCHANGED <<overdue, file, todo>> /\ pc = "removed" /\ on' = {}
        /\ pc' = IF todo = {} THEN "idle" ELSE "purge"
        /\ \A j \in Exports : \/ status'[j] = status[j]
                              \/ status[j] \in Served /\ status'[j] \in Served
    BY <1>7 DEF MarkExpired, Purged, Stages, Served, TypeOK
  <2>2. todo \subseteq Exports
    BY DEF TypeOK
  <2>3. Stages'
    <3>1. \A r \in Requests : req'[r].pc \in {"loaded", "statted", "streamed"} =>
              status'[req'[r].export] \in Served
      BY <1>0, <2>1, RequestsKeep
    <3> QED
      BY <2>1, <2>2, <3>1 DEF Stages, Generating
  <2>4. Archives'
    BY <1>0, <2>1 DEF Archives
  <2>5. Deliveries'
    BY <1>0, <2>1 DEF Deliveries
  <2> QED
    BY <2>3, <2>4, <2>5
<1> QED
  BY <1>1, <1>2, <1>3, <1>4, <1>5, <1>6, <1>7 DEF Generate, Cleanup

LEMMA WorkFaultIntact ==
    ASSUME IntactInv, WorkerFault
    PROVE  Stages' /\ Archives' /\ Deliveries'
<1> USE DEF IntactInv
<1>0. UNCHANGED <<overdue, file, req, delivered>> /\ faults' > 0
  <2>1. UNCHANGED <<overdue, file, req, delivered>> /\ Fault
    BY DEF WorkerFault, PollFails, ClaimFails, ZipFails, GenerateFails, ZipTruncated, RemoveFails,
           MarkExpiredFails, TickFails, table
  <2> QED
    BY <2>1, FaultType, BoundAssumption DEF TypeOK
<1>1. /\ todo' \subseteq todo /\ todo \subseteq Exports /\ on \subseteq Exports
      /\ \A i \in Exports : status'[i] = status[i] \/ i \in on
  BY DEF WorkerFault, PollFails, ClaimFails, ZipFails, GenerateFails, ZipTruncated, RemoveFails,
         MarkExpiredFails, TickFails, table, TypeOK
<1>2. CASE UNCHANGED status
  <2>1. Deliveries'
    BY <1>0, <1>2 DEF Deliveries
  <2>2. Archives'
    <3>1. pc' \in {"zipping", "zipped"} => pc \in {"zipping", "zipped"} /\ on' = on
      BY <1>2 DEF WorkerFault, PollFails, ClaimFails, ZipFails, GenerateFails, ZipTruncated, RemoveFails,
                  MarkExpiredFails, Purged, TickFails
    <3> QED
      BY <1>0, <1>2, <3>1 DEF Archives
  <2>3. Stages'
    <3>1. CASE PollFails \/ ClaimFails \/ ZipTruncated
      BY <1>0, <1>2, <3>1, OnShape DEF PollFails, ClaimFails, ZipTruncated, Stages, Generating, OnPoints
    <3>2. CASE ZipFails \/ GenerateFails
      BY <1>0, <1>2, <3>2 DEF ZipFails, GenerateFails, Stages, Generating
    <3>3. ASSUME NEW i \in Exports, RemoveFails(i)
          PROVE  Stages'
      BY <1>0, <1>2, <3>3 DEF RemoveFails, Stages, Generating
    <3>4. CASE MarkExpiredFails
      BY <1>0, <1>2, <3>4 DEF MarkExpiredFails, Purged, Stages, Generating
    <3>5. CASE TickFails
      BY <1>0, <1>2, <3>5 DEF TickFails, Stages, Generating
    <3> QED
      BY <3>1, <3>2, <3>3, <3>4, <3>5 DEF WorkerFault
  <2> QED
    BY <2>1, <2>2, <2>3
<1>3. CASE ZipFails
  <2>1. /\ pc \in Generating /\ pc' = "generate" /\ on' = {} /\ todo' = todo
        /\ \A i \in Exports \ on : status'[i] = status[i]
        /\ \A i \in on : i \in Exports /\ status[i] = "processing" /\ status'[i] = "pending"
    BY <1>3 DEF ZipFails, Stages, Generating, TypeOK
  <2>2. \A i \in Exports : status[i] \in Served <=> status'[i] \in Served
    BY <2>1 DEF Served
  <2>3. Stages'
    BY <1>0, <1>1, <2>1, <2>2, RequestsKeep DEF Stages, Generating
  <2>4. Archives'
    BY <1>0, <2>1, <2>2 DEF Archives
  <2>5. Deliveries'
    BY <1>0, <2>2 DEF Deliveries
  <2> QED
    BY <2>3, <2>4, <2>5
<1> QED
  BY <1>2, <1>3 DEF WorkerFault, PollFails, ClaimFails, GenerateFails, ZipTruncated, RemoveFails,
                    MarkExpiredFails, TickFails, table

LEMMA NextIntact == IntactInv /\ [Next]_vars => IntactInv'
<1> SUFFICES ASSUME IntactInv, [Next]_vars
             PROVE  Stages' /\ Archives' /\ Deliveries'
  BY NextType DEF IntactInv
<1>1. ASSUME NEW i \in Exports, Expire(i)
      PROVE  Stages' /\ Archives' /\ Deliveries'
  <2>1. /\ UNCHANGED <<status, file, pc, on, todo, req, delivered, faults>>
        /\ \A j \in Exports : overdue[j] => overdue'[j]
        /\ todo \subseteq Exports /\ on \subseteq Exports
    BY <1>1 DEF Expire, worker, IntactInv, TypeOK
  <2>2. Stages'
    BY <2>1 DEF Stages, IntactInv
  <2>3. Archives'
    BY <2>1 DEF Archives, IntactInv
  <2>4. Deliveries'
    BY <2>1 DEF Deliveries, IntactInv
  <2> QED
    BY <2>2, <2>3, <2>4
<1>2. CASE Crash
  <2>1. /\ UNCHANGED <<status, overdue, file, delivered>> /\ pc' = "idle" /\ on' = {} /\ todo' = {}
        /\ \A r \in Requests : req'[r].pc = "idle"
        /\ faults' > 0
    BY <1>2, FaultType, BoundAssumption DEF Crash, table, NoRequest, IntactInv, TypeOK
  <2>2. Stages'
    BY <2>1 DEF Stages, Generating
  <2>3. Archives'
    BY <2>1 DEF Archives, IntactInv
  <2>4. Deliveries'
    BY <2>1 DEF Deliveries, IntactInv
  <2> QED
    BY <2>2, <2>3, <2>4
<1>3. CASE UNCHANGED vars
  <2>1. Stages'
    BY <1>3 DEF Stages, IntactInv, vars, table, worker
  <2>2. Archives' /\ Deliveries'
    BY <1>3 DEF Archives, Deliveries, IntactInv, vars, table, worker
  <2> QED
    BY <2>1, <2>2
<1> QED
  BY <1>1, <1>2, <1>3, RequestIntact, WorkIntact, WorkFaultIntact DEF Next

LEMMA InitIntact == Init => IntactInv
<1> SUFFICES ASSUME Init
             PROVE  IntactInv
  OBVIOUS
<1>1. Stages
  BY DEF Init, Stages, Generating, NoRequest
<1>2. Archives /\ Deliveries
  BY DEF Init, Archives, Deliveries, Served
<1> QED
  BY <1>1, <1>2, InitType DEF IntactInv

\* DownloadIntact, however downloads overlap with the worker and the purge.
THEOREM DownloadsIntact == Spec => []DownloadIntact
<1>1. IntactInv => DownloadIntact
  BY DEF IntactInv, Deliveries, DownloadIntact
<1> QED
  BY <1>1, InitIntact, NextIntact, PTL DEF Spec

-----------------------------------------------------------------------------
(* What a fault costs.                                                     *)

\* Rows that are lost, or will be at the worker's next step: the archive about
\* to be declared ready is incomplete, or the file of the row about to expire
\* was not removed.
Doomed == { i \in Exports : \/ Lost(i)
                            \/ pc = "zipped" /\ i \in on /\ file[i] = "partial"
                            \/ pc = "removed" /\ i \in on /\ file[i] # "missing" }

DoomedBounded == Cardinality(Doomed) <= faults

LossInv == IntactInv /\ DoomedBounded

LEMMA SubsetsOfExports ==
    ASSUME NEW S, S \subseteq Exports
    PROVE  IsFiniteSet(S) /\ Cardinality(S) \in Nat
<1>1. IsFiniteSet(Exports)
  BY FS_Interval, BoundAssumption DEF Exports
<1> QED
  BY <1>1, FS_Subset, FS_CardinalityType

\* A step that dooms no row.
LEMMA NoneDoomed ==
    ASSUME LossInv, Doomed' \subseteq Doomed, faults' = faults \/ faults' = faults + 1
    PROVE  DoomedBounded'
<1>1. Doomed \subseteq Exports
  BY DEF Doomed
<1>2. /\ Cardinality(Doomed) \in Nat /\ Cardinality(Doomed') \in Nat
      /\ Cardinality(Doomed') <= Cardinality(Doomed) /\ faults \in Nat
  BY <1>1, SubsetsOfExports, FS_Subset, BoundAssumption DEF LossInv, IntactInv, TypeOK
<1> QED
  BY <1>2 DEF LossInv, DoomedBounded

\* A fault that dooms one row at most.
LEMMA OneDoomed ==
    ASSUME LossInv, NEW i, Doomed' \subseteq Doomed \cup {i}, faults' = faults + 1
    PROVE  DoomedBounded'
<1>1. IsFiniteSet(Doomed) /\ Cardinality(Doomed) \in Nat /\ faults \in Nat
  BY SubsetsOfExports, BoundAssumption DEF Doomed, LossInv, IntactInv, TypeOK
<1>2. IsFiniteSet(Doomed \cup {i}) /\ Cardinality(Doomed \cup {i}) <= Cardinality(Doomed) + 1
      /\ Cardinality(Doomed \cup {i}) \in Nat
  <2>1. IsFiniteSet(Doomed \cup {i})
        /\ Cardinality(Doomed \cup {i}) = IF i \in Doomed THEN Cardinality(Doomed) ELSE Cardinality(Doomed) + 1
    BY <1>1, FS_AddElement
  <2> QED
    BY <1>1, <2>1
<1>3. Cardinality(Doomed') <= Cardinality(Doomed \cup {i}) /\ Cardinality(Doomed') \in Nat
  BY <1>2, FS_Subset, FS_CardinalityType
<1> QED
  BY <1>1, <1>2, <1>3 DEF LossInv, DoomedBounded

LEMMA RequestLoss ==
    ASSUME LossInv, NEW r \in Requests, Request(r)
    PROVE  DoomedBounded'
<1> USE DEF LossInv, IntactInv
<1>1. UNCHANGED <<file, pc, on>>
  BY DEF Request, CheckActive, Insert, Load, Stat, Stream, MarkDownloaded, RequestFails, worker
<1>2. faults' = faults \/ faults' = faults + 1
  BY DEF Request, CheckActive, Insert, Load, Stat, Stream, MarkDownloaded, RequestFails, Fault
<1>3. \A i \in Exports : \/ status'[i] = status[i]
                         \/ status'[i] \in {"pending", "downloaded"}
  BY DEF Request, CheckActive, Insert, Load, Stat, Stream, MarkDownloaded, RequestFails, table, TypeOK
<1>4. Doomed' \subseteq Doomed
  BY <1>1, <1>3 DEF Doomed, Lost
<1> QED
  BY <1>2, <1>4, NoneDoomed

LEMMA WorkLoss ==
    ASSUME LossInv, Generate \/ Cleanup
    PROVE  DoomedBounded'
<1> USE DEF LossInv, IntactInv
<1>0. faults' = faults
  BY DEF Generate, Cleanup, Poll, Claim, StartZip, FinishZip, MakeReady, SelectExpired, RemoveFile, MarkExpired
<1>1. CASE Poll
  BY <1>0, <1>1, NoneDoomed DEF Poll, table, Doomed, Lost
<1>2. CASE Claim
  <2>1. PICK i \in todo :
           /\ status' = [status EXCEPT ![i] = IF @ = "pending" THEN "processing" ELSE @]
           /\ on' = {i}
    BY <1>2 DEF Claim
  <2>2. /\ file' = file /\ pc = "generate" /\ pc' = "claimed" /\ on = {}
        /\ i \in Exports /\ status[i] = "pending"
    BY <1>2, <2>1, OnShape DEF Claim, Stages, TypeOK, OnPoints
  <2>3. status'[i] = "processing" /\ \A j \in Exports \ {i} : status'[j] = status[j]
    BY <2>1, <2>2 DEF TypeOK
  <2>4. Doomed' \subseteq Doomed
    BY <2>1, <2>2, <2>3 DEF Doomed, Lost
  <2> QED
    BY <1>0, <2>4, NoneDoomed
<1>3. CASE StartZip \/ FinishZip
  <2>1. /\ UNCHANGED <<status, on>>
        /\ pc \in {"claimed", "zipping"} /\ pc' \in {"zipping", "zipped"}
        /\ \A i \in Exports : i \notin on => file'[i] = file[i]
        /\ \A i \in on : status[i] = "processing" /\ (file'[i] = "partial" => pc' = "zipping")
    BY <1>3 DEF StartZip, FinishZip, table, TypeOK, Stages, Generating
  <2>2. Doomed' \subseteq Doomed
    BY <2>1 DEF Doomed, Lost
  <2> QED
    BY <1>0, <2>2, NoneDoomed
<1>4. CASE MakeReady
  <2>1. /\ pc = "zipped" /\ pc' = "generate" /\ on' = {} /\ file' = file
        /\ \A i \in Exports \ on : status'[i] = status[i]
        /\ \A i \in on : i \in Exports /\ status'[i] = "ready"
    BY <1>4 DEF MakeReady, TypeOK
  <2>2. Doomed' \subseteq Doomed
    BY <2>1 DEF Doomed, Lost
  <2> QED
    BY <1>0, <2>2, NoneDoomed
<1>5. CASE SelectExpired
  <2>1. Doomed' \subseteq Doomed
    BY <1>5 DEF SelectExpired, table, Doomed, Lost
  <2> QED
    BY <1>0, <2>1, NoneDoomed
<1>6. ASSUME NEW i \in Exports, RemoveFile(i)
      PROVE  DoomedBounded'
  <2>1. /\ UNCHANGED status /\ pc = "purge" /\ pc' = "removed"
        /\ on = {} /\ on' = {i} /\ status[i] \in Served
        /\ file'[i] = "missing" /\ \A j \in Exports \ {i} : file'[j] = file[j]
    BY <1>6, OnShape DEF RemoveFile, table, Stages, TypeOK, OnPoints
  <2>2. Doomed' \subseteq Doomed
    BY <2>1 DEF Doomed, Lost, Served
  <2> QED
    BY <1>0, <2>2, NoneDoomed
<1>7. CASE MarkExpired
  <2>1. /\ file' = file /\ pc = "removed" /\ on' = {} /\ pc' \in {"idle", "purge"}
        /\ \A i \in Exports \ on : status'[i] = status[i]
        /\ \A i \in on : i \in Exports /\ status'[i] = "expired"
    BY <1>7 DEF MarkExpired, Purged, TypeOK
  <2>2. Doomed' \subseteq Doomed
    BY <2>1 DEF Doomed, Lost
  <2> QED
    BY <1>0, <2>2, NoneDoomed
<1> QED
  BY <1>1, <1>2, <1>3, <1>4, <1>5, <1>6, <1>7 DEF Generate, Cleanup

LEMMA WorkFaultLoss ==
    ASSUME LossInv, WorkerFault
    PROVE  DoomedBounded'
<1> USE DEF LossInv, IntactInv
<1>0. file' = file /\ faults' = faults + 1
  <2>1. file' = file /\ Fault
    BY DEF WorkerFault, PollFails, ClaimFails, ZipFails, GenerateFails, ZipTruncated, RemoveFails,
           MarkExpiredFails, TickFails
  <2> QED
    BY <2>1, FaultType
<1>1. CASE PollFails \/ ClaimFails
  <2>1. Doomed' \subseteq Doomed
    BY <1>0, <1>1, OnShape DEF PollFails, ClaimFails, table, Doomed, Lost, OnPoints
  <2> QED
    BY <1>0, <2>1, NoneDoomed
<1>2. CASE ZipFails
  <2>1. /\ pc' = "generate" /\ on' = {}
        /\ \A i \in Exports \ on : status'[i] = status[i]
        /\ \A i \in on : i \in Exports /\ status'[i] = "pending"
    BY <1>2 DEF ZipFails, TypeOK
  <2>2. Doomed' \subseteq Doomed
    BY <1>0, <2>1 DEF Doomed, Lost
  <2> QED
    BY <1>0, <2>2, NoneDoomed
<1>3. CASE GenerateFails \/ ZipTruncated \/ TickFails
  <2>1. /\ status' = status /\ on' \subseteq on /\ pc' \in {"generate", "zipped", "idle"}
        /\ pc' = "zipped" => pc = "zipping"
    BY <1>3 DEF GenerateFails, ZipTruncated, TickFails, table
  <2>2. PICK i : on \subseteq {i}
    BY OnShape
  <2>3. Doomed' \subseteq Doomed \cup {i}
    BY <1>0, <2>1, <2>2 DEF Doomed, Lost
  <2> QED
    BY <1>0, <2>3, OneDoomed
<1>4. ASSUME NEW i \in Exports, RemoveFails(i)
      PROVE  DoomedBounded'
  <2>1. status' = status /\ pc = "purge" /\ pc' = "removed" /\ on = {} /\ on' = {i}
    BY <1>4, OnShape DEF RemoveFails, table, OnPoints
  <2>2. Doomed' \subseteq Doomed \cup {i}
    BY <1>0, <2>1 DEF Doomed, Lost
  <2> QED
    BY <1>0, <2>2, OneDoomed
<1>5. CASE MarkExpiredFails
  <2>1. status' = status /\ pc = "removed" /\ pc' \in {"idle", "purge"} /\ on' = {}
        /\ \A i \in on : status[i] \in Served
    BY <1>5 DEF MarkExpiredFails, Purged, table, Stages
  <2>2. Doomed' \subseteq Doomed
    BY <1>0, <2>1 DEF Doomed, Lost, Served
  <2> QED
    BY <1>0, <2>2, NoneDoomed
<1> QED
  BY <1>1, <1>2, <1>3, <1>4, <1>5 DEF WorkerFault

LEMMA NextLoss == LossInv /\ [Next]_vars => LossInv'
<1> SUFFICES ASSUME LossInv, [Next]_vars
             PROVE  DoomedBounded'
  BY NextIntact DEF LossInv
<1>1. ASSUME NEW i \in Exports, Expire(i)
      PROVE  DoomedBounded'
  <2>1. Doomed' \subseteq Doomed /\ faults' = faults
    BY <1>1 DEF Expire, worker, Doomed, Lost
  <2> QED
    BY <2>1, NoneDoomed
<1>2. CASE Crash
  <2>1. UNCHANGED <<status, file>> /\ on' = {} /\ pc' = "idle" /\ faults' = faults + 1
    BY <1>2, FaultType DEF Crash, table, LossInv, IntactInv
  <2>2. PICK i : on \subseteq {i}
    BY OnShape DEF LossInv, IntactInv
  <2>3. Doomed' \subseteq Doomed \cup {i}
    BY <2>1, <2>2 DEF Doomed, Lost
  <2> QED
    BY <2>1, <2>3, OneDoomed
<1>3. CASE UNCHANGED vars
  <2>1. Doomed' \subseteq Doomed /\ faults' = faults
    BY <1>3 DEF vars, table, worker, Doomed, Lost
  <2> QED
    BY <2>1, NoneDoomed
<1> QED
  BY <1>1, <1>2, <1>3, RequestLoss, WorkLoss, WorkFaultLoss DEF Next

LEMMA InitLoss == Init => LossInv
<1> SUFFICES ASSUME Init
             PROVE  LossInv
  OBVIOUS
<1>1. Doomed = {}
  BY DEF Init, Doomed, Lost
<1>2. DoomedBounded
  BY <1>1, FS_EmptySet DEF Init, DoomedBounded
<1> QED
  BY <1>2, InitIntact DEF LossInv

\* LossBounded: each crash, panic or failed statement costs one export at most,
\* however many rows the table and the batch hold.
THEOREM LossIsBounded == Spec => []LossBounded
<1>1. LossInv => LossBounded
  <2> SUFFICES ASSUME LossInv
               PROVE  LossBounded
    OBVIOUS
  <2>1. { i \in Exports : Lost(i) } \subseteq Doomed /\ Doomed \subseteq Exports
    BY DEF Doomed
  <2>2. /\ Cardinality({ i \in Exports : Lost(i) }) <= Cardinality(Doomed)
        /\ Cardinality({ i \in Exports : Lost(i) }) \in Nat /\ Cardinality(Doomed) \in Nat
    BY <2>1, SubsetsOfExports, FS_Subset
  <2>3. faults \in Nat
    BY BoundAssumption DEF LossInv, IntactInv, TypeOK
  <2> QED
    BY <2>2, <2>3 DEF LossInv, DoomedBounded, LossBounded
<1> QED
  BY <1>1, InitLoss, NextLoss, PTL DEF Spec

-----------------------------------------------------------------------------
(* The pipeline implements ExportPromise.                                  *)

\* A request that is about to mark a row has streamed it.
Streamed == \A r \in Requests : req[r].pc = "streamed" => delivered[req[r].export] # {}

PromiseInv == IntactInv /\ Streamed

LEMMA NextStreamed == TypeOK /\ Streamed /\ [Next]_vars => Streamed'
<1> SUFFICES ASSUME TypeOK, Streamed, [Next]_vars
             PROVE  Streamed'
  OBVIOUS
<1>1. ASSUME NEW r \in Requests, Request(r)
      PROVE  Streamed'
  <2>1. ASSUME NEW u \in Users, CheckActive(r, u) \/ Load(r, u)
        PROVE  Streamed'
    BY <2>1 DEF CheckActive, Load, Streamed, TypeOK
  <2>2. CASE Stream(r)
    <3>1. req[r] \in [pc : {"loaded", "statted", "streamed"}, export : Exports]
      BY <2>2, ReqShape DEF Stream, Locals
    <3>2. PICK i \in Exports : i = req[r].export
      BY <3>1
    <3>3. /\ delivered' = [delivered EXCEPT ![i] = @ \cup {file[i]}]
          /\ req' = [req EXCEPT ![r] = [req[r] EXCEPT !.pc = "streamed"]]
      BY <2>2, <3>2 DEF Stream
    <3>4. delivered'[i] # {} /\ \A j \in Exports : delivered[j] \subseteq delivered'[j]
      BY <3>3 DEF TypeOK
    <3>5. req'[r].export = i /\ \A q \in Requests \ {r} : req'[q] = req[q]
      BY <3>1, <3>2, <3>3 DEF TypeOK
    <3> QED
      BY <3>4, <3>5, ReqShape DEF Streamed
  <2>3. CASE Stat(r)
    <3>1. req[r] \in [pc : {"loaded", "statted", "streamed"}, export : Exports]
      BY <2>3, ReqShape DEF Stat, Locals
    <3>2. req'[r].pc # "streamed" /\ delivered' = delivered
          /\ \A q \in Requests \ {r} : req'[q] = req[q]
      BY <2>3, <3>1 DEF Stat, TypeOK, NoRequest
    <3> QED
      BY <3>2 DEF Streamed
  <2>4. CASE Insert(r) \/ MarkDownloaded(r) \/ RequestFails(r)
    BY <2>4 DEF Insert, MarkDownloaded, RequestFails, Streamed, TypeOK, NoRequest
  <2> QED
    BY <1>1, <2>1, <2>2, <2>3, <2>4 DEF Request
<1>2. CASE UNCHANGED <<req, delivered>>
  BY <1>2 DEF Streamed
<1>3. CASE Generate \/ Cleanup \/ WorkerFault
  BY <1>2, <1>3
     DEF Generate, Cleanup, Poll, Claim, StartZip, FinishZip, MakeReady, SelectExpired,
         RemoveFile, MarkExpired, WorkerFault, PollFails, ClaimFails, ZipFails, GenerateFails,
         ZipTruncated, RemoveFails, MarkExpiredFails, TickFails
<1>4. CASE Crash
  BY <1>4 DEF Crash, Streamed, NoRequest
<1> QED
  BY <1>1, <1>2, <1>3, <1>4 DEF Next, Expire, vars

\* A step that shows users nothing new.
LEMMA Unseen ==
    ASSUME UNCHANGED <<overdue, delivered>>,
           \A i \in Exports : StageOf(i)' = StageOf(i) /\ ArchiveOf(i)' = ArchiveOf(i)
    PROVE  UNCHANGED Promise!vars
BY DEF Promise!vars

LEMMA SameTable == UNCHANGED <<status, overdue, file, delivered>> => UNCHANGED Promise!vars
BY Unseen DEF StageOf, ArchiveOf

\* A step that moves one row from one stage to another and leaves the archives.
LEMMA OneMoves ==
    ASSUME NEW i \in Exports, NEW s, StageOf(i)' = s, ArchiveOf(i)' = ArchiveOf(i),
           \A j \in Exports \ {i} : status'[j] = status[j] /\ file'[j] = file[j]
    PROVE  Promise!Enter(i, s)
           /\ [j \in Exports |-> ArchiveOf(j)]' = [j \in Exports |-> ArchiveOf(j)]
<1>1. \A j \in Exports \ {i} : StageOf(j)' = StageOf(j) /\ ArchiveOf(j)' = ArchiveOf(j)
  BY DEF StageOf, ArchiveOf
<1> QED
  BY <1>1 DEF Promise!Enter

\* What users see of a row is its status.
LEMMA StageShown ==
    ASSUME TypeOK, NEW i \in Exports
    PROVE  /\ StageOf(i) \in Promise!Served <=> status[i] \in Served
           /\ status[i] \notin Served => ArchiveOf(i) = "none"
           /\ status[i] \in Served => ArchiveOf(i) = file[i]
BY DEF TypeOK, Statuses, StageOf, ArchiveOf, Served, Promise!Served

LEMMA RequestPromise ==
    ASSUME PromiseInv, PromiseInv', NEW r \in Requests, Request(r)
    PROVE  [Promise!Next]_(Promise!vars)
<1> USE DEF PromiseInv, IntactInv
<1>1. ASSUME NEW u \in Users, CheckActive(r, u) \/ Load(r, u)
      PROVE  UNCHANGED Promise!vars
  BY <1>1, SameTable DEF CheckActive, Load, table
<1>2. CASE Insert(r)
  <2>1. PICK i \in Exports : status[i] = "absent" /\ status' = [status EXCEPT ![i] = "pending"]
    BY <1>2 DEF Insert
  <2>2. UNCHANGED <<overdue, file, delivered>>
    BY <1>2 DEF Insert
  <2>3. status'[i] = "pending" /\ \A j \in Exports \ {i} : status'[j] = status[j]
    BY <2>1 DEF TypeOK
  <2>4. StageOf(i) = "none" /\ StageOf(i)' = "asked" /\ ArchiveOf(i)' = ArchiveOf(i)
    BY <2>1, <2>3 DEF StageOf, ArchiveOf
  <2>5. Promise!Ask(i)
    BY <2>2, <2>3, <2>4, OneMoves DEF Promise!Ask
  <2> QED
    BY <2>5 DEF Promise!Next
<1>3. CASE Stat(r) \/ RequestFails(r)
  BY <1>3, SameTable DEF Stat, RequestFails, table
<1>4. CASE Stream(r)
  <2>1. req[r].export \in Exports /\ status[req[r].export] \in Served
    BY <1>4, ReqShape DEF Stream, Stages
  <2>2. PICK i \in Exports : i = req[r].export
    BY <2>1
  <2>3. UNCHANGED <<status, overdue, file>>
        /\ delivered' = [delivered EXCEPT ![i] = @ \cup {file[i]}]
    BY <1>4, <2>2 DEF Stream, table
  <2>4. StageOf(i) \in Promise!Served /\ ArchiveOf(i) = file[i]
    BY <2>1, <2>2, StageShown
  <2>5. \A j \in Exports : StageOf(j)' = StageOf(j) /\ ArchiveOf(j)' = ArchiveOf(j)
    BY <2>3 DEF StageOf, ArchiveOf
  <2>6. Promise!Fetch(i)
    BY <2>3, <2>4, <2>5 DEF Promise!Fetch
  <2> QED
    BY <2>6 DEF Promise!Next
<1>5. CASE MarkDownloaded(r)
  <2>1. req[r].export \in Exports /\ status[req[r].export] \in Served /\ delivered[req[r].export] # {}
    BY <1>5, ReqShape DEF MarkDownloaded, Stages, Streamed
  <2>2. PICK i \in Exports : i = req[r].export
    BY <2>1
  <2>3. UNCHANGED <<overdue, file, delivered>> /\ status' = [status EXCEPT ![i] = "downloaded"]
    BY <1>5, <2>2 DEF MarkDownloaded
  <2>4. status'[i] = "downloaded" /\ \A j \in Exports \ {i} : status'[j] = status[j]
    BY <2>3 DEF TypeOK
  <2>5. StageOf(i) \in Promise!Served /\ ArchiveOf(i) = file[i]
    BY <2>1, <2>2, StageShown
  <2>6. StageOf(i)' = "taken" /\ ArchiveOf(i)' = ArchiveOf(i)
    BY <2>3, <2>4, <2>5 DEF StageOf, ArchiveOf
  <2>7. Promise!Confirm(i)
    BY <2>1, <2>2, <2>3, <2>4, <2>5, <2>6, OneMoves DEF Promise!Confirm
  <2> QED
    BY <2>7 DEF Promise!Next
<1> QED
  BY <1>1, <1>2, <1>3, <1>4, <1>5 DEF Request

LEMMA WorkPromise ==
    ASSUME PromiseInv, PromiseInv', Generate \/ Cleanup \/ WorkerFault
    PROVE  [Promise!Next]_(Promise!vars)
<1> USE DEF PromiseInv, IntactInv
<1>1. CASE UNCHANGED <<status, overdue, file, delivered>>
  BY <1>1, SameTable
<1>2. CASE Claim \/ ZipFails
  <2>1. UNCHANGED <<overdue, file, delivered>>
    BY <1>2 DEF Claim, ZipFails
  <2>2. \A i \in Exports : \/ status'[i] = status[i]
                           \/ /\ status[i] \in {"pending", "processing"}
                              /\ status'[i] \in {"pending", "processing"}
    <3>1. CASE Claim
      BY <3>1 DEF Claim, TypeOK
    <3>2. CASE ZipFails
      BY <3>2 DEF ZipFails, Stages, Generating
    <3> QED
      BY <1>2, <3>1, <3>2
  <2>3. \A i \in Exports : StageOf(i)' = StageOf(i) /\ ArchiveOf(i)' = ArchiveOf(i)
    BY <2>1, <2>2 DEF StageOf, ArchiveOf
  <2> QED
    BY <2>1, <2>3, Unseen
<1>3. CASE StartZip \/ FinishZip
  <2>1. UNCHANGED <<status, overdue, delivered>>
    BY <1>3 DEF StartZip, FinishZip, table
  <2>2. \A i \in Exports : file'[i] = file[i] \/ status[i] = "processing"
    BY <1>3 DEF StartZip, FinishZip, Stages, Generating, TypeOK
  <2>3. \A i \in Exports : StageOf(i)' = StageOf(i) /\ ArchiveOf(i)' = ArchiveOf(i)
    BY <2>1, <2>2 DEF StageOf, ArchiveOf
  <2> QED
    BY <2>1, <2>3, Unseen
<1>4. CASE MakeReady
  <2>1. PICK i \in Exports : on = {i}
    BY <1>4, OnShape DEF MakeReady, OnPoints
  <2>2. /\ UNCHANGED <<file, delivered>>
        /\ status'[i] = "ready" /\ \A j \in Exports \ {i} : status'[j] = status[j]
        /\ ~overdue'[i] /\ \A j \in Exports \ {i} : overdue'[j] <=> overdue[j]
    BY <1>4, <2>1 DEF MakeReady
  <2>3. status[i] = "processing" /\ file[i] \in {"partial", "complete"}
    BY <1>4, <2>1 DEF MakeReady, Stages, Archives, Generating, TypeOK, Contents
  <2>4. StageOf(i) = "asked" /\ StageOf(i)' = "offered" /\ ArchiveOf(i)' = file[i]
    BY <2>2, <2>3 DEF StageOf, ArchiveOf
  <2>5. \A j \in Exports \ {i} : StageOf(j)' = StageOf(j) /\ ArchiveOf(j)' = ArchiveOf(j)
    BY <2>2 DEF StageOf, ArchiveOf
  <2>6. { j \in Exports : overdue'[j] } = { j \in Exports : overdue[j] } \ {i}
    BY <2>2
  <2>7. Promise!Enter(i, "offered")
    BY <2>4, <2>5 DEF Promise!Enter
  <2>8. [j \in Exports |-> ArchiveOf(j)]' = [[j \in Exports |-> ArchiveOf(j)] EXCEPT ![i] = file[i]]
    BY <2>4, <2>5
  <2>9. Promise!Offer(i)
    BY <2>2, <2>3, <2>4, <2>6, <2>7, <2>8 DEF Promise!Offer
  <2> QED
    BY <2>9 DEF Promise!Next
<1>5. ASSUME NEW i \in Exports, RemoveFile(i)
      PROVE  [Promise!Next]_(Promise!vars)
  <2>1. /\ UNCHANGED <<status, overdue, delivered>> /\ status[i] \in Served /\ overdue[i]
        /\ file'[i] = "missing" /\ \A j \in Exports \ {i} : file'[j] = file[j]
    BY <1>5 DEF RemoveFile, table, Stages, TypeOK
  <2>2. StageOf(i) \in Promise!Served /\ ArchiveOf(i)' = "missing"
    BY <2>1 DEF StageOf, ArchiveOf, Served, Promise!Served
  <2>3. \A j \in Exports : StageOf(j)' = StageOf(j)
    BY <2>1 DEF StageOf
  <2>4. \A j \in Exports \ {i} : ArchiveOf(j)' = ArchiveOf(j)
    BY <2>1 DEF StageOf, ArchiveOf
  <2>5. Promise!Clear(i)
    BY <2>1, <2>2, <2>3, <2>4 DEF Promise!Clear
  <2> QED
    BY <2>5 DEF Promise!Next
<1>6. CASE MarkExpired
  <2>1. PICK i \in Exports : on = {i}
    BY <1>6, OnShape DEF MarkExpired, Purged, OnPoints
  <2>2. /\ UNCHANGED <<file, overdue, delivered>> /\ status[i] \in Served /\ overdue[i]
        /\ status'[i] = "expired" /\ \A j \in Exports \ {i} : status'[j] = status[j]
    BY <1>6, <2>1 DEF MarkExpired, Purged, Stages
  <2>3. StageOf(i) \in Promise!Served /\ ArchiveOf(i) = file[i]
    BY <2>2, StageShown
  <2>4. StageOf(i)' = "withdrawn" /\ ArchiveOf(i)' = ArchiveOf(i)
    BY <2>2, <2>3 DEF StageOf, ArchiveOf
  <2>5. Promise!Withdraw(i)
    BY <2>2, <2>3, <2>4, OneMoves DEF Promise!Withdraw
  <2> QED
    BY <2>5 DEF Promise!Next
<1> QED
  BY <1>1, <1>2, <1>3, <1>4, <1>5, <1>6
     DEF Generate, Cleanup, WorkerFault, Poll, SelectExpired, PollFails, ClaimFails, GenerateFails,
         ZipTruncated, RemoveFails, MarkExpiredFails, TickFails, table

LEMMA PromiseStep == PromiseInv /\ PromiseInv' /\ [Next]_vars => [Promise!Next]_(Promise!vars)
<1> SUFFICES ASSUME PromiseInv, PromiseInv', [Next]_vars
             PROVE  [Promise!Next]_(Promise!vars)
  OBVIOUS
<1>1. ASSUME NEW i \in Exports, Expire(i)
      PROVE  [Promise!Next]_(Promise!vars)
  <2>1. UNCHANGED <<status, file, delivered>> /\ status[i] \in {"ready", "downloaded"}
        /\ overdue' = [overdue EXCEPT ![i] = TRUE]
    BY <1>1 DEF Expire
  <2>2. { j \in Exports : overdue'[j] } = { j \in Exports : overdue[j] } \cup {i}
    BY <2>1 DEF PromiseInv, IntactInv, TypeOK
  <2>3. StageOf(i) \in {"offered", "taken"}
    BY <2>1 DEF StageOf
  <2>4. \A j \in Exports : StageOf(j)' = StageOf(j) /\ ArchiveOf(j)' = ArchiveOf(j)
    BY <2>1 DEF StageOf, ArchiveOf
  <2>5. Promise!FallDue(i)
    BY <2>1, <2>2, <2>3, <2>4 DEF Promise!FallDue
  <2> QED
    BY <2>5 DEF Promise!Next
<1>2. CASE Crash \/ UNCHANGED vars
  BY <1>2, SameTable DEF Crash, vars, table
<1> QED
  BY <1>1, <1>2, RequestPromise, WorkPromise DEF Next

LEMMA InitPromise == Init => PromiseInv /\ Promise!Init
<1> SUFFICES ASSUME Init
             PROVE  PromiseInv /\ Promise!Init
  OBVIOUS
<1>1. Streamed
  BY DEF Init, Streamed, NoRequest
<1>2. \A i \in Exports : StageOf(i) = "none" /\ ArchiveOf(i) = "none"
  BY DEF Init, StageOf, ArchiveOf
<1>3. Promise!Init
  BY <1>2 DEF Init, Promise!Init
<1> QED
  BY <1>1, <1>3, InitIntact DEF PromiseInv

\* PromiseKept: every step of a request, of the worker, of the purge or of a
\* failure is a step of ExportPromise or shows users nothing.
THEOREM KeepsPromise == Spec => PromiseKept
<1>1. PromiseInv /\ [Next]_vars => PromiseInv'
  BY NextIntact, NextStreamed DEF PromiseInv, IntactInv
<1> QED
  BY <1>1, InitPromise, PromiseStep, PTL DEF Spec, PromiseKept, Promise!Spec
-----------------------------------------------------------------------------
(* Lakehouse: type correctness.                                            *)

SweepType == sweep \in [Sweeps -> SweepLocals \cup {NoSweep}]

StoreType ==
    /\ row \in [Files -> {"absent", "live", "archived", "purged"}]
    /\ aged \in SUBSET Files
    /\ sameDevice \in BOOLEAN
    /\ base \in SUBSET Files
    /\ backup \in SUBSET Files
    /\ partial \in SUBSET Files
    /\ hold \in [Holds -> {"absent", "active", "released"}]
    /\ writer \in SUBSET Files

HistoryType ==
    /\ honored \in [Sweeps -> SUBSET Holds]
    /\ exposed \in SUBSET Files
    /\ shared \in SUBSET Files
    /\ begun \in 0..MaxSweeps
    /\ failures \in 0..MaxFailures

LEMMA LakeTypeParts == LakeTypeOK <=> SweepType /\ StoreType /\ HistoryType
BY DEF LakeTypeOK, SweepType, StoreType, HistoryType

LEMMA LakeTypePartsNext == LakeTypeOK' <=> SweepType' /\ StoreType' /\ HistoryType'
BY DEF LakeTypeOK, SweepType, StoreType, HistoryType

Looping == {"archiving", "purging"}

Handling == {"read", "copying", "copied", "renamed", "removed"}

\* What a goroutine knows at each place of the code.
LEMMA SweepShape ==
    ASSUME SweepType, NEW w \in Sweeps
    PROVE  /\ sweep[w] = NoSweep \/ sweep[w].pc = "held" \/ sweep[w].pc \in Looping \/ sweep[w].pc \in Handling
           /\ sweep[w] = NoSweep <=> sweep[w].pc = "idle"
           /\ sweep[w] # NoSweep => sweep[w].live \in BOOLEAN /\ sweep[w].held \in SUBSET Sources
           /\ sweep[w].pc = "held" =>
                  sweep[w] = [pc |-> "held", live |-> sweep[w].live, held |-> sweep[w].held]
           /\ sweep[w].pc \in Looping =>
                  /\ sweep[w] = [pc |-> sweep[w].pc, live |-> sweep[w].live, held |-> sweep[w].held,
                                 todo |-> sweep[w].todo]
                  /\ sweep[w].todo \in SUBSET Files
           /\ sweep[w].pc \in Handling =>
                  /\ sweep[w] = [pc |-> sweep[w].pc, live |-> sweep[w].live, held |-> sweep[w].held,
                                 todo |-> sweep[w].todo, file |-> sweep[w].file]
                  /\ sweep[w].todo \in SUBSET Files
                  /\ sweep[w].file \in Files
<1>1. sweep[w] \in SweepLocals \cup {NoSweep}
  BY DEF SweepType
<1>2. CASE sweep[w] = NoSweep
  BY <1>2 DEF NoSweep, Looping, Handling
<1>3. CASE sweep[w] \in [pc : {"held"}, live : BOOLEAN, held : SUBSET Sources]
  BY <1>3 DEF NoSweep, Looping, Handling
<1>4. CASE sweep[w] \in [pc : {"archiving", "purging"}, live : BOOLEAN, held : SUBSET Sources, todo : SUBSET Files]
  BY <1>4 DEF NoSweep, Looping, Handling
<1>5. CASE sweep[w] \in [pc : {"read", "copying", "copied", "renamed", "removed"}, live : BOOLEAN,
                         held : SUBSET Sources, todo : SUBSET Files, file : Files]
  BY <1>5 DEF NoSweep, Looping, Handling
<1> QED
  BY <1>1, <1>2, <1>3, <1>4, <1>5 DEF SweepLocals

LEMMA LocalsAreTyped ==
    ASSUME NEW l \in BOOLEAN, NEW d \in SUBSET Sources
    PROVE  /\ [pc |-> "held", live |-> l, held |-> d] \in SweepLocals
           /\ \A loop \in Looping, t \in SUBSET Files :
                  [pc |-> loop, live |-> l, held |-> d, todo |-> t] \in SweepLocals
           /\ \A place \in Handling, t \in SUBSET Files, f \in Files :
                  [pc |-> place, live |-> l, held |-> d, todo |-> t, file |-> f] \in SweepLocals
BY DEF SweepLocals, Looping, Handling

\* How a step leaves the goroutine that takes it; the other ones stay.
LEMMA SweepSet ==
    ASSUME SweepType, NEW w \in Sweeps, NEW s, sweep' = [sweep EXCEPT ![w] = s]
    PROVE  sweep'[w] = s /\ \A v \in Sweeps : v # w => sweep'[v] = sweep[v]
BY DEF SweepType

LEMMA TakenUp ==
    ASSUME SweepType, NEW w \in Sweeps, NEW f \in Files, NEW loop \in Looping, TakeUp(w, f, loop),
           NEW place \in Handling, With(w, f, place)
    PROVE  /\ SweepType'
           /\ sweep[w].pc = loop /\ f \in sweep[w].todo
           /\ sweep'[w].pc = place /\ sweep'[w].live = sweep[w].live /\ sweep'[w].held = sweep[w].held
           /\ sweep'[w].todo = sweep[w].todo \ {f} /\ sweep'[w].file = f
           /\ \A v \in Sweeps : v # w => sweep'[v] = sweep[v]
<1>1. sweep[w].live \in BOOLEAN /\ sweep[w].held \in SUBSET Sources /\ sweep[w].todo \in SUBSET Files
  BY SweepShape DEF TakeUp, Looping
<1>2. [pc |-> place, live |-> sweep[w].live, held |-> sweep[w].held, todo |-> sweep[w].todo \ {f}, file |-> f]
          \in SweepLocals
  BY <1>1, LocalsAreTyped
<1>3. sweep'[w] = [pc |-> place, live |-> sweep[w].live, held |-> sweep[w].held,
                   todo |-> sweep[w].todo \ {f}, file |-> f]
  BY SweepSet DEF With
<1> QED
  BY <1>2, <1>3, SweepSet DEF With, TakeUp, SweepType

LEMMA WentOn ==
    ASSUME SweepType, NEW w \in Sweeps, sweep[w].pc \in Handling, NEW loop \in Looping, GoOn(w, loop)
    PROVE  /\ SweepType'
           /\ sweep'[w].pc = loop /\ sweep'[w].live = sweep[w].live /\ sweep'[w].held = sweep[w].held
           /\ sweep'[w].todo = sweep[w].todo
           /\ \A v \in Sweeps : v # w => sweep'[v] = sweep[v]
<1>1. sweep[w].live \in BOOLEAN /\ sweep[w].held \in SUBSET Sources /\ sweep[w].todo \in SUBSET Files
  BY SweepShape DEF Looping, Handling
<1>2. [pc |-> loop, live |-> sweep[w].live, held |-> sweep[w].held, todo |-> sweep[w].todo] \in SweepLocals
  BY <1>1, LocalsAreTyped
<1>3. sweep'[w] = [pc |-> loop, live |-> sweep[w].live, held |-> sweep[w].held, todo |-> sweep[w].todo]
  BY SweepSet DEF GoOn
<1> QED
  BY <1>2, <1>3, SweepSet DEF GoOn, SweepType

LEMMA MovedOn ==
    ASSUME SweepType, NEW w \in Sweeps, sweep[w].pc \in Handling, NEW place \in Handling, Now(w, place)
    PROVE  /\ SweepType'
           /\ sweep'[w].pc = place /\ sweep'[w].live = sweep[w].live /\ sweep'[w].held = sweep[w].held
           /\ sweep'[w].todo = sweep[w].todo /\ sweep'[w].file = sweep[w].file
           /\ \A v \in Sweeps : v # w => sweep'[v] = sweep[v]
<1>1. /\ sweep[w].live \in BOOLEAN /\ sweep[w].held \in SUBSET Sources
      /\ sweep[w].todo \in SUBSET Files /\ sweep[w].file \in Files
      /\ sweep[w] = [pc |-> sweep[w].pc, live |-> sweep[w].live, held |-> sweep[w].held,
                     todo |-> sweep[w].todo, file |-> sweep[w].file]
  BY SweepShape DEF Looping, Handling
<1>2. [pc |-> place, live |-> sweep[w].live, held |-> sweep[w].held, todo |-> sweep[w].todo, file |-> sweep[w].file]
          \in SweepLocals
  BY <1>1, LocalsAreTyped
<1>3. [sweep[w] EXCEPT !.pc = place] =
          [pc |-> place, live |-> sweep[w].live, held |-> sweep[w].held, todo |-> sweep[w].todo, file |-> sweep[w].file]
  BY <1>1
<1> QED
  BY <1>2, <1>3, SweepSet DEF Now, SweepType

LEMMA PassedOver ==
    ASSUME SweepType, NEW w \in Sweeps, sweep[w].pc \in Looping, NEW f \in Files, PassOver(w, f)
    PROVE  /\ SweepType'
           /\ sweep'[w].pc = sweep[w].pc /\ sweep'[w].live = sweep[w].live /\ sweep'[w].held = sweep[w].held
           /\ sweep'[w].todo = sweep[w].todo \ {f}
           /\ \A v \in Sweeps : v # w => sweep'[v] = sweep[v]
<1>1. /\ sweep[w].live \in BOOLEAN /\ sweep[w].held \in SUBSET Sources /\ sweep[w].todo \in SUBSET Files
      /\ sweep[w] = [pc |-> sweep[w].pc, live |-> sweep[w].live, held |-> sweep[w].held, todo |-> sweep[w].todo]
  BY SweepShape DEF Looping, Handling
<1>2. [pc |-> sweep[w].pc, live |-> sweep[w].live, held |-> sweep[w].held, todo |-> sweep[w].todo \ {f}]
          \in SweepLocals
  BY <1>1, LocalsAreTyped
<1>3. [sweep[w] EXCEPT !.todo = sweep[w].todo \ {f}] =
          [pc |-> sweep[w].pc, live |-> sweep[w].live, held |-> sweep[w].held, todo |-> sweep[w].todo \ {f}]
  BY <1>1
<1> QED
  BY <1>2, <1>3, SweepSet DEF PassOver, SweepType

LEMMA Selected ==
    ASSUME SweepType, NEW w \in Sweeps, AtSelect(w), NEW loop \in Looping, NEW t \in SUBSET Files,
           sweep' = [sweep EXCEPT ![w] = [pc |-> loop, live |-> TRUE, held |-> @.held, todo |-> t]]
    PROVE  /\ SweepType'
           /\ sweep'[w].pc = loop /\ sweep'[w].live = TRUE /\ sweep'[w].held = sweep[w].held /\ sweep'[w].todo = t
           /\ \A v \in Sweeps : v # w => sweep'[v] = sweep[v]
<1>1. sweep[w].held \in SUBSET Sources
  BY SweepShape DEF Looping, Handling, AtSelect, NoSweep
<1>2. [pc |-> loop, live |-> TRUE, held |-> sweep[w].held, todo |-> t] \in SweepLocals
  BY <1>1, LocalsAreTyped
<1> QED
  BY <1>2, SweepSet DEF SweepType

LEMMA Left ==
    ASSUME SweepType, HistoryType, NEW w \in Sweeps, Leave(w)
    PROVE  /\ SweepType'
           /\ sweep'[w] = NoSweep
           /\ \A v \in Sweeps : v # w => sweep'[v] = sweep[v]
           /\ honored' \in [Sweeps -> SUBSET Holds] /\ honored'[w] = {}
           /\ \A v \in Sweeps : v # w => honored'[v] = honored[v]
BY DEF Leave, SweepType, HistoryType

LEMMA Cancelled ==
    ASSUME SweepType, NEW w \in Sweeps, Cancel(w)
    PROVE  /\ SweepType'
           /\ sweep[w] # NoSweep /\ sweep[w].live
           /\ sweep'[w].pc = sweep[w].pc /\ ~sweep'[w].live /\ sweep'[w].held = sweep[w].held
           /\ sweep[w].pc \in Looping \cup Handling => sweep'[w].todo = sweep[w].todo
           /\ sweep[w].pc \in Handling => sweep'[w].file = sweep[w].file
           /\ \A v \in Sweeps : v # w => sweep'[v] = sweep[v]
<1>1. sweep' = [sweep EXCEPT ![w].live = FALSE] /\ sweep[w] # NoSweep
  BY DEF Cancel
<1>2. [sweep[w] EXCEPT !.live = FALSE] \in SweepLocals
  <2>1. sweep[w] \in SweepLocals
    BY <1>1 DEF SweepType
  <2> QED
    BY <2>1 DEF SweepLocals
<1>3. sweep'[w] = [sweep[w] EXCEPT !.live = FALSE]
  BY <1>1 DEF SweepType
<1>4. CASE sweep[w].pc = "held"
  BY <1>1, <1>2, <1>3, <1>4, SweepShape DEF SweepType, Cancel, Looping, Handling
<1>5. CASE sweep[w].pc \in Looping
  BY <1>1, <1>2, <1>3, <1>5, SweepShape DEF SweepType, Cancel, Looping, Handling
<1>6. CASE sweep[w].pc \in Handling
  BY <1>1, <1>2, <1>3, <1>6, SweepShape DEF SweepType, Cancel, Looping, Handling
<1> QED
  BY <1>1, <1>4, <1>5, <1>6, SweepShape

LEMMA LakeInitType == LakeInit => LakeTypeOK
<1> SUFFICES ASSUME LakeInit
             PROVE  LakeTypeOK
  OBVIOUS
<1>1. 0 \in 0..MaxSweeps /\ 0 \in 0..MaxFailures
  BY LakeBoundAssumption
<1> QED
  BY <1>1 DEF LakeInit, LakeTypeOK

LEMMA FailureType == HistoryType /\ Failure => failures' \in 0..MaxFailures /\ failures' = failures + 1
BY LakeBoundAssumption DEF HistoryType, Failure

\* The steps of RunLifecycle, with the part of the state that each leaves alone.
LEMMA RunLifecycleType ==
    ASSUME SweepType, StoreType, HistoryType, NEW w \in Sweeps, RunLifecycle(w)
    PROVE  SweepType' /\ StoreType' /\ HistoryType'
<1> USE DEF catalog, disk, history
<1>1. ASSUME ReadHolds(w)
      PROVE  SweepType' /\ StoreType' /\ HistoryType'
  <2>1. HoldFilter \in SUBSET Sources
    BY DEF HoldFilter
  <2>2. [pc |-> "held", live |-> TRUE, held |-> HoldFilter] \in SweepLocals
    BY <2>1, LocalsAreTyped
  <2>3. SweepType'
    BY <1>1, <2>2 DEF ReadHolds, SweepType
  <2>4. begun' \in 0..MaxSweeps
    BY <1>1, LakeBoundAssumption DEF ReadHolds, HistoryType
  <2>5. honored' \in [Sweeps -> SUBSET Holds]
    BY <1>1 DEF ReadHolds, HistoryType, ActiveHolds
  <2> QED
    BY <1>1, <2>3, <2>4, <2>5 DEF ReadHolds, StoreType, HistoryType
<1>2. ASSUME SelectOld(w)
      PROVE  SweepType' /\ StoreType' /\ HistoryType'
  <2>1. Old \in SUBSET Files
    BY FilesAssumption DEF Old
  <2>2. AtSelect(w) /\ "archiving" \in Looping
    BY <1>2 DEF SelectOld, AtSelect, Looping
  <2>3. sweep' = [sweep EXCEPT ![w] = [pc |-> "archiving", live |-> TRUE, held |-> @.held, todo |-> Old]]
    BY <1>2 DEF SelectOld
  <2> QED
    BY <1>2, <2>1, <2>2, <2>3, Selected DEF SelectOld, StoreType, HistoryType
<1>3. ASSUME SelectStale(w)
      PROVE  SweepType' /\ StoreType' /\ HistoryType'
  <2>1. Stale \in SUBSET Files
    BY DEF Stale
  <2>2. AtSelect(w) /\ "purging" \in Looping
    BY <1>3 DEF SelectStale, AtSelect, Looping
  <2>3. sweep' = [sweep EXCEPT ![w] = [pc |-> "purging", live |-> TRUE, held |-> @.held, todo |-> Stale]]
    BY <1>3 DEF SelectStale
  <2> QED
    BY <1>3, <2>1, <2>2, <2>3, Selected DEF SelectStale, StoreType, HistoryType
<1>4. ASSUME NEW f \in Files, Skip(w, f) \/ Missing(w, f)
      PROVE  SweepType' /\ StoreType' /\ HistoryType'
  <2>1. sweep[w].pc \in Looping /\ PassOver(w, f) /\ UNCHANGED failures
    BY <1>4 DEF Skip, Missing, TakeUp, Looping
  <2> QED
    BY <2>1, PassedOver DEF PassOver, StoreType, HistoryType
<1>5. ASSUME NEW f \in Files, Remove(w, f)
      PROVE  SweepType' /\ StoreType' /\ HistoryType'
  <2>1. TakeUp(w, f, "purging") /\ With(w, f, "removed") /\ "purging" \in Looping /\ "removed" \in Handling
    BY <1>5 DEF Remove, Looping, Handling
  <2> QED
    BY <1>5, <2>1, TakenUp DEF Remove, StoreType, HistoryType
<1>6. ASSUME NEW f \in Files, Rename(w, f) \/ Read(w, f)
      PROVE  SweepType' /\ StoreType' /\ HistoryType'
  <2>1. /\ TakeUp(w, f, "archiving") /\ "archiving" \in Looping /\ {"renamed", "read"} \subseteq Handling
        /\ With(w, f, "renamed") \/ With(w, f, "read")
    BY <1>6 DEF Rename, Read, Looping, Handling
  <2>2. SweepType'
    BY <2>1, TakenUp
  <2> QED
    BY <1>6, <2>2 DEF Rename, Read, StoreType, HistoryType
<1>7. ASSUME BeginCopy(w) \/ EndCopy(w) \/ RemoveSource(w)
      PROVE  SweepType' /\ StoreType' /\ HistoryType'
  <2>1. /\ sweep[w].pc \in Handling /\ {"copying", "copied", "renamed"} \subseteq Handling
        /\ Now(w, "copying") \/ Now(w, "copied") \/ Now(w, "renamed")
    BY <1>7 DEF BeginCopy, EndCopy, RemoveSource, Handling
  <2>2. SweepType'
    BY <2>1, MovedOn
  <2>3. sweep[w].file \in Files
    BY <2>1, SweepShape
  <2> QED
    BY <1>7, <2>2, <2>3 DEF BeginCopy, EndCopy, RemoveSource, StoreType, HistoryType
<1>8. ASSUME MarkArchived(w) \/ MarkPurged(w)
      PROVE  SweepType' /\ StoreType' /\ HistoryType'
  <2>1. /\ sweep[w].pc \in Handling /\ Looping = {"archiving", "purging"}
        /\ GoOn(w, "archiving") \/ GoOn(w, "purging")
    BY <1>8 DEF MarkArchived, MarkPurged, Handling, Looping
  <2>2. SweepType'
    BY <2>1, WentOn
  <2> QED
    BY <1>8, <2>2 DEF MarkArchived, MarkPurged, StoreType, HistoryType
<1>9. ASSUME Finish(w)
      PROVE  SweepType' /\ StoreType' /\ HistoryType'
  BY <1>9, Left DEF Finish, Leave, StoreType, HistoryType
<1> QED
  BY <1>1, <1>2, <1>3, <1>4, <1>5, <1>6, <1>7, <1>8, <1>9 DEF RunLifecycle, ArchiveFile

LEMMA SweepFailsType ==
    ASSUME SweepType, StoreType, HistoryType, NEW w \in Sweeps, SweepFails(w)
    PROVE  SweepType' /\ StoreType' /\ HistoryType'
<1> USE DEF catalog, disk, history
<1>1. ASSUME NEW f \in Files, ArchiveFails(w, f)
      PROVE  SweepType' /\ StoreType' /\ HistoryType'
  <2>1. sweep[w].pc \in Looping /\ PassOver(w, f) /\ Failure
    BY <1>1 DEF ArchiveFails, TakeUp, Looping
  <2> QED
    BY <2>1, PassedOver, FailureType DEF PassOver, StoreType, HistoryType
<1>2. ASSUME NEW f \in Files, PurgeFails(w, f)
      PROVE  SweepType' /\ StoreType' /\ HistoryType'
  <2>1. TakeUp(w, f, "purging") /\ With(w, f, "removed") /\ "purging" \in Looping /\ "removed" \in Handling
    BY <1>2 DEF PurgeFails, Looping, Handling
  <2>2. SweepType'
    BY <2>1, TakenUp
  <2> QED
    BY <1>2, <2>2, FailureType DEF PurgeFails, StoreType, HistoryType
<1>3. ASSUME CopyFails(w) \/ UpdateFails(w)
      PROVE  SweepType' /\ StoreType' /\ HistoryType'
  <2>1. /\ sweep[w].pc \in Handling /\ Looping = {"archiving", "purging"}
        /\ GoOn(w, "archiving") \/ GoOn(w, "purging")
    BY <1>3 DEF CopyFails, UpdateFails, Unrecorded, Handling, Looping
  <2>2. SweepType'
    BY <2>1, WentOn
  <2>3. Failure /\ UNCHANGED <<catalog, disk, hold, writer, history>>
    BY <1>3 DEF CopyFails, UpdateFails, Unrecorded
  <2> QED
    BY <2>2, <2>3, FailureType DEF StoreType, HistoryType
<1>4. ASSUME RemoveSourceFails(w)
      PROVE  SweepType' /\ StoreType' /\ HistoryType'
  <2>1. sweep[w].pc \in Handling /\ "renamed" \in Handling /\ Now(w, "renamed")
    BY <1>4 DEF RemoveSourceFails, Handling
  <2>2. SweepType'
    BY <2>1, MovedOn
  <2> QED
    BY <1>4, <2>2, FailureType DEF RemoveSourceFails, StoreType, HistoryType
<1>5. ASSUME SelectFails(w)
      PROVE  SweepType' /\ StoreType' /\ HistoryType'
  BY <1>5, Left, FailureType DEF SelectFails, Leave, StoreType, HistoryType
<1> QED
  BY <1>1, <1>2, <1>3, <1>4, <1>5 DEF SweepFails

LEMMA CancelType ==
    ASSUME SweepType, StoreType, HistoryType, NEW w \in Sweeps, Cancel(w) \/ CancelledUpdate(w) \/ CancelledSelect(w)
    PROVE  SweepType' /\ StoreType' /\ HistoryType'
<1> USE DEF catalog, disk, history
<1>1. CASE Cancel(w)
  <2>1. Underway(w) \in SUBSET Files
    BY SweepShape DEF Underway, InHand, Looping, Handling
  <2> QED
    BY <1>1, <2>1, Cancelled DEF Cancel, StoreType, HistoryType
<1>2. CASE CancelledUpdate(w)
  <2>1. /\ sweep[w].pc \in Handling /\ Looping = {"archiving", "purging"}
        /\ GoOn(w, "archiving") \/ GoOn(w, "purging")
    BY <1>2 DEF CancelledUpdate, Unrecorded, Handling, Looping
  <2>2. SweepType'
    BY <2>1, WentOn
  <2> QED
    BY <1>2, <2>2 DEF CancelledUpdate, Unrecorded, StoreType, HistoryType
<1>3. CASE CancelledSelect(w)
  BY <1>3, Left DEF CancelledSelect, Leave, StoreType, HistoryType
<1> QED
  BY <1>1, <1>2, <1>3

LEMMA StoreStepType ==
    ASSUME SweepType, StoreType, HistoryType,
           \/ \E f \in Files : WriteFile(f) \/ InsertRow(f) \/ Age(f) \/ InsertFails(f)
           \/ \E h \in Holds : PlaceHold(h) \/ ReleaseHold(h)
    PROVE  SweepType' /\ StoreType' /\ HistoryType'
<1> USE DEF catalog, disk, history
<1>1. SweepType'
  BY DEF SweepType, WriteFile, InsertRow, Age, InsertFails, PlaceHold, ReleaseHold
<1>2. StoreType'
  BY DEF StoreType, WriteFile, InsertRow, Age, InsertFails, PlaceHold, ReleaseHold
<1>3. HistoryType'
  BY FailureType DEF HistoryType, WriteFile, InsertRow, Age, InsertFails, PlaceHold, ReleaseHold
<1> QED
  BY <1>1, <1>2, <1>3

LEMMA LakeNextType == LakeTypeOK /\ [LakeNext]_lakeVars => LakeTypeOK'
<1> SUFFICES ASSUME SweepType, StoreType, HistoryType, [LakeNext]_lakeVars
             PROVE  SweepType' /\ StoreType' /\ HistoryType'
  BY LakeTypeParts, LakeTypePartsNext
<1>1. CASE Restart
  BY <1>1, FailureType DEF Restart, SweepType, StoreType, HistoryType, catalog, disk, history
<1>2. CASE UNCHANGED lakeVars
  BY <1>2 DEF lakeVars, SweepType, StoreType, HistoryType, catalog, disk, history
<1> QED
  BY <1>1, <1>2, StoreStepType, RunLifecycleType, CancelType, SweepFailsType DEF LakeNext

\* The state of the lakehouse is of its type: the contents of the tables and of
\* the disk, and the locals of RunLifecycle at each of its steps.
THEOREM LakeTypeCorrect == LakeSpec => []LakeTypeOK
<1> QED
  BY LakeInitType, LakeNextType, PTL DEF LakeSpec

-----------------------------------------------------------------------------
(* Lakehouse: legal holds.                                                 *)

\* What a sweep has in hand or takes up is under none of the holds that have
\* been active since it began.
Heeding(w) ==
    sweep[w] # NoSweep =>
        /\ \A h \in honored[w] : Covers[h] \cap Sources \subseteq sweep[w].held
        /\ sweep[w].pc \in {"read", "copying", "copied"} => SourceOf[sweep[w].file] \notin sweep[w].held

HeedInv == LakeTypeOK /\ \A w \in Sweeps : Heeding(w)

LEMMA HeedingStays ==
    ASSUME NEW v \in Sweeps, Heeding(v), sweep'[v] = sweep[v], honored'[v] \subseteq honored[v]
    PROVE  Heeding(v)'
BY DEF Heeding

LEMMA HeedingKept ==
    ASSUME NEW w \in Sweeps, Heeding(w), sweep[w] # NoSweep, honored'[w] \subseteq honored[w],
           sweep'[w].held = sweep[w].held,
           sweep'[w].pc \in {"read", "copying", "copied"} =>
               \/ SourceOf[sweep'[w].file] \notin sweep[w].held
               \/ sweep[w].pc \in {"read", "copying", "copied"} /\ sweep'[w].file = sweep[w].file
    PROVE  Heeding(w)'
BY DEF Heeding

LEMMA RunLifecycleHeeds ==
    ASSUME SweepType, StoreType, HistoryType, NEW w \in Sweeps, RunLifecycle(w), \A v \in Sweeps : Heeding(v)
    PROVE  \A v \in Sweeps : Heeding(v)'
<1>1. ASSUME ReadHolds(w)
      PROVE  \A v \in Sweeps : Heeding(v)'
  <2>1. /\ sweep'[w] = [pc |-> "held", live |-> TRUE, held |-> HoldFilter]
        /\ \A v \in Sweeps : v # w => sweep'[v] = sweep[v]
    BY <1>1, SweepSet DEF ReadHolds
  <2>2. honored'[w] = ActiveHolds /\ \A v \in Sweeps : v # w => honored'[v] = honored[v]
    BY <1>1 DEF ReadHolds, HistoryType
  <2>3. \A h \in ActiveHolds : Covers[h] \cap Sources \subseteq HoldFilter
    BY DEF HoldFilter, Covered
  <2>4. Heeding(w)'
    BY <2>1, <2>2, <2>3 DEF Heeding
  <2> QED
    BY <2>1, <2>2, <2>4, HeedingStays
<1>2. ASSUME ~ReadHolds(w), ~Finish(w)
      PROVE  \A v \in Sweeps : Heeding(v)'
  <2>1. /\ sweep[w] # NoSweep
        /\ sweep'[w].held = sweep[w].held
        /\ \A v \in Sweeps : v # w => sweep'[v] = sweep[v]
        /\ sweep'[w].pc \in {"read", "copying", "copied"} =>
               \/ SourceOf[sweep'[w].file] \notin sweep[w].held
               \/ sweep[w].pc \in {"read", "copying", "copied"} /\ sweep'[w].file = sweep[w].file
    <3>1. ASSUME SelectOld(w) \/ SelectStale(w)
          PROVE  <2>1
      BY <1>2, <3>1, SweepSet DEF SelectOld, SelectStale, NoSweep
    <3>2. ASSUME NEW f \in Files, Skip(w, f) \/ Missing(w, f)
          PROVE  <2>1
      <4>1. sweep[w].pc \in Looping /\ PassOver(w, f)
        BY <3>2 DEF Skip, Missing, TakeUp, Looping
      <4> QED
        BY <4>1, PassedOver DEF NoSweep, Looping
    <3>3. ASSUME NEW f \in Files, Remove(w, f) \/ Rename(w, f) \/ Read(w, f)
          PROVE  <2>1
      <4>1. /\ TakeUp(w, f, "archiving") \/ TakeUp(w, f, "purging")
            /\ With(w, f, "removed") \/ With(w, f, "renamed") \/ With(w, f, "read")
            /\ Looping = {"archiving", "purging"} /\ {"removed", "renamed", "read"} \subseteq Handling
        BY <3>3 DEF Remove, Rename, Read, Looping, Handling
      <4>2. /\ sweep'[w].held = sweep[w].held /\ sweep'[w].file = f
            /\ \A v \in Sweeps : v # w => sweep'[v] = sweep[v]
        BY <4>1, TakenUp
      <4>3. sweep[w] # NoSweep /\ SourceOf[f] \notin sweep[w].held
        BY <4>1 DEF TakeUp, NoSweep
      <4> QED
        BY <4>2, <4>3
    <3>4. ASSUME BeginCopy(w) \/ EndCopy(w) \/ RemoveSource(w)
          PROVE  <2>1
      <4>1. /\ sweep[w].pc \in {"read", "copying", "copied"} /\ sweep[w].pc \in Handling
            /\ {"copying", "copied", "renamed"} \subseteq Handling
            /\ Now(w, "copying") \/ Now(w, "copied") \/ Now(w, "renamed")
        BY <3>4 DEF BeginCopy, EndCopy, RemoveSource, Handling
      <4>2. /\ sweep'[w].held = sweep[w].held /\ sweep'[w].file = sweep[w].file
            /\ \A v \in Sweeps : v # w => sweep'[v] = sweep[v]
        BY <4>1, MovedOn
      <4> QED
        BY <4>1, <4>2 DEF NoSweep
    <3>5. ASSUME MarkArchived(w) \/ MarkPurged(w)
          PROVE  <2>1
      <4>1. /\ sweep[w].pc \in Handling /\ Looping = {"archiving", "purging"}
            /\ GoOn(w, "archiving") \/ GoOn(w, "purging")
        BY <3>5 DEF MarkArchived, MarkPurged, Handling, Looping
      <4> QED
        BY <4>1, WentOn DEF NoSweep, Handling
    <3> QED
      BY <1>2, <3>1, <3>2, <3>3, <3>4, <3>5 DEF RunLifecycle, ArchiveFile
  <2>2. UNCHANGED honored
    BY <1>2 DEF RunLifecycle, ArchiveFile, SelectOld, SelectStale, Skip, Missing, PassOver, Remove, Rename, Read,
                BeginCopy, EndCopy, RemoveSource, MarkArchived, MarkPurged, history
  <2> QED
    BY <2>1, <2>2, HeedingStays, HeedingKept
<1>3. ASSUME Finish(w)
      PROVE  \A v \in Sweeps : Heeding(v)'
  <2>1. Leave(w)
    BY <1>3 DEF Finish
  <2> QED
    BY <2>1, Left, HeedingStays DEF Heeding
<1> QED
  BY <1>1, <1>2, <1>3

LEMMA OtherStepHeeds ==
    ASSUME SweepType, StoreType, HistoryType, NEW w \in Sweeps,
           SweepFails(w) \/ Cancel(w) \/ CancelledUpdate(w) \/ CancelledSelect(w), \A v \in Sweeps : Heeding(v)
    PROVE  \A v \in Sweeps : Heeding(v)'
<1>1. ASSUME SelectFails(w) \/ CancelledSelect(w)
      PROVE  \A v \in Sweeps : Heeding(v)'
  <2>1. Leave(w)
    BY <1>1 DEF SelectFails, CancelledSelect
  <2> QED
    BY <2>1, Left, HeedingStays DEF Heeding
<1>2. ASSUME NEW f \in Files, ArchiveFails(w, f)
      PROVE  \A v \in Sweeps : Heeding(v)'
  <2>1. sweep[w].pc \in Looping /\ PassOver(w, f) /\ UNCHANGED honored
    BY <1>2 DEF ArchiveFails, TakeUp, Looping, PassOver, history
  <2>2. sweep[w] # NoSweep /\ sweep'[w].held = sweep[w].held /\ sweep'[w].pc \in Looping
    BY <2>1, PassedOver DEF NoSweep, Looping
  <2> QED
    BY <2>1, <2>2, PassedOver, HeedingStays, HeedingKept DEF Looping
<1>3. ASSUME NEW f \in Files, PurgeFails(w, f)
      PROVE  \A v \in Sweeps : Heeding(v)'
  <2>1. /\ TakeUp(w, f, "purging") /\ With(w, f, "removed") /\ "purging" \in Looping /\ "removed" \in Handling
        /\ UNCHANGED honored
    BY <1>3 DEF PurgeFails, Looping, Handling, history
  <2>2. sweep[w] # NoSweep /\ sweep'[w].held = sweep[w].held /\ sweep'[w].pc = "removed"
    BY <2>1, TakenUp DEF NoSweep, TakeUp
  <2> QED
    BY <2>1, <2>2, TakenUp, HeedingStays, HeedingKept
<1>4. ASSUME CopyFails(w) \/ UpdateFails(w) \/ CancelledUpdate(w)
      PROVE  \A v \in Sweeps : Heeding(v)'
  <2>1. /\ sweep[w].pc \in Handling /\ Looping = {"archiving", "purging"}
        /\ GoOn(w, "archiving") \/ GoOn(w, "purging")
        /\ UNCHANGED honored
    BY <1>4 DEF CopyFails, UpdateFails, CancelledUpdate, Unrecorded, Handling, Looping, history
  <2>2. /\ sweep[w] # NoSweep /\ sweep'[w].held = sweep[w].held /\ sweep'[w].pc \in Looping
        /\ \A v \in Sweeps : v # w => sweep'[v] = sweep[v]
    BY <2>1, WentOn DEF NoSweep, Handling
  <2> QED
    BY <2>1, <2>2, HeedingStays, HeedingKept DEF Looping
<1>5. ASSUME RemoveSourceFails(w)
      PROVE  \A v \in Sweeps : Heeding(v)'
  <2>1. sweep[w].pc \in Handling /\ "renamed" \in Handling /\ Now(w, "renamed") /\ UNCHANGED honored
    BY <1>5 DEF RemoveSourceFails, Handling, history
  <2>2. /\ sweep[w] # NoSweep /\ sweep'[w].held = sweep[w].held /\ sweep'[w].pc = "renamed"
        /\ \A v \in Sweeps : v # w => sweep'[v] = sweep[v]
    BY <2>1, MovedOn DEF NoSweep, Handling
  <2> QED
    BY <2>1, <2>2, HeedingStays, HeedingKept
<1>6. ASSUME Cancel(w)
      PROVE  \A v \in Sweeps : Heeding(v)'
  <2>1. UNCHANGED honored
    BY <1>6 DEF Cancel
  <2> QED
    BY <1>6, <2>1, Cancelled, HeedingStays, HeedingKept DEF Handling
<1> QED
  BY <1>1, <1>2, <1>3, <1>4, <1>5, <1>6 DEF SweepFails

LEMMA LakeNextHeeds == HeedInv /\ [LakeNext]_lakeVars => HeedInv'
<1> SUFFICES ASSUME HeedInv, [LakeNext]_lakeVars
             PROVE  HeedInv'
  OBVIOUS
<1>1. LakeTypeOK'
  BY LakeNextType DEF HeedInv
<1>2. SweepType /\ StoreType /\ HistoryType /\ \A v \in Sweeps : Heeding(v)
  BY LakeTypeParts DEF HeedInv
<1>3. ASSUME \E f \in Files : WriteFile(f) \/ InsertRow(f) \/ Age(f) \/ InsertFails(f)
      PROVE  \A v \in Sweeps : Heeding(v)'
  <2>1. UNCHANGED <<sweep, honored>>
    BY <1>3 DEF WriteFile, InsertRow, Age, InsertFails, history
  <2> QED
    BY <1>2, <2>1, HeedingStays
<1>4. ASSUME NEW h \in Holds, PlaceHold(h) \/ ReleaseHold(h)
      PROVE  \A v \in Sweeps : Heeding(v)'
  <2>1. UNCHANGED sweep /\ \A v \in Sweeps : honored'[v] \subseteq honored[v]
    BY <1>2, <1>4 DEF PlaceHold, ReleaseHold, history, HistoryType
  <2> QED
    BY <1>2, <2>1, HeedingStays
<1>5. ASSUME Restart
      PROVE  \A v \in Sweeps : Heeding(v)'
  BY <1>5 DEF Restart, Heeding
<1>6. CASE UNCHANGED lakeVars
  BY <1>1, <1>2, <1>6, HeedingStays DEF lakeVars, history, HeedInv
<1> QED
  BY <1>1, <1>2, <1>3, <1>4, <1>5, <1>6, RunLifecycleHeeds, OtherStepHeeds DEF LakeNext, HeedInv

\* A sweep touches nothing whose source has been under a hold since before the
\* sweep began: RunLifecycle asks for the holds once, ahead of its two loops, and
\* either loop passes over what they name.  A sweep that has a file in hand took
\* it up by that rule.
THEOREM HoldsAreHonored == LakeSpec => HoldsHonored
<1>1. LakeInit => HeedInv
  BY LakeInitType DEF LakeInit, HeedInv, Heeding
<1>2. ASSUME HeedInv, LakeNext, NEW f \in Files, NEW w \in Sweeps, Touched(f), sweep'[w] # sweep[w]
      PROVE  \A h \in honored[w] : SourceOf[f] \notin Covers[h]
  <2>1. SweepType /\ StoreType /\ HistoryType /\ Heeding(w)
    BY <1>2, LakeTypeParts DEF HeedInv
  <2>2. PICK v \in Sweeps :
            \/ Rename(v, f) \/ Remove(v, f)
            \/ sweep[v].pc \in {"read", "copied"} /\ sweep[v].file = f /\ (BeginCopy(v) \/ RemoveSource(v))
    <3>1. ~UNCHANGED <<base, backup>>
      BY <1>2 DEF Touched
    <3>2. ~\E g \in Files : WriteFile(g) \/ InsertRow(g) \/ Age(g) \/ InsertFails(g)
      BY <1>2, <3>1 DEF WriteFile, InsertRow, Age, InsertFails, disk, Touched
    <3>3. ~(\E h \in Holds : PlaceHold(h) \/ ReleaseHold(h)) /\ ~Restart
      BY <3>1 DEF PlaceHold, ReleaseHold, Restart, disk
    <3>4. ASSUME NEW v \in Sweeps
          PROVE  ~Cancel(v) /\ ~CancelledUpdate(v) /\ ~CancelledSelect(v)
      BY <3>1 DEF Cancel, CancelledUpdate, CancelledSelect, Unrecorded, Leave, disk
    <3>5. ASSUME NEW v \in Sweeps
          PROVE  ~SweepFails(v)
      BY <3>1 DEF SweepFails, ArchiveFails, PassOver, PurgeFails, CopyFails, RemoveSourceFails, UpdateFails,
                  Unrecorded, SelectFails, Leave, disk
    <3>6. PICK v \in Sweeps : RunLifecycle(v)
      BY <1>2, <3>2, <3>3, <3>4, <3>5 DEF LakeNext
    <3>7. ~ReadHolds(v) /\ ~SelectOld(v) /\ ~SelectStale(v) /\ ~MarkArchived(v) /\ ~MarkPurged(v) /\ ~Finish(v)
      BY <3>1 DEF ReadHolds, SelectOld, SelectStale, MarkArchived, MarkPurged, Finish, Leave, disk
    <3>8. ~EndCopy(v) /\ ~\E g \in Files : Skip(v, g) \/ Missing(v, g) \/ Read(v, g)
      BY <1>2, <3>1 DEF EndCopy, Skip, Missing, PassOver, Read, disk, Touched
    <3>9. \/ \E g \in Files : Rename(v, g) \/ Remove(v, g)
          \/ BeginCopy(v) \/ RemoveSource(v)
      BY <3>6, <3>7, <3>8 DEF RunLifecycle, ArchiveFile
    <3> QED
      BY <1>2, <3>9 DEF Rename, Remove, BeginCopy, RemoveSource, Touched
  <2>3. v = w
    <3>1. \E s : sweep' = [sweep EXCEPT ![v] = s]
      BY <2>2 DEF Rename, Remove, With, BeginCopy, RemoveSource, Now
    <3> QED
      BY <1>2, <2>1, <3>1, SweepSet
  <2>4. sweep[w] # NoSweep /\ SourceOf[f] \notin sweep[w].held
    BY <2>1, <2>2, <2>3 DEF Rename, Remove, TakeUp, Heeding, NoSweep
  <2> QED
    BY <2>1, <2>4 DEF Heeding, Sources
<1>3. HeedInv /\ [LakeNext]_lakeVars =>
          [\A f \in Files, w \in Sweeps :
               Touched(f) /\ sweep'[w] # sweep[w] => \A h \in honored[w] : SourceOf[f] \notin Covers[h]]_lakeVars
  BY <1>2
<1> QED
  BY <1>1, <1>3, LakeNextHeeds, PTL DEF LakeSpec, HoldsHonored

-----------------------------------------------------------------------------
(* Lakehouse: no data is lost.                                             *)

\* What w has selected for the purge and has not recorded yet.
Condemned(w) ==
    (IF sweep[w].pc = "removed" THEN {sweep[w].file} ELSE {}) \cup
    (IF sweep[w].pc \in {"removed", "purging"} THEN sweep[w].todo ELSE {})

Written == \A f \in writer : row[f] = "absent" /\ f \in base

Ages == \A f \in Files : row[f] = "purged" => f \in aged

\* What is old in the archive is not on its way there, and nothing else is removed.
Staged(w) ==
    /\ \A f \in Underway(w) : row[f] # "absent" /\ ~(row[f] \in {"archived", "purged"} /\ f \in aged)
    /\ \A f \in Condemned(w) : row[f] \in {"archived", "purged"} /\ f \in aged

RowStages == Written /\ Ages /\ \A w \in Sweeps : Staged(w)

Copying(f) == \E w \in Sweeps : sweep[w].pc = "copying" /\ sweep[w].file = f

Risked(f) == f \in shared /\ failures > 0

\* Until a sweep has read a file, copied it and removed it, the file is there,
\* unless two sweeps share it.
Handed(w) ==
    /\ sweep[w].pc \in {"read", "copying", "copied"} => ~sameDevice /\ sweep[w].file \in base \cup shared
    /\ sweep[w].pc = "copied" =>
           sweep[w].file \in backup \/ Copying(sweep[w].file) \/ Risked(sweep[w].file)

Apart == \A w \in Sweeps, v \in Sweeps : ~sameDevice /\ v # w => InHand(w) \cap InHand(v) \subseteq shared

Needed(f) == row[f] = "live" \/ f \in writer \/ (row[f] = "archived" /\ f \notin aged)

Safe(f) == f \in base \cup backup \/ Copying(f) \/ Risked(f)

Hands == Apart /\ (\A w \in Sweeps : Handed(w)) /\ \A f \in Files : Needed(f) => Safe(f)

KeptInv == LakeTypeOK /\ RowStages /\ Hands

LEMMA SetsAre ==
    ASSUME NEW w \in Sweeps
    PROVE  /\ sweep[w].pc \in {"read", "copying", "copied", "renamed"} =>
                  InHand(w) = {sweep[w].file} /\ Underway(w) = InHand(w) \cup sweep[w].todo /\ Condemned(w) = {}
           /\ sweep[w].pc = "removed" =>
                  InHand(w) = {} /\ Underway(w) = {} /\ Condemned(w) = {sweep[w].file} \cup sweep[w].todo
           /\ sweep[w].pc = "archiving" => InHand(w) = {} /\ Underway(w) = sweep[w].todo /\ Condemned(w) = {}
           /\ sweep[w].pc = "purging" => InHand(w) = {} /\ Underway(w) = {} /\ Condemned(w) = sweep[w].todo
           /\ sweep[w].pc \in {"idle", "held"} => InHand(w) = {} /\ Underway(w) = {} /\ Condemned(w) = {}
BY DEF InHand, Underway, Condemned

LEMMA SetsAreNext ==
    ASSUME NEW w \in Sweeps
    PROVE  /\ sweep'[w].pc \in {"read", "copying", "copied", "renamed"} =>
                  InHand(w)' = {sweep'[w].file} /\ Underway(w)' = InHand(w)' \cup sweep'[w].todo /\ Condemned(w)' = {}
           /\ sweep'[w].pc = "removed" =>
                  InHand(w)' = {} /\ Underway(w)' = {} /\ Condemned(w)' = {sweep'[w].file} \cup sweep'[w].todo
           /\ sweep'[w].pc = "archiving" => InHand(w)' = {} /\ Underway(w)' = sweep'[w].todo /\ Condemned(w)' = {}
           /\ sweep'[w].pc = "purging" => InHand(w)' = {} /\ Underway(w)' = {} /\ Condemned(w)' = sweep'[w].todo
           /\ sweep'[w].pc \in {"idle", "held"} => InHand(w)' = {} /\ Underway(w)' = {} /\ Condemned(w)' = {}
BY DEF InHand, Underway, Condemned

LEMMA SetsStay ==
    ASSUME NEW v \in Sweeps, sweep'[v] = sweep[v]
    PROVE  InHand(v)' = InHand(v) /\ Underway(v)' = Underway(v) /\ Condemned(v)' = Condemned(v)
BY DEF InHand, Underway, Condemned

LEMMA SetsTyped ==
    ASSUME SweepType, NEW w \in Sweeps
    PROVE  InHand(w) \in SUBSET Files /\ Underway(w) \in SUBSET Files /\ Condemned(w) \in SUBSET Files
BY SetsAre, SweepShape DEF Looping, Handling, NoSweep

OthersWait(w) == \A v \in Sweeps : v # w => sweep'[v] = sweep[v]

\* w has selected nothing more.
Narrows(w) == Underway(w)' \subseteq Underway(w) /\ Condemned(w)' \subseteq Condemned(w)

\* A step that is none of the copying.
Quiet(w) ==
    /\ UNCHANGED <<disk, shared, writer>>
    /\ failures' = failures \/ failures' = failures + 1
    /\ InHand(w)' \subseteq InHand(w)
    /\ sweep'[w].pc \in {"read", "copying", "copied"} => sweep'[w].pc = sweep[w].pc /\ sweep'[w].file = sweep[w].file
    /\ sweep[w].pc = "copying" => sweep'[w].pc = "copying"

LEMMA PassOverQuiet ==
    ASSUME SweepType, NEW w \in Sweeps, NEW f \in Files, Skip(w, f) \/ Missing(w, f) \/ ArchiveFails(w, f)
    PROVE  OthersWait(w) /\ Narrows(w) /\ Quiet(w) /\ UNCHANGED catalog
<1>1. sweep[w].pc \in Looping /\ PassOver(w, f) /\ (UNCHANGED failures \/ Failure)
  BY DEF Skip, Missing, ArchiveFails, TakeUp, Looping
<1>2. UNCHANGED <<catalog, disk, shared, writer>> /\ (failures' = failures \/ failures' = failures + 1)
  BY <1>1 DEF PassOver, history, Failure
<1>3. sweep'[w].pc = sweep[w].pc /\ sweep'[w].todo = sweep[w].todo \ {f} /\ OthersWait(w)
  BY <1>1, PassedOver DEF OthersWait
<1> QED
  BY <1>1, <1>2, <1>3, SetsAre, SetsAreNext DEF Narrows, Quiet, Looping

LEMMA PurgeFailsQuiet ==
    ASSUME SweepType, NEW w \in Sweeps, NEW f \in Files, PurgeFails(w, f)
    PROVE  OthersWait(w) /\ Narrows(w) /\ Quiet(w) /\ UNCHANGED catalog
<1>1. TakeUp(w, f, "purging") /\ With(w, f, "removed") /\ "purging" \in Looping /\ "removed" \in Handling
  BY DEF PurgeFails, Looping, Handling
<1>2. UNCHANGED <<catalog, disk, shared, writer>> /\ (failures' = failures \/ failures' = failures + 1)
  BY DEF PurgeFails, history, Failure
<1>3. /\ sweep[w].pc = "purging" /\ f \in sweep[w].todo
      /\ sweep'[w].pc = "removed" /\ sweep'[w].file = f /\ sweep'[w].todo = sweep[w].todo \ {f} /\ OthersWait(w)
  BY <1>1, TakenUp DEF OthersWait
<1> QED
  BY <1>2, <1>3, SetsAre, SetsAreNext DEF Narrows, Quiet

LEMMA GoOnQuiet ==
    ASSUME SweepType, NEW w \in Sweeps,
           MarkArchived(w) \/ MarkPurged(w) \/ CancelledUpdate(w) \/ UpdateFails(w)
    PROVE  OthersWait(w) /\ Narrows(w) /\ Quiet(w)
<1>1. /\ (sweep[w].pc = "renamed" /\ GoOn(w, "archiving")) \/ (sweep[w].pc = "removed" /\ GoOn(w, "purging"))
      /\ Looping = {"archiving", "purging"} /\ sweep[w].pc \in Handling
  BY DEF MarkArchived, MarkPurged, CancelledUpdate, UpdateFails, Unrecorded, Looping, Handling
<1>2. UNCHANGED <<disk, shared, writer>> /\ (failures' = failures \/ failures' = failures + 1)
  BY DEF MarkArchived, MarkPurged, CancelledUpdate, UpdateFails, Unrecorded, history, Failure
<1>3. /\ sweep'[w].pc = (IF sweep[w].pc = "renamed" THEN "archiving" ELSE "purging")
      /\ sweep'[w].todo = sweep[w].todo /\ OthersWait(w)
  BY <1>1, WentOn DEF OthersWait
<1> QED
  BY <1>1, <1>2, <1>3, SetsAre, SetsAreNext DEF Narrows, Quiet

LEMMA RestQuiet ==
    ASSUME SweepType, HistoryType, NEW w \in Sweeps,
           \/ ReadHolds(w) \/ Finish(w) \/ CancelledSelect(w) \/ SelectFails(w)
           \/ Cancel(w) \/ RemoveSourceFails(w)
    PROVE  OthersWait(w) /\ Narrows(w) /\ Quiet(w) /\ UNCHANGED catalog
<1>1. UNCHANGED <<catalog, disk, shared, writer>> /\ (failures' = failures \/ failures' = failures + 1)
  <2>1. CASE Finish(w) \/ CancelledSelect(w) \/ SelectFails(w)
    BY <2>1 DEF Finish, CancelledSelect, SelectFails, Leave, Failure
  <2>2. CASE ReadHolds(w) \/ Cancel(w) \/ RemoveSourceFails(w)
    BY <2>2 DEF ReadHolds, Cancel, RemoveSourceFails, history, Failure
  <2> QED
    BY <2>1, <2>2
<1>2. CASE ReadHolds(w)
  <2>1. /\ sweep'[w] = [pc |-> "held", live |-> TRUE, held |-> HoldFilter]
        /\ \A v \in Sweeps : v # w => sweep'[v] = sweep[v]
    BY <1>2, SweepSet DEF ReadHolds
  <2>2. sweep'[w].pc = "held" /\ sweep[w].pc = "idle"
    BY <1>2, <2>1 DEF ReadHolds, NoSweep
  <2> QED
    BY <1>1, <2>1, <2>2, SetsAreNext DEF Narrows, Quiet, OthersWait
<1>3. CASE Finish(w) \/ CancelledSelect(w) \/ SelectFails(w)
  <2>1. Leave(w) /\ sweep[w].pc # "copying"
    BY <1>3 DEF Finish, CancelledSelect, SelectFails, AtSelect
  <2>2. sweep'[w].pc = "idle" /\ OthersWait(w)
    BY <2>1, Left DEF OthersWait, NoSweep
  <2> QED
    BY <1>1, <2>1, <2>2, SetsAreNext DEF Narrows, Quiet
<1>4. CASE Cancel(w)
  <2>1. /\ sweep[w].pc \in {"held"} \cup Looping \cup Handling /\ OthersWait(w)
        /\ sweep'[w].pc = sweep[w].pc
        /\ sweep[w].pc \in Looping \cup Handling => sweep'[w].todo = sweep[w].todo
        /\ sweep[w].pc \in Handling => sweep'[w].file = sweep[w].file
    BY <1>4, Cancelled, SweepShape DEF OthersWait
  <2> QED
    BY <1>1, <2>1, SetsAre, SetsAreNext DEF Narrows, Quiet, Looping, Handling
<1>5. CASE RemoveSourceFails(w)
  <2>1. sweep[w].pc = "copied" /\ sweep[w].pc \in Handling /\ "renamed" \in Handling /\ Now(w, "renamed")
    BY <1>5 DEF RemoveSourceFails, Handling
  <2>2. /\ sweep'[w].pc = "renamed" /\ sweep'[w].file = sweep[w].file /\ sweep'[w].todo = sweep[w].todo
        /\ OthersWait(w)
    BY <2>1, MovedOn DEF OthersWait
  <2> QED
    BY <1>1, <2>1, <2>2, SetsAre, SetsAreNext DEF Narrows, Quiet
<1> QED
  BY <1>2, <1>3, <1>4, <1>5

LEMMA SelectQuiet ==
    ASSUME SweepType, NEW w \in Sweeps, SelectOld(w) \/ SelectStale(w)
    PROVE  /\ OthersWait(w) /\ Quiet(w) /\ UNCHANGED catalog
           /\ Underway(w)' \subseteq (IF sweep[w].pc = "held" THEN Old ELSE {})
           /\ Condemned(w)' \subseteq (IF sweep[w].pc = "held" THEN {} ELSE Stale)
<1>1. UNCHANGED <<catalog, disk, shared, writer, failures>>
  BY DEF SelectOld, SelectStale, history
<1>2. CASE SelectOld(w)
  <2>1. AtSelect(w) /\ "archiving" \in Looping /\ Old \in SUBSET Files /\ sweep[w].pc = "held"
    BY <1>2, FilesAssumption DEF SelectOld, AtSelect, Looping, Old
  <2>2. sweep' = [sweep EXCEPT ![w] = [pc |-> "archiving", live |-> TRUE, held |-> @.held, todo |-> Old]]
    BY <1>2 DEF SelectOld
  <2>3. sweep'[w].pc = "archiving" /\ sweep'[w].todo = Old /\ OthersWait(w)
    BY <2>1, <2>2, Selected DEF OthersWait
  <2> QED
    BY <1>1, <2>1, <2>3, SetsAreNext DEF Quiet
<1>3. CASE SelectStale(w)
  <2>1. AtSelect(w) /\ "purging" \in Looping /\ Stale \in SUBSET Files /\ sweep[w].pc = "archiving"
    BY <1>3 DEF SelectStale, AtSelect, Looping, Stale
  <2>2. sweep' = [sweep EXCEPT ![w] = [pc |-> "purging", live |-> TRUE, held |-> @.held, todo |-> Stale]]
    BY <1>3 DEF SelectStale
  <2>3. sweep'[w].pc = "purging" /\ sweep'[w].todo = Stale /\ OthersWait(w)
    BY <2>1, <2>2, Selected DEF OthersWait
  <2> QED
    BY <1>1, <2>1, <2>3, SetsAreNext DEF Quiet
<1> QED
  BY <1>2, <1>3

\* The steps that copy and remove.
LEMMA HandlingSteps ==
    ASSUME SweepType, NEW w \in Sweeps
    PROVE  /\ \A f \in Files : Rename(w, f) =>
                  /\ OthersWait(w) /\ sweep'[w].pc = "renamed" /\ sweep'[w].file = f
                  /\ sweep[w].pc = "archiving" /\ f \in Underway(w) /\ Underway(w)' = Underway(w) /\ Condemned(w)' = {}
           /\ \A f \in Files : Read(w, f) =>
                  /\ OthersWait(w) /\ sweep'[w].pc = "read" /\ sweep'[w].file = f
                  /\ sweep[w].pc = "archiving" /\ f \in Underway(w) /\ Underway(w)' = Underway(w) /\ Condemned(w)' = {}
           /\ \A f \in Files : Remove(w, f) =>
                  /\ OthersWait(w) /\ sweep'[w].pc = "removed" /\ sweep'[w].file = f
                  /\ sweep[w].pc = "purging" /\ f \in Condemned(w) /\ Underway(w)' = {} /\ Condemned(w)' = Condemned(w)
           /\ BeginCopy(w) => /\ OthersWait(w) /\ Narrows(w) /\ sweep'[w].pc = "copying"
                              /\ sweep'[w].file = sweep[w].file /\ InHand(w)' = InHand(w)
           /\ EndCopy(w) => /\ OthersWait(w) /\ Narrows(w) /\ sweep'[w].pc = "copied"
                            /\ sweep'[w].file = sweep[w].file /\ InHand(w)' = InHand(w)
           /\ RemoveSource(w) => /\ OthersWait(w) /\ Narrows(w) /\ sweep'[w].pc = "renamed"
                                 /\ sweep'[w].file = sweep[w].file /\ InHand(w)' = InHand(w)
           /\ CopyFails(w) => /\ OthersWait(w) /\ Narrows(w) /\ sweep'[w].pc = "archiving" /\ InHand(w)' = {}
<1>1. ASSUME NEW f \in Files, NEW place \in {"renamed", "read"}, TakeUp(w, f, "archiving"), With(w, f, place)
      PROVE  /\ OthersWait(w) /\ sweep'[w].pc = place /\ sweep'[w].file = f
             /\ sweep[w].pc = "archiving" /\ f \in Underway(w) /\ Underway(w)' = Underway(w) /\ Condemned(w)' = {}
  <2>1. "archiving" \in Looping /\ place \in Handling
    BY DEF Looping, Handling
  <2>2. /\ sweep[w].pc = "archiving" /\ f \in sweep[w].todo
        /\ sweep'[w].pc = place /\ sweep'[w].file = f /\ sweep'[w].todo = sweep[w].todo \ {f} /\ OthersWait(w)
    BY <1>1, <2>1, TakenUp DEF OthersWait
  <2>3. Underway(w) = sweep[w].todo
    BY <2>2, SetsAre
  <2>4. InHand(w)' = {f} /\ Underway(w)' = {f} \cup (sweep[w].todo \ {f}) /\ Condemned(w)' = {}
    BY <2>2, SetsAreNext
  <2>5. Underway(w)' = Underway(w)
    BY <2>2, <2>3, <2>4
  <2> QED
    BY <2>2, <2>3, <2>4, <2>5
<1>2. ASSUME NEW f \in Files, Remove(w, f)
      PROVE  /\ OthersWait(w) /\ sweep'[w].pc = "removed" /\ sweep'[w].file = f
             /\ sweep[w].pc = "purging" /\ f \in Condemned(w) /\ Underway(w)' = {} /\ Condemned(w)' = Condemned(w)
  <2>1. TakeUp(w, f, "purging") /\ With(w, f, "removed") /\ "purging" \in Looping /\ "removed" \in Handling
    BY <1>2 DEF Remove, Looping, Handling
  <2>2. /\ sweep[w].pc = "purging" /\ f \in sweep[w].todo
        /\ sweep'[w].pc = "removed" /\ sweep'[w].file = f /\ sweep'[w].todo = sweep[w].todo \ {f} /\ OthersWait(w)
    BY <2>1, TakenUp DEF OthersWait
  <2> QED
    BY <2>2, SetsAre, SetsAreNext
<1>3. ASSUME NEW place \in {"copying", "copied", "renamed"}, Now(w, place),
             sweep[w].pc \in {"read", "copying", "copied"}
      PROVE  /\ OthersWait(w) /\ Narrows(w) /\ sweep'[w].pc = place
             /\ sweep'[w].file = sweep[w].file /\ InHand(w)' = InHand(w)
  <2>1. sweep[w].pc \in Handling /\ place \in Handling
    BY <1>3 DEF Handling
  <2>2. /\ sweep'[w].pc = place /\ sweep'[w].file = sweep[w].file /\ sweep'[w].todo = sweep[w].todo
        /\ OthersWait(w)
    BY <1>3, <2>1, MovedOn DEF OthersWait
  <2> QED
    BY <1>3, <2>2, SetsAre, SetsAreNext DEF Narrows
<1>4. ASSUME CopyFails(w)
      PROVE  OthersWait(w) /\ Narrows(w) /\ sweep'[w].pc = "archiving" /\ InHand(w)' = {}
  <2>1. sweep[w].pc = "copying" /\ GoOn(w, "archiving") /\ "archiving" \in Looping /\ sweep[w].pc \in Handling
    BY <1>4 DEF CopyFails, Looping, Handling
  <2>2. sweep'[w].pc = "archiving" /\ sweep'[w].todo = sweep[w].todo /\ OthersWait(w)
    BY <2>1, WentOn DEF OthersWait
  <2> QED
    BY <2>1, <2>2, SetsAre, SetsAreNext DEF Narrows
<1> QED
  BY <1>1, <1>2, <1>3, <1>4 DEF Rename, Read, BeginCopy, EndCopy, RemoveSource

\* RowStages goes on where the rows stay.
LEMMA StagedStays ==
    ASSUME NEW v \in Sweeps, Staged(v), Narrows(v), UNCHANGED <<row, aged>>
    PROVE  Staged(v)'
BY DEF Staged, Narrows

LEMMA WaitersStay ==
    ASSUME NEW w \in Sweeps, OthersWait(w), NEW v \in Sweeps, v # w
    PROVE  Narrows(v) /\ InHand(v)' = InHand(v) /\ Underway(v)' = Underway(v) /\ Condemned(v)' = Condemned(v)
BY SetsStay DEF OthersWait, Narrows

LEMMA StagesStay ==
    ASSUME RowStages, NEW w \in Sweeps, OthersWait(w), Narrows(w), UNCHANGED <<row, aged, writer>>,
           \A f \in base : f \in base' \/ row[f] # "absent"
    PROVE  RowStages'
<1>1. Written' /\ Ages'
  BY DEF RowStages, Written, Ages
<1>2. \A v \in Sweeps : Staged(v)'
  BY StagedStays, WaitersStay DEF RowStages
<1> QED
  BY <1>1, <1>2 DEF RowStages

LEMMA SweepStages ==
    ASSUME LakeTypeOK, RowStages, NEW w \in Sweeps,
           RunLifecycle(w) \/ SweepFails(w) \/ Cancel(w) \/ CancelledUpdate(w) \/ CancelledSelect(w)
    PROVE  RowStages'
<1>0. SweepType /\ StoreType /\ HistoryType
  BY LakeTypeParts
<1>1. ASSUME OthersWait(w), Narrows(w), Quiet(w), UNCHANGED catalog
      PROVE  RowStages'
  BY <1>1, StagesStay DEF Quiet, catalog, disk
<1>2. CASE SelectOld(w) \/ SelectStale(w)
  <2>1. OthersWait(w) /\ Quiet(w) /\ UNCHANGED <<row, aged>>
    BY <1>0, <1>2, SelectQuiet DEF catalog
  <2>2. Staged(w)'
    BY <1>0, <1>2, <2>1, SelectQuiet DEF Staged, Old, Stale
  <2>3. \A v \in Sweeps : Staged(v)'
    BY <2>1, <2>2, StagedStays, WaitersStay DEF RowStages
  <2>4. Written' /\ Ages'
    BY <2>1 DEF Quiet, RowStages, Written, Ages, disk
  <2> QED
    BY <2>3, <2>4 DEF RowStages
<1>3. CASE MarkArchived(w) \/ MarkPurged(w)
  <2>1. OthersWait(w) /\ Narrows(w) /\ Quiet(w)
    BY <1>0, <1>3, GoOnQuiet
  <2>2. PICK f : f = sweep[w].file
    OBVIOUS
  <2>3. f \in Files
    BY <1>0, <1>3, <2>2, SweepShape DEF MarkArchived, MarkPurged, Handling
  <2>4. \A v \in Sweeps : Underway(v)' \subseteq Underway(v) /\ Condemned(v)' \subseteq Condemned(v)
    BY <2>1, WaitersStay DEF Narrows
  <2>5. \A v \in Sweeps : Underway(v) \in SUBSET Files /\ Condemned(v) \in SUBSET Files
    BY <1>0, SetsTyped
  <2>6. UNCHANGED <<base, writer>>
    BY <2>1 DEF Quiet, disk
  <2>7. CASE MarkArchived(w)
    <3>1. /\ row' = [row EXCEPT ![f] = "archived"]
          /\ aged' = aged \ {f}
          /\ f \in Underway(w)
      BY <2>2, <2>7, SetsAre DEF MarkArchived
    <3>2. row[f] # "absent" /\ \A v \in Sweeps : f \notin Condemned(v)
      BY <3>1 DEF RowStages, Staged
    <3>3. Written' /\ Ages'
      BY <1>0, <2>3, <2>6, <3>1, <3>2 DEF RowStages, Written, Ages, StoreType
    <3>4. \A v \in Sweeps : Staged(v)'
      BY <1>0, <2>3, <2>4, <2>5, <3>1, <3>2 DEF RowStages, Staged, StoreType
    <3> QED
      BY <3>3, <3>4 DEF RowStages
  <2>8. CASE MarkPurged(w)
    <3>1. /\ row' = [row EXCEPT ![f] = "purged"] /\ aged' = aged
          /\ f \in Condemned(w)
      BY <2>2, <2>8, SetsAre DEF MarkPurged
    <3>2. row[f] # "absent" /\ f \in aged /\ \A v \in Sweeps : f \notin Underway(v)
      BY <3>1 DEF RowStages, Staged
    <3>3. Written' /\ Ages'
      BY <1>0, <2>3, <2>6, <3>1, <3>2 DEF RowStages, Written, Ages, StoreType
    <3>4. \A v \in Sweeps : Staged(v)'
      BY <1>0, <2>3, <2>4, <2>5, <3>1, <3>2 DEF RowStages, Staged, StoreType
    <3> QED
      BY <3>3, <3>4 DEF RowStages
  <2> QED
    BY <1>3, <2>7, <2>8
<1>4. ASSUME NEW f \in Files, Rename(w, f) \/ Read(w, f)
      PROVE  RowStages'
  <2>1. OthersWait(w) /\ Narrows(w) /\ f \in Underway(w)
    BY <1>0, <1>4, HandlingSteps DEF Narrows
  <2>2. UNCHANGED <<row, aged, writer>> /\ base \ {f} \subseteq base'
    BY <1>4 DEF Rename, Read, catalog, disk
  <2>3. row[f] # "absent"
    BY <2>1 DEF RowStages, Staged
  <2> QED
    BY <2>1, <2>2, <2>3, StagesStay
<1>5. ASSUME NEW f \in Files, Remove(w, f)
      PROVE  RowStages'
  <2>1. OthersWait(w) /\ Narrows(w)
    BY <1>0, <1>5, HandlingSteps DEF Narrows
  <2> QED
    BY <1>5, <2>1, StagesStay DEF Remove, catalog
<1>6. CASE BeginCopy(w) \/ EndCopy(w) \/ RemoveSource(w) \/ CopyFails(w)
  <2>1. OthersWait(w) /\ Narrows(w)
    BY <1>0, <1>6, HandlingSteps
  <2>2. UNCHANGED <<row, aged, writer>>
    BY <1>6 DEF BeginCopy, EndCopy, RemoveSource, CopyFails, catalog
  <2>3. \A f \in base : f \in base' \/ row[f] # "absent"
    <3>1. CASE RemoveSource(w)
      <4>1. sweep[w].file \in Underway(w) /\ base' = base \ {sweep[w].file}
        BY <3>1, SetsAre DEF RemoveSource
      <4> QED
        BY <4>1 DEF RowStages, Staged
    <3> QED
      BY <1>6, <3>1 DEF BeginCopy, EndCopy, CopyFails, disk
  <2> QED
    BY <2>1, <2>2, <2>3, StagesStay
<1>7. CASE CancelledUpdate(w) \/ UpdateFails(w)
  BY <1>0, <1>1, <1>7, GoOnQuiet DEF CancelledUpdate, UpdateFails, Unrecorded
<1> QED
  BY <1>0, <1>1, <1>2, <1>3, <1>4, <1>5, <1>6, <1>7, PassOverQuiet, PurgeFailsQuiet, RestQuiet
     DEF RunLifecycle, ArchiveFile, SweepFails

LEMMA StoreStages ==
    ASSUME LakeTypeOK, RowStages, UNCHANGED sweep,
           \/ \E f \in Files : WriteFile(f) \/ InsertRow(f) \/ Age(f) \/ InsertFails(f)
           \/ \E h \in Holds : PlaceHold(h) \/ ReleaseHold(h)
           \/ UNCHANGED lakeVars
    PROVE  RowStages'
<1>0. SweepType /\ StoreType /\ HistoryType
  BY LakeTypeParts
<1>1. \A v \in Sweeps : Underway(v)' = Underway(v) /\ Condemned(v)' = Condemned(v) /\ Narrows(v)
  BY SetsStay DEF Narrows
<1>2. \A v \in Sweeps : Underway(v) \in SUBSET Files /\ Condemned(v) \in SUBSET Files
  BY <1>0, SetsTyped
<1>3. ASSUME UNCHANGED <<row, aged>>, Written'
      PROVE  RowStages'
  BY <1>1, <1>3, StagedStays DEF RowStages, Ages
<1>4. ASSUME NEW f \in Files, WriteFile(f)
      PROVE  RowStages'
  BY <1>3, <1>4 DEF WriteFile, RowStages, Written, catalog
<1>5. ASSUME NEW f \in Files, InsertRow(f)
      PROVE  RowStages'
  <2>1. row[f] = "absent" /\ row' = [row EXCEPT ![f] = "live"] /\ UNCHANGED <<aged, base>> /\ writer' = writer \ {f}
    BY <1>5 DEF InsertRow, RowStages, Written, disk
  <2>2. Written' /\ Ages'
    BY <1>0, <2>1 DEF RowStages, Written, Ages, StoreType
  <2>3. \A v \in Sweeps : Staged(v)'
    BY <1>0, <1>1, <1>2, <2>1 DEF RowStages, Staged, StoreType
  <2> QED
    BY <2>2, <2>3 DEF RowStages
<1>6. ASSUME NEW f \in Files, Age(f)
      PROVE  RowStages'
  <2>1. /\ row[f] = "live" \/ (row[f] = "archived" /\ \A w \in Sweeps : f \notin Underway(w))
        /\ aged' = aged \cup {f} /\ UNCHANGED <<row, base, writer>>
    BY <1>6 DEF Age, disk
  <2>2. Written' /\ Ages'
    BY <2>1 DEF RowStages, Written, Ages
  <2>3. \A v \in Sweeps : Staged(v)'
    BY <1>1, <2>1 DEF RowStages, Staged
  <2> QED
    BY <2>2, <2>3 DEF RowStages
<1>7. ASSUME NEW f \in Files, InsertFails(f)
      PROVE  RowStages'
  BY <1>3, <1>7 DEF InsertFails, RowStages, Written, catalog, disk
<1>8. ASSUME NEW h \in Holds, PlaceHold(h) \/ ReleaseHold(h)
      PROVE  RowStages'
  BY <1>3, <1>8 DEF PlaceHold, ReleaseHold, RowStages, Written, catalog, disk
<1>9. CASE UNCHANGED lakeVars
  BY <1>3, <1>9 DEF RowStages, Written, catalog, disk, lakeVars
<1> QED
  BY <1>4, <1>5, <1>6, <1>7, <1>8, <1>9

LEMMA LakeNextStages == LakeTypeOK /\ RowStages /\ [LakeNext]_lakeVars => RowStages'
<1> SUFFICES ASSUME LakeTypeOK, RowStages, [LakeNext]_lakeVars
             PROVE  RowStages'
  OBVIOUS
<1>1. CASE Restart
  <2>1. \A v \in Sweeps : sweep'[v].pc = "idle"
    BY <1>1 DEF Restart, NoSweep
  <2>2. \A v \in Sweeps : Staged(v)'
    BY <2>1, SetsAreNext DEF Staged
  <2> QED
    BY <1>1, <2>2 DEF Restart, RowStages, Written, Ages, catalog, disk
<1>2. CASE ~Restart
  <2>1. \/ \E w \in Sweeps : RunLifecycle(w) \/ SweepFails(w) \/ Cancel(w) \/ CancelledUpdate(w) \/ CancelledSelect(w)
        \/ /\ \/ \E f \in Files : WriteFile(f) \/ InsertRow(f) \/ Age(f) \/ InsertFails(f)
              \/ \E h \in Holds : PlaceHold(h) \/ ReleaseHold(h)
              \/ UNCHANGED lakeVars
           /\ UNCHANGED sweep
    BY <1>2 DEF LakeNext, WriteFile, InsertRow, Age, InsertFails, PlaceHold, ReleaseHold, lakeVars
  <2> QED
    BY <2>1, SweepStages, StoreStages
<1> QED
  BY <1>1, <1>2

LEMMA KeptIs == DataKept <=> \A f \in Files : Needed(f) => Safe(f)
BY DEF DataKept, Needed, Safe, Copying, Risked

LEMMA RiskedStays ==
    ASSUME NEW f, HistoryType, failures' = failures \/ failures' = failures + 1, shared \subseteq shared'
    PROVE  Risked(f) => Risked(f)'
BY LakeBoundAssumption DEF Risked, HistoryType

LEMMA CopyingStays ==
    ASSUME NEW w \in Sweeps, OthersWait(w), NEW f,
           sweep[w].pc = "copying" /\ sweep[w].file = f => sweep'[w].pc = "copying" /\ sweep'[w].file = f
    PROVE  Copying(f) => Copying(f)'
BY DEF Copying, OthersWait

LEMMA SafeStays ==
    ASSUME NEW f, base \cup backup \subseteq base' \cup backup',
           Copying(f) => Copying(f)', Risked(f) => Risked(f)'
    PROVE  Safe(f) => Safe(f)'
BY DEF Safe

LEMMA HandedStays ==
    ASSUME NEW v \in Sweeps, Handed(v), shared \subseteq shared', UNCHANGED <<sameDevice>>,
           sweep'[v].pc = sweep[v].pc, sweep[v].pc \in {"read", "copying", "copied"} => sweep'[v].file = sweep[v].file,
           \A f \in InHand(v) : f \in base => f \in base' \cup shared',
           \A f \in InHand(v) :
               sweep[v].pc = "copied" /\ (f \in backup \/ Copying(f) \/ Risked(f)) =>
                   f \in backup' \/ Copying(f)' \/ Risked(f)'
    PROVE  Handed(v)'
<1>1. CASE sweep[v].pc \in {"read", "copying", "copied"}
  <2>1. PICK f : f = sweep[v].file
    OBVIOUS
  <2>2. f = sweep'[v].file /\ f \in InHand(v)
    BY <1>1, <2>1, SetsAre
  <2>3. /\ sweep[v].pc = "copied" => f \in backup' \/ Copying(f)' \/ Risked(f)'
        /\ ~sameDevice' /\ f \in base' \cup shared'
    BY <1>1, <2>1, <2>2 DEF Handed
  <2> QED
    BY <2>1, <2>2, <2>3 DEF Handed, Copying, Risked
<1>2. CASE sweep[v].pc \notin {"read", "copying", "copied"}
  BY <1>2 DEF Handed
<1> QED
  BY <1>1, <1>2

LEMMA NotHanded ==
    ASSUME NEW w \in Sweeps, sweep'[w].pc \notin {"read", "copying", "copied"}
    PROVE  Handed(w)'
BY DEF Handed

LEMMA ApartStays ==
    ASSUME Apart, NEW w \in Sweeps, OthersWait(w), InHand(w)' \subseteq InHand(w), shared \subseteq shared',
           UNCHANGED <<sameDevice>>
    PROVE  Apart'
<1>1. \A v \in Sweeps : InHand(v)' \subseteq InHand(v)
  BY WaitersStay
<1> QED
  BY <1>1 DEF Apart

\* What is needed after a step of the sweep w was needed before it.
LEMMA NeededStays ==
    ASSUME LakeTypeOK, RowStages, NEW w \in Sweeps, NEW f \in Files, Needed(f)',
           RunLifecycle(w) \/ SweepFails(w) \/ Cancel(w) \/ CancelledUpdate(w) \/ CancelledSelect(w)
    PROVE  Needed(f)
<1>0. SweepType /\ StoreType /\ HistoryType
  BY LakeTypeParts
<1>1. CASE MarkArchived(w)
  <2>1. PICK g : g = sweep[w].file
    OBVIOUS
  <2>2. /\ row' = [row EXCEPT ![g] = "archived"] /\ aged' = aged \ {g} /\ UNCHANGED writer
        /\ g \in Underway(w)
    BY <1>1, <2>1, SetsAre DEF MarkArchived
  <2>3. g \in Files /\ row[g] # "absent" /\ ~(row[g] \in {"archived", "purged"} /\ g \in aged)
    BY <1>0, <2>2, SetsTyped DEF RowStages, Staged
  <2>4. row[g] \in {"live", "archived"} /\ (row[g] = "archived" => g \notin aged)
    BY <1>0, <2>3 DEF StoreType, RowStages, Ages
  <2> QED
    BY <1>0, <2>2, <2>3, <2>4 DEF Needed, StoreType
<1>2. CASE MarkPurged(w)
  BY <1>0, <1>2 DEF MarkPurged, Needed, StoreType
<1>3. UNCHANGED <<row, aged, writer>> => Needed(f)
  BY DEF Needed
<1>4. ASSUME RunLifecycle(w), ~MarkArchived(w), ~MarkPurged(w)
      PROVE  UNCHANGED <<row, aged, writer>>
  BY <1>4 DEF RunLifecycle, ArchiveFile, ReadHolds, SelectOld, SelectStale, Skip, Missing, PassOver, Remove, Rename,
              Read, BeginCopy, EndCopy, RemoveSource, Finish, Leave, catalog
<1>5. ASSUME SweepFails(w)
      PROVE  UNCHANGED <<row, aged, writer>>
  BY <1>5 DEF SweepFails, ArchiveFails, PassOver, PurgeFails, CopyFails, RemoveSourceFails, UpdateFails, Unrecorded,
              SelectFails, Leave, catalog
<1>6. ASSUME Cancel(w) \/ CancelledUpdate(w) \/ CancelledSelect(w)
      PROVE  UNCHANGED <<row, aged, writer>>
  BY <1>6 DEF Cancel, CancelledUpdate, Unrecorded, CancelledSelect, Leave, catalog
<1> QED
  BY <1>1, <1>2, <1>3, <1>4, <1>5, <1>6

\* What the step of the sweep w does to the files and to the goroutines.
HandsOf == Apart' /\ (\A v \in Sweeps : Handed(v)') /\ \A f \in Files : Needed(f) => Safe(f)'

LEMMA QuietHands ==
    ASSUME LakeTypeOK, Hands, NEW w \in Sweeps, OthersWait(w), Quiet(w)
    PROVE  HandsOf
<1>1. HistoryType
  BY LakeTypeParts
<1>2. UNCHANGED <<sameDevice, base, backup, shared>>
  BY DEF Quiet, disk
<1>3. \A f : Copying(f) => Copying(f)'
  <2>1. sweep[w].pc = "copying" => sweep'[w].pc = "copying" /\ sweep'[w].file = sweep[w].file
    BY DEF Quiet
  <2> QED
    BY <2>1, CopyingStays
<1>4. \A f : Risked(f) => Risked(f)'
  BY <1>1, <1>2, RiskedStays DEF Quiet
<1>5. \A v \in Sweeps : v # w => Handed(v)'
  BY <1>2, <1>3, <1>4, HandedStays DEF Hands, OthersWait
<1>6. Handed(w)'
  <2>1. CASE sweep'[w].pc \in {"read", "copying", "copied"}
    BY <1>2, <1>3, <1>4, <2>1, HandedStays DEF Hands, Quiet
  <2> QED
    BY <2>1, NotHanded
<1>7. Apart'
  BY <1>2, ApartStays DEF Hands, Quiet
<1>8. \A f \in Files : Needed(f) => Safe(f)'
  BY <1>2, <1>3, <1>4, SafeStays DEF Hands
<1> QED
  BY <1>5, <1>6, <1>7, <1>8 DEF HandsOf

\* On one device nothing is copied.
LEMMA RenameHands ==
    ASSUME LakeTypeOK, Hands, NEW w \in Sweeps, NEW f \in Files, Rename(w, f)
    PROVE  HandsOf
<1>0. SweepType /\ HistoryType
  BY LakeTypeParts
<1>1. /\ OthersWait(w) /\ sweep'[w].pc = "renamed" /\ sweep[w].pc = "archiving"
  BY <1>0, HandlingSteps
<1>2. /\ sameDevice /\ base' = base \ {f} /\ backup' = backup \cup {f} /\ UNCHANGED <<sameDevice, shared, failures>>
  BY DEF Rename, history
<1>3. \A v \in Sweeps : sweep'[v].pc \notin {"read", "copying", "copied"}
  BY <1>1, <1>2 DEF Hands, Handed, OthersWait
<1>4. \A g : (Copying(g) => Copying(g)') /\ (Risked(g) => Risked(g)')
  BY <1>0, <1>1, <1>2, CopyingStays, RiskedStays
<1> QED
  BY <1>2, <1>3, <1>4, NotHanded, SafeStays DEF HandsOf, Hands, Apart

LEMMA ReadHands ==
    ASSUME LakeTypeOK, Hands, NEW w \in Sweeps, NEW f \in Files, Read(w, f)
    PROVE  HandsOf
<1>0. SweepType /\ HistoryType
  BY LakeTypeParts
<1>1. /\ OthersWait(w) /\ sweep'[w].pc = "read" /\ sweep'[w].file = f /\ sweep[w].pc = "archiving"
  BY <1>0, HandlingSteps
<1>2. /\ ~sameDevice /\ f \in base /\ UNCHANGED <<sameDevice, base, backup, failures>>
      /\ shared' = shared \cup { g \in {f} : \E v \in Sweeps \ {w} : g \in InHand(v) }
  BY DEF Read, disk
<1>3. InHand(w)' = {f}
  BY <1>1, SetsAreNext
<1>4. \A g : (Copying(g) => Copying(g)') /\ (Risked(g) => Risked(g)')
  BY <1>0, <1>1, <1>2, CopyingStays, RiskedStays
<1>5. \A v \in Sweeps : v # w => Handed(v)'
  BY <1>1, <1>2, <1>4, HandedStays DEF Hands, OthersWait
<1>6. Handed(w)'
  BY <1>1, <1>2 DEF Handed
<1>7. Apart'
  <2>1. \A v \in Sweeps : v # w => InHand(v)' = InHand(v) /\ InHand(v) \cap {f} \subseteq shared'
    BY <1>1, <1>2, WaitersStay
  <2> QED
    BY <1>2, <1>3, <2>1 DEF Hands, Apart
<1> QED
  BY <1>2, <1>4, <1>5, <1>6, <1>7, SafeStays DEF HandsOf, Hands

LEMMA BeginCopyHands ==
    ASSUME LakeTypeOK, Hands, NEW w \in Sweeps, BeginCopy(w)
    PROVE  HandsOf
<1>0. SweepType /\ HistoryType
  BY LakeTypeParts
<1>1. PICK f : f = sweep[w].file
  OBVIOUS
<1>2. /\ OthersWait(w) /\ sweep'[w].pc = "copying" /\ sweep'[w].file = f /\ InHand(w)' = InHand(w)
  BY <1>0, <1>1, HandlingSteps
<1>3. /\ sweep[w].pc = "read" /\ backup' = backup \ {f} /\ UNCHANGED <<sameDevice, base, shared, failures>>
  BY <1>1 DEF BeginCopy, history
<1>4. Copying(f)' /\ \A g : (Copying(g) => Copying(g)') /\ (Risked(g) => Risked(g)')
  <2>1. Copying(f)'
    BY <1>2 DEF Copying
  <2> QED
    BY <1>0, <1>2, <1>3, <2>1, CopyingStays, RiskedStays
<1>5. \A v \in Sweeps : v # w => Handed(v)'
  BY <1>2, <1>3, <1>4, HandedStays DEF Hands, OthersWait
<1>6. Handed(w)'
  BY <1>1, <1>2, <1>3 DEF Handed, Hands
<1>7. Apart'
  BY <1>2, <1>3, ApartStays DEF Hands
<1>8. \A g \in Files : Needed(g) => Safe(g)'
  <2>1. Safe(f)'
    BY <1>4 DEF Safe
  <2> QED
    BY <1>3, <1>4, <2>1 DEF Hands, Safe
<1> QED
  BY <1>5, <1>6, <1>7, <1>8 DEF HandsOf

\* A copy that ends is complete, or another one of the same file is under way.
LEMMA EndCopyHands ==
    ASSUME LakeTypeOK, Hands, NEW w \in Sweeps, EndCopy(w)
    PROVE  HandsOf
<1>0. SweepType /\ HistoryType
  BY LakeTypeParts
<1>1. PICK f : f = sweep[w].file
  OBVIOUS
<1>2. /\ OthersWait(w) /\ sweep'[w].pc = "copied" /\ sweep'[w].file = f /\ InHand(w)' = InHand(w)
  BY <1>0, <1>1, HandlingSteps
<1>3. /\ sweep[w].pc = "copying" /\ UNCHANGED <<sameDevice, base, shared, failures>> /\ backup \subseteq backup'
      /\ (\E v \in Sweeps \ {w} : sweep[v].pc = "copying" /\ sweep[v].file = f) \/ f \in backup'
  BY <1>1 DEF EndCopy, history
<1>4. f \in backup' \/ Copying(f)'
  BY <1>2, <1>3 DEF Copying, OthersWait
<1>5. \A g : (g # f /\ Copying(g) => Copying(g)') /\ (Risked(g) => Risked(g)')
  BY <1>0, <1>1, <1>2, <1>3, CopyingStays, RiskedStays
<1>6. \A v \in Sweeps : v # w => Handed(v)'
  BY <1>2, <1>3, <1>4, <1>5, HandedStays DEF Hands, OthersWait
<1>7. Handed(w)'
  <2>1. ~sameDevice' /\ f \in base' \cup shared'
    BY <1>1, <1>3 DEF Hands, Handed
  <2> QED
    BY <1>2, <1>4, <2>1 DEF Handed, Copying
<1>8. Apart'
  BY <1>2, <1>3, ApartStays DEF Hands
<1>9. \A g \in Files : Needed(g) => Safe(g)'
  BY <1>3, <1>4, <1>5 DEF Hands, Safe
<1> QED
  BY <1>6, <1>7, <1>8, <1>9 DEF HandsOf

\* Of two that have a file in hand, each has it among the shared ones.
LEMMA RemoveSourceHands ==
    ASSUME LakeTypeOK, Hands, NEW w \in Sweeps, RemoveSource(w)
    PROVE  HandsOf
<1>0. SweepType /\ HistoryType
  BY LakeTypeParts
<1>1. PICK f : f = sweep[w].file
  OBVIOUS
<1>2. /\ OthersWait(w) /\ sweep'[w].pc = "renamed" /\ sweep'[w].file = f /\ InHand(w)' = InHand(w)
  BY <1>0, <1>1, HandlingSteps
<1>3. /\ sweep[w].pc = "copied" /\ base' = base \ {f} /\ UNCHANGED <<sameDevice, backup, shared, failures>>
  BY <1>1 DEF RemoveSource, history
<1>4. \A g : (Copying(g) => Copying(g)') /\ (Risked(g) => Risked(g)')
  BY <1>0, <1>2, <1>3, CopyingStays, RiskedStays
<1>5. /\ ~sameDevice /\ f \in InHand(w)
      /\ f \in backup \/ Copying(f) \/ Risked(f)
  BY <1>1, <1>3, SetsAre DEF Hands, Handed
<1>6. \A v \in Sweeps : v # w /\ f \in InHand(v) => f \in shared
  BY <1>5 DEF Hands, Apart
<1>7. \A v \in Sweeps : v # w => Handed(v)'
  BY <1>2, <1>3, <1>4, <1>6, HandedStays DEF Hands, OthersWait
<1>8. Handed(w)'
  BY <1>2, NotHanded
<1>9. Apart'
  BY <1>2, <1>3, ApartStays DEF Hands
<1>10. \A g \in Files : Needed(g) => Safe(g)'
  BY <1>3, <1>4, <1>5 DEF Hands, Safe
<1> QED
  BY <1>7, <1>8, <1>9, <1>10 DEF HandsOf

\* What is removed from the archive is old there: nobody needs or copies it.
LEMMA RemoveHands ==
    ASSUME LakeTypeOK, RowStages, Hands, NEW w \in Sweeps, NEW f \in Files, Remove(w, f)
    PROVE  HandsOf
<1>0. SweepType /\ HistoryType
  BY LakeTypeParts
<1>1. OthersWait(w) /\ sweep'[w].pc = "removed" /\ sweep[w].pc = "purging" /\ f \in Condemned(w)
  BY <1>0, HandlingSteps
<1>2. backup' = backup \ {f} /\ UNCHANGED <<sameDevice, base, shared, failures>>
  BY DEF Remove, history
<1>3. row[f] \in {"archived", "purged"} /\ f \in aged
  BY <1>1 DEF RowStages, Staged
<1>4. ~Needed(f) /\ \A v \in Sweeps : f \notin InHand(v)
  <2>1. f \notin writer
    BY <1>3 DEF RowStages, Written
  <2>2. \A v \in Sweeps : f \notin Underway(v)
    BY <1>3 DEF RowStages, Staged
  <2> QED
    BY <1>3, <2>1, <2>2 DEF Needed, Underway
<1>5. \A g : (Copying(g) => Copying(g)') /\ (Risked(g) => Risked(g)')
  BY <1>0, <1>1, <1>2, CopyingStays, RiskedStays
<1>6. \A v \in Sweeps : v # w => Handed(v)'
  BY <1>1, <1>2, <1>4, <1>5, HandedStays DEF Hands, OthersWait
<1>7. Handed(w)'
  BY <1>1, NotHanded
<1>8. Apart'
  <2>1. InHand(w)' = {}
    BY <1>1, SetsAreNext
  <2> QED
    BY <1>1, <1>2, <2>1, ApartStays DEF Hands
<1>9. \A g \in Files : Needed(g) => Safe(g)'
  BY <1>2, <1>4, <1>5 DEF Hands, Safe
<1> QED
  BY <1>6, <1>7, <1>8, <1>9 DEF HandsOf

LEMMA CopyFailsHands ==
    ASSUME LakeTypeOK, Hands, NEW w \in Sweeps, CopyFails(w)
    PROVE  HandsOf
<1>0. SweepType /\ HistoryType
  BY LakeTypeParts
<1>1. PICK f : f = sweep[w].file
  OBVIOUS
<1>2. OthersWait(w) /\ sweep'[w].pc = "archiving" /\ InHand(w)' = {}
  BY <1>0, HandlingSteps
<1>3. /\ sweep[w].pc = "copying" /\ UNCHANGED <<sameDevice, base, backup, shared>>
      /\ failures' = failures + 1 /\ failures' > 0
  BY <1>0, FailureType, LakeBoundAssumption DEF CopyFails, disk, history, HistoryType, Failure
<1>4. ~sameDevice /\ f \in InHand(w) /\ f \in base \cup shared
  BY <1>1, <1>3, SetsAre DEF Hands, Handed
<1>5. \A g : (g # f /\ Copying(g) => Copying(g)') /\ (Risked(g) => Risked(g)')
  BY <1>0, <1>1, <1>2, <1>3, CopyingStays, RiskedStays
<1>6. \A v \in Sweeps : v # w => Handed(v)'
  <2>1. \A v \in Sweeps : v # w /\ f \in InHand(v) => f \in shared'
    BY <1>3, <1>4 DEF Hands, Apart
  <2>2. \A v \in Sweeps : v # w /\ f \in InHand(v) => Risked(f)'
    BY <1>3, <2>1 DEF Risked
  <2> QED
    BY <1>2, <1>3, <1>5, <2>2, HandedStays DEF Hands, OthersWait
<1>7. Handed(w)'
  BY <1>2, NotHanded
<1>8. Apart'
  BY <1>2, <1>3, ApartStays DEF Hands
<1>9. \A g \in Files : Needed(g) => Safe(g)'
  <2>1. f \in base' \/ Risked(f)'
    BY <1>3, <1>4 DEF Risked
  <2> QED
    BY <1>3, <1>5, <2>1 DEF Hands, Safe
<1> QED
  BY <1>6, <1>7, <1>8, <1>9 DEF HandsOf

LEMMA RestartHands ==
    ASSUME LakeTypeOK, Hands, Restart
    PROVE  Hands'
<1>0. SweepType /\ HistoryType
  BY LakeTypeParts
<1>1. UNCHANGED <<row, aged, sameDevice, base, backup, shared>> /\ writer' = {} /\ failures' > 0
  BY <1>0, FailureType, LakeBoundAssumption DEF Restart, catalog, disk, HistoryType, Failure
<1>2. \A v \in Sweeps : sweep'[v].pc = "idle"
  BY DEF Restart, NoSweep
<1>3. Apart' /\ \A v \in Sweeps : Handed(v)'
  BY <1>2, SetsAreNext, NotHanded DEF Apart
<1>4. ASSUME NEW f \in Files, Needed(f)'
      PROVE  Safe(f)'
  <2>1. Safe(f)
    BY <1>1, <1>4 DEF Hands, Needed
  <2>2. Copying(f) => f \in base \cup shared
    BY DEF Copying, Hands, Handed
  <2> QED
    BY <1>1, <2>1, <2>2 DEF Safe, Risked
<1> QED
  BY <1>3, <1>4 DEF Hands

LEMMA StoreHands ==
    ASSUME LakeTypeOK, RowStages, Hands, UNCHANGED sweep,
           \/ \E f \in Files : WriteFile(f) \/ InsertRow(f) \/ Age(f) \/ InsertFails(f)
           \/ \E h \in Holds : PlaceHold(h) \/ ReleaseHold(h)
           \/ UNCHANGED lakeVars
    PROVE  Hands'
<1>0. SweepType /\ StoreType /\ HistoryType
  BY LakeTypeParts
<1>1. /\ UNCHANGED <<sameDevice, backup, shared>> /\ base \subseteq base'
      /\ failures' = failures \/ failures' = failures + 1
  BY DEF WriteFile, InsertRow, Age, InsertFails, PlaceHold, ReleaseHold, lakeVars, disk, history, Failure
<1>2. \A g : (Copying(g) => Copying(g)') /\ (Risked(g) => Risked(g)')
  <2>1. \A g : Copying(g) => Copying(g)'
    BY DEF Copying
  <2> QED
    BY <1>0, <1>1, <2>1, RiskedStays
<1>3. \A v \in Sweeps : Handed(v)' /\ InHand(v)' = InHand(v)
  BY <1>1, <1>2, HandedStays, SetsStay DEF Hands
<1>4. Apart'
  BY <1>1, <1>3 DEF Hands, Apart
<1>5. \A g : Safe(g) => Safe(g)'
  BY <1>1, <1>2, SafeStays
<1>6. ASSUME NEW g \in Files, Needed(g)'
      PROVE  Safe(g)'
  <2>1. ASSUME NEW f \in Files, WriteFile(f)
        PROVE  (g = f /\ g \in base') \/ Needed(g)
    BY <1>6, <2>1 DEF WriteFile, Needed, catalog
  <2>2. ASSUME NEW f \in Files, InsertRow(f)
        PROVE  Needed(g)
    BY <1>0, <1>6, <2>2 DEF InsertRow, Needed, StoreType
  <2>3. ASSUME NEW f \in Files, Age(f)
        PROVE  Needed(g)
    BY <1>6, <2>3 DEF Age, Needed
  <2>4. ASSUME NEW f \in Files, InsertFails(f)
        PROVE  Needed(g)
    BY <1>6, <2>4 DEF InsertFails, Needed, catalog
  <2>5. ASSUME (\E h \in Holds : PlaceHold(h) \/ ReleaseHold(h)) \/ UNCHANGED lakeVars
        PROVE  Needed(g)
    BY <1>6, <2>5 DEF PlaceHold, ReleaseHold, lakeVars, Needed, catalog
  <2>6. g \in base' \/ Needed(g)
    BY <2>1, <2>2, <2>3, <2>4, <2>5
  <2> QED
    BY <1>5, <2>6 DEF Hands, Safe
<1> QED
  BY <1>3, <1>4, <1>6 DEF Hands

LEMMA SweepHands ==
    ASSUME LakeTypeOK, RowStages, Hands, NEW w \in Sweeps,
           RunLifecycle(w) \/ SweepFails(w) \/ Cancel(w) \/ CancelledUpdate(w) \/ CancelledSelect(w)
    PROVE  Hands'
<1>0. SweepType /\ HistoryType
  BY LakeTypeParts
<1>1. HandsOf => Hands'
  BY NeededStays DEF HandsOf, Hands
<1>2. OthersWait(w) /\ Quiet(w) => HandsOf
  BY QuietHands
<1>3. ASSUME RunLifecycle(w)
      PROVE  HandsOf
  BY <1>0, <1>2, <1>3, SelectQuiet, PassOverQuiet, GoOnQuiet, RestQuiet,
     RenameHands, ReadHands, BeginCopyHands, EndCopyHands, RemoveSourceHands, RemoveHands DEF RunLifecycle, ArchiveFile
<1>4. ASSUME SweepFails(w)
      PROVE  HandsOf
  BY <1>0, <1>2, <1>4, PassOverQuiet, PurgeFailsQuiet, GoOnQuiet, RestQuiet, CopyFailsHands DEF SweepFails
<1>5. ASSUME Cancel(w) \/ CancelledUpdate(w) \/ CancelledSelect(w)
      PROVE  HandsOf
  BY <1>0, <1>2, <1>5, GoOnQuiet, RestQuiet
<1> QED
  BY <1>1, <1>3, <1>4, <1>5

LEMMA LakeNextKept == KeptInv /\ [LakeNext]_lakeVars => KeptInv'
<1> SUFFICES ASSUME LakeTypeOK, RowStages, Hands, [LakeNext]_lakeVars
             PROVE  KeptInv'
  BY DEF KeptInv
<1>1. LakeTypeOK' /\ RowStages'
  BY LakeNextType, LakeNextStages
<1>2. \/ Restart
      \/ \E w \in Sweeps : RunLifecycle(w) \/ SweepFails(w) \/ Cancel(w) \/ CancelledUpdate(w) \/ CancelledSelect(w)
      \/ /\ \/ \E f \in Files : WriteFile(f) \/ InsertRow(f) \/ Age(f) \/ InsertFails(f)
            \/ \E h \in Holds : PlaceHold(h) \/ ReleaseHold(h)
            \/ UNCHANGED lakeVars
         /\ UNCHANGED sweep
  BY DEF LakeNext, WriteFile, InsertRow, Age, InsertFails, PlaceHold, ReleaseHold, lakeVars
<1>3. Hands'
  BY <1>2, RestartHands, SweepHands, StoreHands
<1> QED
  BY <1>1, <1>3 DEF KeptInv

LEMMA LakeInitStages == LakeInit => RowStages
<1> SUFFICES ASSUME LakeInit
             PROVE  RowStages
  OBVIOUS
<1>1. \A w \in Sweeps : sweep[w].pc = "idle"
  BY DEF LakeInit, NoSweep
<1>2. \A w \in Sweeps : Staged(w)
  BY <1>1, SetsAre DEF Staged
<1> QED
  BY <1>2 DEF LakeInit, RowStages, Written, Ages

\* Data that is not old enough to be removed is on the disk, complete, or a
\* sweep that has read it is writing it; it is lost only if the copying of a
\* file fails that two sweeps have had in hand.
THEOREM NoDataLost == LakeSpec => []DataKept
<1>1. ASSUME LakeInit
      PROVE  KeptInv
  <2>1. \A w \in Sweeps : sweep[w].pc = "idle"
    BY <1>1 DEF LakeInit, NoSweep
  <2>2. Hands
    BY <1>1, <2>1, SetsAre DEF LakeInit, Hands, Apart, Handed, Needed
  <2> QED
    BY <1>1, <2>2, LakeInitType, LakeInitStages DEF KeptInv
<1>2. KeptInv => DataKept
  BY KeptIs DEF KeptInv, Hands
<1> QED
  BY <1>1, <1>2, LakeNextKept, PTL DEF LakeSpec

-----------------------------------------------------------------------------
(* Lakehouse: how much is misplaced.                                       *)

\* w has f in hand, and could not remove it from where it was.
Stuck(w, f) ==
    /\ sweep[w].file = f
    /\ \/ sweep[w].pc = "renamed" /\ f \in base
       \/ sweep[w].pc = "removed" /\ f \in backup \cup partial

Stray(f) ==
    \/ row[f] = "live" /\ f \notin base /\ \A w \in Sweeps : f \notin InHand(w)
    \/ row[f] \in {"archived", "purged"} /\ f \in base
    \/ row[f] = "purged" /\ f \in backup \cup partial
    \/ \E w \in Sweeps : Stuck(w, f)

\* Files that are misplaced, or will be if the sweeps that have them in hand go on.
Astray == { f \in Files : Stray(f) }

\* What a cancelled sweep goes on with was noted when it was cancelled.
Noted == \A w \in Sweeps : sweep[w] # NoSweep /\ ~sweep[w].live => Underway(w) \subseteq exposed

StrayBounded == Cardinality(Astray \ exposed) <= failures * Cardinality(Sweeps)

AstrayInv == LakeTypeOK /\ RowStages /\ Noted /\ StrayBounded

\* A cancelled sweep was one before, except at Cancel.
AsLive(w) ==
    sweep'[w] # NoSweep /\ ~sweep'[w].live => sweep[w] # NoSweep /\ ~sweep[w].live /\ Underway(w)' \subseteq Underway(w)

LEMMA SweepsAsLive ==
    ASSUME SweepType, HistoryType, NEW w \in Sweeps,
           RunLifecycle(w) \/ SweepFails(w) \/ CancelledUpdate(w) \/ CancelledSelect(w)
    PROVE  OthersWait(w) /\ AsLive(w)
<1>1. CASE ReadHolds(w)
  <2>1. /\ sweep'[w] = [pc |-> "held", live |-> TRUE, held |-> HoldFilter]
        /\ \A v \in Sweeps : v # w => sweep'[v] = sweep[v]
    BY <1>1, SweepSet DEF ReadHolds
  <2> QED
    BY <2>1 DEF AsLive, OthersWait
<1>2. CASE SelectOld(w) \/ SelectStale(w)
  <2>1. AtSelect(w) /\ Looping = {"archiving", "purging"} /\ Old \in SUBSET Files /\ Stale \in SUBSET Files
    BY <1>2, FilesAssumption DEF SelectOld, SelectStale, AtSelect, Looping, Old, Stale
  <2>2. \/ sweep' = [sweep EXCEPT ![w] = [pc |-> "archiving", live |-> TRUE, held |-> @.held, todo |-> Old]]
        \/ sweep' = [sweep EXCEPT ![w] = [pc |-> "purging", live |-> TRUE, held |-> @.held, todo |-> Stale]]
    BY <1>2 DEF SelectOld, SelectStale
  <2>3. sweep'[w].live /\ OthersWait(w)
    BY <2>1, <2>2, Selected DEF OthersWait
  <2> QED
    BY <2>3 DEF AsLive
<1>3. ASSUME NEW f \in Files, Skip(w, f) \/ Missing(w, f) \/ ArchiveFails(w, f)
      PROVE  OthersWait(w) /\ AsLive(w)
  <2>1. sweep[w].pc \in Looping /\ PassOver(w, f)
    BY <1>3 DEF Skip, Missing, ArchiveFails, TakeUp, Looping
  <2>2. sweep[w] # NoSweep /\ sweep'[w].live = sweep[w].live
    BY <2>1, PassedOver DEF Looping, NoSweep
  <2> QED
    BY <1>3, <2>2, PassOverQuiet DEF AsLive, Narrows
<1>4. ASSUME NEW f \in Files, Rename(w, f) \/ Read(w, f) \/ Remove(w, f) \/ PurgeFails(w, f)
      PROVE  OthersWait(w) /\ AsLive(w)
  <2>1. /\ TakeUp(w, f, "archiving") \/ TakeUp(w, f, "purging")
        /\ With(w, f, "removed") \/ With(w, f, "renamed") \/ With(w, f, "read")
        /\ Looping = {"archiving", "purging"} /\ {"removed", "renamed", "read"} \subseteq Handling
    BY <1>4 DEF Remove, Rename, Read, PurgeFails, Looping, Handling
  <2>2. sweep[w] # NoSweep /\ sweep'[w].live = sweep[w].live
    BY <2>1, TakenUp DEF TakeUp, NoSweep
  <2> QED
    BY <1>4, <2>2, HandlingSteps, PurgeFailsQuiet DEF AsLive, Narrows
<1>5. CASE BeginCopy(w) \/ EndCopy(w) \/ RemoveSource(w) \/ RemoveSourceFails(w)
  <2>1. /\ sweep[w].pc \in Handling /\ {"copying", "copied", "renamed"} \subseteq Handling
        /\ Now(w, "copying") \/ Now(w, "copied") \/ Now(w, "renamed")
    BY <1>5 DEF BeginCopy, EndCopy, RemoveSource, RemoveSourceFails, Handling
  <2>2. sweep[w] # NoSweep /\ sweep'[w].live = sweep[w].live
    BY <2>1, MovedOn DEF NoSweep, Handling
  <2> QED
    BY <1>5, <2>2, HandlingSteps, RestQuiet DEF AsLive, Narrows
<1>6. CASE MarkArchived(w) \/ MarkPurged(w) \/ CancelledUpdate(w) \/ UpdateFails(w) \/ CopyFails(w)
  <2>1. /\ sweep[w].pc \in Handling /\ Looping = {"archiving", "purging"}
        /\ GoOn(w, "archiving") \/ GoOn(w, "purging")
    BY <1>6 DEF MarkArchived, MarkPurged, CancelledUpdate, UpdateFails, Unrecorded, CopyFails, Handling, Looping
  <2>2. sweep[w] # NoSweep /\ sweep'[w].live = sweep[w].live
    BY <2>1, WentOn DEF NoSweep, Handling
  <2> QED
    BY <1>6, <2>2, GoOnQuiet, HandlingSteps DEF AsLive, Narrows
<1>7. CASE Finish(w) \/ CancelledSelect(w) \/ SelectFails(w)
  <2>1. Leave(w)
    BY <1>7 DEF Finish, CancelledSelect, SelectFails
  <2> QED
    BY <2>1, Left DEF OthersWait, AsLive
<1> QED
  BY <1>1, <1>2, <1>3, <1>4, <1>5, <1>6, <1>7 DEF RunLifecycle, ArchiveFile, SweepFails

LEMMA NotedStays ==
    ASSUME Noted, NEW w \in Sweeps, OthersWait(w), AsLive(w), exposed \subseteq exposed'
    PROVE  Noted'
<1>1. \A v \in Sweeps : v # w => Underway(v)' = Underway(v) /\ sweep'[v] = sweep[v]
  BY WaitersStay DEF OthersWait
<1> QED
  BY <1>1 DEF Noted, AsLive

LEMMA LakeNextNoted == LakeTypeOK /\ Noted /\ [LakeNext]_lakeVars => Noted'
<1> SUFFICES ASSUME LakeTypeOK, Noted, [LakeNext]_lakeVars
             PROVE  Noted'
  OBVIOUS
<1>0. SweepType /\ HistoryType
  BY LakeTypeParts
<1>1. ASSUME NEW w \in Sweeps, RunLifecycle(w) \/ SweepFails(w) \/ CancelledUpdate(w) \/ CancelledSelect(w)
      PROVE  Noted'
  <2>1. RunLifecycle(w) => UNCHANGED exposed
    BY DEF RunLifecycle, ArchiveFile, ReadHolds, SelectOld, SelectStale, Skip, Missing, PassOver, Remove, Rename, Read,
           BeginCopy, EndCopy, RemoveSource, MarkArchived, MarkPurged, Finish, Leave, history
  <2>2. SweepFails(w) => UNCHANGED exposed
    BY DEF SweepFails, ArchiveFails, PassOver, PurgeFails, CopyFails, RemoveSourceFails, UpdateFails, Unrecorded,
           SelectFails, Leave, history
  <2>3. CancelledUpdate(w) \/ CancelledSelect(w) => UNCHANGED exposed
    BY DEF CancelledUpdate, Unrecorded, CancelledSelect, Leave, history
  <2> QED
    BY <1>0, <1>1, <2>1, <2>2, <2>3, SweepsAsLive, NotedStays
<1>2. ASSUME NEW w \in Sweeps, Cancel(w)
      PROVE  Noted'
  <2>1. OthersWait(w) /\ Underway(w)' \subseteq Underway(w) /\ exposed' = exposed \cup Underway(w)
    BY <1>0, <1>2, RestQuiet DEF Cancel, Narrows
  <2>2. \A v \in Sweeps : v # w => Underway(v)' = Underway(v) /\ sweep'[v] = sweep[v]
    BY <2>1, WaitersStay DEF OthersWait
  <2> QED
    BY <2>1, <2>2 DEF Noted
<1>3. ASSUME UNCHANGED <<sweep, exposed>>
      PROVE  Noted'
  <2>1. \A v \in Sweeps : Underway(v)' = Underway(v) /\ sweep'[v] = sweep[v]
    BY <1>3, SetsStay
  <2> QED
    BY <1>3, <2>1 DEF Noted
<1>4. CASE Restart
  BY <1>4 DEF Restart, Noted
<1> QED
  BY <1>1, <1>2, <1>3, <1>4 DEF LakeNext, WriteFile, InsertRow, Age, InsertFails, PlaceHold, ReleaseHold,
                                lakeVars, history

LEMMA StrayStays ==
    ASSUME NEW w \in Sweeps, OthersWait(w), NEW f \in Files, row'[f] = row[f],
           f \in base' <=> f \in base, f \in backup' \cup partial' => f \in backup \cup partial,
           f \in InHand(w) => f \in InHand(w)', Stuck(w, f)' => Stuck(w, f), Stray(f)'
    PROVE  Stray(f)
<1>1. \A v \in Sweeps : v # w => InHand(v)' = InHand(v) /\ (Stuck(v, f)' => Stuck(v, f))
  BY WaitersStay DEF OthersWait, Stuck
<1> QED
  BY <1>1 DEF Stray

\* The steps that take up, move and record no file.
LEMMA IdleStray ==
    ASSUME SweepType, HistoryType, NEW w \in Sweeps,
           \/ ReadHolds(w) \/ SelectOld(w) \/ SelectStale(w) \/ Finish(w) \/ CancelledSelect(w) \/ SelectFails(w)
           \/ Cancel(w)
           \/ \E f \in Files : Skip(w, f) \/ Missing(w, f) \/ ArchiveFails(w, f),
           NEW g \in Files, Stray(g)'
    PROVE  Stray(g)
<1>1. OthersWait(w) /\ Quiet(w) /\ UNCHANGED catalog
  BY SelectQuiet, RestQuiet, PassOverQuiet
<1>2. \/ sweep[w].pc \notin Handling /\ sweep'[w].pc \notin Handling
      \/ sweep'[w].pc = sweep[w].pc /\ (sweep[w].pc \in Handling => sweep'[w].file = sweep[w].file)
  <2>1. CASE ReadHolds(w)
    <3>1. sweep'[w] = [pc |-> "held", live |-> TRUE, held |-> HoldFilter]
      BY <2>1, SweepSet DEF ReadHolds
    <3> QED
      BY <2>1, <3>1 DEF ReadHolds, NoSweep, Handling
  <2>2. CASE SelectOld(w) \/ SelectStale(w)
    <3>1. AtSelect(w) /\ Looping = {"archiving", "purging"} /\ Old \in SUBSET Files /\ Stale \in SUBSET Files
      BY <2>2, FilesAssumption DEF SelectOld, SelectStale, AtSelect, Looping, Old, Stale
    <3>2. \/ sweep' = [sweep EXCEPT ![w] = [pc |-> "archiving", live |-> TRUE, held |-> @.held, todo |-> Old]]
          \/ sweep' = [sweep EXCEPT ![w] = [pc |-> "purging", live |-> TRUE, held |-> @.held, todo |-> Stale]]
      BY <2>2 DEF SelectOld, SelectStale
    <3>3. sweep'[w].pc \in Looping
      BY <3>1, <3>2, Selected
    <3> QED
      BY <3>1, <3>3 DEF AtSelect, Looping, Handling
  <2>3. CASE Finish(w) \/ CancelledSelect(w) \/ SelectFails(w)
    <3>1. Leave(w) /\ sweep[w].pc \notin Handling
      BY <2>3 DEF Finish, CancelledSelect, SelectFails, AtSelect, Handling
    <3>2. sweep'[w].pc = "idle"
      BY <3>1, Left DEF NoSweep
    <3> QED
      BY <3>1, <3>2 DEF Handling
  <2>4. CASE Cancel(w)
    BY <2>4, Cancelled
  <2>5. ASSUME NEW f \in Files, Skip(w, f) \/ Missing(w, f) \/ ArchiveFails(w, f)
        PROVE  <1>2
    <3>1. sweep[w].pc \in Looping /\ PassOver(w, f)
      BY <2>5 DEF Skip, Missing, ArchiveFails, TakeUp, Looping
    <3>2. sweep'[w].pc = sweep[w].pc
      BY <3>1, PassedOver
    <3> QED
      BY <3>1, <3>2 DEF Looping, Handling
  <2> QED
    BY <2>1, <2>2, <2>3, <2>4, <2>5
<1>3. InHand(w)' = InHand(w)
  BY <1>2 DEF InHand, Handling
<1>4. UNCHANGED <<row, base, backup, partial>>
  BY <1>1 DEF Quiet, disk, catalog
<1>5. Stuck(w, g)' => Stuck(w, g)
  BY <1>2, <1>4 DEF Stuck, Handling
<1> QED
  BY <1>1, <1>3, <1>4, <1>5, StrayStays

\* What else a step does is to the file that it takes up or has in hand.
LEMMA ElsewhereStray ==
    ASSUME SweepType, StoreType, NEW w \in Sweeps, OthersWait(w), NEW f \in Files, NEW g \in Files, g # f,
           row' = row \/ \E s : row' = [row EXCEPT ![f] = s],
           base \ {f} = base' \ {f}, (backup \cup partial) \ {f} = (backup' \cup partial') \ {f},
           InHand(w) \subseteq {f},
           sweep'[w].pc \in Looping \/ (sweep'[w].pc \in Handling /\ sweep'[w].file = f), Stray(g)'
    PROVE  Stray(g)
<1>1. row'[g] = row[g]
  BY DEF StoreType
<1>2. ~Stuck(w, g)'
  BY DEF Stuck, Looping, Handling
<1>3. /\ g \in base' <=> g \in base
      /\ g \in backup' \cup partial' => g \in backup \cup partial
      /\ g \notin InHand(w)
  OBVIOUS
<1> QED
  BY <1>1, <1>2, <1>3, StrayStays

\* No step of a sweep that succeeds misplaces a file.
LEMMA SweepStray ==
    ASSUME LakeTypeOK, RowStages, NEW w \in Sweeps, NEW g \in Files, Stray(g)',
           \/ \E f \in Files : Rename(w, f) \/ Read(w, f) \/ Remove(w, f)
           \/ BeginCopy(w) \/ EndCopy(w) \/ RemoveSource(w) \/ MarkArchived(w) \/ MarkPurged(w)
    PROVE  Stray(g)
<1>0. SweepType /\ StoreType /\ HistoryType
  BY LakeTypeParts
<1>1. ASSUME NEW f \in Underway(w)
      PROVE  row[f] \in {"live", "archived"} /\ \A v \in Sweeps : sweep[v].pc = "removed" => sweep[v].file # f
  <2>1. /\ f \in Files /\ row[f] # "absent" /\ ~(row[f] \in {"archived", "purged"} /\ f \in aged)
        /\ \A v \in Sweeps : f \notin Condemned(v)
    BY <1>0, <1>1, SetsTyped DEF RowStages, Staged
  <2>2. row[f] # "purged"
    BY <2>1 DEF RowStages, Ages
  <2> QED
    BY <1>0, <2>1, <2>2, SetsAre DEF StoreType
<1>2. ASSUME NEW f \in Files, Rename(w, f) \/ Read(w, f)
      PROVE  Stray(g)
  <2>1. /\ OthersWait(w) /\ sweep'[w].pc \in {"renamed", "read"} /\ sweep'[w].file = f
        /\ sweep[w].pc = "archiving" /\ f \in Underway(w)
    BY <1>0, <1>2, HandlingSteps
  <2>2. /\ UNCHANGED <<row, partial>>
        /\ \/ base' = base \ {f} /\ backup' = backup \cup {f}
           \/ sweep'[w].pc = "read" /\ UNCHANGED <<base, backup>>
    BY <1>0, <1>2, HandlingSteps DEF Rename, Read, disk, catalog
  <2>3. InHand(w) = {} /\ InHand(w)' = {f}
    BY <2>1, SetsAre, SetsAreNext
  <2>4. CASE g # f
    BY <1>0, <2>1, <2>2, <2>3, <2>4, ElsewhereStray DEF Handling
  <2>5. CASE g = f
    BY <1>1, <2>1, <2>2, <2>3, <2>5 DEF Stray, Stuck, OthersWait
  <2> QED
    BY <2>4, <2>5
<1>3. ASSUME NEW f \in Files, Remove(w, f)
      PROVE  Stray(g)
  <2>1. /\ OthersWait(w) /\ sweep'[w].pc = "removed" /\ sweep'[w].file = f /\ sweep[w].pc = "purging"
    BY <1>0, <1>3, HandlingSteps
  <2>2. UNCHANGED <<row, base>> /\ backup' = backup \ {f} /\ partial' = partial \ {f}
    BY <1>3 DEF Remove, catalog
  <2>3. InHand(w) = {} /\ InHand(w)' = {}
    BY <2>1, SetsAre, SetsAreNext
  <2>4. ~Stuck(w, f)'
    BY <2>1, <2>2 DEF Stuck
  <2>5. CASE g = f
    BY <2>1, <2>2, <2>3, <2>4, <2>5, StrayStays
  <2> QED
    BY <1>0, <2>1, <2>2, <2>3, <2>5, ElsewhereStray DEF Handling
<1>4. CASE BeginCopy(w) \/ EndCopy(w) \/ RemoveSource(w)
  <2>1. PICK f : f = sweep[w].file
    OBVIOUS
  <2>2. /\ OthersWait(w) /\ sweep'[w].pc \in {"copying", "copied", "renamed"} /\ sweep'[w].file = f
        /\ InHand(w)' = InHand(w)
    BY <1>0, <1>4, <2>1, HandlingSteps
  <2>3. sweep[w].pc \in {"read", "copying", "copied"} /\ UNCHANGED row
    BY <1>4 DEF BeginCopy, EndCopy, RemoveSource, catalog
  <2>4. InHand(w) = {f} /\ f \in Underway(w) /\ f \in Files
    BY <1>0, <2>1, <2>3, SetsAre, SetsTyped
  <2>5. /\ base' = base \/ (base' = base \ {f} /\ UNCHANGED <<backup, partial>>)
        /\ (backup \cup partial) \ {f} = (backup' \cup partial') \ {f}
    BY <1>4, <2>1 DEF BeginCopy, EndCopy, RemoveSource
  <2>6. sweep'[w].pc = "renamed" => f \notin base'
    BY <1>0, <1>4, <2>1, HandlingSteps DEF BeginCopy, EndCopy, RemoveSource
  <2>7. CASE g # f
    <3>1. base \ {f} = base' \ {f} /\ InHand(w) \subseteq {f} /\ row' = row
      BY <2>3, <2>4, <2>5
    <3>2. sweep'[w].pc \in Handling
      BY <2>2 DEF Handling
    <3> QED
      BY <1>0, <2>2, <2>4, <2>5, <2>7, <3>1, <3>2, ElsewhereStray
  <2>8. CASE g = f
    <3>1. row'[g] \in {"live", "archived"} /\ \A v \in Sweeps : ~(sweep'[v].pc = "removed" /\ sweep'[v].file = g)
      BY <1>1, <2>2, <2>3, <2>4, <2>8 DEF OthersWait
    <3>2. \A v \in Sweeps : Stuck(v, g)' => v # w /\ Stuck(v, g)
      BY <2>2, <2>5, <2>6, <2>8, <3>1 DEF Stuck, OthersWait
    <3> QED
      BY <2>2, <2>3, <2>4, <2>5, <2>8, <3>1, <3>2 DEF Stray
  <2> QED
    BY <2>7, <2>8
<1>5. CASE MarkArchived(w) \/ MarkPurged(w)
  <2>1. PICK f : f = sweep[w].file
    OBVIOUS
  <2>2. OthersWait(w) /\ UNCHANGED <<base, backup, partial>>
    BY <1>0, <1>5, GoOnQuiet DEF Quiet, disk
  <2>3. f \in Files /\ sweep[w].pc \in {"renamed", "removed"} /\ InHand(w) \subseteq {f}
    <3>1. sweep[w].pc \in {"renamed", "removed"} /\ sweep[w].pc \in Handling
      BY <1>5 DEF MarkArchived, MarkPurged, Handling
    <3> QED
      BY <1>0, <2>1, <3>1, SetsAre, SweepShape
  <2>4. sweep'[w].pc \in Looping
    <3>1. sweep[w].pc \in Handling /\ Looping = {"archiving", "purging"} /\ (GoOn(w, "archiving") \/ GoOn(w, "purging"))
      BY <1>5 DEF MarkArchived, MarkPurged, Handling, Looping
    <3> QED
      BY <1>0, <3>1, WentOn
  <2>5. row' = [row EXCEPT ![f] = "archived"] \/ row' = [row EXCEPT ![f] = "purged"]
    BY <1>5, <2>1 DEF MarkArchived, MarkPurged
  <2>6. CASE g # f
    <3>1. row' = row \/ \E s : row' = [row EXCEPT ![f] = s]
      BY <2>5
    <3> QED
      BY <1>0, <2>2, <2>3, <2>4, <2>6, <3>1, ElsewhereStray
  <2>7. CASE g = f
    <3>1. \A v \in Sweeps : Stuck(v, g)' => Stuck(v, g)
      BY <2>2, <2>4 DEF Stuck, OthersWait, Looping
    <3>2. CASE MarkArchived(w)
      <4>1. row'[g] = "archived" /\ sweep[w].pc = "renamed"
        BY <1>0, <2>1, <2>3, <2>7, <3>2 DEF MarkArchived, StoreType
      <4>2. g \in base' => Stuck(w, g)
        BY <2>1, <2>2, <2>7, <4>1 DEF Stuck
      <4> QED
        BY <3>1, <4>1, <4>2 DEF Stray
    <3>3. CASE MarkPurged(w)
      <4>1. row'[g] = "purged" /\ sweep[w].pc = "removed"
        BY <1>0, <2>1, <2>3, <2>7, <3>3 DEF MarkPurged, StoreType
      <4>2. g \in backup' \cup partial' => Stuck(w, g)
        BY <2>1, <2>2, <2>7, <4>1 DEF Stuck
      <4>3. row[g] \in {"archived", "purged"}
        BY <2>1, <2>7, <4>1, SetsAre DEF RowStages, Staged
      <4> QED
        BY <2>2, <3>1, <4>1, <4>2, <4>3 DEF Stray
    <3> QED
      BY <1>5, <3>2, <3>3
  <2> QED
    BY <2>6, <2>7
<1> QED
  BY <1>2, <1>3, <1>4, <1>5

\* A failure misplaces no file but the one in hand; neither does a statement of
\* a cancelled sweep, and that one was noted.
LEMMA FailureStray ==
    ASSUME LakeTypeOK, RowStages, Noted, NEW w \in Sweeps,
           \/ CopyFails(w) \/ RemoveSourceFails(w) \/ UpdateFails(w) \/ CancelledUpdate(w)
           \/ \E f \in Files : PurgeFails(w, f)
    PROVE  \E f \in Files : /\ \A g \in Files : Stray(g)' /\ g # f => Stray(g)
                            /\ CancelledUpdate(w) /\ Stray(f)' => Stray(f) \/ f \in exposed
<1>0. SweepType /\ StoreType /\ HistoryType
  BY LakeTypeParts
<1>1. ASSUME NEW f \in Files, PurgeFails(w, f)
      PROVE  \A g \in Files : Stray(g)' /\ g # f => Stray(g)
  <2>1. TakeUp(w, f, "purging") /\ With(w, f, "removed") /\ "purging" \in Looping /\ "removed" \in Handling
    BY <1>1 DEF PurgeFails, Looping, Handling
  <2>2. sweep[w].pc = "purging" /\ sweep'[w].pc = "removed" /\ sweep'[w].file = f
    BY <1>0, <2>1, TakenUp
  <2>3. OthersWait(w) /\ UNCHANGED <<row, base, backup, partial>>
    BY <1>0, <1>1, PurgeFailsQuiet DEF Quiet, disk, catalog
  <2>4. InHand(w) = {} /\ sweep'[w].pc \in Handling
    BY <2>1, <2>2, SetsAre
  <2>5. row' = row /\ base \ {f} = base' \ {f} /\ (backup \cup partial) \ {f} = (backup' \cup partial') \ {f}
    BY <2>3
  <2> QED
    BY <1>0, <2>2, <2>3, <2>4, <2>5, ElsewhereStray
<1>2. ASSUME ~CancelledUpdate(w), \E f \in Files : PurgeFails(w, f)
      PROVE  \E f \in Files : /\ \A g \in Files : Stray(g)' /\ g # f => Stray(g)
                              /\ CancelledUpdate(w) /\ Stray(f)' => Stray(f) \/ f \in exposed
  BY <1>1, <1>2
<1>3. ASSUME CopyFails(w) \/ RemoveSourceFails(w) \/ UpdateFails(w) \/ CancelledUpdate(w)
      PROVE  \E f \in Files : /\ \A g \in Files : Stray(g)' /\ g # f => Stray(g)
                              /\ CancelledUpdate(w) /\ Stray(f)' => Stray(f) \/ f \in exposed
  <2>1. PICK f : f = sweep[w].file
    OBVIOUS
  <2>2. sweep[w].pc \in {"copying", "copied", "renamed", "removed"} /\ sweep[w].pc \in Handling
    BY <1>3 DEF CopyFails, RemoveSourceFails, UpdateFails, CancelledUpdate, Unrecorded, Handling
  <2>3. f \in Files /\ InHand(w) \subseteq {f}
    BY <1>0, <2>1, <2>2, SetsAre, SweepShape
  <2>4. UNCHANGED <<row, base, backup, partial>>
    BY <1>3 DEF CopyFails, RemoveSourceFails, UpdateFails, CancelledUpdate, Unrecorded, disk, catalog
  <2>5. OthersWait(w)
    BY <1>0, <1>3, HandlingSteps, RestQuiet, GoOnQuiet
  <2>6. sweep'[w].pc \in Looping \/ (sweep'[w].pc \in Handling /\ sweep'[w].file = f)
    <3>1. CASE RemoveSourceFails(w)
      <4>1. Now(w, "renamed") /\ "renamed" \in Handling
        BY <3>1 DEF RemoveSourceFails, Handling
      <4> QED
        BY <1>0, <2>1, <2>2, <4>1, MovedOn
    <3>2. CASE CopyFails(w) \/ UpdateFails(w) \/ CancelledUpdate(w)
      <4>1. Looping = {"archiving", "purging"} /\ (GoOn(w, "archiving") \/ GoOn(w, "purging"))
        BY <3>2 DEF CopyFails, UpdateFails, CancelledUpdate, Unrecorded, Looping
      <4> QED
        BY <1>0, <2>2, <4>1, WentOn
    <3> QED
      BY <1>3, <3>1, <3>2
  <2>7. \A g \in Files : Stray(g)' /\ g # f => Stray(g)
    <3>1. row' = row /\ base \ {f} = base' \ {f} /\ (backup \cup partial) \ {f} = (backup' \cup partial') \ {f}
      BY <2>4
    <3> QED
      BY <1>0, <2>3, <2>5, <2>6, <3>1, ElsewhereStray
  <2>8. ASSUME CancelledUpdate(w), Stray(f)'
        PROVE  Stray(f) \/ f \in exposed
    <3>1. sweep[w].pc \in {"renamed", "removed"} /\ sweep[w] # NoSweep /\ ~sweep[w].live
      BY <2>8 DEF CancelledUpdate, Unrecorded
    <3>2. CASE sweep[w].pc = "renamed"
      <4>1. f \in Underway(w)
        BY <2>1, <3>2, SetsAre
      <4> QED
        BY <3>1, <4>1 DEF Noted
    <3>3. CASE sweep[w].pc = "removed"
      <4>1. InHand(w) = {}
        BY <3>3, SetsAre
      <4>2. sweep'[w].pc \in Looping
        <5>1. Looping = {"archiving", "purging"} /\ (GoOn(w, "archiving") \/ GoOn(w, "purging"))
          BY <2>8 DEF CancelledUpdate, Unrecorded, Looping
        <5> QED
          BY <1>0, <2>2, <5>1, WentOn
      <4>3. ~Stuck(w, f)'
        BY <4>2 DEF Stuck, Looping
      <4> QED
        BY <2>3, <2>4, <2>5, <2>8, <4>1, <4>3, StrayStays
    <3> QED
      BY <3>1, <3>2, <3>3
  <2> QED
    BY <2>3, <2>7, <2>8
<1>4. ASSUME CancelledUpdate(w)
      PROVE  \E f \in Files : /\ \A g \in Files : Stray(g)' /\ g # f => Stray(g)
                              /\ CancelledUpdate(w) /\ Stray(f)' => Stray(f) \/ f \in exposed
  BY <1>3, <1>4
<1> QED
  BY <1>2, <1>3, <1>4

LEMMA StoreStray ==
    ASSUME LakeTypeOK, RowStages, UNCHANGED sweep,
           \/ \E f \in Files : WriteFile(f) \/ InsertRow(f) \/ Age(f) \/ InsertFails(f)
           \/ \E h \in Holds : PlaceHold(h) \/ ReleaseHold(h)
           \/ UNCHANGED lakeVars,
           NEW g \in Files, Stray(g)'
    PROVE  Stray(g)
<1>0. SweepType /\ StoreType
  BY LakeTypeParts
<1>1. \A v \in Sweeps : InHand(v)' = InHand(v)
  BY SetsStay
<1>2. UNCHANGED <<row, base, backup, partial>> => Stray(g)
  BY <1>1 DEF Stray, Stuck
<1>3. ASSUME NEW f \in Files, WriteFile(f)
      PROVE  Stray(g)
  <2>1. row[f] = "absent" /\ base' = base \cup {f} /\ UNCHANGED <<row, backup, partial>>
    BY <1>3 DEF WriteFile, catalog
  <2>2. \A v \in Sweeps : ~(sweep[v].pc = "renamed" /\ sweep[v].file = f)
    BY <2>1, SetsAre DEF RowStages, Staged
  <2>3. \A v \in Sweeps : Stuck(v, g)' => Stuck(v, g)
    BY <2>1, <2>2 DEF Stuck
  <2> QED
    BY <1>1, <2>1, <2>3 DEF Stray
<1>4. ASSUME NEW f \in Files, InsertRow(f)
      PROVE  Stray(g)
  <2>1. row' = [row EXCEPT ![f] = "live"] /\ UNCHANGED <<base, backup, partial>> /\ f \in base
    BY <1>4 DEF InsertRow, disk, RowStages, Written
  <2>2. \A v \in Sweeps : Stuck(v, g)' => Stuck(v, g)
    BY <2>1 DEF Stuck
  <2> QED
    BY <1>0, <1>1, <2>1, <2>2 DEF Stray, StoreType
<1>5. ASSUME NEW f \in Files, Age(f) \/ InsertFails(f)
      PROVE  Stray(g)
  BY <1>2, <1>5 DEF Age, InsertFails, disk, catalog
<1>6. ASSUME NEW h \in Holds, PlaceHold(h) \/ ReleaseHold(h)
      PROVE  Stray(g)
  BY <1>2, <1>6 DEF PlaceHold, ReleaseHold, disk, catalog
<1>7. CASE UNCHANGED lakeVars
  BY <1>2, <1>7 DEF lakeVars, disk, catalog
<1> QED
  BY <1>3, <1>4, <1>5, <1>6, <1>7

\* At a restart no sweep will go on with what it has in hand.
InHands == UNION { InHand(w) : w \in Sweeps }

LEMMA RestartStray ==
    ASSUME Restart, NEW g \in Files, Stray(g)'
    PROVE  Stray(g) \/ g \in InHands
<1>1. UNCHANGED <<row, base, backup, partial>>
  BY DEF Restart, disk, catalog
<1>2. \A v \in Sweeps : sweep'[v].pc = "idle"
  BY DEF Restart, NoSweep
<1> QED
  BY <1>1, <1>2 DEF Stray, Stuck, InHands

LEMMA SubsetsOfFiles ==
    ASSUME NEW S, S \subseteq Files
    PROVE  IsFiniteSet(S) /\ Cardinality(S) \in Nat
BY FilesAssumption, FS_Subset, FS_CardinalityType

\* Each sweep has one file in hand at most.
LEMMA FewInHand ==
    ASSUME SweepType
    PROVE  InHands \subseteq Files /\ Cardinality(InHands) <= Cardinality(Sweeps) /\ Cardinality(Sweeps) \in Nat
<1> DEFINE busy == { w \in Sweeps : InHand(w) # {} }
           held == [w \in busy |-> sweep[w].file]
<1>1. \A w \in busy : InHand(w) = {sweep[w].file}
  BY DEF InHand
<1>2. held \in Surjection(busy, InHands)
  BY <1>1 DEF Surjection, InHands
<1>3. InHands \subseteq Files
  BY SetsTyped DEF InHands
<1>4. IsFiniteSet(busy) /\ Cardinality(busy) <= Cardinality(Sweeps)
  BY SweepsAssumption, FS_Subset
<1>5. Cardinality(InHands) <= Cardinality(busy)
  <2> HIDE DEF busy, held
  <2> QED
    BY <1>2, <1>4, FS_Surjection
<1>6. Cardinality(InHands) \in Nat /\ Cardinality(busy) \in Nat /\ Cardinality(Sweeps) \in Nat
  BY <1>3, <1>4, SweepsAssumption, SubsetsOfFiles, FS_CardinalityType
<1> QED
  BY <1>3, <1>4, <1>5, <1>6

LEMMA AtLeastOne == Cardinality(Sweeps) \in Nat /\ Cardinality(Sweeps) >= 1
<1>1. Cardinality(Sweeps) \in Nat /\ Cardinality(Sweeps) # 0
  BY SweepsAssumption, FS_CardinalityType, FS_EmptySet
<1> QED
  BY <1>1

\* The files beyond the bound: those that were astray, and the new ones.
LEMMA StrayGrows ==
    ASSUME NEW A, NEW B, NEW D, A \subseteq Files, D \subseteq Files, B \subseteq A \cup D
    PROVE  /\ Cardinality(A) \in Nat /\ Cardinality(B) \in Nat /\ Cardinality(D) \in Nat
           /\ Cardinality(B) <= Cardinality(A) + Cardinality(D)
<1>1. /\ IsFiniteSet(A) /\ IsFiniteSet(D) /\ IsFiniteSet(A \cup D) /\ IsFiniteSet(A \cap D)
  BY SubsetsOfFiles
<1>2. /\ Cardinality(A) \in Nat /\ Cardinality(D) \in Nat /\ Cardinality(A \cap D) \in Nat
      /\ Cardinality(A \cup D) \in Nat /\ Cardinality(B) \in Nat
  BY SubsetsOfFiles
<1>3. Cardinality(A \cup D) = Cardinality(A) + Cardinality(D) - Cardinality(A \cap D)
  BY <1>1, FS_Union
<1>4. Cardinality(B) <= Cardinality(A \cup D)
  BY <1>1, FS_Subset
<1> QED
  BY <1>2, <1>3, <1>4

LEMMA BoundAfterSuccess ==
    ASSUME AstrayInv, failures' = failures \/ failures' = failures + 1,
           \A g \in Files : Stray(g)' => Stray(g) \/ g \in exposed, exposed \subseteq exposed'
    PROVE  StrayBounded'
<1>1. Astray' \ exposed' \subseteq (Astray \ exposed) \cup {}
  BY DEF Astray
<1>2. Astray \ exposed \subseteq Files
  BY DEF Astray
<1>3. /\ Cardinality(Astray \ exposed) \in Nat /\ Cardinality(Astray' \ exposed') \in Nat
      /\ Cardinality(Astray' \ exposed') <= Cardinality(Astray \ exposed) + 0
  BY <1>1, <1>2, StrayGrows, FS_EmptySet
<1>4. failures \in Nat /\ failures * Cardinality(Sweeps) <= failures' * Cardinality(Sweeps)
      /\ failures * Cardinality(Sweeps) \in Nat /\ failures' * Cardinality(Sweeps) \in Nat
  <2>1. failures \in Nat
    BY LakeBoundAssumption DEF AstrayInv, LakeTypeOK
  <2>2. \A a, n \in Nat : a * n \in Nat /\ (a + 1) * n = a * n + n /\ (a + 1) * n \in Nat
    OBVIOUS
  <2> QED
    BY <2>1, <2>2, AtLeastOne
<1> QED
  BY <1>3, <1>4 DEF AstrayInv, StrayBounded

LEMMA BoundAfterFailure ==
    ASSUME AstrayInv, failures' = failures + 1, NEW D, D \subseteq Files, Cardinality(D) <= Cardinality(Sweeps),
           \A g \in Files : Stray(g)' => Stray(g) \/ g \in D, exposed \subseteq exposed'
    PROVE  StrayBounded'
<1>1. Astray' \ exposed' \subseteq (Astray \ exposed) \cup D
  BY DEF Astray
<1>2. Astray \ exposed \subseteq Files
  BY DEF Astray
<1>3. /\ Cardinality(Astray \ exposed) \in Nat /\ Cardinality(Astray' \ exposed') \in Nat /\ Cardinality(D) \in Nat
      /\ Cardinality(Astray' \ exposed') <= Cardinality(Astray \ exposed) + Cardinality(D)
  BY <1>1, <1>2, StrayGrows
<1>4. /\ failures' * Cardinality(Sweeps) = failures * Cardinality(Sweeps) + Cardinality(Sweeps)
      /\ failures * Cardinality(Sweeps) \in Nat
  <2>1. failures \in Nat
    BY LakeBoundAssumption DEF AstrayInv, LakeTypeOK
  <2>2. \A a, n \in Nat : a * n \in Nat /\ (a + 1) * n = a * n + n
    OBVIOUS
  <2> QED
    BY <2>1, <2>2, AtLeastOne
<1> QED
  BY <1>3, <1>4, AtLeastOne DEF AstrayInv, StrayBounded

LEMMA LakeNextStray == AstrayInv /\ [LakeNext]_lakeVars => StrayBounded'
<1> SUFFICES ASSUME AstrayInv, [LakeNext]_lakeVars
             PROVE  StrayBounded'
  OBVIOUS
<1>0. LakeTypeOK /\ RowStages /\ Noted /\ SweepType /\ StoreType /\ HistoryType
  BY LakeTypeParts DEF AstrayInv
<1>1. CASE Restart
  <2>1. failures' = failures + 1 /\ UNCHANGED exposed
    BY <1>1 DEF Restart, Failure
  <2>2. \A g \in Files : Stray(g)' => Stray(g) \/ g \in InHands
    BY <1>1, RestartStray
  <2> QED
    BY <1>0, <2>1, <2>2, FewInHand, BoundAfterFailure
<1>2. ASSUME \/ \E f \in Files : WriteFile(f) \/ InsertRow(f) \/ Age(f) \/ InsertFails(f)
             \/ \E h \in Holds : PlaceHold(h) \/ ReleaseHold(h)
             \/ UNCHANGED lakeVars
      PROVE  StrayBounded'
  <2>1. UNCHANGED <<sweep, exposed>> /\ (failures' = failures \/ failures' = failures + 1)
    BY <1>2 DEF WriteFile, InsertRow, Age, InsertFails, PlaceHold, ReleaseHold, lakeVars, history, Failure
  <2>2. \A g \in Files : Stray(g)' => Stray(g)
    BY <1>0, <1>2, <2>1, StoreStray
  <2> QED
    BY <2>1, <2>2, BoundAfterSuccess
<1>3. ASSUME NEW w \in Sweeps, RunLifecycle(w)
      PROVE  StrayBounded'
  <2>1. UNCHANGED <<exposed, failures>>
    BY <1>3 DEF RunLifecycle, ArchiveFile, ReadHolds, SelectOld, SelectStale, Skip, Missing, PassOver, Remove, Rename,
                Read, BeginCopy, EndCopy, RemoveSource, MarkArchived, MarkPurged, Finish, Leave, history
  <2>2. \A g \in Files : Stray(g)' => Stray(g)
    BY <1>0, <1>3, IdleStray, SweepStray DEF RunLifecycle, ArchiveFile
  <2> QED
    BY <2>1, <2>2, BoundAfterSuccess
<1>4. ASSUME NEW w \in Sweeps, Cancel(w) \/ CancelledSelect(w) \/ SelectFails(w) \/ \E f \in Files : ArchiveFails(w, f)
      PROVE  StrayBounded'
  <2>1. exposed \subseteq exposed' /\ (failures' = failures \/ failures' = failures + 1)
    BY <1>4 DEF Cancel, CancelledSelect, SelectFails, ArchiveFails, PassOver, Leave, history, Failure
  <2>2. \A g \in Files : Stray(g)' => Stray(g)
    BY <1>0, <1>4, IdleStray
  <2> QED
    BY <2>1, <2>2, BoundAfterSuccess
<1>5. ASSUME NEW w \in Sweeps, CancelledUpdate(w)
      PROVE  StrayBounded'
  <2>1. UNCHANGED <<exposed, failures>>
    BY <1>5 DEF CancelledUpdate, Unrecorded, history
  <2>2. \A g \in Files : Stray(g)' => Stray(g) \/ g \in exposed
    BY <1>0, <1>5, FailureStray
  <2> QED
    BY <2>1, <2>2, BoundAfterSuccess
<1>6. ASSUME NEW w \in Sweeps,
             \/ CopyFails(w) \/ RemoveSourceFails(w) \/ UpdateFails(w)
             \/ \E f \in Files : PurgeFails(w, f)
      PROVE  StrayBounded'
  <2>1. UNCHANGED exposed /\ failures' = failures + 1
    BY <1>6 DEF CopyFails, RemoveSourceFails, UpdateFails, Unrecorded, PurgeFails, history, Failure
  <2>2. PICK f \in Files : \A g \in Files : Stray(g)' => Stray(g) \/ g \in {f}
    BY <1>0, <1>6, FailureStray
  <2>3. Cardinality({f}) <= Cardinality(Sweeps)
    BY FS_Singleton, AtLeastOne
  <2> QED
    BY <2>1, <2>2, <2>3, BoundAfterFailure
<1> QED
  BY <1>1, <1>2, <1>3, <1>4, <1>5, <1>6 DEF LakeNext, SweepFails

\* A failure misplaces one file for each sweep, or none: what a sweep cannot
\* record or remove is the file that it has in hand, and a restart leaves one
\* with each.  What a cancelled sweep goes on to move was noted when the request
\* was cancelled.
THEOREM FewMisplaced == LakeSpec => []MisplacedBounded
<1>1. ASSUME LakeInit
      PROVE  AstrayInv
  <2>1. \A w \in Sweeps : sweep[w].pc = "idle" /\ sweep[w] = NoSweep
    BY <1>1 DEF LakeInit, NoSweep
  <2>2. \A f \in Files : ~Stray(f)
    BY <1>1, <2>1 DEF LakeInit, Stray, Stuck
  <2>3. Astray \ exposed = {}
    BY <2>2 DEF Astray
  <2>4. StrayBounded
    BY <1>1, <2>3, FS_EmptySet, AtLeastOne DEF LakeInit, StrayBounded
  <2>5. Noted
    BY <1>1, <2>1 DEF Noted
  <2> QED
    BY <1>1, <2>4, <2>5, LakeInitType, LakeInitStages DEF AstrayInv
<1>2. AstrayInv /\ [LakeNext]_lakeVars => AstrayInv'
  BY LakeNextType, LakeNextStages, LakeNextNoted, LakeNextStray DEF AstrayInv
<1>3. ASSUME AstrayInv
      PROVE  MisplacedBounded
  <2>1. Misplaced \subseteq (Astray \ exposed) \cup exposed
    BY DEF Misplaced, Astray, Stray
  <2>2. Astray \ exposed \subseteq Files /\ exposed \subseteq Files
    BY <1>3 DEF Astray, AstrayInv, LakeTypeOK
  <2>3. /\ Cardinality(Misplaced) <= Cardinality(Astray \ exposed) + Cardinality(exposed)
        /\ Cardinality(Astray \ exposed) \in Nat /\ Cardinality(exposed) \in Nat /\ Cardinality(Misplaced) \in Nat
    BY <2>1, <2>2, StrayGrows
  <2>4. failures \in Nat /\ Cardinality(Sweeps) \in Nat /\ failures * Cardinality(Sweeps) \in Nat
    <3>1. failures \in Nat
      BY <1>3, LakeBoundAssumption DEF AstrayInv, LakeTypeOK
    <3>2. \A a, n \in Nat : a * n \in Nat
      OBVIOUS
    <3> QED
      BY <3>1, <3>2, AtLeastOne
  <2> QED
    BY <1>3, <2>3, <2>4 DEF AstrayInv, StrayBounded, MisplacedBounded
<1> QED
  BY <1>1, <1>2, <1>3, PTL DEF LakeSpec
=============================================================================
