--------------------------- MODULE UploadsProofs ----------------------------
(***************************************************************************)
(* Theorems about Uploads, for every set of forms, submissions and         *)
(* deletions, every limit and every bound.                                 *)
(***************************************************************************)
EXTENDS Uploads, FiniteSetTheorems, TLAPS

-----------------------------------------------------------------------------
(* Type correctness.                                                       *)

\* The locals of a submission at each point.
LEMMA ReqShape ==
    ASSUME TypeOK, NEW r \in Requests
    PROVE  /\ req[r] # NoRequest => req[r].pc \in {"checked", "filing", "saved"}
           /\ req[r].pc \in {"checked", "filing", "saved"} =>
                 req[r] # NoRequest /\ req[r].left \in 0..Limit /\ req[r].bad \in 0..Limit
           /\ req[r].pc = "checked" => req[r].form \in Forms
           /\ req[r].pc \in {"filing", "saved"} => req[r].owner \in Owners
           /\ req[r].pc = "saved" => req[r].left \in 1..Limit /\ req[r].file \in Files
BY BoundAssumption DEF TypeOK, Locals, NoRequest

LEMMA DelShape ==
    ASSUME TypeOK, NEW d \in Deleters
    PROVE  /\ del[d] # NoRequest => del[d].pc \in {"loaded", "removing"} /\ del[d].file \in Files
           /\ del[d].pc \in {"loaded", "removing"} => del[d] # NoRequest
BY DEF TypeOK, NoRequest

LEMMA FaultType == TypeOK /\ Fault => faults' \in 0..MaxFaults
BY BoundAssumption DEF TypeOK, Fault

LEMMA BreaksType == ASSUME TypeOK, NEW gone, Breaks(gone) PROVE faults' \in 0..MaxFaults
BY FaultType DEF Breaks, TypeOK

LEMMA NobodyOwns == Nobody \notin Owners
BY DEF Nobody, Owners

LEMMA InitType == Init => TypeOK
<1> SUFFICES ASSUME Init
             PROVE  TypeOK
  OBVIOUS
<1>1. 0 \in 0..MaxFiles /\ 0 \in 0..Limit /\ 0 \in 0..MaxFaults
  BY BoundAssumption
<1>2. /\ form \in [Owners -> Forms \cup {Nobody}] /\ attached \in [Files -> Owners \cup {Nobody}]
      /\ asked \in [Owners -> 0..Limit] /\ deleted \in [Owners -> Nat]
      /\ outcome \in [Owners -> {"none", "created", "error"}]
  BY <1>1 DEF Init
<1>3. /\ req \in [Requests -> Locals \cup {NoRequest}]
      /\ del \in [Deleters -> [pc : {"loaded", "removing"}, file : Files] \cup {NoRequest}]
  BY DEF Init
<1> QED
  BY <1>1, <1>2, <1>3 DEF Init, TypeOK

LEMMA CreateType ==
    ASSUME TypeOK, NEW r \in Requests, Create(r)
    PROVE  TypeOK'
<1> USE DEF TypeOK
<1>0. NoRequest \in Locals \cup {NoRequest}
  OBVIOUS
<1>1. ASSUME NEW i \in Forms, NEW n \in 0..(Limit + 1), NEW b \in 0..(Limit + 1), Submit(r, i, n, b)
      PROVE  TypeOK'
  <2>1. [pc |-> "checked", form |-> i, left |-> n, bad |-> b, waits |-> TRUE] \in Locals
    BY <1>1, BoundAssumption DEF Submit, Locals
  <2> QED
    BY <1>1, <2>1 DEF Submit, Goes, store, history
<1>2. CASE Insert(r)
  <2>1. req[r].form \in Forms /\ req[r].left \in 0..Limit /\ req[r].bad \in 0..Limit
    BY <1>2, ReqShape DEF Insert
  <2>2. CASE /\ (Taken(req[r].form) /\ UNCHANGED faults) \/ Breaks(~req[r].waits)
             /\ Goes(r, NoRequest)
             /\ UNCHANGED <<form, asked, outcome, unheard>>
    <3>1. faults' \in 0..MaxFaults
      BY <2>2, BreaksType
    <3> QED
      BY <1>0, <1>2, <2>2, <3>1 DEF Insert, Goes
  <2>3. CASE \E o \in Owners :
               /\ form' = [form EXCEPT ![o] = req[r].form]
               /\ asked' = [asked EXCEPT ![o] = req[r].left]
               /\ unheard' = IF ~req[r].waits THEN unheard \cup {o} ELSE unheard
               /\ \/ /\ Goes(r, [pc |-> "filing", owner |-> o,
                                 left |-> req[r].left, bad |-> req[r].bad])
                     /\ UNCHANGED <<outcome, faults>>
                  \/ /\ Breaks(~req[r].waits)
                     /\ outcome' = [outcome EXCEPT ![o] = "error"]
                     /\ Goes(r, NoRequest)
    <3>1. PICK o \in Owners :
               /\ form' = [form EXCEPT ![o] = req[r].form]
               /\ asked' = [asked EXCEPT ![o] = req[r].left]
               /\ unheard' = IF ~req[r].waits THEN unheard \cup {o} ELSE unheard
               /\ \/ /\ Goes(r, [pc |-> "filing", owner |-> o,
                                 left |-> req[r].left, bad |-> req[r].bad])
                     /\ UNCHANGED <<outcome, faults>>
                  \/ /\ Breaks(~req[r].waits)
                     /\ outcome' = [outcome EXCEPT ![o] = "error"]
                     /\ Goes(r, NoRequest)
      BY <2>3
    <3>2. [pc |-> "filing", owner |-> o, left |-> req[r].left, bad |-> req[r].bad] \in Locals
      BY <2>1 DEF Locals
    <3>3. req' \in [Requests -> Locals \cup {NoRequest}]
      BY <3>1, <3>2 DEF Goes
    <3>4. outcome' \in [Owners -> {"none", "created", "error"}] /\ faults' \in 0..MaxFaults
      BY <3>1, BreaksType
    <3>5. unheard' \in SUBSET Owners
      BY <3>1
    <3> QED
      BY <1>2, <2>1, <3>1, <3>3, <3>4, <3>5 DEF Insert
  <2> QED
    BY <1>2, <2>2, <2>3 DEF Insert
<1>3. ASSUME Fails(r)
      PROVE  outcome' \in [Owners -> {"none", "created", "error"}]
             /\ req' \in [Requests -> Locals \cup {NoRequest}]
  BY <1>3 DEF Fails, Goes
<1>4. CASE Refuse(r)
  BY <1>3, <1>4 DEF Refuse, store
<1>5. CASE Save(r)
  <2>1. req[r].owner \in Owners /\ req[r].left \in 1..Limit /\ req[r].bad \in 0..Limit
    BY <1>5, ReqShape, BoundAssumption DEF Save
  <2>2. CASE /\ drawn < MaxFiles
             /\ drawn' = drawn + 1
             /\ disk' = disk \cup {drawn + 1}
             /\ Goes(r, [pc |-> "saved", owner |-> req[r].owner, left |-> req[r].left,
                         bad |-> req[r].bad, file |-> drawn + 1])
             /\ UNCHANGED <<outcome, stray, faults>>
    <3>1. drawn + 1 \in Files /\ drawn' \in 0..MaxFiles
      BY <2>2, BoundAssumption DEF Files
    <3>2. [pc |-> "saved", owner |-> req[r].owner, left |-> req[r].left,
           bad |-> req[r].bad, file |-> drawn + 1] \in Locals
      BY <2>1, <3>1 DEF Locals
    <3> QED
      BY <1>5, <2>2, <3>1, <3>2 DEF Save, Goes
  <2>3. CASE Fault /\ Fails(r) /\ UNCHANGED <<drawn, disk, stray>>
    BY <1>3, <1>5, <2>3, FaultType DEF Save
  <2>4. CASE /\ Fault /\ Fails(r) /\ drawn < MaxFiles /\ drawn' = drawn + 1
             /\ disk' = disk \cup {drawn + 1} /\ stray' = stray \cup {drawn + 1}
    <3>1. drawn + 1 \in Files /\ drawn' \in 0..MaxFiles
      BY <2>4, BoundAssumption DEF Files
    <3> QED
      BY <1>3, <1>5, <2>4, <3>1, FaultType DEF Save
  <2> QED
    BY <1>5, <2>2, <2>3, <2>4 DEF Save
<1>6. CASE Record(r)
  <2>1. req[r].owner \in Owners /\ req[r].file \in Files /\ req[r].left \in 1..Limit /\ req[r].bad \in 0..Limit
    BY <1>6, ReqShape DEF Record
  <2>2. [pc |-> "filing", owner |-> req[r].owner, left |-> req[r].left - 1, bad |-> req[r].bad] \in Locals
    BY <2>1, BoundAssumption DEF Locals
  <2> QED
    BY <1>6, <2>1, <2>2 DEF Record, Goes, history
<1>7. CASE RecordFails(r)
  <2>1. req[r].owner \in Owners /\ req[r].file \in Files
    BY <1>7, ReqShape DEF RecordFails
  <2> QED
    BY <1>3, <1>7, <2>1, BreaksType DEF RecordFails
<1>8. CASE Answer(r)
  BY <1>8 DEF Answer, Goes, store
<1>9. CASE GiveUp(r)
  <2>1. CASE req[r].pc = "checked"
    <3>1. [pc |-> "checked", form |-> req[r].form, left |-> req[r].left,
           bad |-> req[r].bad, waits |-> FALSE] \in Locals
      BY <2>1, ReqShape DEF Locals
    <3> QED
      BY <1>9, <2>1, <3>1, FaultType DEF GiveUp, Goes, store
  <2>2. CASE req[r].pc # "checked"
    <3>1. req[r].owner \in Owners
      BY <1>9, <2>2, ReqShape DEF GiveUp
    <3> QED
      BY <1>9, <2>2, <3>1, FaultType DEF GiveUp, store
  <2> QED
    BY <2>1, <2>2
<1> QED
  BY <1>1, <1>2, <1>4, <1>5, <1>6, <1>7, <1>8, <1>9 DEF Create

LEMMA DeleteType ==
    ASSUME TypeOK, NEW d \in Deleters, DeleteAttachment(d)
    PROVE  TypeOK'
<1> USE DEF TypeOK
<1>1. ASSUME NEW f \in Files, LoadAttachment(d, f)
      PROVE  TypeOK'
  BY <1>1 DEF LoadAttachment, store, history
<1>2. CASE DeleteRow(d)
  <2>1. del[d].file \in Files /\ del[d] \in [pc : {"loaded", "removing"}, file : Files]
    BY <1>2, DelShape DEF DeleteRow, NoRequest
  <2>2. [del[d] EXCEPT !.pc = "removing"] \in [pc : {"loaded", "removing"}, file : Files]
    BY <2>1
  <2>3. del' \in [Deleters -> [pc : {"loaded", "removing"}, file : Files] \cup {NoRequest}]
    BY <1>2, <2>2 DEF DeleteRow
  <2>4. attached' \in [Files -> Owners \cup {Nobody}] /\ deleted' \in [Owners -> Nat]
    BY <1>2, <2>1 DEF DeleteRow
  <2> QED
    BY <1>2, <2>3, <2>4 DEF DeleteRow
<1>3. CASE RemoveFile(d)
  <2>1. del[d].file \in Files
    BY <1>3, DelShape DEF RemoveFile
  <2> QED
    BY <1>3, <2>1, FaultType DEF RemoveFile
<1> QED
  BY <1>1, <1>2, <1>3 DEF DeleteAttachment

LEMMA NextType == TypeOK /\ [Next]_vars => TypeOK'
<1> SUFFICES ASSUME TypeOK, [Next]_vars
             PROVE  TypeOK'
  OBVIOUS
<1>1. CASE Crash
  <2>1. stray' \in SUBSET Files
    BY <1>1 DEF Crash, InHand, TypeOK
  <2>2. outcome' \in [Owners -> {"none", "created", "error"}]
    BY <1>1 DEF Crash, TypeOK
  <2> QED
    BY <1>1, <2>1, <2>2, FaultType DEF Crash, store, TypeOK
<1>2. CASE UNCHANGED vars
  BY <1>2 DEF vars, store, history, TypeOK
<1> QED
  BY <1>1, <1>2, CreateType, DeleteType DEF Next

\* Rows, files, locals and histories keep their types.
THEOREM TypeCorrect == Spec => []TypeOK
BY InitType, NextType, PTL DEF Spec

-----------------------------------------------------------------------------
(* Rows and files agree.                                                   *)

FilesKnown ==
    /\ \A f \in Files : attached[f] # Nobody => f \in disk
    /\ \A f \in disk : f <= drawn /\ (attached[f] = Nobody => f \in InHand \cup stray)

\* A file that is saved and not recorded yet is of one submission, and no
\* deletion has seen it.
SavedOnce ==
    \A r \in Requests : req[r].pc = "saved" =>
        /\ req[r].file \in disk /\ attached[req[r].file] = Nobody
        /\ \A s \in Requests : req[s].pc = "saved" /\ req[s].file = req[r].file => s = r
        /\ \A d \in Deleters : del[d] # NoRequest => del[d].file # req[r].file

\* A file that is about to be removed is of one deletion, and has no row.
RemovedOnce ==
    /\ \A d \in Deleters : del[d] # NoRequest => del[d].file <= drawn
    /\ \A d \in Deleters : del[d].pc = "removing" =>
          /\ attached[del[d].file] = Nobody
          /\ \A e \in Deleters : del[e].pc = "removing" /\ del[e].file = del[d].file => e = d

FileInv == TypeOK /\ FilesKnown /\ SavedOnce /\ RemovedOnce

\* A submission r moves on without a file in its hands, before or after.
LEMMA ReqMoves ==
    ASSUME FileInv, NEW r \in Requests, NEW locals, Goes(r, locals),
           req[r].pc # "saved", locals.pc # "saved",
           UNCHANGED <<attached, disk, drawn, del, stray>>
    PROVE  FilesKnown' /\ SavedOnce' /\ RemovedOnce'
<1> USE DEF FileInv
<1>1. req'[r].pc # "saved" /\ \A s \in Requests \ {r} : req'[s] = req[s]
  BY DEF Goes, TypeOK
<1>2. InHand' = InHand
  BY <1>1 DEF InHand
<1> QED
  BY <1>1, <1>2 DEF FilesKnown, SavedOnce, RemovedOnce

LEMMA SaveFiles ==
    ASSUME FileInv, NEW r \in Requests, Save(r)
    PROVE  FilesKnown' /\ SavedOnce' /\ RemovedOnce'
<1> USE DEF FileInv
<1>1. CASE Fault /\ Fails(r) /\ UNCHANGED <<drawn, disk, stray>>
  <2>1. Goes(r, NoRequest) /\ NoRequest.pc # "saved" /\ req[r].pc # "saved"
        /\ UNCHANGED <<attached, disk, drawn, del, stray>>
    BY <1>1 DEF Save, Fails, NoRequest
  <2> QED
    BY <2>1, ReqMoves
<1>2. CASE /\ drawn < MaxFiles
           /\ drawn' = drawn + 1
           /\ disk' = disk \cup {drawn + 1}
           /\ Goes(r, [pc |-> "saved", owner |-> req[r].owner, left |-> req[r].left,
                       bad |-> req[r].bad, file |-> drawn + 1])
           /\ UNCHANGED stray
  <2>1. UNCHANGED <<attached, del, stray>> /\ req[r].pc # "saved"
    BY <1>2 DEF Save
  <2>2. /\ req'[r].pc = "saved" /\ req'[r].file = drawn + 1
        /\ \A s \in Requests \ {r} : req'[s] = req[s]
    BY <1>2 DEF Goes, TypeOK
  <2>3. drawn \in Nat /\ drawn + 1 \in Files /\ \A f \in disk : f \in Nat /\ f <= drawn
    BY <1>2, BoundAssumption DEF TypeOK, FilesKnown, Files
  <2>4. drawn + 1 \notin disk
    BY <2>3
  <2>5. attached[drawn + 1] = Nobody
    BY <2>3, <2>4 DEF FilesKnown
  <2>6. \A s \in Requests : req[s].pc = "saved" => req[s].file # drawn + 1
    BY <2>4 DEF SavedOnce
  <2>7. \A d \in Deleters : del[d] # NoRequest =>
           del[d].file \in Nat /\ del[d].file <= drawn /\ del[d].file # drawn + 1
    BY <2>3, DelShape DEF RemovedOnce, Files
  <2>8. InHand' = InHand \cup {drawn + 1}
    BY <2>1, <2>2, <2>3 DEF InHand
  <2>9. FilesKnown'
    BY <1>2, <2>1, <2>3, <2>5, <2>8 DEF FilesKnown
  <2>10. SavedOnce'
    BY <1>2, <2>1, <2>2, <2>5, <2>6, <2>7 DEF SavedOnce
  <2>11. RemovedOnce'
    BY <1>2, <2>1, <2>3, <2>7 DEF RemovedOnce
  <2> QED
    BY <2>9, <2>10, <2>11
<1>3. CASE /\ Fails(r) /\ drawn' = drawn + 1
           /\ disk' = disk \cup {drawn + 1} /\ stray' = stray \cup {drawn + 1}
  <2>1. UNCHANGED <<attached, del>> /\ req[r].pc # "saved" /\ drawn \in Nat
    BY BoundAssumption DEF Save, TypeOK
  <2>2. req'[r].pc # "saved" /\ \A s \in Requests \ {r} : req'[s] = req[s]
    BY <1>3 DEF Fails, Goes, TypeOK, NoRequest
  <2>3. InHand' = InHand
    BY <2>1, <2>2 DEF InHand
  <2>4. \A f \in disk : f \in Nat
    BY DEF TypeOK, Files
  <2>5. FilesKnown'
    BY <1>3, <2>1, <2>3, <2>4 DEF FilesKnown
  <2>6. SavedOnce'
    BY <1>3, <2>1, <2>2 DEF SavedOnce
  <2>7. RemovedOnce'
    <3>1. \A d \in Deleters : del[d] # NoRequest => del[d].file \in Nat
      BY DelShape DEF Files
    <3> QED
      BY <1>3, <2>1, <3>1 DEF RemovedOnce
  <2> QED
    BY <2>5, <2>6, <2>7
<1> QED
  BY <1>1, <1>2, <1>3 DEF Save

\* The saved file gets its row, or becomes a stray.
LEMMA RecordFiles ==
    ASSUME FileInv, NEW r \in Requests, req[r].pc = "saved", NEW locals, Goes(r, locals),
           locals.pc # "saved", UNCHANGED <<disk, drawn, del>>,
           \/ attached' = [attached EXCEPT ![req[r].file] = req[r].owner] /\ stray' = stray
           \/ attached' = attached /\ stray' = stray \cup {req[r].file}
    PROVE  FilesKnown' /\ SavedOnce' /\ RemovedOnce'
<1> USE DEF FileInv
<1> PICK f : f = req[r].file
  OBVIOUS
<1>1. f \in Files /\ f \in disk /\ req[r].owner \in Owners /\ attached[f] = Nobody
  BY ReqShape DEF SavedOnce
<1>2. req'[r].pc # "saved" /\ \A s \in Requests \ {r} : req'[s] = req[s]
  BY DEF Goes, TypeOK
<1>3. \A s \in Requests \ {r} : req[s].pc = "saved" => req[s].file # f /\ req[s].file \in Files
  BY ReqShape DEF SavedOnce
<1>4. \A d \in Deleters : del[d] # NoRequest => del[d].file # f /\ del[d].file \in Files
  BY DelShape DEF SavedOnce
<1>5. InHand \ {f} \subseteq InHand'
  BY <1>2 DEF InHand
<1>6. /\ \A g \in Files \ {f} : attached'[g] = attached[g]
      /\ stray \subseteq stray'
      /\ attached'[f] # Nobody \/ f \in stray'
  BY <1>1, NobodyOwns DEF TypeOK
<1>7. FilesKnown'
  <2>1. \A g \in disk : g \in Files
    BY DEF TypeOK
  <2> QED
    BY <1>1, <1>5, <1>6, <2>1 DEF FilesKnown
<1>8. SavedOnce'
  BY <1>2, <1>3, <1>6 DEF SavedOnce
<1>9. RemovedOnce'
  <2>1. \A d \in Deleters : del[d].pc = "removing" => del[d].file # f /\ del[d].file \in Files
    BY <1>4, DelShape
  <2> QED
    BY <1>6, <2>1 DEF RemovedOnce
<1> QED
  BY <1>7, <1>8, <1>9

LEMMA CreateFiles ==
    ASSUME FileInv, NEW r \in Requests, Create(r)
    PROVE  FilesKnown' /\ SavedOnce' /\ RemovedOnce'
<1>1. ASSUME NEW i \in Forms, NEW n \in 0..(Limit + 1), NEW b \in 0..(Limit + 1), Submit(r, i, n, b)
      PROVE  FilesKnown' /\ SavedOnce' /\ RemovedOnce'
  <2>1. /\ Goes(r, [pc |-> "checked", form |-> i, left |-> n, bad |-> b, waits |-> TRUE])
        /\ req[r].pc # "saved" /\ UNCHANGED <<attached, disk, drawn, del, stray>>
    BY <1>1 DEF Submit, NoRequest, store, history
  <2> QED
    BY <2>1, ReqMoves
<1>2. CASE Insert(r) \/ Refuse(r) \/ Answer(r)
  <2>1. req[r].pc # "saved" /\ UNCHANGED <<attached, disk, drawn, del, stray>> /\ NoRequest.pc # "saved"
    BY <1>2 DEF Insert, Refuse, Answer, store, NoRequest
  <2>2. \/ Goes(r, NoRequest)
        \/ \E o \in Owners : Goes(r, [pc |-> "filing", owner |-> o, left |-> req[r].left, bad |-> req[r].bad])
    BY <1>2 DEF Insert, Refuse, Answer, Fails
  <2> QED
    BY <2>1, <2>2, ReqMoves
<1>3. CASE Record(r) \/ RecordFails(r)
  <2>1. req[r].pc = "saved" /\ UNCHANGED <<disk, drawn, del>> /\ NoRequest.pc # "saved"
    BY <1>3 DEF Record, RecordFails, NoRequest
  <2>2. \/ attached' = [attached EXCEPT ![req[r].file] = req[r].owner] /\ stray' = stray
        \/ attached' = attached /\ stray' = stray \cup {req[r].file}
    BY <1>3 DEF Record, RecordFails, history
  <2>3. \/ Goes(r, NoRequest)
        \/ Goes(r, [pc |-> "filing", owner |-> req[r].owner, left |-> req[r].left - 1, bad |-> req[r].bad])
    BY <1>3 DEF Record, RecordFails, Fails
  <2> QED
    BY <2>1, <2>2, <2>3, RecordFiles
<1>4. CASE GiveUp(r)
  <2>1. UNCHANGED <<attached, disk, drawn, del, stray>>
    BY <1>4 DEF GiveUp, store
  <2>2. CASE req[r].pc = "checked"
    <3>1. PICK locals : Goes(r, locals) /\ locals.pc # "saved"
      BY <1>4, <2>2 DEF GiveUp
    <3> QED
      BY <2>1, <2>2, <3>1, ReqMoves
  <2>3. CASE UNCHANGED req
    BY <2>1, <2>3 DEF FileInv, FilesKnown, SavedOnce, RemovedOnce, InHand
  <2> QED
    BY <1>4, <2>2, <2>3 DEF GiveUp
<1> QED
  BY <1>1, <1>2, <1>3, <1>4, SaveFiles DEF Create

\* A file with a row is on the disk, was drawn, and is in no submission's hands.
LEMMA DeleteFiles ==
    ASSUME FileInv, NEW d \in Deleters, DeleteAttachment(d)
    PROVE  FilesKnown' /\ SavedOnce' /\ RemovedOnce'
<1> USE DEF FileInv
<1>1. ASSUME NEW f \in Files, LoadAttachment(d, f)
      PROVE  FilesKnown' /\ SavedOnce' /\ RemovedOnce'
  <2>1. UNCHANGED <<form, attached, disk, drawn, req, stray>>
    BY <1>1 DEF LoadAttachment, store, history
  <2>2. /\ del'[d].pc = "loaded" /\ del'[d].file = f
        /\ \A e \in Deleters \ {d} : del'[e] = del[e]
        /\ del[d].pc # "removing" /\ f \in disk /\ f <= drawn /\ attached[f] # Nobody
    BY <1>1 DEF LoadAttachment, NoRequest, FilesKnown, TypeOK
  <2>3. InHand' = InHand
    BY <2>1, <2>2 DEF InHand
  <2>4. FilesKnown'
    BY <2>1, <2>3 DEF FilesKnown
  <2>5. SavedOnce'
    BY <2>1, <2>2 DEF SavedOnce
  <2>6. RemovedOnce'
    BY <2>1, <2>2 DEF RemovedOnce
  <2> QED
    BY <2>4, <2>5, <2>6
<1>2. CASE DeleteRow(d)
  <2> PICK f : f = del[d].file
    OBVIOUS
  <2>1. f \in Files /\ f <= drawn /\ UNCHANGED <<disk, drawn, req, stray>> /\ del[d].pc = "loaded"
    BY <1>2, DelShape DEF DeleteRow, RemovedOnce
  <2>2. \A r \in Requests : req[r].pc = "saved" => req[r].file # f /\ req[r].file \in Files
    BY <2>1, DelShape, ReqShape DEF SavedOnce
  <2>3. CASE attached[f] = Nobody
    <3>1. UNCHANGED attached /\ del'[d] = NoRequest /\ \A e \in Deleters \ {d} : del'[e] = del[e]
      BY <1>2, <2>3 DEF DeleteRow, TypeOK
    <3>2. InHand' = InHand
      BY <2>1, <3>1 DEF InHand, NoRequest
    <3>3. FilesKnown'
      BY <2>1, <3>1, <3>2 DEF FilesKnown
    <3>4. SavedOnce'
      BY <2>1, <3>1 DEF SavedOnce
    <3>5. RemovedOnce'
      BY <2>1, <3>1 DEF RemovedOnce, NoRequest
    <3> QED
      BY <3>3, <3>4, <3>5
  <2>4. CASE attached[f] # Nobody
    <3>1. /\ attached'[f] = Nobody
          /\ \A g \in Files \ {f} : attached'[g] = attached[g]
          /\ del'[d].pc = "removing" /\ del'[d].file = f
          /\ \A e \in Deleters \ {d} : del'[e] = del[e]
      BY <1>2, <2>1, <2>4, DelShape DEF DeleteRow, TypeOK
    <3>2. InHand' = InHand \cup {f}
      BY <2>1, <3>1 DEF InHand
    <3>3. FilesKnown'
      <4>1. disk \subseteq Files
        BY DEF TypeOK
      <4> QED
        BY <2>1, <3>1, <3>2, <4>1 DEF FilesKnown
    <3>4. SavedOnce'
      <4>1. \A e \in Deleters : del'[e] # NoRequest => del'[e].file = del[e].file /\ del[e] # NoRequest
        BY <2>1, <3>1, DelShape
      <4> QED
        BY <2>1, <2>2, <3>1, <4>1 DEF SavedOnce
    <3>5. RemovedOnce'
      <4>1. \A e \in Deleters : del[e].pc = "removing" => del[e].file # f /\ del[e].file \in Files
        BY <2>4, DelShape DEF RemovedOnce
      <4>2. \A e \in Deleters : del'[e] # NoRequest => del'[e].file <= drawn'
        BY <2>1, <3>1 DEF RemovedOnce
      <4> QED
        BY <3>1, <4>1, <4>2 DEF RemovedOnce
    <3> QED
      BY <3>3, <3>4, <3>5
  <2> QED
    BY <2>3, <2>4
<1>3. CASE RemoveFile(d)
  <2> PICK f : f = del[d].file
    OBVIOUS
  <2>1. /\ f \in Files /\ del[d].pc = "removing" /\ attached[f] = Nobody
        /\ UNCHANGED <<attached, drawn, req>>
        /\ del'[d] = NoRequest /\ \A e \in Deleters \ {d} : del'[e] = del[e]
    BY <1>3, DelShape DEF RemoveFile, RemovedOnce, TypeOK
  <2>2. \/ disk' = disk \ {f} /\ stray' = stray
        \/ disk' = disk /\ stray' = stray \cup {f}
    BY <1>3 DEF RemoveFile
  <2>3. \A r \in Requests : req[r].pc = "saved" => req[r].file # f
    BY <2>1, DelShape DEF SavedOnce
  <2>4. InHand \ {f} \subseteq InHand'
    BY <2>1 DEF InHand
  <2>5. FilesKnown'
    <3>1. disk \subseteq Files
      BY DEF TypeOK
    <3> QED
      BY <2>1, <2>2, <2>4, <3>1 DEF FilesKnown
  <2>6. SavedOnce'
    BY <2>1, <2>2, <2>3 DEF SavedOnce
  <2>7. RemovedOnce'
    BY <2>1 DEF RemovedOnce, NoRequest
  <2> QED
    BY <2>5, <2>6, <2>7
<1> QED
  BY <1>1, <1>2, <1>3 DEF DeleteAttachment

LEMMA NextFiles == FileInv /\ [Next]_vars => FileInv'
<1> SUFFICES ASSUME FileInv, [Next]_vars
             PROVE  FileInv'
  OBVIOUS
<1>1. TypeOK'
  BY NextType DEF FileInv
<1>2. CASE Crash
  <2>1. /\ UNCHANGED <<attached, disk, drawn>> /\ stray' = stray \cup InHand
        /\ req' = [r \in Requests |-> NoRequest] /\ del' = [d \in Deleters |-> NoRequest]
    BY <1>2 DEF Crash, store
  <2>2. FilesKnown'
    BY <2>1 DEF FileInv, FilesKnown
  <2>3. SavedOnce' /\ RemovedOnce'
    BY <2>1 DEF SavedOnce, RemovedOnce, NoRequest
  <2> QED
    BY <1>1, <2>2, <2>3 DEF FileInv
<1>3. CASE UNCHANGED vars
  <2>1. FilesKnown'
    BY <1>3 DEF FileInv, vars, store, history, FilesKnown, InHand
  <2>2. SavedOnce' /\ RemovedOnce'
    BY <1>3 DEF FileInv, vars, store, history, SavedOnce, RemovedOnce
  <2> QED
    BY <1>1, <2>1, <2>2 DEF FileInv
<1> QED
  BY <1>1, <1>2, <1>3, CreateFiles, DeleteFiles DEF Next, FileInv

LEMMA InitFiles == Init => FileInv
<1> SUFFICES ASSUME Init
             PROVE  FileInv
  OBVIOUS
<1>1. FilesKnown /\ SavedOnce /\ RemovedOnce
  BY DEF Init, FilesKnown, SavedOnce, RemovedOnce, NoRequest
<1> QED
  BY <1>1, InitType DEF FileInv

\* FilesMatchRows, of every number of submissions, deletions, files and faults.
THEOREM RowsHaveFiles == Spec => []FilesMatchRows
<1>1. FileInv => FilesMatchRows
  BY DEF FileInv, FilesKnown, FilesMatchRows
<1> QED
  BY <1>1, InitFiles, NextFiles, PTL DEF Spec

-----------------------------------------------------------------------------
(* What was filed: a filing adds up to the files that came with the form,  *)
(* and a form has one filing at a time whose client waits for the answer.  *)

Filing(r) == req[r].pc \in {"filing", "saved"}

\* The files of owner o that got a row.
Kept(o) == Cardinality(RowsOf(o)) + deleted[o]

Counts ==
    \A o \in Owners :
        /\ Kept(o) <= asked[o]
        /\ outcome[o] = "created" => Kept(o) = asked[o]
        /\ form[o] = Nobody => Kept(o) = 0 /\ outcome[o] = "none"
        /\ form[o] # Nobody /\ outcome[o] = "none" =>
              \E r \in Requests : Filing(r) /\ req[r].owner = o

Filings ==
    \A r \in Requests : Filing(r) =>
        /\ form[req[r].owner] # Nobody
        /\ outcome[req[r].owner] = "none"
        /\ Kept(req[r].owner) + req[r].left = asked[req[r].owner]
        /\ \A s \in Requests : Filing(s) /\ req[s].owner = req[r].owner => s = r

\* What was made of a form failed, or its client gave up on it.
Open(i) == \A o \in MadeFrom(i) : outcome[o] = "error" \/ o \in unheard

\* A form that is checked for a client who waits has nothing under way that
\* another client waits for, and no success that one heard of.
Waits(r) == req[r].pc = "checked" /\ req[r].waits

Pending ==
    \A r \in Requests : Waits(r) =>
        /\ Open(req[r].form)
        /\ \A s \in Requests : Waits(s) /\ req[s].form = req[r].form => s = r

\* Neither an error nor given up.
Counting(o) == outcome[o] # "error" /\ o \notin unheard

Singles ==
    \A i \in Forms : \A o, p \in MadeFrom(i) :
        (Counting(o) /\ Counting(p)) \/ i \in Reviews => o = p

FiledInv == FileInv /\ Counts /\ Filings /\ Pending /\ Singles

LEMMA KeptType == ASSUME TypeOK, NEW o \in Owners
                  PROVE  IsFiniteSet(RowsOf(o)) /\ Cardinality(RowsOf(o)) \in Nat /\ Kept(o) \in Nat
<1>1. IsFiniteSet(Files)
  BY FS_Interval, BoundAssumption DEF Files
<1>2. RowsOf(o) \subseteq Files
  BY DEF RowsOf
<1>3. IsFiniteSet(RowsOf(o)) /\ Cardinality(RowsOf(o)) \in Nat
  BY <1>1, <1>2, FS_Subset, FS_CardinalityType
<1> QED
  BY <1>3 DEF Kept, TypeOK

LEMMA KeptSame == UNCHANGED <<attached, deleted>> => \A o \in Owners : Kept(o)' = Kept(o)
BY DEF Kept, RowsOf

\* A file that gets its row counts once.
LEMMA KeptGrows ==
    ASSUME TypeOK, NEW f \in Files, NEW o \in Owners, attached[f] = Nobody,
           attached' = [attached EXCEPT ![f] = o], UNCHANGED deleted
    PROVE  Kept(o)' = Kept(o) + 1 /\ \A p \in Owners \ {o} : Kept(p)' = Kept(p)
<1>1. RowsOf(o)' = RowsOf(o) \cup {f} /\ f \notin RowsOf(o)
  BY NobodyOwns DEF RowsOf, TypeOK
<1>2. Cardinality(RowsOf(o)') = Cardinality(RowsOf(o)) + 1
  BY <1>1, KeptType, FS_AddElement
<1>3. Kept(o)' = Kept(o) + 1
  BY <1>2, KeptType DEF Kept, TypeOK
<1>4. \A p \in Owners \ {o} : RowsOf(p)' = RowsOf(p)
  BY NobodyOwns DEF RowsOf, TypeOK
<1> QED
  BY <1>3, <1>4 DEF Kept

\* A file that loses its row goes from the rows to the deletions.
LEMMA KeptShifts ==
    ASSUME TypeOK, NEW f \in Files, NEW o \in Owners, attached[f] = o,
           attached' = [attached EXCEPT ![f] = Nobody],
           deleted' = [deleted EXCEPT ![o] = @ + 1]
    PROVE  \A p \in Owners : Kept(p)' = Kept(p)
<1>1. RowsOf(o)' = RowsOf(o) \ {f} /\ f \in RowsOf(o)
  BY NobodyOwns DEF RowsOf, TypeOK
<1>2. Cardinality(RowsOf(o)') = Cardinality(RowsOf(o)) - 1
  BY <1>1, KeptType, FS_RemoveElement
<1>3. Kept(o)' = Kept(o)
  BY <1>2, KeptType DEF Kept, TypeOK
<1>4. \A p \in Owners \ {o} : RowsOf(p)' = RowsOf(p) /\ deleted'[p] = deleted[p]
  BY NobodyOwns DEF RowsOf, TypeOK
<1> QED
  BY <1>3, <1>4 DEF Kept

\* The end of a filing: outcome x, perhaps with one more row.
LEMMA FilingEnds ==
    ASSUME FiledInv, NEW r \in Requests, Filing(r), NEW x \in {"created", "error"},
           NEW o \in Owners, req[r].owner = o,
           outcome' = [outcome EXCEPT ![o] = x], Goes(r, NoRequest),
           UNCHANGED <<form, asked, unheard>>,
           \A p \in Owners : p # o => Kept(p)' = Kept(p),
           Kept(o)' <= asked[o],
           x = "created" => Kept(o)' = asked[o]
    PROVE  Counts' /\ Filings' /\ Pending' /\ Singles'
<1> USE DEF FiledInv, FileInv
<1>1. /\ req'[r] = NoRequest /\ \A s \in Requests \ {r} : req'[s] = req[s]
      /\ outcome'[o] = x /\ \A p \in Owners \ {o} : outcome'[p] = outcome[p]
  BY DEF Goes, TypeOK
<1>2. NoRequest.pc \notin {"checked", "filing", "saved"}
  BY DEF NoRequest
<1>3. form[o] # Nobody /\ outcome[o] = "none" /\ \A s \in Requests : Filing(s) /\ req[s].owner = o => s = r
  BY DEF Filings
<1>4. \A s \in Requests : Filing(s)' => s # r /\ Filing(s) /\ req'[s] = req[s] /\ req[s].owner \in Owners \ {o}
  BY <1>1, <1>2, <1>3, ReqShape DEF Filing
<1>5. Counts'
  <2> SUFFICES ASSUME NEW p \in Owners
               PROVE  /\ Kept(p)' <= asked[p]
                      /\ outcome'[p] = "created" => Kept(p)' = asked[p]
                      /\ form[p] = Nobody => Kept(p)' = 0 /\ outcome'[p] = "none"
                      /\ form[p] # Nobody /\ outcome'[p] = "none" =>
                            \E s \in Requests : Filing(s)' /\ req'[s].owner = p
    BY DEF Counts
  <2>1. CASE p = o
    BY <1>1, <1>3, <2>1
  <2>2. CASE p # o
    <3>1. outcome'[p] = outcome[p] /\ Kept(p)' = Kept(p)
      BY <1>1, <2>2
    <3>2. \A s \in Requests : Filing(s) /\ req[s].owner = p => Filing(s)' /\ req'[s].owner = p
      BY <1>1, <2>2 DEF Filing
    <3> QED
      BY <3>1, <3>2 DEF Counts
  <2> QED
    BY <2>1, <2>2
<1>6. Filings'
  BY <1>1, <1>4 DEF Filings
<1>7. Pending'
  <2>1. \A s \in Requests : Waits(s)' => Waits(s) /\ req'[s] = req[s]
    BY <1>1, <1>2 DEF Waits
  <2>2. \A i : Open(i) => Open(i)'
    BY <1>1, <1>3 DEF Open, MadeFrom
  <2> QED
    BY <2>1, <2>2 DEF Pending
<1>8. Singles'
  BY <1>1, <1>3 DEF Singles, Counting, MadeFrom
<1> QED
  BY <1>5, <1>6, <1>7, <1>8

\* A filing that goes on, perhaps with one more row.
LEMMA FilingGoes ==
    ASSUME FiledInv, NEW r \in Requests, Filing(r), NEW locals, Goes(r, locals),
           NEW o \in Owners, req[r].owner = o,
           locals.pc \in {"filing", "saved"}, locals.owner = o,
           Kept(o)' + locals.left = Kept(o) + req[r].left, Kept(o)' <= asked[o],
           UNCHANGED <<form, asked, outcome, unheard>>,
           \A p \in Owners : p # o => Kept(p)' = Kept(p)
    PROVE  Counts' /\ Filings' /\ Pending' /\ Singles'
<1> USE DEF FiledInv, FileInv
<1>1. req'[r] = locals /\ \A s \in Requests \ {r} : req'[s] = req[s]
  BY DEF Goes, TypeOK
<1>2. form[o] # Nobody /\ outcome[o] = "none" /\ \A s \in Requests : Filing(s) /\ req[s].owner = o => s = r
  BY DEF Filings
<1>3. \A s \in Requests : (Filing(s)' <=> Filing(s)) /\ (Filing(s) => req'[s].owner = req[s].owner)
  BY <1>1 DEF Filing
<1>4. \A s \in Requests : req'[s].pc = "checked" => s # r /\ req'[s] = req[s]
  BY <1>1
<1>5. Counts'
  BY <1>2, <1>3 DEF Counts
<1>6. Filings'
  <2> SUFFICES ASSUME NEW s \in Requests, Filing(s)
               PROVE  /\ form[req[s].owner] # Nobody
                      /\ outcome[req[s].owner] = "none"
                      /\ \A q \in Owners : q = req[s].owner => Kept(q)' + req'[s].left = asked[q]
                      /\ \A t \in Requests : Filing(t) /\ req[t].owner = req[s].owner => t = s
                      /\ req[s].owner \in Owners
    BY <1>3 DEF Filings
  <2>1. req[s].owner \in Owners
    BY ReqShape DEF Filing
  <2>2. \A q \in Owners : q = req[s].owner => Kept(q)' + req'[s].left = asked[q]
    <3>1. CASE s = r
      BY <1>1, <3>1 DEF Filings
    <3>2. CASE s # r
      <4>1. req[s].owner # o /\ req'[s] = req[s]
        BY <1>1, <1>2, <3>2
      <4> QED
        BY <2>1, <4>1 DEF Filings
    <3> QED
      BY <3>1, <3>2
  <2> QED
    BY <2>1, <2>2 DEF Filings
<1>7. Pending'
  <2>1. \A s \in Requests : Waits(s)' => Waits(s) /\ req'[s] = req[s]
    BY <1>4 DEF Waits
  <2>2. \A i : Open(i)' <=> Open(i)
    BY DEF Open, MadeFrom
  <2> QED
    BY <2>1, <2>2 DEF Pending
<1>8. Singles'
  BY DEF Singles, Counting, MadeFrom
<1> QED
  BY <1>5, <1>6, <1>7, <1>8

\* A step that leaves rows and filings as they are, checks no form, and may let
\* a client give up.
LEMMA FiledStays ==
    ASSUME FiledInv, UNCHANGED <<form, asked, outcome>>, unheard \subseteq unheard',
           \A o \in Owners : Kept(o)' = Kept(o),
           \A s \in Requests : \/ req'[s] = req[s]
                               \/ ~Filing(s) /\ ~Filing(s)' /\ ~Waits(s)'
    PROVE  Counts' /\ Filings' /\ Pending' /\ Singles'
<1> USE DEF FiledInv, FileInv
<1>1. \A s \in Requests : (Filing(s)' <=> Filing(s)) /\ (Filing(s) => req'[s] = req[s])
  BY DEF Filing
<1>2. \A s \in Requests : Waits(s)' => Waits(s) /\ req'[s] = req[s]
  BY DEF Waits
<1>3. Counts'
  BY <1>1 DEF Counts
<1>4. Filings'
  <2>1. \A s \in Requests : Filing(s) => req[s].owner \in Owners
    BY ReqShape DEF Filing
  <2> QED
    BY <1>1, <2>1 DEF Filings
<1>5. Pending'
  <2>1. \A i : Open(i) => Open(i)'
    BY DEF Open, MadeFrom
  <2> QED
    BY <1>2, <2>1 DEF Pending
<1>6. Singles'
  BY DEF Singles, Counting, MadeFrom
<1> QED
  BY <1>3, <1>4, <1>5, <1>6

LEMMA SubmitFiled ==
    ASSUME FiledInv, NEW r \in Requests, NEW i \in Forms, NEW n, NEW b, Submit(r, i, n, b)
    PROVE  Counts' /\ Filings' /\ Pending' /\ Singles'
<1> USE DEF FiledInv, FileInv
<1>1. /\ UNCHANGED <<form, attached, deleted, asked, outcome, unheard>> /\ req[r] = NoRequest
      /\ req'[r].pc = "checked" /\ req'[r].form = i
      /\ \A s \in Requests \ {r} : req'[s] = req[s]
  BY DEF Submit, Goes, TypeOK, store, history
<1>2. \A o \in Owners : Kept(o)' = Kept(o)
  BY <1>1, KeptSame
<1>3. \A s \in Requests : (Filing(s)' <=> Filing(s)) /\ (Filing(s) => req'[s] = req[s])
  BY <1>1 DEF Filing, NoRequest
<1>4. Counts'
  BY <1>1, <1>2, <1>3 DEF Counts
<1>5. Filings'
  <2>1. \A s \in Requests : Filing(s) => req[s].owner \in Owners
    BY ReqShape DEF Filing
  <2> QED
    BY <1>1, <1>2, <1>3, <2>1 DEF Filings
<1>6. Pending'
  <2>1. Open(i) /\ \A s \in Requests : Waits(s) => req[s].form # i
    BY DEF Submit, Settled, Open, Waits
  <2>2. \A s \in Requests \ {r} : Waits(s)' => Waits(s) /\ req'[s] = req[s]
    BY <1>1 DEF Waits
  <2>3. \A j : Open(j) => \A p \in Owners : form'[p] = j => outcome'[p] = "error" \/ p \in unheard'
    BY <1>1 DEF Open, MadeFrom
  <2> SUFFICES ASSUME NEW s \in Requests, Waits(s)'
               PROVE  /\ \A p \in Owners : form'[p] = req'[s].form => outcome'[p] = "error" \/ p \in unheard'
                      /\ \A t \in Requests : Waits(t)' /\ req'[t].form = req'[s].form => t = s
    BY DEF Pending, Open, MadeFrom
  <2>4. CASE s = r
    BY <1>1, <2>1, <2>2, <2>3, <2>4
  <2>5. CASE s # r
    BY <1>1, <2>1, <2>2, <2>3, <2>5 DEF Pending
  <2> QED
    BY <2>4, <2>5
<1>7. Singles'
  BY <1>1 DEF Singles, Counting, MadeFrom
<1> QED
  BY <1>4, <1>5, <1>6, <1>7

\* The row of a ticket or a review: if the client waits, the form has none that
\* another client waits for or heard of.
LEMMA InsertFiled ==
    ASSUME FiledInv, NEW r \in Requests, Insert(r)
    PROVE  Counts' /\ Filings' /\ Pending' /\ Singles'
<1> USE DEF FiledInv, FileInv
<1> PICK i : i = req[r].form
  OBVIOUS
<1>0. /\ UNCHANGED <<attached, deleted>> /\ req[r].pc = "checked" /\ i \in Forms
      /\ req[r].left \in Nat /\ i # Nobody
  BY ReqShape, FormAssumption DEF Insert
<1>1. \A o \in Owners : Kept(o)' = Kept(o)
  BY <1>0, KeptSame
<1>2. CASE Goes(r, NoRequest) /\ UNCHANGED <<form, asked, outcome, unheard>>
  <2>1. \A s \in Requests : \/ req'[s] = req[s]
                            \/ ~Filing(s) /\ ~Filing(s)' /\ ~Waits(s)'
    BY <1>0, <1>2 DEF TypeOK, Filing, Waits, NoRequest, Goes
  <2> QED
    BY <1>1, <1>2, <2>1, FiledStays
<1>3. CASE /\ ~Taken(i)
           /\ \E o \in Owners :
               /\ form[o] = Nobody
               /\ form' = [form EXCEPT ![o] = i]
               /\ asked' = [asked EXCEPT ![o] = req[r].left]
               /\ unheard' = IF ~req[r].waits THEN unheard \cup {o} ELSE unheard
               /\ \/ /\ Goes(r, [pc |-> "filing", owner |-> o,
                                 left |-> req[r].left, bad |-> req[r].bad])
                     /\ UNCHANGED outcome
                  \/ /\ outcome' = [outcome EXCEPT ![o] = "error"]
                     /\ Goes(r, NoRequest)
  <2>1. PICK o \in Owners :
               /\ form[o] = Nobody
               /\ form' = [form EXCEPT ![o] = i]
               /\ asked' = [asked EXCEPT ![o] = req[r].left]
               /\ unheard' = IF ~req[r].waits THEN unheard \cup {o} ELSE unheard
               /\ \/ /\ Goes(r, [pc |-> "filing", owner |-> o,
                                 left |-> req[r].left, bad |-> req[r].bad])
                     /\ UNCHANGED outcome
                  \/ /\ outcome' = [outcome EXCEPT ![o] = "error"]
                     /\ Goes(r, NoRequest)
    BY <1>3
  <2>2. /\ form'[o] = i /\ asked'[o] = req[r].left
        /\ \A p \in Owners \ {o} : form'[p] = form[p] /\ asked'[p] = asked[p] /\ outcome'[p] = outcome[p]
        /\ \A s \in Requests \ {r} : req'[s] = req[s]
    BY <2>1 DEF TypeOK, Goes
  <2>3. /\ Kept(o) = 0 /\ outcome[o] = "none"
        /\ \A s \in Requests : Filing(s) => req[s].owner # o /\ req[s].owner \in Owners
    BY <2>1, ReqShape DEF Counts, Filings, Filing
  <2>4. \/ /\ req'[r].pc = "filing" /\ req'[r].owner = o /\ req'[r].left = req[r].left
           /\ outcome'[o] = "none"
        \/ req'[r] = NoRequest /\ outcome'[o] = "error"
    BY <2>1, <2>3 DEF TypeOK, Goes
  <2>5. \A s \in Requests : \/ s = r
                            \/ (Filing(s)' <=> Filing(s)) /\ req'[s] = req[s]
    BY <2>2 DEF Filing
  <2>6. req'[r].pc # "checked" /\ ~Filing(r)
    BY <1>0, <2>4 DEF NoRequest, Filing
  <2>7. Filing(r)' => req'[r].owner = o /\ req'[r].left = req[r].left /\ outcome'[o] = "none"
    BY <2>4 DEF Filing, NoRequest
  <2>8. outcome'[o] = "none" => Filing(r)' /\ req'[r].owner = o
    BY <2>4 DEF Filing
  <2>9. outcome'[o] # "created"
    BY <2>4
  <2>10. Counts'
    <3> SUFFICES ASSUME NEW p \in Owners
                 PROVE  /\ Kept(p)' <= asked'[p]
                        /\ outcome'[p] = "created" => Kept(p)' = asked'[p]
                        /\ form'[p] = Nobody => Kept(p)' = 0 /\ outcome'[p] = "none"
                        /\ form'[p] # Nobody /\ outcome'[p] = "none" =>
                              \E s \in Requests : Filing(s)' /\ req'[s].owner = p
      BY DEF Counts
    <3>1. CASE p = o
      BY <1>0, <1>1, <2>2, <2>3, <2>8, <2>9, <3>1
    <3>2. CASE p # o
      <4>1. \A s \in Requests : Filing(s) /\ req[s].owner = p => Filing(s)' /\ req'[s].owner = p
        BY <2>5, <2>6
      <4> QED
        BY <1>1, <2>2, <3>2, <4>1 DEF Counts
    <3> QED
      BY <3>1, <3>2
  <2>11. Filings'
    <3> SUFFICES ASSUME NEW s \in Requests, Filing(s)',
                        NEW q \in Owners, q = req'[s].owner
                 PROVE  /\ form'[q] # Nobody
                        /\ outcome'[q] = "none"
                        /\ Kept(q)' + req'[s].left = asked'[q]
                        /\ \A t \in Requests : Filing(t)' /\ req'[t].owner = q => t = s
      <4>1. \A s \in Requests : Filing(s)' => req'[s].owner \in Owners
        BY <2>3, <2>5, <2>7
      <4> QED
        BY <4>1 DEF Filings
    <3>1. CASE s = r
      BY <1>0, <1>1, <2>2, <2>3, <2>5, <2>7, <3>1
    <3>2. CASE s # r
      <4>1. q # o /\ Filing(s) /\ req'[s] = req[s] /\ req[s].owner = q
        BY <2>3, <2>5, <3>2
      <4> QED
        BY <1>1, <2>2, <2>5, <2>7, <4>1 DEF Filings
    <3> QED
      BY <3>1, <3>2
  <2>12. /\ ~Waits(r)'
         /\ \A s \in Requests \ {r} : Waits(s)' => Waits(s) /\ req'[s] = req[s]
    BY <2>2, <2>6 DEF Waits
  <2>13. Pending'
    <3> SUFFICES ASSUME NEW s \in Requests, Waits(s)'
                 PROVE  /\ \A p \in Owners : form'[p] = req'[s].form => outcome'[p] = "error" \/ p \in unheard'
                        /\ \A t \in Requests : Waits(t)' /\ req'[t].form = req'[s].form => t = s
      BY DEF Pending, Open, MadeFrom
    <3>1. s # r /\ Waits(s) /\ req'[s] = req[s] /\ Open(req[s].form)
      BY <2>12 DEF Pending
    <3>2. o \in unheard' \/ req[s].form # i
      BY <1>0, <2>1, <3>1 DEF Pending, Waits
    <3>3. \A p \in Owners \ {o} : p \in unheard => p \in unheard'
      BY <2>1
    <3>4. \A p \in Owners : form'[p] = req'[s].form => outcome'[p] = "error" \/ p \in unheard'
      BY <2>2, <3>1, <3>2, <3>3 DEF Open, MadeFrom
    <3> QED
      BY <2>12, <3>1, <3>4 DEF Pending
  <2>14. Singles'
    <3> SUFFICES ASSUME NEW j \in Forms, NEW p \in Owners, NEW q \in Owners,
                        form'[p] = j, form'[q] = j,
                        (Counting(p)' /\ Counting(q)') \/ j \in Reviews
                 PROVE  p = q
      BY DEF Singles, MadeFrom
    <3>1. \A u \in Owners \ {o} : Counting(u)' => Counting(u)
      BY <2>1, <2>2 DEF Counting
    <3>2. ASSUME NEW u \in Owners \ {o}, form'[u] = i, Counting(u)', Counting(o)'
          PROVE  FALSE
      <4>1. Waits(r) /\ form[u] = i /\ Counting(u)
        BY <1>0, <2>1, <2>2, <3>1, <3>2 DEF Counting, Waits, TypeOK
      <4>2. Open(i)
        BY <4>1 DEF Pending
      <4> QED
        BY <4>1, <4>2 DEF Open, Counting, MadeFrom
    <3>3. CASE p # o /\ q # o
      BY <2>2, <3>1, <3>3 DEF Singles, MadeFrom
    <3>4. CASE p = o /\ q # o
      BY <1>3, <2>2, <3>2, <3>4 DEF Taken, MadeFrom
    <3>5. CASE p # o /\ q = o
      BY <1>3, <2>2, <3>2, <3>5 DEF Taken, MadeFrom
    <3> QED
      BY <3>3, <3>4, <3>5
  <2> QED
    BY <2>10, <2>11, <2>13, <2>14
<1> QED
  BY <1>2, <1>3 DEF Insert

LEMMA CreateFiled ==
    ASSUME FiledInv, NEW r \in Requests, Create(r)
    PROVE  Counts' /\ Filings' /\ Pending' /\ Singles'
<1> USE DEF FiledInv, FileInv
<1>1. ASSUME Filing(r)
      PROVE  \E o \in Owners : /\ req[r].owner = o /\ Kept(o) \in Nat
                               /\ Kept(o) + req[r].left = asked[o]
                               /\ req[r].left \in Nat
                               /\ req[r].pc = "saved" => req[r].left > 0
  <2>1. req[r].owner \in Owners /\ req[r].left \in Nat /\ (req[r].pc = "saved" => req[r].left > 0)
    BY <1>1, ReqShape, BoundAssumption DEF Filing
  <2> QED
    BY <1>1, <2>1, KeptType DEF Filings
<1>2. ASSUME Filing(r), Fails(r), UNCHANGED <<form, asked, unheard, attached, deleted>>
      PROVE  Counts' /\ Filings' /\ Pending' /\ Singles'
  <2>1. PICK o \in Owners : req[r].owner = o /\ Kept(o) \in Nat /\ Kept(o) <= asked[o]
    BY <1>1, <1>2
  <2>2. \A p \in Owners : Kept(p)' = Kept(p)
    BY <1>2, KeptSame
  <2>3. /\ outcome' = [outcome EXCEPT ![o] = "error"] /\ Goes(r, NoRequest)
        /\ "error" \in {"created", "error"} /\ "error" # "created"
    BY <1>2, <2>1 DEF Fails
  <2> QED
    BY <1>2, <2>1, <2>2, <2>3, FilingEnds
<1>3. CASE Refuse(r)
  BY <1>2, <1>3 DEF Refuse, Filing, store
<1>4. CASE Save(r)
  <2>1. Filing(r) /\ UNCHANGED <<form, asked, unheard, attached, deleted>>
    BY <1>4 DEF Save, Filing
  <2>2. CASE Goes(r, [pc |-> "saved", owner |-> req[r].owner, left |-> req[r].left,
                      bad |-> req[r].bad, file |-> drawn + 1]) /\ UNCHANGED outcome
    <3>1. PICK o \in Owners : req[r].owner = o /\ Kept(o) \in Nat /\ Kept(o) <= asked[o]
      BY <1>1, <2>1
    <3>2. \A p \in Owners : Kept(p)' = Kept(p)
      BY <2>1, KeptSame
    <3>3. PICK locals : /\ Goes(r, locals) /\ locals.pc = "saved" /\ locals.owner = o
                        /\ locals.left = req[r].left
      BY <2>2, <3>1
    <3> QED
      BY <2>1, <2>2, <3>1, <3>2, <3>3, FilingGoes
  <2> QED
    BY <1>2, <1>4, <2>1, <2>2 DEF Save
<1>5. CASE Record(r)
  <2>1. /\ Filing(r) /\ req[r].pc = "saved" /\ UNCHANGED <<form, asked, unheard, deleted, outcome>>
        /\ attached' = [attached EXCEPT ![req[r].file] = req[r].owner]
        /\ req[r].file \in Files /\ attached[req[r].file] = Nobody
    BY <1>5, ReqShape DEF Record, Filing, SavedOnce, history
  <2>2. PICK o \in Owners : /\ req[r].owner = o /\ Kept(o) \in Nat
                            /\ Kept(o) + req[r].left = asked[o]
                            /\ req[r].left \in Nat /\ req[r].left > 0
    BY <1>1, <2>1
  <2>3. Kept(o)' = Kept(o) + 1 /\ \A p \in Owners \ {o} : Kept(p)' = Kept(p)
    BY <2>1, <2>2, KeptGrows
  <2>4. PICK locals : /\ Goes(r, locals) /\ locals.pc = "filing" /\ locals.owner = o
                      /\ locals.left = req[r].left - 1
    BY <1>5, <2>2 DEF Record
  <2>5. Kept(o)' + locals.left = Kept(o) + req[r].left /\ Kept(o)' <= asked[o]
    BY <2>2, <2>3, <2>4
  <2> QED
    BY <2>1, <2>2, <2>3, <2>4, <2>5, FilingGoes
<1>6. CASE RecordFails(r)
  <2>1. /\ Filing(r) /\ req[r].pc = "saved" /\ UNCHANGED <<form, asked, unheard, deleted>>
        /\ req[r].file \in Files /\ attached[req[r].file] = Nobody /\ Fails(r)
    BY <1>6, ReqShape DEF RecordFails, Filing, SavedOnce
  <2>2. CASE attached' = attached
    BY <1>2, <2>1, <2>2
  <2>3. CASE attached' = [attached EXCEPT ![req[r].file] = req[r].owner]
    <3>1. PICK o \in Owners : /\ req[r].owner = o /\ Kept(o) \in Nat
                              /\ Kept(o) + req[r].left = asked[o]
                              /\ req[r].left \in Nat /\ req[r].left > 0
      BY <1>1, <2>1
    <3>2. Kept(o)' = Kept(o) + 1 /\ \A p \in Owners \ {o} : Kept(p)' = Kept(p)
      BY <2>1, <2>3, <3>1, KeptGrows
    <3>3. /\ outcome' = [outcome EXCEPT ![o] = "error"] /\ Goes(r, NoRequest)
          /\ "error" \in {"created", "error"} /\ "error" # "created"
          /\ Kept(o)' <= asked[o]
      BY <2>1, <3>1, <3>2 DEF Fails
    <3> QED
      BY <2>1, <3>1, <3>2, <3>3, FilingEnds
  <2> QED
    BY <1>6, <2>2, <2>3 DEF RecordFails
<1>7. CASE Answer(r)
  <2>1. Filing(r) /\ req[r].left = 0 /\ UNCHANGED <<form, asked, unheard, attached, deleted>>
    BY <1>7 DEF Answer, Filing, store
  <2>2. PICK o \in Owners : req[r].owner = o /\ Kept(o) \in Nat /\ Kept(o) = asked[o]
    BY <1>1, <2>1
  <2>3. \A p \in Owners : Kept(p)' = Kept(p)
    BY <2>1, KeptSame
  <2>4. outcome' = [outcome EXCEPT ![o] = "created"] /\ Goes(r, NoRequest) /\ "created" \in {"created", "error"}
    BY <1>7, <2>2 DEF Answer
  <2>5. Kept(o)' <= asked[o] /\ Kept(o)' = asked[o]
    BY <2>2, <2>3
  <2> QED
    BY <2>1, <2>2, <2>3, <2>4, <2>5, FilingEnds
<1>8. CASE GiveUp(r)
  <2>1. UNCHANGED <<form, asked, outcome, attached, deleted>> /\ unheard \subseteq unheard'
    BY <1>8 DEF GiveUp, store
  <2>2. \A s \in Requests : \/ req'[s] = req[s]
                            \/ ~Filing(s) /\ ~Filing(s)' /\ ~Waits(s)'
    BY <1>8 DEF GiveUp, Goes, TypeOK, Filing, Waits
  <2>3. \A o \in Owners : Kept(o)' = Kept(o)
    BY <2>1, KeptSame
  <2> QED
    BY <2>1, <2>2, <2>3, FiledStays
<1> QED
  BY <1>3, <1>4, <1>5, <1>6, <1>7, <1>8, SubmitFiled, InsertFiled DEF Create

LEMMA DeleteFiled ==
    ASSUME FiledInv, NEW d \in Deleters, DeleteAttachment(d)
    PROVE  Counts' /\ Filings' /\ Pending' /\ Singles'
<1>1. UNCHANGED <<form, asked, outcome, unheard, req>>
  BY DEF DeleteAttachment, LoadAttachment, DeleteRow, RemoveFile, store, history
<1>2. \A o \in Owners : Kept(o)' = Kept(o)
  <2>1. CASE UNCHANGED <<attached, deleted>>
    BY <2>1, KeptSame
  <2>2. CASE DeleteRow(d) /\ attached[del[d].file] # Nobody
    <3>1. del[d].file \in Files /\ attached[del[d].file] \in Owners
      BY <2>2, DelShape DEF DeleteRow, FiledInv, FileInv, TypeOK
    <3> QED
      BY <2>2, <3>1, KeptShifts DEF DeleteRow, FiledInv, FileInv
  <2> QED
    BY <2>1, <2>2 DEF DeleteAttachment, LoadAttachment, DeleteRow, RemoveFile, store, history
<1> QED
  BY <1>1, <1>2, FiledStays

\* A crash answers every filing with an error.
LEMMA CrashFiled ==
    ASSUME FiledInv, Crash
    PROVE  Counts' /\ Filings' /\ Pending' /\ Singles'
<1> USE DEF FiledInv, FileInv
<1>1. /\ UNCHANGED <<form, asked, unheard, attached, deleted>>
      /\ \A s \in Requests : req'[s].pc \notin {"checked", "filing", "saved"}
  BY DEF Crash, store, NoRequest
<1>2. \A o \in Owners : Kept(o)' = Kept(o)
  BY <1>1, KeptSame
<1>3. \A o \in Owners :
         outcome'[o] = IF \E r \in Requests : Filing(r) /\ req[r].owner = o THEN "error" ELSE outcome[o]
  BY DEF Crash, Filing
<1>4. Counts'
  <2> SUFFICES ASSUME NEW o \in Owners
               PROVE  /\ Kept(o)' <= asked[o]
                      /\ outcome'[o] = "created" => Kept(o)' = asked[o]
                      /\ form[o] = Nobody => Kept(o)' = 0 /\ outcome'[o] = "none"
                      /\ form[o] # Nobody => outcome'[o] # "none"
    BY <1>1 DEF Counts
  <2>1. CASE \E r \in Requests : Filing(r) /\ req[r].owner = o
    <3>1. outcome'[o] = "error" /\ form[o] # Nobody
      BY <1>3, <2>1 DEF Filings
    <3> QED
      BY <1>2, <3>1 DEF Counts
  <2>2. CASE ~\E r \in Requests : Filing(r) /\ req[r].owner = o
    BY <1>2, <1>3, <2>2 DEF Counts
  <2> QED
    BY <2>1, <2>2
<1>5. Filings' /\ Pending'
  BY <1>1 DEF Filings, Filing, Pending, Waits
<1>6. Singles'
  <2>1. \A o \in Owners : outcome'[o] # "error" => outcome[o] # "error"
    BY <1>3
  <2> QED
    BY <1>1, <2>1 DEF Singles, Counting, MadeFrom
<1> QED
  BY <1>4, <1>5, <1>6

LEMMA NextFiled == FiledInv /\ [Next]_vars => FiledInv'
<1> SUFFICES ASSUME FiledInv, [Next]_vars
             PROVE  FiledInv'
  OBVIOUS
<1>1. FileInv'
  BY NextFiles DEF FiledInv
<1>2. CASE UNCHANGED vars
  <2>1. UNCHANGED <<form, asked, outcome, unheard, req, attached, deleted>>
    BY <1>2 DEF vars, store, history
  <2>2. \A o \in Owners : Kept(o)' = Kept(o)
    BY <2>1, KeptSame
  <2> QED
    BY <1>1, <2>1, <2>2, FiledStays DEF FiledInv
<1> QED
  BY <1>1, <1>2, CreateFiled, DeleteFiled, CrashFiled DEF Next, FiledInv

LEMMA InitFiled == Init => FiledInv
<1> SUFFICES ASSUME Init
             PROVE  FiledInv
  OBVIOUS
<1>1. FileInv
  BY InitFiles
<1>2. \A o \in Owners : Kept(o) = 0
  <2>1. \A o \in Owners : RowsOf(o) = {}
    BY NobodyOwns DEF Init, RowsOf
  <2> QED
    BY <2>1, FS_EmptySet DEF Kept, Init
<1>3. Counts
  BY <1>2 DEF Counts, Init
<1>4. Filings /\ Pending
  BY DEF Init, Filings, Filing, Pending, Waits, NoRequest
<1>5. Singles
  BY FormAssumption DEF Init, Singles, MadeFrom
<1> QED
  BY <1>1, <1>3, <1>4, <1>5 DEF FiledInv

LEMMA AtMostOne ==
    ASSUME NEW S, \A x, y \in S : x = y
    PROVE  Cardinality(S) <= 1
<1>1. CASE S = {}
  BY <1>1, FS_EmptySet
<1>2. CASE S # {}
  <2>1. PICK x : S = {x}
    BY <1>2
  <2> QED
    BY <2>1, FS_Singleton
<1> QED
  BY <1>1, <1>2

-----------------------------------------------------------------------------
(* Every answer that a client gave up on is a fault.                       *)

\* Submissions that are given up before they have a row.
Gone == { r \in Requests : req[r].pc = "checked" /\ ~req[r].waits }

Lost == Cardinality(unheard) + Cardinality(Gone) <= faults

LostInv == TypeOK /\ Lost

LEMMA LostType ==
    ASSUME TypeOK
    PROVE  /\ IsFiniteSet(unheard) /\ Cardinality(unheard) \in Nat
           /\ IsFiniteSet(Gone) /\ Cardinality(Gone) \in Nat
           /\ faults \in Nat
<1>1. IsFiniteSet(Owners)
  BY FS_Interval, BoundAssumption DEF Owners
<1>2. unheard \subseteq Owners /\ Gone \subseteq Requests
  BY DEF TypeOK, Gone
<1>3. IsFiniteSet(unheard) /\ IsFiniteSet(Gone)
  BY <1>1, <1>2, PeerAssumption, FS_Subset
<1> QED
  BY <1>3, FS_CardinalityType DEF TypeOK

LEMMA GrowsByOne ==
    ASSUME NEW S, IsFiniteSet(S), NEW x
    PROVE  /\ Cardinality(S \cup {x}) \in Nat
           /\ Cardinality(S \cup {x}) <= Cardinality(S) + 1
<1>1. IsFiniteSet(S \cup {x}) /\ Cardinality(S) \in Nat
  BY FS_AddElement, FS_CardinalityType
<1>2. CASE x \in S
  <2>1. S \cup {x} = S
    BY <1>2
  <2> QED
    BY <1>1, <2>1
<1>3. CASE x \notin S
  <2>1. Cardinality(S \cup {x}) = Cardinality(S) + 1
    BY <1>3, FS_AddElement
  <2> QED
    BY <1>1, <2>1
<1> QED
  BY <1>2, <1>3

\* A step after which no more is lost than before.
LEMMA NothingLost ==
    ASSUME LostInv, TypeOK', unheard' = unheard, Gone' \subseteq Gone,
           faults' = faults \/ faults' = faults + 1
    PROVE  Lost'
<1>1. Cardinality(Gone') \in Nat /\ Cardinality(Gone') <= Cardinality(Gone)
  BY LostType, FS_Subset, FS_CardinalityType DEF LostInv
<1>2. Cardinality(unheard') = Cardinality(unheard)
  OBVIOUS
<1> QED
  BY <1>1, <1>2, LostType DEF LostInv, Lost

LEMMA GiveUpLost ==
    ASSUME LostInv, TypeOK', NEW r \in Requests, GiveUp(r)
    PROVE  Lost'
<1> USE DEF LostInv
<1>1. faults' = faults + 1
  BY DEF GiveUp, Fault
<1>2. CASE req[r].pc = "checked"
  <2>1. /\ unheard' = unheard /\ req'[r].pc = "checked" /\ ~req'[r].waits
        /\ \A s \in Requests \ {r} : req'[s] = req[s]
    BY <1>2 DEF GiveUp, Goes, TypeOK
  <2>2. Gone' = Gone \cup {r}
    BY <1>2, <2>1 DEF Gone
  <2>3. Cardinality(Gone') \in Nat /\ Cardinality(Gone') <= Cardinality(Gone) + 1
    BY <2>2, LostType, GrowsByOne
  <2>4. Cardinality(unheard') = Cardinality(unheard)
    BY <2>1
  <2> QED
    BY <1>1, <2>3, <2>4, LostType DEF Lost
<1>3. CASE req[r].pc # "checked"
  <2>1. unheard' = unheard \cup {req[r].owner} /\ req' = req
    BY <1>3 DEF GiveUp
  <2>2. Cardinality(unheard') \in Nat /\ Cardinality(unheard') <= Cardinality(unheard) + 1
    BY <2>1, LostType, GrowsByOne
  <2>3. Cardinality(Gone') = Cardinality(Gone)
    BY <2>1 DEF Gone
  <2> QED
    BY <1>1, <2>2, <2>3, LostType DEF Lost
<1> QED
  BY <1>2, <1>3

\* The row that a submission makes after its client is gone takes its place.
LEMMA InsertLost ==
    ASSUME LostInv, TypeOK', NEW r \in Requests, Insert(r)
    PROVE  Lost'
<1> USE DEF LostInv
<1>1. /\ req[r].pc = "checked" /\ req'[r].pc # "checked"
      /\ \A s \in Requests \ {r} : req'[s] = req[s]
  BY DEF Insert, Goes, TypeOK, NoRequest
<1>2. Gone' = Gone \ {r}
  BY <1>1 DEF Gone
<1>3. faults' = faults \/ faults' = faults + 1
  BY DEF Insert, Breaks, Fault
<1>4. CASE unheard' = unheard
  BY <1>2, <1>3, <1>4, NothingLost
<1>5. CASE ~req[r].waits /\ \E o \in Owners : unheard' = unheard \cup {o}
  <2>1. PICK o \in Owners : unheard' = unheard \cup {o}
    BY <1>5
  <2>2. Cardinality(unheard') \in Nat /\ Cardinality(unheard') <= Cardinality(unheard) + 1
    BY <2>1, LostType, GrowsByOne
  <2>3. r \in Gone
    BY <1>1, <1>5 DEF Gone
  <2>4. Cardinality(Gone \ {r}) = Cardinality(Gone) - 1
    BY <2>3, LostType, FS_RemoveElement
  <2>5. Cardinality(Gone') = Cardinality(Gone) - 1
    BY <1>2, <2>4
  <2>6. Cardinality(unheard) + Cardinality(Gone) <= faults
    BY DEF Lost
  <2>7. Cardinality(unheard') + Cardinality(Gone') <= faults'
    BY <1>3, <2>2, <2>5, <2>6, LostType
  <2> QED
    BY <2>7 DEF Lost
<1> QED
  BY <1>4, <1>5 DEF Insert

LEMMA NextLost == LostInv /\ [Next]_vars => LostInv'
<1> SUFFICES ASSUME LostInv, [Next]_vars
             PROVE  LostInv'
  OBVIOUS
<1> USE DEF LostInv
<1>1. TypeOK'
  BY NextType
<1>2. ASSUME NEW r \in Requests, Create(r), ~GiveUp(r), ~Insert(r)
      PROVE  Lost'
  <2>1. unheard' = unheard /\ (faults' = faults \/ Fault)
    BY <1>2 DEF Create, Submit, Refuse, Save, Record, RecordFails, Breaks, Answer, store, history
  <2>2. /\ \A s \in Requests \ {r} : req'[s] = req[s]
        /\ req'[r].pc = "checked" => req'[r].waits
    BY <1>2 DEF Create, Submit, Refuse, Save, Record, RecordFails, Answer, Fails, Goes, TypeOK, NoRequest
  <2>3. Gone' \subseteq Gone
    BY <2>2 DEF Gone
  <2> QED
    BY <1>1, <2>1, <2>3, NothingLost DEF Fault
<1>3. ASSUME NEW d \in Deleters, DeleteAttachment(d)
      PROVE  Lost'
  <2>1. unheard' = unheard /\ req' = req /\ (faults' = faults \/ Fault)
    BY <1>3 DEF DeleteAttachment, LoadAttachment, DeleteRow, RemoveFile, history
  <2>2. Gone' = Gone
    BY <2>1 DEF Gone
  <2> QED
    BY <1>1, <2>1, <2>2, NothingLost DEF Fault
<1>4. CASE Crash
  <2>1. unheard' = unheard /\ Gone' = {} /\ faults' = faults + 1
    BY <1>4 DEF Crash, Fault, Gone, NoRequest
  <2>2. Gone' \subseteq Gone
    BY <2>1
  <2> QED
    BY <1>1, <2>1, <2>2, NothingLost
<1>5. CASE UNCHANGED vars
  <2>1. unheard' = unheard /\ Gone' = Gone /\ faults' = faults
    BY <1>5 DEF vars, history, Gone
  <2> QED
    BY <1>1, <2>1, NothingLost
<1> QED
  BY <1>1, <1>2, <1>3, <1>4, <1>5, GiveUpLost, InsertLost DEF Next

LEMMA InitLost == Init => LostInv
<1> SUFFICES ASSUME Init
             PROVE  LostInv
  OBVIOUS
<1>1. unheard = {} /\ Gone = {} /\ faults = 0
  BY DEF Init, Gone, NoRequest
<1> QED
  BY <1>1, InitType, FS_EmptySet DEF LostInv, Lost

LEMMA FiledImplies == FiledInv /\ LostInv => FiledOnce
<1> SUFFICES ASSUME FiledInv, LostInv
             PROVE  FiledOnce
  OBVIOUS
<1>1. ASSUME NEW o \in Owners
      PROVE  /\ Cardinality(RowsOf(o)) + deleted[o] <= asked[o]
             /\ outcome[o] = "created" => Cardinality(RowsOf(o)) + deleted[o] = asked[o]
             /\ Cardinality(RowsOf(o)) <= Limit
  <2>1. Cardinality(RowsOf(o)) \in Nat /\ deleted[o] \in Nat /\ asked[o] \in 0..Limit
    BY KeptType DEF FiledInv, FileInv, TypeOK
  <2>2. Cardinality(RowsOf(o)) + deleted[o] <= asked[o]
    BY DEF FiledInv, Counts, Kept
  <2>3. outcome[o] = "created" => Cardinality(RowsOf(o)) + deleted[o] = asked[o]
    BY DEF FiledInv, Counts, Kept
  <2> QED
    BY <2>1, <2>2, <2>3, BoundAssumption
<1>2. ASSUME NEW i \in Forms
      PROVE  /\ Cardinality({ o \in MadeFrom(i) : outcome[o] # "error" /\ o \notin unheard }) <= 1
             /\ i \in Reviews => Cardinality(MadeFrom(i)) <= 1
  <2>1. \A o, p \in { q \in MadeFrom(i) : outcome[q] # "error" /\ q \notin unheard } : o = p
    BY DEF FiledInv, Singles, Counting
  <2>2. i \in Reviews => \A o, p \in MadeFrom(i) : o = p
    BY DEF FiledInv, Singles
  <2> QED
    BY <2>1, <2>2, AtMostOne
<1>3. Cardinality(unheard) <= faults
  BY LostType DEF LostInv, Lost
<1> QED
  BY <1>1, <1>2, <1>3 DEF FiledOnce

\* FiledOnce: 201 means every file; and however submissions, lost answers,
\* deletions, refusals, faults and crashes overlap, what a form made, but for
\* errors, is one ticket or review and one for each answer that did not arrive.
THEOREM FormsFiledOnce == Spec => []FiledOnce
BY InitFiled, NextFiled, InitLost, NextLost, FiledImplies, PTL DEF Spec
=============================================================================
