------------------------------- MODULE Ingest -------------------------------
(***************************************************************************)
(* The runner of ingest jobs (internal/ingest/runner.go) on one source:    *)
(* jobs of different sources share nothing.  A job is run by a request; it *)
(* resumes from the newest checkpoint of its source, writes what it pulled *)
(* to the lakehouse and saves a checkpoint of its own.                     *)
(*                                                                         *)
(* RunJob is seven steps: the test of the status (Load), the UPDATE to     *)
(* running (MarkRunning), the SELECT of the checkpoint (Resume), the pull, *)
(* the bronze layer (WriteBronze), the layers derived from it (Derive),    *)
(* the checkpoint (SaveCheckpoint) and the final UPDATE (CompleteJob).     *)
(*                                                                         *)
(* A source holds items, each with a stamp: the offset at which a chunk of *)
(* a log file ends, the modification time of a file, or the updated_at of  *)
(* a row, which need not arrive in the order of their stamps.  <<x, t>> is *)
(* the version of item x with the stamp t.  Tables here have the optional  *)
(* updated_at_column, in whole seconds: the runner compares times as       *)
(* strings, whose order is that of the times if they have one length.      *)
(***************************************************************************)
EXTENDS Naturals, Sequences, FiniteSets

CONSTANTS Items,
          Runners,    \* request goroutines
          Batch,      \* the LIMIT of the query on a table
          MaxJobs,    \* bound: jobs ever created
          MaxRuns,    \* bound: runs ever begun, and faults
          MaxStamp,   \* bound: the largest stamp
          MaxFaults   \* bound: crashes, panics and failed statements

Jobs   == 1..MaxJobs
Stamps == 1..MaxStamp

ASSUME BatchAssumption == Batch \in Nat \ {0}
ASSUME BoundAssumption == MaxJobs \in Nat /\ MaxRuns \in Nat /\ MaxStamp \in Nat /\ MaxFaults \in Nat
ASSUME RunnersAssumption == IsFiniteSet(Runners)

VARIABLES
    \* The source.
    kind,        \* its source_type
    stamp,       \* stamp[x]; 0 before x appears
    past,        \* the items of log files that have been rotated away
    \* The tables.
    status,      \* ingest_jobs.status; "absent" before the INSERT
    checkpoint,  \* checkpoint[j]: the row of job j in ingest_checkpoints
    newest,      \* the jobs whose rows share the latest updated_at, to the second
    bronze,      \* the bronze rows in the order of their ids
    \* Memory of the goroutines.
    run,         \* run[r]: the locals of RunJob in goroutine r
    \* History.
    runs,        \* runs begun so far
    late,        \* versions that were not newer than all others when they arrived
    cutoff,      \* the LIMIT has cut a result
    disturbed,   \* runs have overlapped, or checkpoints have been saved in one second
    faults       \* faults so far

source    == <<kind, stamp, past, late>>
jobTables == <<status, checkpoint, newest, bronze>>
ingestVars == <<source, jobTables, run, runs, cutoff, disturbed, faults>>

Kinds       == {"log_file", "db_table", "filesystem_drop"}
Versions    == Items \X Stamps
NoCheckpoint == [type |-> "none", value |-> 0]
CheckpointRows == [type : {"updated_at", "offset"}, value : 0..MaxStamp]
Checkpoints == CheckpointRows \cup {NoCheckpoint}
BronzeRows  == [job : Jobs, got : SUBSET Versions, top : {"bronze", "silver", "gold"}]
NoRun       == [pc |-> "idle"]

RunLocals == [pc : {"loaded", "marked"}, job : Jobs]
            \cup [pc : {"resumed"}, job : Jobs, from : Checkpoints]
            \cup [pc : {"pulled"}, job : Jobs, got : SUBSET Versions, next : CheckpointRows]
            \cup [pc : {"stored"}, job : Jobs, next : CheckpointRows, row : Nat]
            \cup [pc : {"derived"}, job : Jobs, next : CheckpointRows]
            \cup [pc : {"saved"}, job : Jobs]

IngestTypeOK ==
    /\ kind \in Kinds
    /\ stamp \in [Items -> 0..MaxStamp]
    /\ past \in SUBSET Items
    /\ late \in SUBSET Versions
    /\ status \in [Jobs -> {"absent", "pending", "running", "completed", "failed"}]
    /\ checkpoint \in [Jobs -> Checkpoints]
    /\ newest \in SUBSET Jobs
    /\ bronze \in Seq(BronzeRows)
    /\ run \in [Runners -> RunLocals \cup {NoRun}]
    /\ \A r \in Runners : run[r].pc = "stored" => run[r].row \in 1..Len(bronze)
    /\ runs \in 0..MaxRuns
    /\ cutoff \in BOOLEAN
    /\ disturbed \in BOOLEAN
    /\ faults \in 0..MaxFaults

IngestInit ==
    /\ kind \in Kinds
    /\ stamp = [x \in Items |-> 0]
    /\ past = {}
    /\ late = {}
    /\ status = [j \in Jobs |-> "absent"]
    /\ checkpoint = [j \in Jobs |-> NoCheckpoint]
    /\ newest = {}
    /\ bronze = <<>>
    /\ run = [r \in Runners |-> NoRun]
    /\ runs = 0
    /\ cutoff = FALSE
    /\ disturbed = FALSE
    /\ faults = 0

-----------------------------------------------------------------------------
(* The source, which others write.                                         *)

\* The versions that a pull would find.
Present == { <<x, stamp[x]>> : x \in { y \in Items : stamp[y] > 0 /\ y \notin past } }

\* The largest stamp among the versions V, or b if it is larger.
Latest(V, b) == CHOOSE t \in {b} \cup { v[2] : v \in V } :
                    \A u \in {b} \cup { v[2] : v \in V } : u <= t

Grow(x) ==
    /\ kind = "log_file"
    /\ stamp[x] = 0
    /\ Latest(Present, 0) < MaxStamp
    /\ stamp' = [stamp EXCEPT ![x] = Latest(Present, 0) + 1]
    /\ UNCHANGED <<kind, past, late, jobTables, run, cutoff, disturbed, faults, runs>>

Rotate ==
    /\ kind = "log_file"
    /\ Present # {}
    /\ past' = past \cup { v[1] : v \in Present }
    /\ UNCHANGED <<kind, stamp, late, jobTables, run, cutoff, disturbed, faults, runs>>

\* A row or a file is added or changed.  A transaction that commits late, or a
\* file that is moved in, has an older stamp than others.
Arrive(x, t) ==
    /\ kind # "log_file"
    /\ t > stamp[x]
    /\ stamp' = [stamp EXCEPT ![x] = t]
    /\ late' = IF t > Latest(Present, 0) THEN late ELSE late \cup {<<x, t>>}
    /\ UNCHANGED <<kind, past, jobTables, run, cutoff, disturbed, faults, runs>>

-----------------------------------------------------------------------------
(* Pulls: what the source yields after the checkpoint ck, with the next     *)
(* checkpoint.                                                             *)

\* Mutant of Heeded: every puller takes up offsets alone.
HeededOffset(ck, type) == IF ck.type = "offset" THEN ck.value ELSE 0

\* The checkpoint is heeded only if it is of the type that the puller writes.
Heeded(ck, type) == IF ck.type = type THEN ck.value ELSE 0

PullLogFile(ck) ==
    LET size   == Latest(Present, 0)
        offset == IF Heeded(ck, "offset") > size THEN 0 ELSE Heeded(ck, "offset") IN
    { [got |-> { v \in Present : v[2] > offset }, type |-> "offset", value |-> size] }

\* Mutant of PullFilesystemDrop: the checkpoint is the time of the walk.
PullFilesystemDropNow(ck) ==
    LET lastSeen == Heeded(ck, "updated_at") IN
    { [got |-> { v \in Present : v[2] > lastSeen }, type |-> "updated_at", value |-> MaxStamp] }

PullFilesystemDrop(ck) ==
    LET lastSeen == Heeded(ck, "updated_at")
        got      == { v \in Present : v[2] > lastSeen } IN
    { [got |-> got, type |-> "updated_at", value |-> Latest(got, lastSeen)] }

\* The query has no ORDER BY.  Without a row the checkpoint is the offset zero.
PullDBTable(ck) ==
    LET found == { v \in Present : v[2] > Heeded(ck, "updated_at") }
        some  == { V \in SUBSET found :
                      Cardinality(V) = IF Cardinality(found) > Batch THEN Batch ELSE Cardinality(found) } IN
    { IF V = {} THEN [got |-> V, type |-> "offset", value |-> Heeded(ck, "offset")]
                ELSE [got |-> V, type |-> "updated_at", value |-> Latest(V, 0)] : V \in some }

Pulls(ck) == CASE kind = "log_file"        -> PullLogFile(ck)
               [] kind = "filesystem_drop" -> PullFilesystemDrop(ck)
               [] kind = "db_table"        -> PullDBTable(ck)

-----------------------------------------------------------------------------
(* Jobs.                                                                   *)

CreateJob(j) ==
    /\ status[j] = "absent"
    /\ \A i \in Jobs : i < j => status[i] # "absent"
    /\ status' = [status EXCEPT ![j] = "pending"]
    /\ UNCHANGED <<source, checkpoint, newest, bronze, run, cutoff, disturbed, faults, runs>>

\* Neither running nor completed.
Runnable(j) == status[j] \in {"pending", "failed"}

Load(r, j) ==
    /\ run[r] = NoRun
    /\ Runnable(j)
    /\ runs + faults < MaxRuns
    /\ runs' = runs + 1
    /\ run' = [run EXCEPT ![r] = [pc |-> "loaded", job |-> j]]
    /\ disturbed' = (disturbed \/ \E q \in Runners : run[q] # NoRun)
    /\ UNCHANGED <<source, jobTables, cutoff, faults>>

\* UpdateJobProgress names the job by its id alone.
MarkRunning(r) ==
    /\ run[r].pc = "loaded"
    /\ status' = [status EXCEPT ![run[r].job] = "running"]
    /\ run' = [run EXCEPT ![r].pc = "marked"]
    /\ UNCHANGED <<source, checkpoint, newest, bronze, cutoff, disturbed, faults, runs>>

\* ORDER BY updated_at DESC LIMIT 1: rows of one second come in any order.
Newest == IF newest = {} THEN {NoCheckpoint} ELSE { checkpoint[j] : j \in newest }

Resume(r) ==
    /\ run[r].pc = "marked"
    /\ \E ck \in Newest :
           run' = [run EXCEPT ![r] = [pc |-> "resumed", job |-> @.job, from |-> ck]]
    /\ UNCHANGED <<source, jobTables, cutoff, disturbed, faults, runs>>

Pull(r) ==
    /\ run[r].pc = "resumed"
    /\ \E p \in Pulls(run[r].from) :
           /\ run' = [run EXCEPT ![r] = [pc |-> "pulled", job |-> @.job, got |-> p.got,
                                         next |-> [type |-> p.type, value |-> p.value]]]
           /\ cutoff' = (cutoff \/ (kind = "db_table" /\ \E v \in Present \ p.got :
                                        v[2] > Heeded(run[r].from, "updated_at")))
    /\ UNCHANGED <<source, jobTables, disturbed, faults, runs>>

Stop(r) == run' = [run EXCEPT ![r] = NoRun]

\* The source cannot be read.
PullFails(r) ==
    /\ run[r].pc = "resumed"
    /\ status' = [status EXCEPT ![run[r].job] = "failed"]
    /\ Stop(r)
    /\ UNCHANGED <<source, checkpoint, newest, bronze, cutoff, disturbed, faults, runs>>

WriteBronze(r) ==
    /\ run[r].pc = "pulled"
    /\ bronze' = Append(bronze, [job |-> run[r].job, got |-> run[r].got, top |-> "bronze"])
    /\ run' = [run EXCEPT ![r] = [pc |-> "stored", job |-> @.job, next |-> @.next,
                                  row |-> Len(bronze) + 1]]
    /\ UNCHANGED <<source, status, checkpoint, newest, cutoff, disturbed, faults, runs>>

\* The silver and the gold layer, up to the layer top.
DeriveUpTo(r, top) ==
    /\ run[r].pc = "stored"
    /\ bronze' = [bronze EXCEPT ![run[r].row].top = top]
    /\ run' = [run EXCEPT ![r] = [pc |-> "derived", job |-> @.job, next |-> @.next]]
    /\ UNCHANGED <<source, status, checkpoint, newest, cutoff, disturbed, runs>>

Derive(r) == DeriveUpTo(r, "gold") /\ UNCHANGED faults

\* The upsert of the job's row.  MySQL gives it a new updated_at only if it
\* changes, and to the second.
SaveCheckpoint(r) ==
    /\ run[r].pc = "derived"
    /\ LET j      == run[r].job
           others == newest \ {j}
           same   == checkpoint[j] = run[r].next IN
       /\ checkpoint' = [checkpoint EXCEPT ![j] = run[r].next]
       /\ \E tie \in IF same THEN {newest} ELSE {{j}, newest \cup {j}} :
              /\ newest' = tie
              /\ disturbed' = (disturbed \/ (~same /\ others # {} /\ tie # {j}))
       /\ run' = [run EXCEPT ![r] = [pc |-> "saved", job |-> j]]
    /\ UNCHANGED <<source, status, bronze, cutoff, faults, runs>>

CompleteJob(r) ==
    /\ run[r].pc = "saved"
    /\ status' = [status EXCEPT ![run[r].job] = "completed"]
    /\ Stop(r)
    /\ UNCHANGED <<source, checkpoint, newest, bronze, cutoff, disturbed, faults, runs>>

-----------------------------------------------------------------------------
(* Faults.                                                                 *)

Fault ==
    /\ faults < MaxFaults
    /\ runs + faults < MaxRuns
    /\ faults' = faults + 1

\* The error of the SELECT is ignored: the job starts from the beginning.
ResumeFails(r) ==
    /\ Fault
    /\ run[r].pc = "marked"
    /\ run' = [run EXCEPT ![r] = [pc |-> "resumed", job |-> @.job, from |-> NoCheckpoint]]
    /\ UNCHANGED <<source, jobTables, cutoff, disturbed, runs>>

\* Mutant of BronzeFails: the error is ignored like those of the other layers.
BronzeFailsOn(r) ==
    /\ Fault
    /\ run[r].pc = "pulled"
    /\ run' = [run EXCEPT ![r] = [pc |-> "derived", job |-> @.job, next |-> @.next]]
    /\ UNCHANGED <<source, jobTables, cutoff, disturbed, runs>>

\* The bronze layer fails before the INSERT of its row or after it.
BronzeFails(r) ==
    /\ Fault
    /\ run[r].pc = "pulled"
    /\ bronze' \in {bronze, Append(bronze, [job |-> run[r].job, got |-> run[r].got, top |-> "bronze"])}
    /\ status' = [status EXCEPT ![run[r].job] = "failed"]
    /\ Stop(r)
    /\ UNCHANGED <<source, checkpoint, newest, cutoff, disturbed, runs>>

\* The errors of the silver and the gold layer are ignored.
DeriveFails(r) == Fault /\ \E top \in {"bronze", "silver"} : DeriveUpTo(r, top)

\* So is that of the checkpoint.
SaveFails(r) ==
    /\ Fault
    /\ run[r].pc = "derived"
    /\ run' = [run EXCEPT ![r] = [pc |-> "saved", job |-> @.job]]
    /\ UNCHANGED <<source, jobTables, cutoff, disturbed, runs>>

\* The client goes away, which fails all further statements, or a panic.
RunCut(r) ==
    /\ Fault
    /\ run[r] # NoRun
    /\ Stop(r)
    /\ UNCHANGED <<source, jobTables, cutoff, disturbed, runs>>

\* The process dies.  No code looks after the jobs that were running.
Crash ==
    /\ Fault
    /\ run' = [r \in Runners |-> NoRun]
    /\ UNCHANGED <<source, jobTables, cutoff, disturbed, runs>>

-----------------------------------------------------------------------------

RunJob(r) == \/ \E j \in Jobs : Load(r, j)
             \/ MarkRunning(r)
             \/ Resume(r)
             \/ Pull(r)
             \/ WriteBronze(r)
             \/ Derive(r)
             \/ SaveCheckpoint(r)
             \/ CompleteJob(r)

RunFails(r) == \/ PullFails(r)
               \/ ResumeFails(r)
               \/ BronzeFails(r)
               \/ DeriveFails(r)
               \/ SaveFails(r)
               \/ RunCut(r)

IngestNext ==
        \/ \E x \in Items : Grow(x)
        \/ \E x \in Items, t \in Stamps : Arrive(x, t)
        \/ Rotate
        \/ \E j \in Jobs : CreateJob(j)
        \/ \E r \in Runners : RunJob(r) \/ RunFails(r)
        \/ Crash

IngestSpec == IngestInit /\ [][IngestNext]_ingestVars

-----------------------------------------------------------------------------
(* Properties.                                                             *)

Rows == 1..Len(bronze)

Copies(v) == { i \in Rows : v \in bronze[i].got }

\* A version that lies behind a checkpoint is in the lakehouse, unless it came
\* with an old stamp, the LIMIT left it out, or the log file was rotated and
\* has grown past the offset that was reached in a former one.  However runs
\* overlap or fail, they lose nothing else.
NothingElseIsPassedOver ==
    \A j \in Jobs : \A v \in Present :
        v[2] <= checkpoint[j].value =>
            \/ Copies(v) # {}
            \/ v \in late
            \/ cutoff
            \/ \E x \in past : stamp[x] >= v[2]

\* Runs that do not overlap, do not fail and save their checkpoints in
\* different seconds store nothing twice, from log files and from directories.
\* From a table they store a row once more for each pull that found nothing:
\* its checkpoint has a type that the puller does not heed, so that the next
\* pull begins again (pullDBTable, line 252).
OnceWhenUndisturbed ==
    ~disturbed /\ faults = 0 =>
        \A v \in Versions :
            Cardinality(Copies(v)) <=
                1 + Cardinality({ i \in Rows : kind = "db_table" /\ bronze[i].got = {} })

\* What is completed or has a checkpoint has stored its rows, and the newest
\* checkpoint is there if there is any.
RowsAgree ==
    /\ \A j \in Jobs :
           /\ status[j] = "completed" \/ checkpoint[j] # NoCheckpoint => \E i \in Rows : bronze[i].job = j
           /\ status[j] \in {"absent", "pending"} =>
                  checkpoint[j] = NoCheckpoint /\ \A i \in Rows : bronze[i].job # j
           /\ j \in newest => checkpoint[j] # NoCheckpoint
    /\ newest = {} => \A j \in Jobs : checkpoint[j] = NoCheckpoint

InHand(r, j) == run[r].pc \notin {"idle", "loaded"} /\ run[r].job = j

\* The jobs that say running while no run has marked them so and goes on: Load
\* refuses them for ever.
Stranded == { j \in Jobs : status[j] = "running" /\ \A r \in Runners : ~ InHand(r, j) }

\* What the tables say of a job agrees with its rows and with who runs it: a job
\* is left running by a fault alone, one for each run that the fault ended.  Two
\* runs of one job may overlap, and each writes the status by id alone.
TablesAgree == RowsAgree /\ Cardinality(Stranded) <= faults * Cardinality(Runners)
=============================================================================
