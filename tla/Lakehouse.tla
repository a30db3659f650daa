----------------------------- MODULE Lakehouse -----------------------------
(***************************************************************************)
(* The life of files in the lakehouse (internal/lakehouse): a file is      *)
(* written and then recorded in lakehouse_metadata; sweeps move old bronze *)
(* files to the archive, and remove old archived ones, unless a legal hold *)
(* protects their source.                                                  *)
(*                                                                         *)
(* RunLifecycle is run by the daily worker and by administrators, at the   *)
(* same time if it so happens.  It reads the active holds once             *)
(* (ReadHolds), selects (SelectOld), moves and records each file (Rename,  *)
(* MarkArchived), selects again (SelectStale) and removes and records each *)
(* file (Remove, MarkPurged).  Each step is one statement or one system    *)
(* call, and the sweep acts on the ids, the paths and the holds that it    *)
(* has read.  Where the archive is on a device of its own, as the volumes  *)
(* of src/repo/docker-compose.yml are, a file cannot be renamed: it is     *)
(* read, copied and removed (Read, BeginCopy, EndCopy, RemoveSource).      *)
(***************************************************************************)
EXTENDS Naturals, FiniteSets

CONSTANTS Files,       \* the ids of rows, and of the files that they name
          SourceOf,    \* SourceOf[f]: the ingest source whose data f holds
          BronzeFiles, \* those of the bronze layer
          Holds,       \* the ids of legal holds
          Covers,      \* Covers[h]: the source, the job, or both, that h names
          Jobs,        \* the ids of ingest jobs, which no file names
          Sweeps,      \* goroutines that run RunLifecycle
          Worker,      \* the one of them that the daily ticker drives
          MaxSweeps,   \* bound: sweeps that others begin
          MaxFailures  \* bound: crashes, panics and failed calls

Sources == { SourceOf[f] : f \in Files }

ASSUME FilesAssumption == IsFiniteSet(Files) /\ BronzeFiles \subseteq Files
ASSUME SweepsAssumption == IsFiniteSet(Sweeps) /\ Worker \in Sweeps
ASSUME HoldsAssumption == \A h \in Holds : Covers[h] \subseteq Sources \cup Jobs /\ Covers[h] # {}
ASSUME LakeBoundAssumption == MaxSweeps \in Nat /\ MaxFailures \in Nat

VARIABLES
    \* The table lakehouse_metadata.
    row,      \* row[f]: "absent", "live", "archived" (archived_at), "purged" (purged_at)
    aged,     \* the rows whose ingested_at or archived_at is long enough ago
    \* The disk.
    sameDevice, \* baseDir and backupDir are on one device
    base,     \* the files under baseDir
    backup,   \* the files under backupDir
    partial,  \* those that are there and not complete
    \* The table legal_holds.
    hold,     \* hold[h]: "absent", "active" or "released"
    \* Memory of the goroutines.
    writer,   \* the files whose writer has yet to insert the row
    sweep,    \* sweep[w]: the locals of RunLifecycle in goroutine w
    \* History.
    honored,  \* honored[w]: the holds active since w has read them
    exposed,  \* what cancelled sweeps had selected and not yet archived
    shared,   \* the files that two sweeps have had in hand at once
    begun,    \* sweeps begun by others than the worker
    failures  \* failures so far

catalog  == <<row, aged>>
disk     == <<sameDevice, base, backup, partial>>
history  == <<honored, exposed, shared, begun>>
lakeVars == <<catalog, disk, hold, writer, sweep, history, failures>>

NoSweep == [pc |-> "idle"]

\* held: the sources of the active holds; live: the context is not cancelled;
\* todo: what is selected and not begun; file: what is under way.
SweepLocals ==
    [pc : {"held"}, live : BOOLEAN, held : SUBSET Sources]
        \cup [pc : {"archiving", "purging"}, live : BOOLEAN, held : SUBSET Sources,
              todo : SUBSET Files]
        \cup [pc : {"read", "copying", "copied", "renamed", "removed"}, live : BOOLEAN, held : SUBSET Sources,
              todo : SUBSET Files, file : Files]

LakeTypeOK ==
    /\ row \in [Files -> {"absent", "live", "archived", "purged"}]
    /\ aged \in SUBSET Files
    /\ sameDevice \in BOOLEAN
    /\ base \in SUBSET Files
    /\ backup \in SUBSET Files
    /\ partial \in SUBSET Files
    /\ hold \in [Holds -> {"absent", "active", "released"}]
    /\ writer \in SUBSET Files
    /\ sweep \in [Sweeps -> SweepLocals \cup {NoSweep}]
    /\ honored \in [Sweeps -> SUBSET Holds]
    /\ exposed \in SUBSET Files
    /\ shared \in SUBSET Files
    /\ begun \in 0..MaxSweeps
    /\ failures \in 0..MaxFailures

LakeInit ==
    /\ row = [f \in Files |-> "absent"]
    /\ aged = {}
    /\ sameDevice \in BOOLEAN
    /\ base = {}
    /\ backup = {}
    /\ partial = {}
    /\ hold = [h \in Holds |-> "absent"]
    /\ writer = {}
    /\ sweep = [w \in Sweeps |-> NoSweep]
    /\ honored = [w \in Sweeps |-> {}]
    /\ exposed = {}
    /\ shared = {}
    /\ begun = 0
    /\ failures = 0

Failure == failures < MaxFailures /\ failures' = failures + 1

-----------------------------------------------------------------------------
(* Writing a file.                                                         *)

WriteFile(f) ==
    /\ row[f] = "absent" /\ f \notin base \cup writer
    /\ base' = base \cup {f}
    /\ writer' = writer \cup {f}
    /\ UNCHANGED <<catalog, sameDevice, backup, partial, hold, sweep, history, failures>>

InsertRow(f) ==
    /\ f \in writer
    /\ writer' = writer \ {f}
    /\ row' = [row EXCEPT ![f] = "live"]
    /\ UNCHANGED <<aged, disk, hold, sweep, history, failures>>

InHand(w) == IF sweep[w].pc \in {"read", "copying", "copied", "renamed"} THEN {sweep[w].file} ELSE {}

\* What w has selected for the archive and has not recorded yet.
Underway(w) == InHand(w) \cup
    IF sweep[w].pc = "archiving" \/ InHand(w) # {} THEN sweep[w].todo ELSE {}

\* The row's ingested_at, and then its archived_at, come to lie far enough
\* back.  An administrator's sweep chooses how far that is, in days: no sweep
\* takes as long as that.
Age(f) ==
    /\ row[f] = "live" \/ (row[f] = "archived" /\ \A w \in Sweeps : f \notin Underway(w))
    /\ f \notin aged
    /\ aged' = aged \cup {f}
    /\ UNCHANGED <<row, disk, hold, writer, sweep, history, failures>>

-----------------------------------------------------------------------------
(* Legal holds.                                                            *)

PlaceHold(h) ==
    /\ hold[h] = "absent"
    /\ hold' = [hold EXCEPT ![h] = "active"]
    /\ UNCHANGED <<catalog, disk, writer, sweep, history, failures>>

ReleaseHold(h) ==
    /\ hold[h] = "active"
    /\ hold' = [hold EXCEPT ![h] = "released"]
    /\ honored' = [w \in Sweeps |-> honored[w] \ {h}]
    /\ UNCHANGED <<catalog, disk, writer, sweep, exposed, shared, begun, failures>>

ActiveHolds == { h \in Holds : hold[h] = "active" }

Covered == UNION { Covers[h] : h \in ActiveHolds }

\* Mutant of HoldFilter: released_at is not looked at.
HoldFilterEver == UNION { Covers[h] : h \in { g \in Holds : hold[g] # "absent" } } \cap Sources

\* activeHoldFilter, as its caller uses it: the holds on jobs are discarded.
HoldFilter == Covered \cap Sources

-----------------------------------------------------------------------------
(* RunLifecycle.                                                           *)

ReadHolds(w) ==
    /\ sweep[w] = NoSweep
    /\ w # Worker => begun < MaxSweeps
    /\ begun' = IF w = Worker THEN begun ELSE begun + 1
    /\ sweep' = [sweep EXCEPT ![w] = [pc |-> "held", live |-> TRUE, held |-> HoldFilter]]
    /\ honored' = [honored EXCEPT ![w] = ActiveHolds]
    /\ UNCHANGED <<catalog, disk, hold, writer, exposed, shared, failures>>

\* layer = 'bronze' AND archived_at IS NULL AND ingested_at < ...
Old == { f \in BronzeFiles : row[f] = "live" /\ f \in aged }

SelectOld(w) ==
    /\ sweep[w].pc = "held"
    /\ sweep[w].live
    /\ sweep' = [sweep EXCEPT ![w] = [pc |-> "archiving", live |-> TRUE, held |-> @.held, todo |-> Old]]
    /\ UNCHANGED <<catalog, disk, hold, writer, history, failures>>

PassOver(w, f) ==
    /\ sweep' = [sweep EXCEPT ![w].todo = @ \ {f}]
    /\ UNCHANGED <<catalog, disk, hold, writer, history>>

\* A held source is passed over, in either loop.
Skip(w, f) ==
    /\ sweep[w].pc \in {"archiving", "purging"}
    /\ f \in sweep[w].todo
    /\ SourceOf[f] \in sweep[w].held
    /\ PassOver(w, f)
    /\ UNCHANGED failures

\* Takes up the file f in a loop.
TakeUp(w, f, loop) ==
    /\ sweep[w].pc = loop
    /\ f \in sweep[w].todo
    /\ SourceOf[f] \notin sweep[w].held

\* Goes on with f in hand.
With(w, f, place) ==
    sweep' = [sweep EXCEPT ![w] = [pc |-> place, live |-> @.live, held |-> @.held,
                                   todo |-> @.todo \ {f}, file |-> f]]

Now(w, place) == sweep' = [sweep EXCEPT ![w].pc = place]

\* Goes on with the rest of the loop.
GoOn(w, loop) ==
    sweep' = [sweep EXCEPT ![w] = [pc |-> loop, live |-> @.live, held |-> @.held, todo |-> @.todo]]

\* archiveFile, where the file is not there: another sweep has moved it, or an
\* earlier one that could not record it.
Missing(w, f) ==
    /\ TakeUp(w, f, "archiving")
    /\ f \notin base
    /\ PassOver(w, f)
    /\ UNCHANGED failures

Rename(w, f) ==
    /\ sameDevice
    /\ TakeUp(w, f, "archiving")
    /\ f \in base
    /\ base' = base \ {f}
    /\ backup' = backup \cup {f}
    /\ With(w, f, "renamed")
    /\ UNCHANGED <<catalog, sameDevice, partial, hold, writer, history, failures>>

Read(w, f) ==
    /\ ~sameDevice
    /\ TakeUp(w, f, "archiving")
    /\ f \in base
    /\ With(w, f, "read")
    /\ shared' = shared \cup { g \in {f} : \E v \in Sweeps \ {w} : g \in InHand(v) }
    /\ UNCHANGED <<catalog, disk, hold, writer, honored, exposed, begun, failures>>

\* os.WriteFile truncates the copy that is there.
BeginCopy(w) ==
    /\ sweep[w].pc = "read"
    /\ backup' = backup \ {sweep[w].file}
    /\ partial' = partial \cup {sweep[w].file}
    /\ Now(w, "copying")
    /\ UNCHANGED <<catalog, sameDevice, base, hold, writer, history, failures>>

\* Of two copies of one file, the one that ends last is complete.
EndCopy(w) ==
    /\ sweep[w].pc = "copying"
    /\ LET f    == sweep[w].file
           done == IF \E v \in Sweeps \ {w} : sweep[v].pc = "copying" /\ sweep[v].file = f
                   THEN {} ELSE {f} IN
       /\ backup' = backup \cup done
       /\ partial' = partial \ done
    /\ Now(w, "copied")
    /\ UNCHANGED <<catalog, sameDevice, base, hold, writer, history, failures>>

RemoveSource(w) ==
    /\ sweep[w].pc = "copied"
    /\ base' = base \ {sweep[w].file}
    /\ Now(w, "renamed")
    /\ UNCHANGED <<catalog, sameDevice, backup, partial, hold, writer, history, failures>>

\* Sets archived_at and the path.
MarkArchived(w) ==
    /\ sweep[w].pc = "renamed"
    /\ sweep[w].live
    /\ row' = [row EXCEPT ![sweep[w].file] = "archived"]
    /\ aged' = aged \ {sweep[w].file}
    /\ GoOn(w, "archiving")
    /\ UNCHANGED <<disk, hold, writer, history, failures>>

\* Mutant of Stale: archived_at is not looked at.
StaleUnarchived == { f \in Files : row[f] \in {"live", "archived"} /\ f \in aged }

\* archived_at IS NOT NULL AND purged_at IS NULL AND archived_at < ...
Stale == { f \in Files : row[f] = "archived" /\ f \in aged }

\* Mutant of SelectStale: the holds are forgotten between the loops.
SelectStaleUnheld(w) ==
    /\ sweep[w].pc = "archiving" /\ sweep[w].todo = {}
    /\ sweep[w].live
    /\ sweep' = [sweep EXCEPT ![w] = [pc |-> "purging", live |-> TRUE, held |-> {}, todo |-> Stale]]
    /\ UNCHANGED <<catalog, disk, hold, writer, history, failures>>

SelectStale(w) ==
    /\ sweep[w].pc = "archiving" /\ sweep[w].todo = {}
    /\ sweep[w].live
    /\ sweep' = [sweep EXCEPT ![w] = [pc |-> "purging", live |-> TRUE, held |-> @.held, todo |-> Stale]]
    /\ UNCHANGED <<catalog, disk, hold, writer, history, failures>>

\* os.Remove, of a file that another sweep may have removed.
Remove(w, f) ==
    /\ TakeUp(w, f, "purging")
    /\ backup' = backup \ {f}
    /\ partial' = partial \ {f}
    /\ With(w, f, "removed")
    /\ UNCHANGED <<catalog, sameDevice, base, hold, writer, history, failures>>

MarkPurged(w) ==
    /\ sweep[w].pc = "removed"
    /\ sweep[w].live
    /\ row' = [row EXCEPT ![sweep[w].file] = "purged"]
    /\ GoOn(w, "purging")
    /\ UNCHANGED <<aged, disk, hold, writer, history, failures>>

Leave(w) ==
    /\ sweep' = [sweep EXCEPT ![w] = NoSweep]
    /\ honored' = [honored EXCEPT ![w] = {}]
    /\ UNCHANGED <<catalog, disk, hold, writer, exposed, shared, begun>>

Finish(w) ==
    /\ sweep[w].pc = "purging" /\ sweep[w].todo = {}
    /\ Leave(w)
    /\ UNCHANGED failures

-----------------------------------------------------------------------------
(* An administrator's client goes away: the statements of the sweep fail    *)
(* from there on, its system calls do not, and it ends at its next SELECT.  *)

Cancel(w) ==
    /\ w # Worker
    /\ sweep[w] # NoSweep
    /\ sweep[w].live
    /\ sweep' = [sweep EXCEPT ![w].live = FALSE]
    /\ exposed' = exposed \cup Underway(w)
    /\ UNCHANGED <<catalog, disk, hold, writer, honored, shared, begun, failures>>

\* The errors of both UPDATEs are ignored.
Unrecorded(w) ==
    /\ sweep[w].pc \in {"renamed", "removed"}
    /\ GoOn(w, IF sweep[w].pc = "renamed" THEN "archiving" ELSE "purging")
    /\ UNCHANGED <<catalog, disk, hold, writer, history>>

CancelledUpdate(w) ==
    /\ sweep[w] # NoSweep
    /\ ~sweep[w].live
    /\ Unrecorded(w)
    /\ UNCHANGED failures

AtSelect(w) == sweep[w].pc = "held" \/ (sweep[w].pc = "archiving" /\ sweep[w].todo = {})

CancelledSelect(w) ==
    /\ AtSelect(w)
    /\ ~sweep[w].live
    /\ Leave(w)
    /\ UNCHANGED failures

-----------------------------------------------------------------------------
(* Faults.                                                                 *)

\* The INSERT of the row fails: the file stays and nothing names it.
InsertFails(f) ==
    /\ Failure
    /\ f \in writer
    /\ writer' = writer \ {f}
    /\ UNCHANGED <<catalog, disk, hold, sweep, history>>

\* The directory cannot be made, or the file not read.
ArchiveFails(w, f) == Failure /\ TakeUp(w, f, "archiving") /\ PassOver(w, f)

\* Mutant of CopyFails: the error of the copy is ignored.
CopyFailsOn(w) ==
    /\ Failure
    /\ sweep[w].pc = "copying"
    /\ Now(w, "copied")
    /\ UNCHANGED <<catalog, disk, hold, writer, history>>

\* The copy ends in an error, and stays as it is.
CopyFails(w) ==
    /\ Failure
    /\ sweep[w].pc = "copying"
    /\ GoOn(w, "archiving")
    /\ UNCHANGED <<catalog, disk, hold, writer, history>>

\* The error of either os.Remove is ignored.
RemoveSourceFails(w) ==
    /\ Failure
    /\ sweep[w].pc = "copied"
    /\ Now(w, "renamed")
    /\ UNCHANGED <<catalog, disk, hold, writer, history>>

PurgeFails(w, f) ==
    /\ Failure
    /\ TakeUp(w, f, "purging")
    /\ With(w, f, "removed")
    /\ UNCHANGED <<catalog, disk, hold, writer, history>>

UpdateFails(w) == Failure /\ Unrecorded(w)

\* The error of either SELECT ends the sweep.
SelectFails(w) == Failure /\ AtSelect(w) /\ Leave(w)

\* The process dies and is started again.
Restart ==
    /\ Failure
    /\ writer' = {}
    /\ sweep' = [w \in Sweeps |-> NoSweep]
    /\ honored' = [w \in Sweeps |-> {}]
    /\ UNCHANGED <<catalog, disk, hold, exposed, shared, begun>>

-----------------------------------------------------------------------------

ArchiveFile(w) == \/ \E f \in Files : Missing(w, f) \/ Rename(w, f) \/ Read(w, f)
                  \/ BeginCopy(w)
                  \/ EndCopy(w)
                  \/ RemoveSource(w)
                  \/ MarkArchived(w)

RunLifecycle(w) == \/ ReadHolds(w)
                   \/ SelectOld(w)
                   \/ SelectStale(w)
                   \/ \E f \in Files : Skip(w, f) \/ Remove(w, f)
                   \/ ArchiveFile(w)
                   \/ MarkPurged(w)
                   \/ Finish(w)

SweepFails(w) == \/ \E f \in Files : ArchiveFails(w, f) \/ PurgeFails(w, f)
                 \/ CopyFails(w)
                 \/ RemoveSourceFails(w)
                 \/ UpdateFails(w)
                 \/ SelectFails(w)

LakeNext ==
    \/ \E f \in Files : WriteFile(f) \/ InsertRow(f) \/ Age(f) \/ InsertFails(f)
    \/ \E h \in Holds : PlaceHold(h) \/ ReleaseHold(h)
    \/ \E w \in Sweeps : \/ RunLifecycle(w)
                         \/ Cancel(w)
                         \/ CancelledUpdate(w)
                         \/ CancelledSelect(w)
                         \/ SweepFails(w)
    \/ Restart

\* The worker sweeps every day for ever, and each sweep runs to its end.
LakeFairness == WF_lakeVars(RunLifecycle(Worker))

LakeSpec == LakeInit /\ [][LakeNext]_lakeVars /\ LakeFairness

-----------------------------------------------------------------------------
(* Properties.                                                             *)

\* Data that is not old enough to be removed is on the disk, complete, or a
\* sweep that has read it is writing it.  It is lost only if the copying of a
\* file fails that another sweep has copied and removed in the meantime.
DataKept ==
    \A f \in Files :
        row[f] = "live" \/ f \in writer \/ (row[f] = "archived" /\ f \notin aged) =>
            \/ f \in base \cup backup
            \/ \E w \in Sweeps : sweep[w].pc = "copying" /\ sweep[w].file = f
            \/ f \in shared /\ failures > 0

\* Files that are not where their rows say, and that no sweep is about to move
\* or to record: a fault misplaces one of them for each sweep, a cancelled
\* request those that it had selected and not yet archived.  No later sweep
\* finds them.
Misplaced ==
    { f \in Files :
          /\ \A w \in Sweeps : f \notin InHand(w)
          /\ \/ row[f] = "live" /\ f \notin base
             \/ row[f] \in {"archived", "purged"} /\ f \in base
             \/ row[f] = "purged" /\ f \in backup \cup partial }

MisplacedBounded == Cardinality(Misplaced) <= failures * Cardinality(Sweeps) + Cardinality(exposed)

Held(f) == SourceOf[f] \in Covered

\* A step moves, removes or overwrites the file f.
Touched(f) == (f \in base /\ f \notin base') \/ (f \in backup /\ f \notin backup')

\* A sweep touches nothing whose source has been under a hold since before the
\* sweep began.
HoldsHonored ==
    [][\A f \in Files, w \in Sweeps :
           Touched(f) /\ sweep'[w] # sweep[w] => \A h \in honored[w] : SourceOf[f] \notin Covers[h]]_lakeVars

\* Retention: what is old enough is archived, by which archived_at begins anew,
\* or removed, unless it is held or has been misplaced.
RetentionKept ==
    \A f \in BronzeFiles :
        f \in aged /\ row[f] # "purged" ~>
            f \notin aged \/ row[f] = "purged" \/ Held(f) \/ (row[f] = "live" /\ f \notin base)
=============================================================================
