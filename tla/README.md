# Verification of the property-services application

This directory holds TLA+ models of the Go backend in `src/repo/backend` and of
the frontend's stores that load lists page by page (`src/repo/frontend/src`),
the TLC configurations that check them on small instances, and theorems that
TLAPS proves for every instance. Paths below are relative to
`src/repo/backend/internal` unless they begin with `src/`; `stores/` and
`components/` are those of the frontend.

1. [The system](#1-the-system)
2. [What is modelled: module by module](#2-what-is-modelled-module-by-module)
3. [Runs, bounds and fairness](#3-runs-bounds-and-fairness)
4. [Where the code and what is said of it differ](#4-where-the-code-and-what-is-said-of-it-differ)
5. [What is proved](#5-what-is-proved)
6. [What is only model-checked](#6-what-is-only-model-checked)
7. [What is not modelled](#7-what-is-not-modelled)
8. [What could follow](#8-what-could-follow)

## 1. The system

One Go process serves HTTP (each request in a goroutine of its own) over one
MySQL database and a directory tree on disk, and runs four background workers.
Three facts shape every model:

* **Statements autocommit.** Services run `db.ExecContext` and `QueryContext`
  directly; few operations open a transaction. Between two statements of one
  handler any other goroutine may run. Each statement is therefore an action,
  and the handler's local variables are part of the state.
* **Workers restart, operations do not.** The workers tick for ever; a panic in a
  tick is recovered (`bgjob/bgjob.go`), an error is logged, and the next tick
  begins from the tables. No code repairs what a killed process left behind.
* **InnoDB runs at REPEATABLE READ.** A transaction shows nothing before its
  commit, waits for the rows that another one has written, and reads a snapshot
  except where it locks.

### Components

| component | state | operations | what makes it correct |
|---|---|---|---|
| tickets (`ticket/service.go`) | `tickets`: status, assigned agent, cancel reason, SLA deadline, breach flag | create, update status, list, get | a ticket goes through the stages in order; final is final; agent, reason and notices agree with what happened |
| SLA engine (`ticket/sla.go`) | the breach flag; one goroutine, 60 s | a sweep: SELECT, bulk UPDATE, notify each | every ticket open past its deadline is flagged, and its owner told once |
| attachments (`ticket/handler.go`, `review/handler.go`, `upload/safe.go`) | rows and files | upload after INSERT, delete row then file | no row without a file, no file without a row |
| reviews, Q&A (`review`, `qa`) | content rows with a status | write, update, delete | what is not approved is not published |
| moderation (`moderation/service.go`, `middleware.go`) | `moderation_queue`, `moderation_actions`, `violation_records`, `users.posting_freeze_until`, a cache of terms | screen, queue, approve, reject, freeze | queue, content and log agree; one strike per rejection; the second strike escalates |
| data export (`privacy/service.go`) | `data_export_requests`, ZIP files; one worker, 30 s | request, generate, download, purge | a request is served; a ready export has its complete file; files do not outlive their retention |
| account deletion (`privacy/service.go`) | `data_deletion_requests`, `users.is_deleted`/`is_active`, everything that names the user; one worker, 1 h | request, anonymize when due, delete at once | after anonymization nothing identifies the user; a due request completes |
| authentication (`auth/service.go`, `session/store.go`, `middleware/`) | `users`, `login_attempts`, `sessions`, per-user counters | register, login, logout, require, touch, rate limit | passwords that can be tried in a window are few; a lock is announced; an idle session dies, and one in use does not |
| address book (`address/service.go`) | `addresses.is_default` | create, update, delete, set default | one default for each user who has addresses |
| ingestion (`ingest/runner.go`) | `ingest_jobs`, `ingest_checkpoints`, schema versions | run job, next checkpoint | a checkpoint passes over nothing; nothing is stored twice |
| lakehouse (`lakehouse/service.go`, `worker.go`) | `lakehouse_metadata`, files, `legal_holds`; one worker, 24 h | archive, purge, hold, release | no data is lost before its time; what is under hold is left alone; a row's path names its file |
| HMAC keys (`hmacadmin`, `middleware/hmac_verify.go`) | `hmac_keys`, active or revoked; secrets in clear in answers only | create, rotate, revoke, bootstrap; verify | a request is let in with a secret that was accepted; a secret in force was told to somebody; the audit log tells the key's state |
| uploads (`upload/safe.go`) | files named by fresh UUIDs, rows that name them | save, record, delete | no row without a file; a form is filed once, and again only after an error or an answer that was lost |
| dictionary (`moderation/service.go`) | the terms' table, a copy of it in memory | add, delete, reload, scan | the copy is the table; a term that is in is in for every later post |
| rate limiter (`middleware/ratelimit.go`) | a bucket of instants per user, in memory | let through or refuse | no window holds more than the limit |
| notifications (`notification`) | rows, read flags, templates, outbox | dispatch, list, mark read | a notification is told in one place at least |
| lists (five services; `stores/`) | cursors; what the browser has appended | next page | no row twice, none passed over |
| profile (`profile`) | profile, preferences, favourites, history | single statements | - |
| catalogue, shipping (`catalog`, `shipping`) | categories, offerings, regions, templates | CRUD; delivery estimate | - |
| audit (`audit`) | append-only log | INSERT, errors ignored by callers | it has what happened |

### How they interact

* The router hands `ticket` a notification hook (`ticket/service.go`,
  `SetNotifier`); UpdateStatus and the SLA engine call it and the outcome is
  written by `notification`. A failing hook must not undo a status.
* `moderation` is in front of the writing handlers (freeze check and screening,
  as middleware) and behind them (the borderline hook that demotes and queues).
  Its decisions write the tables that `review` and `qa` own.
* `privacy` reads the tables of every component to build an export and writes
  or deletes in them to anonymize a user. `middleware/auth.go` looks at
  `is_active` and `is_deleted` once, at the start of a request.
* The routes pass the rate limiters, the authentication, the freeze check and
  the screening, in this order (`router/router.go`). The limiters and the
  dictionary's copy live in memory, so a restart empties them.
* `notification` reads the preference that `profile` writes; its callers ignore
  what becomes of a notification.
* The browser asks for one page after another and keeps the cursor; between two
  pages the tables change at will.
* The runner of `ingest` calls the lakehouse to write each batch to the bronze,
  silver and gold layers, and then saves its checkpoint.

### What is hard

`PROJECT.json` lists each hazard at its line. In groups:

* *check, then write by id alone*: status updates, exports, moderation
  decisions, jobs, default addresses;
* *two reads of one fact*: the SLA sweep's predicate, the re-read before a
  notification, the count of prior violations, legal holds;
* *two stores, one step each*: ZIP and row, attachment and row, archived file
  and path, demoted content and queue item;
* *a copy and its origin*: the dictionary in memory, a list in the browser, the
  secret that a verifier has loaded, the session that a request has loaded;
* *workers*: batches that must reach every row, ticks that fail, rows that a
  dead process left in an intermediate status;
* *requests that outlive a change of their user*: an update in flight while the
  account is anonymized, a session touched after logout.

## 2. What is modelled: module by module

### `Ticket` - the ticket service and its SLA engine

State: the columns of `tickets` as functions of the ticket (`status`, `agent`,
`reason`, `overdue` for `sla_deadline < NOW()`, `breached`), the locals of each
request goroutine (`req`), the place and the slice of the running sweep
(`sweep`, `toBreach`), what the notification hook was given (`announced`,
`reminded`, `breachNotices`), and history that no column keeps (`reached`,
`forced`, `reopens`, and `between`: the tickets whose deadline passed, or that
came back from a status that sweeps skip, between a sweep's SELECT and its
UPDATE).

| code | action |
|---|---|
| `Service.Create` | `Create` |
| `Service.UpdateStatus`: SELECT and `CheckTransition`; UPDATE; SELECT; notify; upcoming-end notice | `Load`, `Write`, `Reread`, `Notify`, `Remind` |
| `SweepBreachesOnceWithNotify`: SELECT; bulk UPDATE; one notice per row | `SweepSelect`, `SweepFlag`, `SweepNotify` |
| `NOW()` passes a deadline | `Expire` |
| the notification alone fails; its error is dropped, the reminder still goes out | `NotifyFails` |
| an error, a cancelled request, a panic that `bgjob.Safe` recovers, a restart | `RequestFails`, `SweepFails`, `SweepDropsNotice`, `Crash` |

A request that `CheckTransition` refuses changes nothing and has no action. The
status is written by id alone, so `Write` has no guard on `status`: that is the
race at the heart of the module. The addresses, categories and texts of a
ticket play no part in any property and are left out.

Properties: `ColumnsMatchHistory` (agent, cancel reason, announced statuses and
reminders each stem from a status the ticket was in; an owner who is reminded of
the end of a service was told of the service, unless a fault took that notice),
`BreachNoticesBounded` (one breach notice, and one more for each return from a
status that sweeps skip; and without a fault none too few, but for the tickets in
`between`, which are flagged and never notified), `StatusAnnounced` (at quiescence the owner knows the status),
`OverdueIsFlagged` (liveness), and the refinement `PromiseKept`.

### `TicketPromise` - the abstract specification of a ticket

A ticket as its owner sees it: the set of stages reached. A stage is entered
from the stage before it, or by an administrator; the breach flag is raised on
late tickets only and stays. The refinement mapping of `Ticket!PromiseKept`
takes `reached` and `forced` as they are and reads `late` and `flagged` off the
columns. That stale writes may bring a *status* back, and still never let a
stage be *entered* without its predecessor, is the content of the refinement.

### `Moderation` - screening, the queue, decisions and freezes

State: the status and text of each content, its queue item, the log of its
actions, the strikes of each user with their durations, the freeze, the locals
of each writing request and of each moderator's decision, and the clock.

| code | action |
|---|---|
| `middleware.go` FreezeCheck and ScreenContent | `StartPost` (a freeze check whose SELECT fails lets the request through; borderline text passes without a flag if its body is not labelled JSON or no dictionary was ever loaded) |
| INSERT of a review, thread or post | `Insert` |
| `OnBorderlineFlagged`: transaction; queue item | `Demote`, `Enqueue` |
| review update, deletion of a reply | `UpdateReview`, `DeletePost` |
| `ApproveItem`: test of the item; transaction | `ApproveCheck`, `Approve` |
| `RejectItem`: test and author; up to the COUNT; the rest and commit | `RejectCheck`, `RejectCount`, `RejectCommit` |

`RejectItem` is split at the COUNT because the count is a snapshot read that no
lock on the author covers; everything the transaction has written before it is
invisible until the commit, and the rows it has locked are `Locked(c)`, for
which other writers wait. `HiddenAs` is the table of statuses that a rejection
writes: `rejected`, `closed`, `removed`, one for each ENUM.

Properties: `QueueAgrees` (queue, content and log tell the story of the last
decision, even when two moderators decide one item), `StrikePerRejection`,
`LeniencyBounded` and `ShortenedOnlyByStaleCount` (what overlapping rejections
may do to the escalation, and no more), `FlaggedIsQueued` (liveness: flagged
content reaches the queue unless its request is cut short).

### `DataExport` - the export pipeline

State: the rows of `data_export_requests` (`status`, `owner`, `filed`,
`overdue`), the ZIP of each (`missing`, `partial`, `complete`), the worker's
place in its tick (`pc`, `on`, `todo`), the locals of requests, and what each
download received.

| code | action |
|---|---|
| `RequestExport`: SELECT; INSERT | `CheckActive`, `Insert` |
| `Download` handler: SELECT and tests; `os.Stat`; `c.File`; `MarkDownloaded` | `Load`, `Stat`, `Stream`, `MarkDownloaded` |
| worker: `SELECT ... LIMIT`; `GenerateExport` | `Poll`; `Claim`, `StartZip`, `FinishZip`, `MakeReady` |
| `CleanupExpiredExports`: SELECT; `os.Remove`; UPDATE | `SelectExpired`, `RemoveFile`, `MarkExpired` |
| an error at each of these; a truncated archive; a restart | `PollFails` ... `Crash` |

`writeUserZip` discards the collectors' errors and that of the deferred close,
hence `ZipTruncated`. The statuses after a failure follow `GenerateExport`: back
to `pending` only when `writeUserZip` itself reports an error (`ZipFails`), left
in `processing` otherwise (`GenerateFails`).

Properties: `LossBounded` (each fault costs one export at most),
`DownloadIntact` (no download receives an archive that is being written),
`PendingIsServed` and `OverdueIsPurged` (liveness), and the refinement
`PromiseKept`.

### `ExportPromise` - the abstract specification of one export

A row as its user sees it: asked for, offered, taken, withdrawn; the archive
that can be downloaded; what downloads received. An archive is offered once, does
not change while it stands and goes away only when the row's time is over, and a
row counts as taken only after a download has received what the archive was. The
UPDATEs of the code name no former status but one, so none of this is enforced
by the table: it follows from the order of the worker's steps and from where
requests have been. The mapping of `DataExport!PromiseKept` hides `processing`
(a row whose archive is being written has none yet) and with it every
failure of the worker. A row may be withdrawn and marked as taken
afterwards, which the promise allows, because the code does it.

### `AccountDeletion` - the end of an account

State: the flags of `users`, whether the profile holds personal data, the
address book with its defaults, the addresses that tickets name, the rows of
`data_deletion_requests`, the worker's slice of due rows (`todo`), and the
locals of each request in flight.

| code | action |
|---|---|
| `RequireAuth` | `Begin`: the one look at the account |
| `UpdateProfile` | `UpdateProfile` |
| address `Create`: SELECT of the count; INSERT | `CountAddresses` or, its error ignored, `CountFails`; `Insert` |
| address `Delete`; `SetDefault`: SELECT; transaction | `DeleteAddress`; `LoadAddress`, `SetDefault` |
| ticket `Create`: SELECT of the owner; INSERT under the foreign key | `CheckOwner`, `FileTicket` |
| `RequestDeletion`: SELECT; transaction | `CheckPending`, `CommitDeletion` |
| `ProcessDueDeletions`: SELECT; `AnonymizeUser` for each row | `SelectDue`; `Anonymize`, `AnonymizeBlocked`, `AnonymizeFails` |
| `AdminHardDelete` | `HardDelete` |
| the grace period passes; an error; a restart | `ComeDue`; `RequestFails`, `Crash` |

`AnonymizeUser` is one transaction of writes that read nothing, and is one
action. It can fail for a reason of its own: the lines of an address are NOT
NULL, so the UPDATE that clears them falls back to a DELETE, and a ticket's
foreign key refuses that (`Blocked`).

Properties: `ResidueBounded` (each request that was let in before the end leaves
at most one datum behind after it), `AccountAgrees` (flags, requests and the
grace period), `DefaultsBounded` (what the unguarded count may do to the
default), `TicketKeepsAddress`, `DueIsAnonymized` (liveness: a due request is
carried out unless a ticket blocks it).

### `Ingest` - jobs and their checkpoints

State: one source of any type with its items and their stamps, the rows of
`ingest_jobs` and `ingest_checkpoints`, which checkpoints share the latest
second (`newest`), the bronze rows with the highest layer derived from each, and
the locals of each goroutine that runs a job. Jobs of different sources share
nothing, so one source is enough. History: versions that arrived out of the
order of their stamps (`late`), whether the LIMIT has cut a result (`cutoff`),
and whether runs overlapped or checkpoints fell into one second (`disturbed`).

| code | action |
|---|---|
| a log grows, is rotated; a row or a file is added or changed | `Grow`, `Rotate`, `Arrive` |
| `CreateJob` | `CreateJob` |
| `RunJob`: test of the status; UPDATE to running; newest checkpoint | `Load`, `MarkRunning`, `Resume` (an error of this SELECT is ignored: `ResumeFails`) |
| `pullDBTable`, `pullLogFile`, `pullFilesystemDrop` | `Pull`, by operators of these names; `PullFails` |
| `WriteBronze`; `WriteSilver` and `WriteGold` | `WriteBronze`, `BronzeFails`; `Derive`, `DeriveFails` |
| `SaveCheckpoint`; final UPDATE | `SaveCheckpoint`, `SaveFails`; `CompleteJob` |
| a cancelled request, a restart | `RunCut`, `Crash` |

The stamp of an item stands for the byte offset at which a chunk of a log ends,
the modification time of a file or the `updated_at` of a row. Tables have the
optional `updated_at_column`; without it every pull reads the whole table. The
runner compares these times as strings (`runner.go:226`), whose order is that of
the times when their fractions have one length, as in columns of whole seconds;
the model has such columns. The
row-count check compares a number with itself (`runner.go:113`) and is left out.

Properties: `NothingElseIsPassedOver` (a checkpoint has data behind it that is
not in the lakehouse for three reasons only: a stamp out of order, the LIMIT
without ORDER BY, a log that was rotated and has outgrown the offset),
`OnceWhenUndisturbed` (no duplicates from logs and directories),
`TablesAgree` (status, checkpoint and bronze rows of a job, although two runs of
it may overlap; and a job that says running without a run in hand, which is
refused for ever, is the work of a fault: each strands at most one for every
goroutine).

### `Lakehouse` - files, sweeps and legal holds

State: the lifecycle of each row of `lakehouse_metadata` (`row`, and `aged` for
the comparison with the clock), the files under the base and the backup
directory, complete or `partial`, whether these are on one device, the holds,
writers between file and INSERT, and the locals of each goroutine in
`RunLifecycle`. Writing is the `WriteBronze` step of `Ingest`; the modules meet
only there, and are checked apart.

| code | action |
|---|---|
| `write`: file; INSERT | `WriteFile`; `InsertRow`, `InsertFails` |
| `PlaceHold`, `ReleaseHold` | the same |
| `RunLifecycle`: holds; SELECT of old rows; loop | `ReadHolds`, `SelectOld`, `Skip` |
| `archiveFile`: rename | `Rename`, `Missing`, `ArchiveFails` |
| its fallback: read; write; remove | `Read`; `BeginCopy`, `EndCopy`, `CopyFails`; `RemoveSource`, `RemoveSourceFails` |
| its UPDATE | `MarkArchived`, `UpdateFails` |
| SELECT of stale rows; loop | `SelectStale`, `SelectFails`; `Skip`, `Remove`, `PurgeFails`, `MarkPurged` |
| an administrator's client goes away | `Cancel`, `CancelledUpdate`, `CancelledSelect` |
| days pass; a restart | `Age`; `Restart` |

The volumes of `src/repo/docker-compose.yml` put the lakehouse and the backups on
devices of their own, so that every archiving there takes the fallback. The
model has both cases.

Properties: `DataKept` (data is on the disk until it is old enough to be
removed; it is lost only if the copying of a file fails that another sweep has
copied and removed meanwhile), `MisplacedBounded` (rows whose file is
elsewhere, which nobody finds again, are paid for by failures and cancelled
requests), `HoldsHonored` (action property: a sweep touches nothing whose source
was held when the sweep began and still is), `RetentionKept` (liveness).

### `Auth` - signing in, and sessions

State: `users.is_active`, the failures of `login_attempts` by the time of the
attempt, the rows of `sessions`, how far each login is, the copy of the session
that each request works on, and the requests whose Touch is under way. Time is a
clock, because both halves of the module are about windows. History: passwords
refused by time (`guesses`), locks reached and notices sent, when a request was last admitted (`seen`), the requests
that read the session before another's Touch (`outdated`), and what came between
a failure's INSERT and its COUNT (`overlaps`: another failure, or a tick).

| code | action |
|---|---|
| `checkLockout`: SELECT of the count; SELECT of the last failure | `CountFailures`; `DateLock` (both let a login pass on an error: `CheckFails`) |
| `getUserByUsername` and the password | `Compare` (an error counts as a failed attempt: `LoadFails`) |
| `recordAttempt`: INSERT; count and notice | `RecordFailure`; `Announce` |
| `session.Create` | `Create` |
| `RequireAuth`: SELECT; the tests; SELECT of `is_active` | `GetByID`; `Expire`, `Refuse`, `Admit` |
| its goroutine | `Touch`, `TouchFails` |
| the handler behind it | `Answer`, or `Logout` |
| the clock; a deletion request; errors; a restart | `Tick`; `Deactivate`; `LoginFails`, `RequestFails`, `Restart` |

A Touch takes its time before it waits for a connection and is given up after
5 s, hence it may store the time of the tick before (`Touch`), and no tick
passes over one (`Tick`). Roles play no part in the properties.

Properties: `GuessesBounded` (what overlapping logins may try beyond the
threshold: one password for each other goroutine, and one for each failed
statement; a restart loses what every goroutine had still to store, which is why
errors count times the goroutines),
`LockAnnounced` (one notice for each lock; failures that overlap at the threshold
jump over it or hit it twice, and each overlap hides or repeats one notice at
most, each error hides one at most),
`ExpiredOnlyIfIdle` (action property: a session that is in use ends for
inactivity only when the request that ends it had read it before another's
Touch, or a Touch was lost).

### `Keys` - the keys of the signed internal API

State: for each key_id the secret and whether it is active, what the newest
audit entry about it says, the locals of administrators' requests (`req`) and
of signed requests (`call`), and whether the server is up. A secret is the number
under which it was generated; a signature is the secret that made it. History:
secrets that were shown to somebody, who was told that he created a key, changes
and entries counted, keys whose changes overlapped (`crossed`), and requests
that a fault ended after their change (`cut`).

| code | action |
|---|---|
| `Create`: SELECT of the name; INSERT | `CreateLookup`; `CreateInsert` |
| `Rotate`, `Revoke`: one UPDATE each | `Rotate`, `Revoke` |
| `selectOne`, `writeAudit` and the answer | `Audit`, with `Entry`; an error, or an answer that is lost before the entry or after it: `Fail` |
| `ValidateHMAC`: `loadSecret`; body and comparison | `Arrive`, `LoadSecret`; `Verify`; `Done` |
| `EnsureDevKey` at start-up; the end of the process | `Boot`; `Crash` |

Properties: `AdmittedWhileAccepted` (the secret is loaded before the body has
arrived, however slowly it comes; a request is still admitted only with a
secret that was accepted at some instant since the request arrived, so that a
revocation that was answered holds for every later request), `SecretReaches`
(a key whose secret in force nobody was told is the work of a fault, and no name
has two creators), `AuditAgrees` (entries are written after the change and
outside its statement: they count the changes up to those under way or cut, and
the newest tells the key's state unless changes overlapped).

### `Uploads` - files of tickets and reviews

State: the rows of tickets and reviews with the form each was made from, the
rows of their files, the storage directory, the locals of submissions and of
deletions. History: how many files came with the form, how each submission was
answered, the submissions whose client gave up before the answer (`unheard`), and
the files that a fault left without a row (`stray`).

| code | action |
|---|---|
| the `Create` handlers of `ticket` and `review`: count of files; INSERT | `Submit`; `Insert`, or `Fails` |
| `upload.Save` of one file: tests; write, with its deferred removal | `Refuse`; `Save` |
| `RecordAttachment`, `RecordImage`; the answer | `Record`, `RecordFails`; `Answer` |
| `DeleteAttachment`: SELECT; DELETE; `os.Remove`, unchecked | `LoadAttachment`; `DeleteRow`; `RemoveFile` |
| the client hears of an error, or closes the page, while the handler goes on or has answered 201 | `GiveUp` |
| the end of the process | `Crash` |

`Submit` follows the form in `views/TicketCreateView.vue` (lines 207 to 211; the
form of a review likewise): its button is disabled until `axios` returns and
enabled again after any error. That may be an answer of the server, a connection
that broke, or the 504 of the proxy, which waits 60 s (`deploy/docker/nginx.conf`)
while the handler goes on; the API has no idempotency key. `GiveUp` is the error
that the server knows nothing of, and it counts as a fault. A file that was written
in part is removed by a deferred `os.Remove`, which may fail as well (`Save`).

Properties: `FilesMatchRows` (a file is there before its row and until its row is
gone; a file without a row is in somebody's hands or was left by a fault) and
`FiledOnce` (201 means every file; of all that is made from one form, however often
it is sent, at most one is neither an error nor unheard, so that each ticket too
many is paid for by an error or a lost answer; a review, whose ticket is UNIQUE, is
made once, and what it lacks after a failure it lacks for ever).

### `RateLimiter` and `Screening` - the way of a post

`RateLimiter` is the sliding window: a bucket of instants per user (`Pass`), the
clock (`Tick`), a new process with empty buckets (`NewRateLimiter`). It is a
specification of its own, of which `WindowKept` says that no window of one
process lets more than the limit through, wherever it ends.

`Screening` puts it in front of ScreenContent and has the dictionary with its
copy in memory. Each state of the table has a number (`version`), and history
variables keep which of them the cache, a reload and a promise to an
administrator refer to.

| code | action |
|---|---|
| `AddTerm`, `DeleteTerm`: the statement | the same |
| `ReloadTerms`: SELECT; assignment under the mutex | `Select`, or `SelectFails`; `Store` |
| the answer | `Answer` |
| the limiter of reviews; `ensureCache`; `Screen` with `ScanText`; the handler | `Arrive`; `EnsureCache`; `Scan`; `Leave` |
| start of the process | `Boot` |

Two reloads have no common lock, so that the older SELECT may be stored last.
`CacheAgrees` says when the copy is the table nevertheless: if the last reload
was alone and no change or failed reload came after it. `ScreenedAsPromised` says
what a post may count on: a text is judged by one state of the table, no older
than the newest change whose administrator had been answered when the text
arrived. Terms are single words, for which a text is a set of terms.

The specification implements `RateLimiter!LimiterSpec` on the limiter's
variables; that is theorem `ScreeningLimits`, and makes `WindowKept` a property
of both.

### `Paging` and `Listings` - lists, page by page, and notifications

`Paging` is a list in the browser on top of a table that changes in any way
(`Change`): requests for pages that may overlap (`Ask`), the server's answer
(`Answer`, with `PageSize` for the limits and `IsPage` for the query that asks
for one row more than it returns), the store that appends it (`Receive`), a
request that fails (`Drop`), and items that the store takes out (`Forget`).
Five services and six stores have this code, and the module is written once for
all of them. `ListComplete`: if the pages of the list were asked for one at a
time, nothing is in it twice, and whatever has matched ever since the first page
was read is in it down to the cursor.

`Listings` says which tables these are and how they change: INSERTs that take
their id before they commit (`Begin`, `Commit`, `Abandon`), so that rows appear
out of the order of their ids; decisions of moderators, toggles and updates of
offerings, removals with what the store is told of them (`Told`), marks as read.
One of the six lists is open in each behaviour. That every step of it is a step
of `Paging` is theorem `ListingsArePaged`.

Dispatch is part of the module, because its INSERT is one of those: `Render`,
`InsertNotice`, `CommitNotice`, `Lookup` (the preference, TRUE on any error),
`Enqueue`. Preferences and templates change meanwhile (`UpdatePreferences`,
`UpsertTemplate`), and `Restart` cuts everything and seeds the templates again.
`NoticeDelivered`: a call without a fault has left the notification, and a row in
the outbox if the user wanted none in the application all the time; one who
wanted them all the time has none in the outbox, not even after a fault. Dispatch
drops the errors of the lookup and of the outbox's INSERT, so that after a fault a
user who wanted none has the notification in the list only.

## 3. Runs, bounds and fairness

| run | instance | shows |
|---|---|---|
| `ticket` | 1 ticket; a customer, an agent, an agent who is also administrator; 2 request slots, 3 requests, 1 fault | the properties of `Ticket`, and that it implements `TicketPromise` |
| `moderation` | 1 author with a review, a reply and a thread; 2 moderators; freezes of 1 and 2 ticks; clock to 2; 1 fault | the properties of `Moderation` |
| `export` | 2 users, 2 request goroutines, 2 rows, batch of 1, 1 fault | the properties of `DataExport`, and that it implements `ExportPromise` |
| `deletion` | 2 users, 2 request goroutines, 2 addresses, 2 deletion requests, 1 fault | the properties of `AccountDeletion` |
| `deletion_stuck` | 1 user, no fault | violation of `DueIsServed` |
| `ingest` | a source of each type with 2 items and 2 stamps; 2 goroutines, 2 jobs, 3 runs or 2 and a fault, LIMIT 1 | the properties of `Ingest` |
| `lakehouse` | 1 bronze file, 1 of another layer, a hold on the source of the first and a job of it; the worker, 1 sweep of an administrator, 2 failures; one device and two | the properties of `Lakehouse` |
| `auth` | 2 login and 2 request goroutines, 4 calls, 1 session; threshold 2, window 2, lock 3, timeout 2, lifetime 3, clock to 4; 1 error | the properties of `Auth` |
| `keys` | 2 keys, one of them the bootstrap key; 2 administrators' requests and 1 signed request at a time; 3 secrets, 2 faults | the properties of `Keys` |
| `uploads` | 1 ticket form and 1 review form, 2 submissions and 2 deletions at a time; 2 rows, 2 files, limit 2, 2 faults | the properties of `Uploads` |
| `screening` | 1 user with 1 post at a time, 2 administrators, 1 term, 3 changes; limit 2 in a window of 2, clock to 2, 3 passes; 2 starts, 1 fault | the properties of `RateLimiter` and `Screening` |
| `listings` | each of the six lists; 3 rows about 2 subjects, pages of 2, 3 requests of which 2 may overlap; 1 code, 1 call of Dispatch | the properties of `Paging` and `Listings` |

The type invariant of every module is a theorem (section 5), and is left out of the
runs.

Why these bounds are enough for the cases that matter:

* *Two requests* are what an overlap needs; a third request, in `ticket`, lets
  an administrator reopen between them. Tickets do not interact except through
  one sweep's slice, which the proofs (any number of tickets) cover.
* *Three contents of one author* reach one of each kind and three strikes, with
  two decisions overlapping; two authors would not share any row.
* *A batch of one row over two rows* makes the LIMIT bite: the second row waits
  for a later poll.
* *One fault* falls at every point of every behaviour; combined with the
  interleavings it reaches each intermediate status that no code repairs.
* *Two users with two addresses* give each user a default of its own, or one user
  two: what a transaction on one user might do to the other shows.
* *Three runs of two jobs* are two that overlap, on one job or on two, and one
  that resumes from what they left; a fault takes the place of one of them
  (`MaxRuns` bounds both together); a LIMIT of one row over two cuts; two
  stamps over two items collide, follow each other, and come out of order.
* *One bronze file and a hold on its source*, placed and released at any moment of
  two sweeps: files share nothing but the slice of a sweep, from which each is
  taken by itself. The worker and one administrator are the two sweeps that may
  overlap; the worker sweeps again and again.
* *A threshold of 2 with two logins* puts the bound of `GuessesBounded` at three
  guesses, which two overlapping logins reach, and the four calls at one more.
  An error is counted on the right of the bound for each login, so that four calls
  do not reach it after one: that it is right there is shown by the proof.
  The durations keep the order of the code's (window shorter than lock, timeout
  shorter than lifetime), and with the clock to 4 each of them runs out.
* *Three secrets of two keys* are a creation, and two rotations of one key that
  overlap, or a creation of each and a rotation. *Two faults* cut two requests,
  with which the right side of `SecretReaches` is more than one.
* *Two rows, two files and a limit of 2* are a filing that fails with one of its
  files stored, or that its client gave up on, and a second filing of the same
  form that completes, while the two deletions race for one file.
* *Three changes by two administrators* let two reloads cross and a third one mend
  the cache. *Three passes and a limit of 2 over three ticks* fill a window,
  refuse, and slide.
* *Three rows and pages of two* are a list of two pages, and one row that appears,
  goes or changes between them; three requests are two that overlap and a
  reopening.
* `MaxRequests`, `MaxExports`, `MaxAddresses`, `MaxDeletions`, `MaxJobs`,
  `MaxRuns`, `MaxStamp`, `MaxSweeps`, `MaxCalls`, `MaxTime`, `MaxSecrets`,
  `MaxOwners`, `MaxFiles`, `MaxPasses`, `MaxBoots`, `MaxChanges`, `MaxRows`,
  `MaxAsks`, and `MaxFaults`, `MaxFailures` or `MaxErrors`, are the only bounds in
  guards; the proofs leave them all arbitrary.

Symmetry is used where no liveness property is checked and model values are
interchangeable: goroutines in `ingest`, `auth`, `keys`, `uploads`, `screening`
and `listings`.

Deadlock is checked in `export` and `lakehouse`, whose workers never stop. In
the other runs a behaviour ends when its requests, accounts, jobs, secrets, rows
or ticks are used up.

### Fairness

* `Ticket`: weak fairness of the sweep's steps. The engine's goroutine loops over
  a 60 s ticker until the process ends (`StartSLAEngine`), `bgjob.Safe`
  keeps a panic from ending it, and a restart starts it again.
* `Moderation`: weak fairness of the steps of a writing request that has begun:
  the handler runs them one after the other and waits for nobody but the
  database. Moderators need not act.
* `DataExport`: weak fairness of the worker's generating and cleaning steps, by
  its 30 s ticker. Users need not ask, download, or let time pass.
* `AccountDeletion`: weak fairness of the hourly worker's SELECT and of its
  work on the rows that it selected. Nothing is assumed of requests.
* `Lakehouse`: weak fairness of the worker's steps, by its 24 h ticker. The
  worker is not under `bgjob.Safe`: a panic ends the process, and a restart
  starts it again. Administrators need not sweep, nor go on with a sweep.
* The other modules have no fairness: nothing runs in them but requests, whose
  clients may stay away, and no promise of theirs is about what must happen.

No strong fairness is used: nothing in the code makes a step happen that is
only enabled now and then.

## 4. Where the code and what is said of it differ

One of these is a run that TLC must find violated, `deletion_stuck`:
`PROJECT.json` quotes the line. The account of a user with a ticket is never
anonymized: the foreign key refuses the deletion of the address, its columns
refuse NULL, and every tick rolls the transaction back and tries again.

Seen while modelling, and without a run of their own:

* `CheckTransition` calls Closed and Cancelled final (`ticket/service.go:262`), but
  it sees a snapshot: an agent's dispatch that was checked before the owner's
  cancellation and written after it takes the ticket out of Cancelled (line 216).
* Two overlapping rejections of one author count the same prior violations, and
  both apply the short freeze (`moderation/service.go:392`, against
  `src/repo/README.md:386`). `LeniencyBounded` says how far this goes.
* After a pull that found nothing new, a table's newest checkpoint is an offset,
  which its puller does not heed: the next job stores the whole table again
  (`ingest/runner.go:252` and 189, against `src/docs/questions.md:69`).
  `OnceWhenUndisturbed` makes the exception.
* The lock is recognised by five failures in ten minutes, so it is over when the
  oldest of them is ten minutes old, although 423 answers and the notice name the
  fifteenth minute after the last one (`auth/service.go:305`, against
  `src/docs/design.md:112`).
* A hold on a job protects nothing, because `RunLifecycle` discards the set of
  held jobs and no file names its job (`lakehouse/service.go:221`, against
  `src/repo/README.md:348`).
* Two failures that overlap at the threshold count six each and announce no lock,
  or both count five (`auth/service.go:347`, against line 338).
* The SLA sweep flags what expired between its SELECT and its UPDATE and notifies
  only what it selected (`ticket/sla.go:91`, against lines 21-22).
* Multipart bodies pass the screening unread, and the update of a review fires no
  borderline hook (`moderation/middleware.go:60`).
* The cleanup of exports selects ready rows only, so that a downloaded file stays
  for ever (`privacy/service.go:408`, against line 9).
* An update of a category or of a template that changes nothing is answered with
  404, because RowsAffected counts changed rows; so is the marking of a
  notification that was read already.
* Creating and updating reviews share one bucket (`router/router.go:316-318` says
  that each action has its own).
* A submission whose answer is lost is filed again, as another ticket, for neither
  the form nor the API recognises it (`TicketCreateView.vue:207`,
  `ticket/handler.go:176`).
* A job that is running when the process dies, or whose final UPDATE fails, says
  running for ever, and `RunJob` refuses it (`ingest/runner.go:80` and 68).
* A legal hold placed during a sweep does not stop it: the holds are read once
  (`lakehouse/service.go:221`). `HoldsHonored` speaks of the holds that were there
  before its SELECT.
* After a dropped error of the lookup or of the outbox's INSERT, a user who wanted
  no notifications in the application has it there alone
  (`notification/service.go:153`).
* The cache of the dictionary is stale from a change to its reload, and after
  crossed reloads until the next one (`moderation/service.go:73`).
* When the first page of a new filter fails, the list of services keeps the items
  and the cursor of the former filter, and the next page mixes the two
  (`ServiceCatalogView.vue:97`).
* The goroutine that records a view uses gin's context after the handler has
  returned (`catalog/handler.go:156`): the view may be lost.

## 5. What is proved

Each of the eight proof modules holds for every set of users, goroutines, rows
and other constants and for every bound, under the named assumptions of the
modules that it extends. Three of them (`CursorProofs`, `RetentionProofs`,
`AccessProofs`) hold two components each, which share no variable and no step;
a lemma about numbers or finite sets serves both. None of the safety properties
is inductive, since a request acts on what it saw earlier; the invariants add
what the locals of a request, the worker's place and the history have to do with
each other.

### `TicketProofs`

Under `CallersAssumption` (tickets have owners among the callers,
customers hold no staff role, NULL is no caller) and `BoundsAssumption`:

| theorem | establishes | by the invariant |
|---|---|---|
| `TypeCorrect` | `[]TypeOK` | `TypeInv`: TypeOK, and a request's ticket exists |
| `ColumnsAgree` | `[]ColumnsMatchHistory` | `HistoryInv`: what a request carries in its locals is sound with respect to the history, and to what was `Heard` (announced, or after a fault anything) |
| `NoticesBounded` | `[]BreachNoticesBounded` | `SweepInv`, the upper bound: a count of notices sent and of those due in the running sweep; `SilentInv`, the lower: what the UPDATE will flag was selected or is in `between` |
| `StatusTold` | `[]StatusAnnounced` | `AnnouncedInv`: a request is on its way that will announce the present status |
| `KeepsPromise` | `Spec => PromiseKept`, the refinement of `TicketPromise` | `HistoryInv` |

`ColumnsMatchHistory` says nothing about the request that is about to
write; `HistoryInv` adds that its snapshot is a status the ticket was in, that
the step from there was allowed to its caller, and that a request which will not
assign an agent, although it dispatches, found one or is an administrator's. As
these speak of `reached`, which only grows, no other goroutine can make them
false, however late the write comes: this is why the races, which do undo
statuses, leave the history sound. `SweepInv` relates the flag, the place in the
sweep and the counter: a ticket that is selected and not yet notified has had
no notice since it was last reopened. `AnnouncedInv` needs "no fault so far",
and follows the last writer: whoever writes the present status re-reads and
announces it, or another request writes after it and takes over the duty.

`KeepsPromise` shows that initial states map to initial states, and that each
step maps to a step of `TicketPromise` or to a stutter; a write maps to `Work`
or `Force` according to the caller.

### `AccountDeletionProofs`

The set of request goroutines is finite.

| theorem | establishes | by the invariant |
|---|---|---|
| `TypeCorrect` | `[]TypeOK` | itself |
| `FlagsAgree` | `[]AccountAgrees` | `AccountInv`: a row has one asker, and what the worker has selected is due |
| `AddressesKept` | `[]TicketKeepsAddress` | `BookInv`: with `TypeOK`, by which a new id is in no book yet |
| `ResidueStaysBounded` | `[]ResidueBounded` | `ResidueInv`: with `TypeOK`; a request in flight counts for the datum it may write |
| `DefaultsStayBounded` | `[]DefaultsBounded` | `DefaultsInv`: with `BookInv`, as clearing one user's defaults must leave the others' alone |

The two bounds are potential arguments. A request in flight is a claim on one
datum (or on one default); writing it exchanges the claim for the datum, so the
sum does not grow, and after the end of the account nobody can add a claim.
Defaults have a second source, a count that found nothing because it failed,
which is why faults are on the right of `DefaultsBounded`. The cardinalities are
those of FiniteSetTheorems.

### `RetentionProofs` (`DataExport`, `Lakehouse`)

| theorem | establishes | by the invariant |
|---|---|---|
| `TypeCorrect` | `[]TypeOK` | itself |
| `DownloadsIntact` | `[]DownloadIntact` | `IntactInv`: TypeOK, `Stages` (which statuses the rows of the worker and of downloads can have), `Archives` (where a file may be missing or partial), `Deliveries` |
| `LossIsBounded` | `[]LossBounded` | `LossInv`: `IntactInv`, and the rows that are lost *or doomed to be* are at most the faults |
| `KeepsPromise` | `Spec => PromiseKept`, the refinement of `ExportPromise` | `PromiseInv`: `IntactInv`, and a request about to mark a row has streamed it |

A fault does its damage a step later: a truncated archive is lost when it is
declared ready, a file that was not removed when its row expires. `Doomed` counts
these rows at the fault, so that each step of the worker leaves the sum alone. The
refinement is by cases on the steps; the worker's writes to an archive are
invisible because `Stages` says that its row is `processing`, and its removal of a
file is allowed because `Stages` says that the rows of a purge are past their time.

Of `Lakehouse`, whose sets of files and of sweeps are finite:

| theorem | establishes | by the invariant |
|---|---|---|
| `LakeTypeCorrect` | `[]LakeTypeOK` | itself |
| `HoldsAreHonored` | `LakeSpec => HoldsHonored` | `HeedInv`: a hold that has stood since the sweep's SELECT is in the sweep's set, and no file in hand belongs to that set |
| `NoDataLost` | `[]DataKept` | `KeptInv`: `RowStages` (the statuses of the rows on a sweep's lists) and `Hands` (a file that a sweep has in hand is where its step left it, unless another sweep has it too) |
| `FewMisplaced` | `[]MisplacedBounded` | `AstrayInv`: `RowStages`, `Noted` (what a cancelled sweep works on was noted when it was cancelled), `StrayBounded` |

`Hands` is a pact between sweeps: each is promised that its file does not go away
under it, and in exchange two that take up one file are remembered in `shared`,
after which only a failure may lose data. `StrayBounded` is a potential argument
of the kind of `Doomed`: a file is counted as soon as going on with its sweep
would misplace it, one failure puts at most one file of each sweep into that
state, and a step that does not fail puts none there.

### `ModerationProofs`

| theorem | establishes | by the invariant |
|---|---|---|
| `TypeCorrect` | `[]TypeOK` | `Typed`: the statuses are a function on the contents |
| `StoriesAgree` | `[]QueueAgrees` | `AgreeInv`: `Typed`, `Written` (content being written has no queue item), `Decided` (a decision is about an item) |
| `StrikesCounted` | `[]StrikePerRejection` | `StrikesInv`, with finiteness of the rejections in the log |
| `LeniencyIsBounded` | `[]LeniencyBounded` | `Escalation`: short strikes, and moderators about to give one, are no more than the moderators |
| `FreezesStand` | `Spec => ShortenedOnlyByStaleCount` | `Escalation` and `Freezes`: no freeze is longer than the long one, none without a strike |

`Escalation` is where the race is: a moderator who counted no violations holds a
claim on a short strike, and nobody can count none once a strike is there. An
action property needs no more than the invariants: if the end of a freeze comes
nearer, the rejection was a first one by its count, yet there was a strike.

### `AccessProofs` (`Keys`, `Auth`)

| theorem | establishes | by the invariant |
|---|---|---|
| `TypeCorrect` | `[]TypeOK` | `TypeInv`: an active key has a row |
| `AdmittedTimely` | `[]AdmittedWhileAccepted` | `Admission`: what a request has witnessed contains the secret it loaded and the one in force |
| `AuditTells` | `[]AuditAgrees` | `Accounting`: entries, changes still to be told and cut requests add up; a key is as its newest entry, or as the one request yet to write says |
| `SecretsReach` | `[]SecretReaches` | `Creation` (one creator for each key), `Numbered` (no two keys have one secret), `FewMute` |

`FewMute` is a potential argument: a fault that ends a request after its change
makes at most the key of this request mute. It needs `Numbered`, for a request
tells one secret and thus one key.

Of `Auth`, under `DurationsAssumption` (the window is shorter than the lock; in the
code 10 and 15 minutes) and with finitely many goroutines:

| theorem | establishes | by the invariant |
|---|---|---|
| `AuthTypeCorrect` | `[]AuthTypeOK` | itself |
| `GuessesAreBounded` | `[]GuessesBounded` | `Guessing`: `Balanced` (from any time on, refused passwords are at most the rows, the INSERTs still to come and those that were lost), `LetPass` (rows of the window and logins beyond the check are at most what the threshold allows, the other logins, and those that an error let pass) |
| `LocksAreAnnounced` | `[]LockAnnounced` | `Announcing`: both inequalities with the logins about to count in them, `Extra` for the notices they may send too many, `Pending` for the one still due |
| `UsedSessionsStay` | `AuthSpec => ExpiredOnlyIfIdle` | `Using`: `Stored` (the row knows the last use to a tick, or the Touch of that use is under way), `Copied` (so does a copy that nobody was admitted beside), `Recent`, `Opened` |

`Balanced` must speak of every suffix of time, not of the present window, since the
window's beginning moves with the clock while the logins stand still. `LetPass`
holds after a check because a login goes on only when the window is below the
threshold: by the count, or because the lock has ended (`NotLocked`: then the window
is empty, for it is shorter than the lock). The proof found an error in an earlier
form of `GuessesBounded`, in which a crash was counted once: a crash loses the
INSERT of every login, which no behaviour of four calls shows.

### `UploadsProofs`

| theorem | establishes | by the invariant |
|---|---|---|
| `TypeCorrect` | `[]TypeOK` | itself |
| `RowsHaveFiles` | `[]FilesMatchRows` | `FileInv`: `FilesKnown`, `SavedOnce`, `RemovedOnce` (a file in hand is in one hand, and no deletion has seen a file that has no row yet) |
| `FormsFiledOnce` | `[]FiledOnce` | `FiledInv`: `Counts`, `Filings` (files kept and files left add up to those that came), `Pending`, `Singles` (of what a form made, one is neither an error nor unheard, and nothing while a client waits for a check); `LostInv`: answers given up on are faults |

### `ScreeningProofs`

| theorem | establishes | by the invariant |
|---|---|---|
| `LimitHolds` | `LimiterSpec => []WindowKept` | `LimiterInv`: `Remembered` (a bucket has every pass that still counts), with WindowKept itself for the windows that are past |
| `ScreeningLimits`, `WindowsKept` | `Spec => LimiterSpec`, hence `[]WindowKept` | - |
| `TypeCorrect` | `[]TypeOK` | `CacheInv` and the limiter's types |
| `CacheIsTable` | `[]CacheAgrees` | `CacheInv`: `Lone` (a reload that is alone has read the table as it is), `Suspected`, `Places` |
| `JudgedAsPromised` | `[]ScreenedAsPromised` | `PromiseInv`: `Dated` (what was read is the table at its version), `Recent` (a trusted cache is as new as any promise) |

### `CursorProofs` (`Listings`, `Ingest`)

| theorem | establishes | by the invariant |
|---|---|---|
| `PagedCompletely` | `PagingSpec => []ListComplete` | `ListInv`: `Alone`, `Complete` (items cover the list down to the cursor, and so will an answer that nothing overlapped) |
| `TypeCorrect` | `[]TypeOK` | itself |
| `ListingsArePaged`, `ListsComplete` | `Spec => PagingSpec`, hence `[]ListComplete` | `[]TypeOK` |
| `NoticesDelivered` | `[]NoticeDelivered` | `Delivering`: `OwnIds` (calls do not share ids), `Sound` (what a call did agrees with what it saw) |

`Paging` lets the table change in any way, so that its theorem owes nothing to
what the tables are; the refinement is all that has to be shown of each.

Of `Ingest`:

| theorem | establishes | by the invariant |
|---|---|---|
| `IngestTypeCorrect` | `[]IngestTypeOK` | itself |
| `JobTablesAgree` | `[]TablesAgree` | `AgreeInv`: `RunsAgree` (a job that a run has marked is not pending, one whose run has stored a row has rows); `Bounded`: a step strands a job only if a fault ends its runs, of which there are no more than goroutines |
| `NothingLost` | `[]NothingElseIsPassedOver` | `PassedInv`: the same of the checkpoint that a run holds as of those in the table; `Covered` says that what lies behind it is stored, in the run's hands, or `Accounted` for by one of the three exceptions |
| `StoredOnce` | `[]OnceWhenUndisturbed` | `OnceInv`: `AgreeInv`, `Single` (undisturbed, one run goes at a time and one checkpoint is the newest), `Counted` (copies of a version are at most one and the empty pulls; `Fresh` says it of what the newest checkpoint lets be pulled again) |

## 6. What is only model-checked

* *Liveness* (`OverdueIsFlagged`, `FlaggedIsQueued`, `PendingIsServed`,
  `OverdueIsPurged`, `DueIsAnonymized`, `RetentionKept`): it needs ENABLED and
  fairness, which this version of the prover does not handle.
* The violation run, which is a counterexample.

## 7. What is not modelled

* Handlers' parsing, validation and status codes; encryption and masking of
  fields; the wording of notifications; the contents of exports.
* Refused requests, where they change nothing.
* Startup: configuration, migrations, but for the seeding of templates and the
  bootstrap key.
* Notes on tickets, the text of an address, categories, regions and shipping
  templates: single statements that nothing else reads in between.
* The delivery estimate: arithmetic on dates without state.
* The audit log beyond the entries about keys: every writer appends after its
  change and ignores errors, as `Keys` has it.
* The eligibility test of a review and the reasons of reports.
* A filter that changes while a list is open: `Paging` has one filter for each
  opening (section 4 says what goes wrong).
* Times of an ingest source with fractions of seconds, whose strings do not
  compare like the times.
* Terms of several words, whose matching is a search in a string, and the
  splitting of a text into words.
* Schema versions of ingest sources (`ingest/service.go`, RecordSchemaVersion):
  nothing but the API reads them. A source's configuration does not change.
* Lineage rows of the lakehouse, which nothing but the API reads.
* Registration: three INSERTs, of which a failure may leave out the role and the
  preferences. `PurgeExpired` and `DeleteAllForUser` of the session store, which
  nothing calls.
* The rest of the user interface: it keeps no state on which the server depends.
* Time is the passing of a deadline, not a number, except in `Moderation`, where
  the lengths of freezes are compared, and in `Auth` and `RateLimiter`, which are
  about windows.

Two hazards have no property; `PROJECT.json` says why at each. They are the second
active export of a user, which is served and purged like the first, and the view
that may be lost, which nothing promises to keep.

## 8. What could follow

* An abstract specification of account deletion, in which an account ends once
  and leaves at most what was under way, as `ResidueBounded` counts it.
* Algorithms over bounded inputs: the choice of a shipping template and the
  delivery estimate, the narrowing of ingest schemas, multi-word terms.
* Registration, with what a failure between its INSERTs leaves behind.
