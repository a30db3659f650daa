------------------------------ MODULE Listings ------------------------------
(***************************************************************************)
(* The lists that are loaded page by page (Paging), each with what changes *)
(* its table, and the dispatch of notifications (internal/notification).   *)
(*                                                                         *)
(*   notices    the user's notifications; the mark is is_read              *)
(*   offerings  the catalogue, by category; the mark is active_status      *)
(*   reviews,   of one offering; the mark is status = 'published', which   *)
(*   threads    moderation takes away and gives back                       *)
(*   favorites  the user's favourite offerings, each of them once          *)
(*   history    the offerings the user has viewed                          *)
(*                                                                         *)
(* One list of one user is open at a time; the lists do not interact.      *)
(*                                                                         *)
(* An INSERT takes its id from AUTO_INCREMENT (Begin) before its row can   *)
(* be seen (Commit), so that rows may appear out of the order of their ids.*)
(*                                                                         *)
(* Dispatch reads and renders the template, INSERTs the notification,      *)
(* reads the preference of the user, and if that is "not in the            *)
(* application" INSERTs a row into the outbox.  An error of the first two  *)
(* ends it; errors of the last two are ignored, and the callers, who carry *)
(* on with what they were doing, ignore all of them.                       *)
(***************************************************************************)
EXTENDS Paging

CONSTANTS Codes,       \* the subjects that are codes of templates
          Marks,       \* the marks that a list may be restricted to
          Queries,     \* the categories that the catalogue may be restricted to
          Limits,      \* limits that pages are asked for with
          Dispatches   \* calls of Dispatch for the user, each made once

ASSUME CodeAssumption == Codes \subseteq Subjects
ASSUME MarkAssumption == Marks \subseteq SUBSET BOOLEAN
ASSUME QueryAssumption == Queries \subseteq SUBSET (Subjects \ Codes)
ASSUME LimitsAssumption == Limits \subseteq Int

Offerings == Subjects \ Codes        \* or, in the catalogue, categories

VARIABLES
    list,      \* which list is open
    last,      \* the last id that AUTO_INCREMENT has given out
    begun,     \* begun[i]: the row of an INSERT under way, NoRow without one
    pref,      \* notify_in_app in user_preferences: "on", "off", "none" (no row)
    template,  \* template[c]: "good", "bad" (parses, does not execute), "none"
    job,       \* job[d]: the locals of a call of Dispatch
    outbox,    \* notifications that have a row in notification_outbox
    removed,   \* removed[o]: rows about offering o that were taken out
    telling    \* offerings whose removal the store is still to be told of

tables  == <<last, begun, pref, template, outbox>>
removal == <<removed, telling>>
server  == <<tables, job, removal>>
vars   == <<paging, list, server>>

Lists == {"notices", "offerings", "reviews", "threads", "favorites", "history"}

NotCalled == [pc |-> "idle"]

Failed == [pc |-> "failed"]

\* id: the notification; was: history, the preferences since it was committed.
Locals ==
    [pc : {"insert"}, of : Codes]
    \cup [pc : {"inserting"}, id : Ids]
    \cup [pc : {"lookup", "outbox", "done"}, id : Ids,
          was : SUBSET {"on", "off", "none"}]
    \cup {Failed}
    \cup [pc : {"spoilt"}, id : Ids, was : SUBSET {"on", "off", "none"}]
    \cup {NotCalled}

TypeOK ==
    /\ PagingTypeOK
    /\ list \in Lists
    /\ last \in 0..MaxRows
    /\ begun \in [Ids -> Row \cup {NoRow}]
    /\ pref \in {"on", "off", "none"}
    /\ template \in [Codes -> {"good", "bad", "none"}]
    /\ job \in [Dispatches -> Locals]
    /\ outbox \in SUBSET Ids
    /\ removed \in [Offerings -> SUBSET Ids]
    /\ telling \in SUBSET Offerings

\* What the pages show of the lists, by the parameters of the query.
Shows(l) ==
    CASE l = "notices"   -> [mark : Marks, of : {Codes}]
      [] l = "offerings" -> [mark : Marks, of : Queries]
      [] l \in {"reviews", "threads"} -> [mark : {{TRUE}}, of : { {o} : o \in Offerings }]
      [] l \in {"favorites", "history"} -> [mark : {BOOLEAN}, of : {Offerings}]

\* The user may have notifications that are not read yet.
Init ==
    /\ PagingInit
    /\ list \in Lists
    /\ filter \in Shows(list)
    /\ last = IF list = "notices" THEN MaxRows - 1 ELSE 0
    /\ \A i \in Ids : IF i <= last THEN rows[i] \in [mark : {FALSE}, of : Codes] ELSE rows[i] = NoRow
    /\ begun = [i \in Ids |-> NoRow]
    /\ pref = "none"
    /\ \E C \in SUBSET Codes : template = [c \in Codes |-> IF c \in C THEN "good" ELSE "none"]
    /\ job = [d \in Dispatches |-> NotCalled]
    /\ outbox = {}
    /\ removed = [o \in Offerings |-> {}]
    /\ telling = {}

-----------------------------------------------------------------------------
(* INSERTs.                                                                *)

\* The statement has its id, last + 1.
Begin(row) ==
    /\ last < MaxRows
    /\ last' = last + 1
    /\ begun' = [begun EXCEPT ![last + 1] = row]

Ended(i) == begun' = [begun EXCEPT ![i] = NoRow]

Published(o) == [mark |-> TRUE, of |-> o]

\* Of the offering that the list is about, and not borderline.
CreateReview(o) == list = "reviews" /\ {o} = filter.of /\ Begin(Published(o))

CreateThread(o) == list = "threads" /\ {o} = filter.of /\ Begin(Published(o))

\* In category o.
CreateOffering(o) == list = "offerings" /\ Begin(Published(o))

AddFavorite(o) == list = "favorites" /\ Begin(Published(o))

\* GetOffering starts a goroutine that records the view.
RecordView(o) == list = "history" /\ Begin(Published(o))

Insert == /\ \E o \in Offerings : \/ CreateReview(o) \/ CreateThread(o) \/ CreateOffering(o)
                                 \/ AddFavorite(o) \/ RecordView(o)
          /\ UNCHANGED <<paging, list, pref, template, job, outbox, removal>>

\* The UNIQUE key of user_favorites, which INSERT IGNORE passes over.
Ignored(i) == /\ list = "favorites"
              /\ \E j \in Ids : rows[j] # NoRow /\ rows[j].of = begun[i].of

Commit(i) ==
    /\ list # "notices"
    /\ begun[i] # NoRow
    /\ Change(IF Ignored(i) THEN rows ELSE [rows EXCEPT ![i] = begun[i]])
    /\ Ended(i)
    /\ UNCHANGED <<list, last, pref, template, job, outbox, removal>>

\* The statement fails.  A view is also lost without a fault: its goroutine
\* uses the context of a request that ends without waiting for it.
Abandon(i) ==
    /\ list # "notices"
    /\ begun[i] # NoRow
    /\ Ended(i)
    /\ UNCHANGED <<paging, list, last, pref, template, job, outbox, removal>>

-----------------------------------------------------------------------------
(* UPDATEs and DELETEs, of one statement each.                             *)

\* A decision, or a report, changes the status (setContentStatus).
Moderate(i) == /\ list \in {"reviews", "threads"}
               /\ rows[i] # NoRow
               /\ Change([rows EXCEPT ![i].mark = ~@])

\* The caller owns the offering, which does not change hands, or administers.
ToggleStatus(i) == /\ list = "offerings"
                   /\ rows[i] # NoRow
                   /\ Change([rows EXCEPT ![i].mark = ~@])

UpdateOffering(i, c) == /\ list = "offerings"
                        /\ rows[i] # NoRow
                        /\ Change([rows EXCEPT ![i].of = c])

RowsAbout(o) == { i \in Ids : rows[i] # NoRow /\ rows[i].of = o }

RemoveFavorite(o) ==
    /\ list = "favorites"
    /\ Change([i \in Ids |-> IF i \in RowsAbout(o) THEN NoRow ELSE rows[i]])
    /\ removed' = [removed EXCEPT ![o] = @ \cup RowsAbout(o)]
    /\ telling' = telling \cup {o}

ClearHistory == /\ list = "history"
                /\ Change([i \in Ids |-> NoRow])
                /\ telling' = Offerings
                /\ UNCHANGED removed

MarkRead(i) == /\ list = "notices"
               /\ rows[i] # NoRow
               /\ Change([rows EXCEPT ![i].mark = TRUE])

MarkAllRead ==
    /\ list = "notices"
    /\ Change([i \in Ids |-> IF rows[i] = NoRow THEN NoRow ELSE [rows[i] EXCEPT !.mark = TRUE]])

Update == /\ \/ \E i \in Ids : \/ Moderate(i) \/ MarkRead(i)
                               \/ ToggleStatus(i)
                               \/ \E c \in Offerings : UpdateOffering(i, c)
             \/ MarkAllRead
          /\ UNCHANGED removal

Remove == ClearHistory \/ \E o \in Offerings : RemoveFavorite(o)

\* The store is told: it filters the items of a favourite out, whichever page
\* they came with, or empties its history and the cursor with it.
Told == \/ \E o \in telling :
             /\ list = "favorites"
             /\ Forget(removed[o] \cup RowsAbout(o), next)
             /\ telling' = telling \ {o}
        \/ list = "history" /\ telling # {} /\ Forget(Ids, 0) /\ telling' = {}

-----------------------------------------------------------------------------
(* Dispatch, and what it depends on.                                       *)

Goes(d, locals) == job' = [job EXCEPT ![d] = locals]

\* GetTemplate and Render.
Render(d, c) ==
    /\ list = "notices"
    /\ job[d] = NotCalled
    /\ \/ Goes(d, IF template[c] = "good" THEN [pc |-> "insert", of |-> c] ELSE Failed)
       \/ Goes(d, Failed)
    /\ UNCHANGED <<paging, list, tables, removal>>

InsertNotice(d) ==
    /\ job[d].pc = "insert"
    /\ Begin([mark |-> FALSE, of |-> job[d].of])
    /\ Goes(d, [pc |-> "inserting", id |-> last + 1])
    /\ UNCHANGED <<paging, list, pref, template, outbox, removal>>

CommitNotice(d) ==
    /\ job[d].pc = "inserting"
    /\ LET i == job[d].id IN
         \/ /\ Change([rows EXCEPT ![i] = begun[i]])
            /\ Ended(i)
            /\ Goes(d, [pc |-> "lookup", id |-> i, was |-> {pref}])
         \/ Ended(i) /\ Goes(d, Failed) /\ UNCHANGED paging
    /\ UNCHANGED <<list, last, pref, template, outbox, removal>>

Locally(d, pc) == [pc |-> pc, id |-> job[d].id, was |-> job[d].was]

\* Mutant of NotInApp: a user without preferences has not opted in.
NotInAppByDefault == pref # "on"

\* A missing row stands for TRUE.
NotInApp == pref = "off"

\* lookupNotifyInApp; it answers TRUE along with an error.
Lookup(d) ==
    /\ job[d].pc = "lookup"
    /\ \/ Goes(d, Locally(d, IF NotInApp THEN "outbox" ELSE "done"))
       \/ Goes(d, Locally(d, "spoilt"))
    /\ UNCHANGED <<paging, list, tables, removal>>

Enqueue(d) ==
    /\ job[d].pc = "outbox"
    /\ \/ /\ outbox' = outbox \cup {job[d].id}
          /\ Goes(d, Locally(d, "done"))
       \/ Goes(d, Locally(d, "spoilt")) /\ UNCHANGED outbox
    /\ UNCHANGED <<paging, list, last, begun, pref, template, removal>>

\* UpdatePreferences: an INSERT or, if there is a row, an UPDATE.
UpdatePreferences(p) ==
    /\ list = "notices"
    /\ pref' = p
    /\ job' = [d \in Dispatches |-> IF job[d].pc \in {"lookup", "outbox"}
                                    THEN [job[d] EXCEPT !.was = @ \cup {p}]
                                    ELSE job[d]]
    /\ UNCHANGED <<paging, list, last, begun, template, outbox, removal>>

\* A template that does not parse is refused.
UpsertTemplate(c, k) ==
    /\ list = "notices"
    /\ template' = [template EXCEPT ![c] = k]
    /\ UNCHANGED <<paging, list, last, begun, pref, job, outbox, removal>>

\* INSERT IGNORE.
Seeded(C) == [c \in Codes |-> IF c \in C /\ template[c] = "none" THEN "good" ELSE template[c]]

\* The process is stopped and started again.  What calls of Dispatch were
\* doing is lost, and a statement that was under way leaves nothing.
\* SeedDefaultTemplates stops at the first failure, which does not keep the
\* process from serving.
Restart ==
    /\ begun' = [i \in Ids |-> NoRow]
    /\ job' = [d \in Dispatches |->
                 IF job[d].pc \in {"insert", "inserting"} THEN Failed
                 ELSE IF job[d].pc \in {"lookup", "outbox"} THEN Locally(d, "spoilt")
                 ELSE job[d]]
    /\ \E C \in SUBSET Codes : template' = Seeded(C)
    /\ Drop(Slots)
    /\ telling' = {}
    /\ UNCHANGED <<list, last, pref, outbox, removed>>

-----------------------------------------------------------------------------
Serve ==
    \/ Insert
    \/ \E i \in Ids : Commit(i) \/ Abandon(i)
    \/ (Update \/ Remove) /\ UNCHANGED <<list, tables, job>>
    \/ \E d \in Dispatches : \/ InsertNotice(d) \/ CommitNotice(d) \/ Lookup(d) \/ Enqueue(d)
                             \/ \E c \in Codes : Render(d, c)
    \/ \E p \in {"on", "off"} : UpdatePreferences(p)
    \/ \E c \in Codes, k \in {"good", "bad"} : UpsertTemplate(c, k)
    \/ (\E q \in Slots : Answer(q)) /\ UNCHANGED <<list, server>>

Browse ==
    /\ \/ /\ \/ \E q \in Slots : Receive(q) \/ Drop({q})
             \/ \E q \in Slots, cursor \in {0, next}, limit \in Limits : Ask(q, cursor, limit)
          /\ UNCHANGED removal
       \/ Told /\ UNCHANGED removed
    /\ UNCHANGED <<list, tables, job>>

Next == Serve \/ Browse \/ Restart

Spec == Init /\ [][Next]_vars

-----------------------------------------------------------------------------
\* A call of Dispatch without a fault has INSERTed the notification, and has
\* told the outbox of it if the user wanted no notifications in the
\* application from the INSERT to the end of the call.  One that wanted them
\* all that time is never in the outbox, not even after a fault: whatever
\* fails, a notification is told in one place at least (service.go:129).
NoticeDelivered ==
    \A d \in Dispatches :
        /\ job[d].pc = "done" => /\ rows[job[d].id] # NoRow
                                 /\ job[d].was = {"off"} => job[d].id \in outbox
        /\ job[d].pc \in {"lookup", "outbox", "done", "spoilt"} =>
              /\ rows[job[d].id] # NoRow
              /\ "off" \notin job[d].was => job[d].id \notin outbox
=============================================================================
