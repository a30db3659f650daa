------------------------------- MODULE Paging -------------------------------
(***************************************************************************)
(* A list that a browser loads page by page, while its table changes.      *)
(*                                                                         *)
(* The server (notification.List and the four functions like it) returns   *)
(* the rows below the cursor, newest first, limit of them at the most, and *)
(* if there were more, the id of the last one as the next cursor.  The     *)
(* store of the frontend (stores/notification.js and the others) replaces  *)
(* its items by a first page, appends any other page, and keeps the next   *)
(* cursor.  Nothing stops a user from asking for more while an answer is   *)
(* under way: both answers are then applied, in the order of arrival.      *)
(*                                                                         *)
(* The module is open: the rows change in any way (Change).  Listings says *)
(* how those of each table do.                                             *)
(***************************************************************************)
EXTENDS Integers, FiniteSets

CONSTANTS Subjects,      \* what rows are about: an offering, a category, a code
          Slots,         \* requests for pages that can be under way together
          MaxLimit,      \* 100
          DefaultLimit,  \* 20
          MaxRows,       \* bound: ids
          MaxAsks        \* bound: requests for pages

ASSUME LimitAssumption == MaxLimit \in Nat /\ DefaultLimit \in 1..MaxLimit
ASSUME PagingBoundAssumption == MaxRows \in Nat \ {0} /\ MaxAsks \in Nat

Ids == 1..MaxRows

\* mark: read, published or active.
Row == [mark : BOOLEAN, of : Subjects]

NoRow == [mark |-> FALSE]

VARIABLES
    rows,     \* rows[i]: the row with id i, NoRow without one
    filter,   \* marks and subjects that the list shows; fixed while it is open
    shown,    \* shown[i]: how often row i is among the items of the store
    next,     \* the store's cursor of the next page, 0 for none
    asked,    \* asked[q]: a request under way
    asks,     \* requests so far
    kept,     \* history: rows in the list ever since its first page was read
    fresh,    \* history: the same for a first page that is not received yet
    crowded,  \* history: requests that were under way together with another
    plain     \* history: no page of the list was such a request's

store  == <<shown, next, kept, plain>>
paging == <<rows, filter, store, asked, asks, fresh, crowded>>

NoRequest == [pc |-> "idle"]

Filters == [mark : SUBSET BOOLEAN, of : SUBSET Subjects]

Matches(r, i) == r[i] # NoRow /\ r[i].mark \in filter.mark /\ r[i].of \in filter.of

PagingTypeOK ==
    /\ rows \in [Ids -> Row \cup {NoRow}]
    /\ filter \in Filters
    /\ shown \in [Ids -> Nat]
    /\ next \in Ids \cup {0}
    /\ asked \in [Slots ->
                    [pc : {"sent"}, cursor : Ids \cup {0}, size : 1..MaxLimit] \cup
                    [pc : {"answered"}, cursor : Ids \cup {0},
                     page : SUBSET Ids, next : Ids \cup {0}] \cup {NoRequest}]
    /\ asks \in 0..MaxAsks
    /\ kept \in SUBSET Ids /\ fresh \in SUBSET Ids
    /\ crowded \in SUBSET Slots
    /\ plain \in BOOLEAN

PagingInit ==
    /\ rows \in [Ids -> Row \cup {NoRow}]
    /\ filter \in Filters
    /\ shown = [i \in Ids |-> 0]
    /\ next = 0
    /\ asked = [q \in Slots |-> NoRequest]
    /\ asks = 0
    /\ kept = {} /\ fresh = {}
    /\ crowded = {}
    /\ plain = TRUE

-----------------------------------------------------------------------------
(* The server.                                                             *)

PageSize(limit) == IF limit <= 0 \/ limit > MaxLimit THEN DefaultLimit ELSE limit

\* Mutant of After: the row of the cursor is read again.
AfterOrAt(cursor) == { i \in Ids : Matches(rows, i) /\ (cursor = 0 \/ i <= cursor) }

\* WHERE ... AND (cursor = 0 OR id < cursor).
After(cursor) == { i \in Ids : Matches(rows, i) /\ (cursor = 0 \/ i < cursor) }

\* Page P of these rows, and the cursor n that goes with it: all of them and 0
\* if they are no more than size; else the newest, and the oldest of those.
IsPage(P, n, cursor, size) ==
    /\ P \subseteq After(cursor)
    /\ \A i \in P, j \in After(cursor) \ P : i > j
    /\ IF P = After(cursor)
       THEN Cardinality(P) <= size /\ n = 0
       ELSE Cardinality(P) = size /\ n \in P /\ \A i \in P : n <= i

Answer(q) ==
    /\ asked[q].pc = "sent"
    /\ \E P \in SUBSET Ids, n \in Ids \cup {0} :
         /\ IsPage(P, n, asked[q].cursor, asked[q].size)
         /\ asked' = [asked EXCEPT ![q] = [pc |-> "answered", cursor |-> asked[q].cursor,
                                           page |-> P, next |-> n]]
    /\ fresh' = IF asked[q].cursor = 0 /\ q \notin crowded THEN After(0) ELSE fresh
    /\ UNCHANGED <<rows, filter, store, asks, crowded>>

\* The table becomes r: a row that leaves the list, even for a while, is no
\* longer one that the user must have seen.
Change(r) ==
    /\ rows' = r
    /\ kept' = { i \in kept : Matches(r, i) }
    /\ fresh' = { i \in fresh : Matches(r, i) }
    /\ UNCHANGED <<filter, shown, next, asked, asks, crowded, plain>>

-----------------------------------------------------------------------------
(* The store of the frontend.                                              *)

UnderWay == { q \in Slots : asked[q] # NoRequest }

\* The list is opened again, from its first page, or the user asks for more.
Ask(q, cursor, limit) ==
    /\ asked[q] = NoRequest
    /\ asks < MaxAsks
    /\ cursor \in {0, next}
    /\ asked' = [asked EXCEPT ![q] = [pc |-> "sent", cursor |-> cursor,
                                      size |-> PageSize(limit)]]
    /\ asks' = asks + 1
    /\ crowded' = IF UnderWay = {} THEN {} ELSE UnderWay \cup {q}
    /\ fresh' = {}
    /\ UNCHANGED <<rows, filter, store>>

Appended(r) == [i \in Ids |-> (IF r.cursor = 0 THEN 0 ELSE shown[i])
                                 + (IF i \in r.page THEN 1 ELSE 0)]

Receive(q) ==
    /\ asked[q].pc = "answered"
    /\ shown' = Appended(asked[q])
    /\ next' = asked[q].next
    /\ plain' = (q \notin crowded /\ (asked[q].cursor = 0 \/ plain))
    /\ kept' = IF ~plain' THEN {} ELSE IF asked[q].cursor = 0 THEN fresh ELSE kept
    /\ fresh' = IF asked[q].cursor = 0 THEN {} ELSE fresh
    /\ asked' = [asked EXCEPT ![q] = NoRequest]
    /\ crowded' = crowded \ {q}
    /\ UNCHANGED <<rows, filter, asks>>

\* Requests end with an error, or their answers are lost: the store is left
\* as it is.
Drop(Q) ==
    /\ asked' = [q \in Slots |-> IF q \in Q THEN NoRequest ELSE asked[q]]
    /\ crowded' = crowded \ Q
    /\ UNCHANGED <<rows, filter, store, asks, fresh>>

\* The store takes items out, those with ids S, and may forget its cursor.
Forget(S, cursor) ==
    /\ S = Ids \/ cursor = next
    /\ shown' = [i \in Ids |-> IF i \in S THEN 0 ELSE shown[i]]
    /\ next' = cursor
    /\ kept' = kept \ S
    /\ UNCHANGED <<rows, filter, plain, asked, asks, fresh, crowded>>

-----------------------------------------------------------------------------
PagingNext ==
    \/ \E q \in Slots : Answer(q) \/ Receive(q)
    \/ \E q \in Slots, cursor \in Ids \cup {0}, limit \in Int : Ask(q, cursor, limit)
    \/ \E Q \in SUBSET Slots : Drop(Q)
    \/ \E S \in SUBSET Ids, cursor \in {0, next} : Forget(S, cursor)
    \/ \E r \in [Ids -> Row \cup {NoRow}] : Change(r)

PagingSpec == PagingInit /\ [][PagingNext]_paging

\* A list whose pages were asked for one at a time (stores/notification.js
\* fetchPage, notification.List) has no item twice, and has passed over none:
\* every row down to the next cursor, and every row at all when there is no
\* next page, that has matched ever since the first page was read is in it,
\* unless the user has had it taken out.
\* This holds whatever was inserted, removed or marked between the pages.
ListComplete ==
    plain => \A i \in Ids :
        /\ shown[i] <= 1
        /\ i \in kept /\ next <= i => shown[i] = 1
=============================================================================
