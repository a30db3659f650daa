---------------------------- MODULE CursorProofs ----------------------------
(***************************************************************************)
(* Theorems about what reads on from where it stopped, and must pass over  *)
(* nothing: the cursors of a list and its listing (Paging, Listings), for  *)
(* every number of rows, requests and calls of Dispatch and every limit;   *)
(* and the checkpoints of a source (Ingest), for every set of items and    *)
(* goroutines, every LIMIT and every number of jobs, runs, stamps and      *)
(* faults.  The two have no state in common.                               *)
(***************************************************************************)
EXTENDS Listings, Ingest, FiniteSetTheorems, SequenceTheorems, WellFoundedInduction, TLAPS


-----------------------------------------------------------------------------
(* Type correctness of a list, whatever its table does.                    *)

LEMMA PageSizeType ==
    ASSUME NEW limit \in Int
    PROVE  PageSize(limit) \in 1..MaxLimit
BY LimitAssumption DEF PageSize

\* What a request under way looks like.
LEMMA AskedShape ==
    ASSUME PagingTypeOK, NEW q \in Slots, asked[q] # NoRequest
    PROVE  /\ asked[q].cursor \in Ids \cup {0}
           /\ asked[q].pc \in {"sent", "answered"}
           /\ asked[q].pc = "answered" => asked[q].page \in SUBSET Ids /\ asked[q].next \in Ids \cup {0}
BY DEF PagingTypeOK

LEMMA PagingInitType == PagingInit => PagingTypeOK
<1> SUFFICES ASSUME PagingInit
             PROVE  PagingTypeOK
  OBVIOUS
<1>1. 0 \in 0..MaxAsks /\ 0 \in Nat
  BY PagingBoundAssumption
<1>2. shown \in [Ids -> Nat] /\ next \in Ids \cup {0}
  BY <1>1 DEF PagingInit
<1>3. asks \in 0..MaxAsks
  BY <1>1 DEF PagingInit
<1> QED
  BY <1>2, <1>3 DEF PagingInit, PagingTypeOK

LEMMA PagingNextType == PagingTypeOK /\ [PagingNext]_paging => PagingTypeOK'
<1> SUFFICES ASSUME PagingTypeOK, [PagingNext]_paging
             PROVE  PagingTypeOK'
  OBVIOUS
<1> USE DEF PagingTypeOK
<1>1. ASSUME NEW q \in Slots, Answer(q)
      PROVE  PagingTypeOK'
  <2>1. PICK P \in SUBSET Ids, n \in Ids \cup {0} :
           asked' = [asked EXCEPT ![q] = [pc |-> "answered", cursor |-> asked[q].cursor,
                                          page |-> P, next |-> n]]
    BY <1>1 DEF Answer
  <2>2. asked[q].cursor \in Ids \cup {0}
    BY <1>1, AskedShape DEF Answer, NoRequest
  <2>3. fresh' \in SUBSET Ids
    BY <1>1 DEF Answer, After
  <2> QED
    BY <1>1, <2>1, <2>2, <2>3 DEF Answer, store
<1>2. ASSUME NEW q \in Slots, Receive(q)
      PROVE  PagingTypeOK'
  <2>1. asked[q].next \in Ids \cup {0}
    BY <1>2, AskedShape DEF Receive, NoRequest
  <2>2. shown' \in [Ids -> Nat]
    BY <1>2 DEF Receive, Appended
  <2>3. plain' \in BOOLEAN
    BY <1>2 DEF Receive
  <2>4. kept' \in SUBSET Ids /\ fresh' \in SUBSET Ids
    BY <1>2 DEF Receive
  <2> QED
    BY <1>2, <2>1, <2>2, <2>3, <2>4 DEF Receive
<1>3. ASSUME NEW q \in Slots, NEW cursor \in Ids \cup {0}, NEW limit \in Int, Ask(q, cursor, limit)
      PROVE  PagingTypeOK'
  <2>1. PageSize(limit) \in 1..MaxLimit
    BY PageSizeType
  <2>2. asks' \in 0..MaxAsks
    BY <1>3, PagingBoundAssumption DEF Ask
  <2>3. crowded' \in SUBSET Slots
    BY <1>3 DEF Ask, UnderWay
  <2> QED
    BY <1>3, <2>1, <2>2, <2>3 DEF Ask, store
<1>4. ASSUME NEW Q \in SUBSET Slots, Drop(Q)
      PROVE  PagingTypeOK'
  BY <1>4 DEF Drop, store
<1>5. ASSUME NEW S \in SUBSET Ids, NEW cursor \in {0, next}, Forget(S, cursor)
      PROVE  PagingTypeOK'
  BY <1>5 DEF Forget
<1>6. ASSUME NEW r \in [Ids -> Row \cup {NoRow}], Change(r)
      PROVE  PagingTypeOK'
  BY <1>6 DEF Change
<1>7. CASE UNCHANGED paging
  BY <1>7 DEF paging, store
<1> HIDE DEF PagingTypeOK
<1> QED
  BY <1>1, <1>2, <1>3, <1>4, <1>5, <1>6, <1>7 DEF PagingNext

-----------------------------------------------------------------------------
(* A list is complete.                                                     *)

\* A request that overlaps no other is the only one.
Alone ==
    /\ crowded \subseteq UnderWay
    /\ \A p, q \in UnderWay : p # q => p \in crowded

\* The items are those that have matched all the time, down to the cursor c,
\* and no item is below it.
Covers(c) ==
    \A i \in Ids : /\ c # 0 /\ shown[i] > 0 => c <= i
                   /\ i \in kept /\ c <= i => shown[i] = 1

\* What the answer r, which nothing overlapped, is good for.
Good(r) ==
    /\ r.next = 0 \/ r.next \in r.page
    /\ \A i \in r.page : r.next <= i /\ (r.cursor # 0 => i < r.cursor)
    /\ IF r.cursor = 0
       THEN \A i \in fresh : r.next <= i => i \in r.page
       ELSE plain => \A i \in kept : r.next <= i /\ i < r.cursor => i \in r.page

Complete ==
    /\ \A i \in kept \cup fresh : Matches(rows, i)
    /\ plain => Covers(next) /\ \A i \in Ids : shown[i] <= 1
    /\ \A q \in UnderWay \ crowded :
          /\ plain /\ asked[q].cursor # 0 => Covers(asked[q].cursor)
          /\ asked[q].pc = "answered" => Good(asked[q])

ListInv == PagingTypeOK /\ Alone /\ Complete

LEMMA NextAlone == PagingTypeOK /\ Alone /\ [PagingNext]_paging => Alone'
<1> SUFFICES ASSUME PagingTypeOK, Alone, [PagingNext]_paging
             PROVE  Alone'
  OBVIOUS
<1> USE DEF Alone, UnderWay
<1>1. ASSUME NEW q \in Slots, Answer(q)
      PROVE  Alone'
  <2>1. UnderWay' = UnderWay /\ crowded' = crowded
    BY <1>1 DEF Answer, NoRequest, PagingTypeOK
  <2> QED
    BY <2>1
<1>2. ASSUME NEW q \in Slots, Receive(q)
      PROVE  Alone'
  <2>1. UnderWay' = UnderWay \ {q} /\ crowded' = crowded \ {q}
    BY <1>2 DEF Receive, PagingTypeOK
  <2> QED
    BY <2>1
<1>3. ASSUME NEW q \in Slots, NEW cursor, NEW limit, Ask(q, cursor, limit)
      PROVE  Alone'
  <2>1. UnderWay' = UnderWay \cup {q}
    BY <1>3 DEF Ask, NoRequest, PagingTypeOK
  <2>2. crowded' = IF UnderWay = {} THEN {} ELSE UnderWay \cup {q}
    BY <1>3 DEF Ask
  <2> HIDE DEF UnderWay
  <2> QED
    BY <2>1, <2>2
<1>4. ASSUME NEW Q \in SUBSET Slots, Drop(Q)
      PROVE  Alone'
  <2>1. UnderWay' = UnderWay \ Q /\ crowded' = crowded \ Q
    BY <1>4 DEF Drop, PagingTypeOK
  <2> QED
    BY <2>1
<1>5. CASE UNCHANGED <<asked, crowded>>
  BY <1>5
<1> QED
  BY <1>1, <1>2, <1>3, <1>4, <1>5 DEF PagingNext, Forget, Change, paging

\* What IsPage says of the rows that it leaves out.
LEMMA PageCovers ==
    ASSUME NEW P \in SUBSET Ids, NEW n \in Ids \cup {0}, NEW cursor \in Ids \cup {0}, NEW size,
           IsPage(P, n, cursor, size)
    PROVE  /\ n = 0 \/ n \in P
           /\ \A i \in P : n <= i /\ (cursor # 0 => i < cursor)
           /\ \A i \in Ids : Matches(rows, i) /\ n <= i /\ (cursor = 0 \/ i < cursor) => i \in P
<1> USE DEF Ids
<1>1. P \subseteq After(cursor) /\ \A i \in P, j \in After(cursor) \ P : i > j
  BY DEF IsPage
<1>2. \A i \in P : cursor # 0 => i < cursor
  BY <1>1 DEF After
<1>3. \A i \in Ids : Matches(rows, i) /\ (cursor = 0 \/ i < cursor) => i \in After(cursor)
  BY DEF After
<1>4. CASE P = After(cursor)
  BY <1>2, <1>3, <1>4 DEF IsPage
<1>5. CASE P # After(cursor)
  <2>1. n \in P /\ \A i \in P : n <= i
    BY <1>5 DEF IsPage
  <2> QED
    BY <1>1, <1>2, <1>3, <2>1
<1> QED
  BY <1>4, <1>5

LEMMA AnswerComplete ==
    ASSUME ListInv, NEW q \in Slots, Answer(q)
    PROVE  Complete'
<1> USE DEF ListInv
<1>1. PICK P \in SUBSET Ids, n \in Ids \cup {0} :
         /\ IsPage(P, n, asked[q].cursor, asked[q].size)
         /\ asked' = [asked EXCEPT ![q] = [pc |-> "answered", cursor |-> asked[q].cursor,
                                           page |-> P, next |-> n]]
  BY DEF Answer
<1>2. /\ UNCHANGED <<rows, filter, shown, next, kept, plain, crowded>>
      /\ fresh' = IF asked[q].cursor = 0 /\ q \notin crowded THEN After(0) ELSE fresh
  BY DEF Answer, store
<1>3. asked[q] # NoRequest /\ asked[q].cursor \in Ids \cup {0}
  BY AskedShape DEF Answer, NoRequest
<1>4. UnderWay' = UnderWay /\ q \in UnderWay
  BY <1>1, <1>3 DEF UnderWay, NoRequest, PagingTypeOK
<1>5. \A i \in kept' \cup fresh' : Matches(rows, i)'
  BY <1>2 DEF Complete, After, Matches
<1>6. ASSUME NEW p \in UnderWay \ crowded
      PROVE  /\ plain' /\ asked'[p].cursor # 0 => Covers(asked[p].cursor)'
             /\ asked'[p].pc = "answered" => Good(asked[p])'
  <2>1. CASE p = q
    <3>1. asked'[q] = [pc |-> "answered", cursor |-> asked[q].cursor, page |-> P, next |-> n]
      BY <1>1 DEF PagingTypeOK
    <3>2. asked'[q].cursor = asked[q].cursor /\ asked'[q].page = P /\ asked'[q].next = n
      BY <3>1
    <3>3. plain /\ asked[q].cursor # 0 => Covers(asked[q].cursor)
      BY <1>6, <2>1 DEF Complete
    <3>4. /\ n = 0 \/ n \in P
          /\ \A i \in P : n <= i /\ (asked[q].cursor # 0 => i < asked[q].cursor)
          /\ \A i \in Ids : Matches(rows, i) /\ n <= i /\ (asked[q].cursor = 0 \/ i < asked[q].cursor) => i \in P
      BY <1>1, <1>3, PageCovers
    <3>5. \A i \in kept : i \in Ids /\ Matches(rows, i)
      BY DEF Complete, PagingTypeOK
    <3>6. asked[q].cursor = 0 => fresh' = After(0)
      BY <1>2, <1>6, <2>1
    <3>7. Good(asked[q])'
      BY <1>2, <3>2, <3>4, <3>5, <3>6 DEF Good, After
    <3>8. plain' /\ asked'[q].cursor # 0 => Covers(asked[q].cursor)'
      BY <1>2, <3>2, <3>3 DEF Covers
    <3> QED
      BY <2>1, <3>7, <3>8
  <2>2. CASE p # q
    BY <1>4, <1>6, <2>2 DEF Alone
  <2> QED
    BY <2>1, <2>2
<1>7. Covers(next)' <=> Covers(next)
  BY <1>2 DEF Covers
<1> QED
  BY <1>2, <1>4, <1>5, <1>6, <1>7 DEF Complete

LEMMA ReceiveComplete ==
    ASSUME ListInv, NEW q \in Slots, Receive(q)
    PROVE  Complete'
<1> USE DEF ListInv
<1>1. /\ shown' = Appended(asked[q])
      /\ next' = asked[q].next
      /\ plain' = (q \notin crowded /\ (asked[q].cursor = 0 \/ plain))
      /\ kept' = IF ~plain' THEN {} ELSE IF asked[q].cursor = 0 THEN fresh ELSE kept
      /\ fresh' = IF asked[q].cursor = 0 THEN {} ELSE fresh
      /\ crowded' = crowded \ {q}
      /\ UNCHANGED <<rows, filter>>
  BY DEF Receive
<1>2. q \in UnderWay /\ UnderWay' = UnderWay \ {q}
  BY DEF Receive, UnderWay, NoRequest, PagingTypeOK
<1>3. \A i \in kept' \cup fresh' : Matches(rows, i)'
  BY <1>1 DEF Complete, Matches
<1>4. UnderWay' \ crowded' = {}
  BY <1>1, <1>2 DEF Alone
<1>5. ASSUME plain'
      PROVE  Covers(next)' /\ \A i \in Ids : shown'[i] <= 1
  <2>0. q \in UnderWay \ crowded
    BY <1>1, <1>2, <1>5
  <2> PICK r : r = asked[q]
    OBVIOUS
  <2>1. Good(r) /\ r.page \in SUBSET Ids /\ r.next \in Ids \cup {0} /\ r.cursor \in Ids \cup {0}
    BY <1>2, <2>0, AskedShape DEF Complete, Receive, UnderWay
  <2>2. \A i \in Ids : shown'[i] = (IF r.cursor = 0 THEN 0 ELSE shown[i]) + (IF i \in r.page THEN 1 ELSE 0)
    BY <1>1 DEF Appended
  <2>3. \A i \in Ids : shown[i] \in Nat /\ i \in Nat \ {0}
    BY DEF PagingTypeOK, Ids
  <2>4. next' = r.next /\ kept' = IF r.cursor = 0 THEN fresh ELSE kept
    BY <1>1, <1>5
  <2>5. CASE r.cursor = 0
    <3>1. \A i \in Ids : shown'[i] = IF i \in r.page THEN 1 ELSE 0
      BY <2>2, <2>5
    <3> QED
      BY <2>1, <2>3, <2>4, <2>5, <3>1 DEF Good, Covers
  <2>6. CASE r.cursor # 0
    <3>1. plain /\ Covers(r.cursor) /\ \A i \in Ids : shown[i] <= 1
      BY <1>1, <1>5, <2>0, <2>6 DEF Complete
    <3>2. \A i \in r.page : i \in Ids /\ i < r.cursor /\ r.next <= i
      BY <2>1, <2>6 DEF Good
    <3>3. \A i \in Ids : shown'[i] = shown[i] + (IF i \in r.page THEN 1 ELSE 0)
      BY <2>2, <2>6
    <3>4. r.cursor \in Nat /\ r.next \in Nat
      BY <2>1 DEF Ids
    <3>5. \A i \in r.page : shown[i] = 0
      BY <2>3, <2>6, <3>1, <3>2, <3>4 DEF Covers
    <3>6. \A i \in Ids : shown'[i] <= 1
      BY <2>3, <3>1, <3>3, <3>5
    <3>7. ASSUME NEW i \in Ids, r.next # 0, shown'[i] > 0
          PROVE  r.next <= i
      <4>1. CASE i \in r.page
        BY <3>2, <4>1
      <4>2. CASE i \notin r.page
        <5>1. shown[i] > 0 /\ r.next \in r.page
          BY <2>1, <2>3, <3>3, <3>7, <4>2 DEF Good
        <5>2. r.cursor <= i /\ r.next < r.cursor
          BY <2>6, <3>1, <3>2, <5>1 DEF Covers
        <5> QED
          BY <2>3, <3>4, <5>2
      <4> QED
        BY <4>1, <4>2
    <3>8. ASSUME NEW i \in Ids, i \in kept, r.next <= i
          PROVE  shown'[i] = 1
      <4>1. CASE i < r.cursor
        <5>1. i \in r.page
          BY <2>1, <2>6, <3>1, <3>8, <4>1 DEF Good
        <5> QED
          BY <3>3, <3>5, <5>1
      <4>2. CASE r.cursor <= i
        <5>1. shown[i] = 1 /\ i \notin r.page
          BY <2>3, <3>1, <3>2, <3>4, <3>8, <4>2 DEF Covers
        <5> QED
          BY <3>3, <5>1
      <4> QED
        BY <2>3, <3>4, <4>1, <4>2
    <3> QED
      BY <2>4, <2>6, <3>6, <3>7, <3>8 DEF Covers
  <2> QED
    BY <2>5, <2>6
<1> QED
  BY <1>3, <1>4, <1>5 DEF Complete

LEMMA AskComplete ==
    ASSUME ListInv, NEW q \in Slots, NEW cursor, NEW limit, Ask(q, cursor, limit)
    PROVE  Complete'
<1> USE DEF ListInv
<1>1. /\ asked' = [asked EXCEPT ![q] = [pc |-> "sent", cursor |-> cursor, size |-> PageSize(limit)]]
      /\ crowded' = IF UnderWay = {} THEN {} ELSE UnderWay \cup {q}
      /\ fresh' = {}
      /\ UNCHANGED <<rows, filter, shown, next, kept, plain>>
      /\ asked[q] = NoRequest /\ cursor \in {0, next}
  BY DEF Ask, store
<1>2. UnderWay' = UnderWay \cup {q}
  BY <1>1 DEF UnderWay, NoRequest, PagingTypeOK
<1>3. UnderWay' \ crowded' \subseteq {q}
  BY <1>1, <1>2
<1>4. asked'[q].pc = "sent" /\ asked'[q].cursor = cursor
  BY <1>1 DEF PagingTypeOK
<1>5. plain' /\ asked'[q].cursor # 0 => Covers(asked[q].cursor)'
  BY <1>1, <1>4 DEF Complete, Covers
<1>6. \A i \in kept' \cup fresh' : Matches(rows, i)'
  BY <1>1 DEF Complete, Matches
<1>7. plain' => Covers(next)' /\ \A i \in Ids : shown'[i] <= 1
  BY <1>1 DEF Complete, Covers
<1> QED
  BY <1>3, <1>4, <1>5, <1>6, <1>7 DEF Complete

\* Requests end without an answer.
LEMMA DropComplete ==
    ASSUME ListInv, NEW Q \in SUBSET Slots, Drop(Q)
    PROVE  Complete'
<1> USE DEF ListInv
<1>1. /\ asked' = [q \in Slots |-> IF q \in Q THEN NoRequest ELSE asked[q]]
      /\ crowded' = crowded \ Q
      /\ UNCHANGED <<rows, filter, shown, next, kept, plain, fresh>>
  BY DEF Drop, store
<1>2. \A q \in UnderWay' \ crowded' : q \in UnderWay \ crowded /\ asked'[q] = asked[q]
  BY <1>1 DEF UnderWay
<1>3. \A q \in UnderWay' \ crowded' : /\ Covers(asked[q].cursor)' <=> Covers(asked[q].cursor)
                                      /\ Good(asked[q])' <=> Good(asked[q])
  BY <1>1, <1>2 DEF Covers, Good
<1>4. (\A i \in kept' \cup fresh' : Matches(rows, i)') /\ (Covers(next)' <=> Covers(next))
  BY <1>1 DEF Complete, Matches, Covers
<1> QED
  BY <1>1, <1>2, <1>3, <1>4 DEF Complete

\* The store takes items out.
LEMMA ForgetComplete ==
    ASSUME ListInv, NEW S \in SUBSET Ids, NEW cursor \in {0, next}, Forget(S, cursor)
    PROVE  Complete'
<1> USE DEF ListInv
<1>1. /\ S = Ids \/ cursor = next
      /\ shown' = [i \in Ids |-> IF i \in S THEN 0 ELSE shown[i]]
      /\ next' = cursor
      /\ kept' = kept \ S
      /\ UNCHANGED <<rows, filter, plain, asked, fresh, crowded>>
  BY DEF Forget
<1>2. UnderWay' = UnderWay /\ \A i \in Ids : shown[i] \in Nat
  BY <1>1 DEF UnderWay, PagingTypeOK
<1>3. ASSUME NEW c, Covers(c)
      PROVE  \A i \in Ids : /\ c # 0 /\ shown'[i] > 0 => c <= i
                            /\ i \in kept' /\ c <= i => shown'[i] = 1
  BY <1>1, <1>2, <1>3 DEF Covers
<1>4. ASSUME NEW r, Good(r)
      PROVE  Good(r)'
  BY <1>1, <1>4 DEF Good
<1>5. (\A i \in kept' \cup fresh' : Matches(rows, i)')
  BY <1>1 DEF Complete, Matches
<1>6. ASSUME plain
      PROVE  Covers(next)' /\ \A i \in Ids : shown'[i] <= 1
  <2>1. CASE S = Ids
    BY <1>1, <2>1 DEF Covers, PagingTypeOK
  <2>2. CASE cursor = next
    <3>1. Covers(next)
      BY <1>6 DEF Complete
    <3>2. Covers(next)'
      BY <1>1, <1>3, <2>2, <3>1 DEF Covers
    <3> QED
      BY <1>1, <1>6, <3>2 DEF Complete
  <2> QED
    BY <1>1, <2>1, <2>2
<1>7. \A q \in UnderWay \ crowded : Covers(asked[q].cursor) => Covers(asked[q].cursor)'
  BY <1>1, <1>3 DEF Covers
<1>8. \A q \in UnderWay \ crowded : Good(asked[q]) => Good(asked[q])'
  BY <1>1 DEF Good
<1> QED
  BY <1>1, <1>2, <1>5, <1>6, <1>7, <1>8 DEF Complete

\* The table changes: rows that leave the list are not counted on any more.
LEMMA ChangeComplete ==
    ASSUME ListInv, NEW r, Change(r)
    PROVE  Complete'
<1> USE DEF ListInv
<1>1. /\ rows' = r
      /\ kept' = { i \in kept : Matches(r, i) }
      /\ fresh' = { i \in fresh : Matches(r, i) }
      /\ UNCHANGED <<filter, shown, next, asked, crowded, plain>>
  BY DEF Change
<1>2. \A i \in kept' \cup fresh' : Matches(rows, i)'
  BY <1>1 DEF Matches
<1>3. UnderWay' = UnderWay /\ (Covers(next) => Covers(next)')
  BY <1>1 DEF UnderWay, Covers
<1>4. \A q \in UnderWay \ crowded : /\ Covers(asked[q].cursor) => Covers(asked[q].cursor)'
                                    /\ Good(asked[q]) => Good(asked[q])'
  BY <1>1 DEF Covers, Good
<1> QED
  BY <1>1, <1>2, <1>3, <1>4 DEF Complete

LEMMA NextComplete == ListInv /\ [PagingNext]_paging => ListInv'
<1> SUFFICES ASSUME ListInv, [PagingNext]_paging
             PROVE  Complete'
  BY PagingNextType, NextAlone DEF ListInv
<1>1. CASE UNCHANGED paging
  BY <1>1 DEF paging, store, ListInv, Complete, Covers, Good, UnderWay, Matches
<1>2. CASE PagingNext
  BY <1>2, AnswerComplete, ReceiveComplete, AskComplete, DropComplete, ForgetComplete, ChangeComplete
     DEF PagingNext
<1> QED
  BY <1>1, <1>2

\* Whatever a table does, a list whose pages were asked for one at a time has
\* no item twice and has passed over none (stores/notification.js fetchPage,
\* notification.List).
THEOREM PagedCompletely == PagingSpec => []ListComplete
<1>1. PagingInit => ListInv
  <2> SUFFICES ASSUME PagingInit
               PROVE  ListInv
    OBVIOUS
  <2>1. UnderWay = {} /\ crowded = {}
    BY DEF PagingInit, UnderWay
  <2>2. \A i \in Ids : shown[i] = 0
    BY DEF PagingInit
  <2>3. kept = {} /\ fresh = {} /\ next = 0
    BY DEF PagingInit
  <2> QED
    BY <2>1, <2>2, <2>3, PagingInitType DEF ListInv, Alone, Complete, Covers
<1>2. ListInv => ListComplete
  BY DEF ListInv, Complete, Covers, ListComplete
<1> QED
  BY <1>1, <1>2, NextComplete, PTL DEF PagingSpec

-----------------------------------------------------------------------------
(* Every step of a server and a browser is a step of Paging.               *)

LEMMA InsertStep == Insert => UNCHANGED paging
BY DEF Insert

LEMMA CommitStep ==
    ASSUME TypeOK, NEW i \in Ids, Commit(i)
    PROVE  PagingNext
<1>1. PICK r : r = IF Ignored(i) THEN rows ELSE [rows EXCEPT ![i] = begun[i]]
  OBVIOUS
<1>2. Change(r)
  BY <1>1 DEF Commit
<1>3. r \in [Ids -> Row \cup {NoRow}]
  BY <1>1 DEF TypeOK, PagingTypeOK
<1> QED
  BY <1>2, <1>3 DEF PagingNext

LEMMA UpdateStep ==
    ASSUME TypeOK, Update
    PROVE  PagingNext
<1> USE DEF TypeOK, PagingTypeOK
<1>1. ASSUME NEW r, Change(r), r \in [Ids -> Row \cup {NoRow}]
      PROVE  PagingNext
  BY <1>1 DEF PagingNext
<1>2. ASSUME NEW i \in Ids, Moderate(i) \/ ToggleStatus(i)
      PROVE  PagingNext
  <2>1. rows[i] \in Row /\ Change([rows EXCEPT ![i].mark = ~@])
    BY <1>2 DEF Moderate, ToggleStatus
  <2>2. [rows[i] EXCEPT !.mark = ~@] \in Row
    BY <2>1 DEF Row
  <2>3. [rows EXCEPT ![i].mark = ~@] \in [Ids -> Row \cup {NoRow}]
    BY <2>2
  <2> QED
    BY <1>1, <2>1, <2>3
<1>3. ASSUME NEW i \in Ids, MarkRead(i)
      PROVE  PagingNext
  <2>1. rows[i] \in Row /\ Change([rows EXCEPT ![i].mark = TRUE])
    BY <1>3 DEF MarkRead
  <2>2. [rows[i] EXCEPT !.mark = TRUE] \in Row
    BY <2>1 DEF Row
  <2>3. [rows EXCEPT ![i].mark = TRUE] \in [Ids -> Row \cup {NoRow}]
    BY <2>2
  <2> QED
    BY <1>1, <2>1, <2>3
<1>4. ASSUME NEW i \in Ids, NEW c \in Offerings, UpdateOffering(i, c)
      PROVE  PagingNext
  <2>1. rows[i] \in Row /\ Change([rows EXCEPT ![i].of = c])
    BY <1>4 DEF UpdateOffering
  <2>2. [rows[i] EXCEPT !.of = c] \in Row
    BY <2>1 DEF Row, Offerings
  <2>3. [rows EXCEPT ![i].of = c] \in [Ids -> Row \cup {NoRow}]
    BY <2>2
  <2> QED
    BY <1>1, <2>1, <2>3
<1>5. ASSUME MarkAllRead
      PROVE  PagingNext
  <2>1. ASSUME NEW i \in Ids, rows[i] # NoRow
        PROVE  [rows[i] EXCEPT !.mark = TRUE] \in Row
    BY <2>1 DEF Row
  <2>2. [i \in Ids |-> IF rows[i] = NoRow THEN NoRow ELSE [rows[i] EXCEPT !.mark = TRUE]]
           \in [Ids -> Row \cup {NoRow}]
    BY <2>1
  <2> QED
    BY <1>1, <1>5, <2>2 DEF MarkAllRead
<1> QED
  BY <1>2, <1>3, <1>4, <1>5 DEF Update

LEMMA RemoveStep ==
    ASSUME TypeOK, Remove
    PROVE  PagingNext
<1>1. ASSUME NEW r, Change(r), r \in [Ids -> Row \cup {NoRow}]
      PROVE  PagingNext
  BY <1>1 DEF PagingNext
<1>2. ASSUME NEW o \in Offerings, RemoveFavorite(o)
      PROVE  PagingNext
  <2>1. [i \in Ids |-> IF i \in RowsAbout(o) THEN NoRow ELSE rows[i]] \in [Ids -> Row \cup {NoRow}]
    BY DEF TypeOK, PagingTypeOK
  <2> QED
    BY <1>1, <1>2, <2>1 DEF RemoveFavorite
<1>3. ASSUME ClearHistory
      PROVE  PagingNext
  <2>1. [i \in Ids |-> NoRow] \in [Ids -> Row \cup {NoRow}]
    OBVIOUS
  <2> QED
    BY <1>1, <1>3, <2>1 DEF ClearHistory
<1> QED
  BY <1>2, <1>3 DEF Remove

LEMMA CommitNoticeStep ==
    ASSUME TypeOK, NEW d \in Dispatches, CommitNotice(d)
    PROVE  PagingNext \/ UNCHANGED paging
<1>1. CASE UNCHANGED paging
  BY <1>1
<1>2. CASE Change([rows EXCEPT ![job[d].id] = begun[job[d].id]])
  <2>1. job[d].id \in Ids
    BY DEF CommitNotice, TypeOK, Locals, Failed, NotCalled
  <2>2. [rows EXCEPT ![job[d].id] = begun[job[d].id]] \in [Ids -> Row \cup {NoRow}]
    BY <2>1 DEF TypeOK, PagingTypeOK
  <2> QED
    BY <1>2, <2>2 DEF PagingNext
<1> QED
  BY <1>1, <1>2 DEF CommitNotice

LEMMA BrowseStep ==
    ASSUME TypeOK, Browse
    PROVE  PagingNext
<1>1. ASSUME NEW q \in Slots, Receive(q) \/ Drop({q})
      PROVE  PagingNext
  BY <1>1 DEF PagingNext
<1>2. ASSUME NEW q \in Slots, NEW cursor \in {0, next}, NEW limit \in Limits, Ask(q, cursor, limit)
      PROVE  PagingNext
  <2>1. limit \in Int /\ cursor \in Ids \cup {0}
    BY LimitsAssumption DEF TypeOK, PagingTypeOK
  <2> QED
    BY <1>2, <2>1 DEF PagingNext
<1>3. ASSUME Told
      PROVE  PagingNext
  <2>1. ASSUME NEW o \in telling, Forget(removed[o] \cup RowsAbout(o), next)
        PROVE  PagingNext
    <3>1. removed[o] \cup RowsAbout(o) \in SUBSET Ids
      BY <2>1 DEF TypeOK, RowsAbout
    <3> QED
      BY <2>1, <3>1 DEF PagingNext
  <2>2. ASSUME Forget(Ids, 0)
        PROVE  PagingNext
    BY <2>2 DEF PagingNext
  <2> QED
    BY <1>3, <2>1, <2>2 DEF Told
<1> QED
  BY <1>1, <1>2, <1>3 DEF Browse

LEMMA StepSimulates == TypeOK /\ [Next]_vars => [PagingNext]_paging
<1> SUFFICES ASSUME TypeOK, [Next]_vars
             PROVE  PagingNext \/ UNCHANGED paging
  OBVIOUS
<1>1. ASSUME Serve
      PROVE  PagingNext \/ UNCHANGED paging
  <2>1. CASE Insert \/ \E i \in Ids : Commit(i) \/ Abandon(i)
    BY <2>1, InsertStep, CommitStep DEF Abandon
  <2>2. CASE (Update \/ Remove) /\ UNCHANGED <<list, tables, job>>
    BY <2>2, UpdateStep, RemoveStep
  <2>3. CASE \E d \in Dispatches : \/ InsertNotice(d) \/ CommitNotice(d) \/ Lookup(d) \/ Enqueue(d)
                                   \/ \E c \in Codes : Render(d, c)
    BY <2>3, CommitNoticeStep DEF InsertNotice, Lookup, Enqueue, Render
  <2>4. CASE \/ \E p \in {"on", "off"} : UpdatePreferences(p)
             \/ \E c \in Codes, k \in {"good", "bad"} : UpsertTemplate(c, k)
    BY <2>4 DEF UpdatePreferences, UpsertTemplate
  <2>5. CASE \E q \in Slots : Answer(q)
    BY <2>5 DEF PagingNext
  <2> QED
    BY <1>1, <2>1, <2>2, <2>3, <2>4, <2>5 DEF Serve
<1>2. ASSUME Restart
      PROVE  PagingNext
  BY <1>2 DEF Restart, PagingNext
<1> QED
  BY <1>1, <1>2, BrowseStep DEF Next, vars

-----------------------------------------------------------------------------
(* Type correctness of the server.                                         *)

\* The type of what Paging does not have.
ServerTypeOK ==
    /\ list \in Lists
    /\ last \in 0..MaxRows
    /\ begun \in [Ids -> Row \cup {NoRow}]
    /\ pref \in {"on", "off", "none"}
    /\ template \in [Codes -> {"good", "bad", "none"}]
    /\ job \in [Dispatches -> Locals]
    /\ outbox \in SUBSET Ids
    /\ removed \in [Offerings -> SUBSET Ids]
    /\ telling \in SUBSET Offerings

\* What a call of Dispatch knows at each point.
LEMMA LocalsShape ==
    ASSUME ServerTypeOK, NEW d \in Dispatches
    PROVE  /\ job[d].pc \in {"insert", "inserting", "lookup", "outbox", "done", "failed", "spoilt", "idle"}
           /\ job[d].pc = "insert" => job[d].of \in Codes
           /\ job[d].pc = "inserting" => job[d].id \in Ids
           /\ job[d].pc \in {"lookup", "outbox", "done", "spoilt"} =>
                 job[d].id \in Ids /\ job[d].was \in SUBSET {"on", "off", "none"}
BY DEF ServerTypeOK, Locals, Failed, NotCalled

LEMMA LocallyType ==
    ASSUME ServerTypeOK, NEW d \in Dispatches, job[d].pc \in {"lookup", "outbox"},
           NEW pc \in {"outbox", "done", "spoilt"}
    PROVE  Locally(d, pc) \in Locals
BY LocalsShape DEF Locally, Locals

LEMMA BeginType ==
    ASSUME ServerTypeOK, NEW row \in Row, Begin(row)
    PROVE  /\ last' \in 0..MaxRows /\ last + 1 \in Ids
           /\ begun' \in [Ids -> Row \cup {NoRow}]
BY PagingBoundAssumption DEF ServerTypeOK, Begin, Ids

LEMMA ServerNextType == ServerTypeOK /\ [Next]_vars => ServerTypeOK'
<1> SUFFICES ASSUME ServerTypeOK, [Next]_vars
             PROVE  ServerTypeOK'
  OBVIOUS
<1>1. ASSUME Insert
      PROVE  ServerTypeOK'
  <2>1. PICK o \in Offerings : Begin(Published(o))
    BY <1>1 DEF Insert, CreateReview, CreateThread, CreateOffering, AddFavorite, RecordView
  <2>2. Published(o) \in Row
    BY DEF Published, Row, Offerings
  <2>3. last' \in 0..MaxRows /\ begun' \in [Ids -> Row \cup {NoRow}]
    BY <2>1, <2>2, BeginType
  <2> QED
    BY <1>1, <2>3 DEF Insert, removal, ServerTypeOK
<1>2. ASSUME NEW i \in Ids, Commit(i) \/ Abandon(i)
      PROVE  ServerTypeOK'
  BY <1>2 DEF Commit, Abandon, Ended, removal, ServerTypeOK
<1>3. ASSUME Update, UNCHANGED <<list, tables, job>>
      PROVE  ServerTypeOK'
  BY <1>3 DEF Update, removal, tables, ServerTypeOK
<1>4. ASSUME Remove, UNCHANGED <<list, tables, job>>
      PROVE  ServerTypeOK'
  <2>1. ASSUME NEW o \in Offerings, RemoveFavorite(o)
        PROVE  removed' \in [Offerings -> SUBSET Ids] /\ telling' \in SUBSET Offerings
    BY <2>1 DEF RemoveFavorite, RowsAbout, ServerTypeOK
  <2>2. removed' \in [Offerings -> SUBSET Ids] /\ telling' \in SUBSET Offerings
    BY <1>4, <2>1 DEF Remove, ClearHistory, ServerTypeOK
  <2> QED
    BY <1>4, <2>2 DEF tables, ServerTypeOK
<1>5. ASSUME NEW d \in Dispatches, NEW c \in Codes, Render(d, c)
      PROVE  ServerTypeOK'
  <2>1. [pc |-> "insert", of |-> c] \in Locals /\ Failed \in Locals
    BY DEF Locals
  <2> QED
    BY <1>5, <2>1 DEF Render, Goes, tables, removal, ServerTypeOK
<1>6. ASSUME NEW d \in Dispatches, InsertNotice(d)
      PROVE  ServerTypeOK'
  <2>1. [mark |-> FALSE, of |-> job[d].of] \in Row
    BY <1>6, LocalsShape, CodeAssumption DEF InsertNotice, Row
  <2>2. /\ last' \in 0..MaxRows /\ last + 1 \in Ids /\ begun' \in [Ids -> Row \cup {NoRow}]
    BY <1>6, <2>1, BeginType DEF InsertNotice
  <2>3. [pc |-> "inserting", id |-> last + 1] \in Locals
    BY <2>2 DEF Locals
  <2> QED
    BY <1>6, <2>2, <2>3 DEF InsertNotice, Goes, removal, ServerTypeOK
<1>7. ASSUME NEW d \in Dispatches, CommitNotice(d)
      PROVE  ServerTypeOK'
  <2>1. job[d].id \in Ids
    BY <1>7, LocalsShape DEF CommitNotice
  <2>2. [pc |-> "lookup", id |-> job[d].id, was |-> {pref}] \in Locals /\ Failed \in Locals
    BY <2>1 DEF Locals, ServerTypeOK
  <2>3. /\ begun' = [begun EXCEPT ![job[d].id] = NoRow]
        /\ \/ job' = [job EXCEPT ![d] = [pc |-> "lookup", id |-> job[d].id, was |-> {pref}]]
           \/ job' = [job EXCEPT ![d] = Failed]
    BY <1>7 DEF CommitNotice, Ended, Goes
  <2>4. begun' \in [Ids -> Row \cup {NoRow}]
    BY <2>1, <2>3 DEF ServerTypeOK
  <2>5. job' \in [Dispatches -> Locals]
    BY <2>2, <2>3 DEF ServerTypeOK
  <2> QED
    BY <1>7, <2>4, <2>5 DEF CommitNotice, removal, ServerTypeOK
<1>8. ASSUME NEW d \in Dispatches, Lookup(d)
      PROVE  ServerTypeOK'
  <2>1. \A pc \in {"outbox", "done", "spoilt"} : Locally(d, pc) \in Locals
    BY <1>8, LocallyType DEF Lookup
  <2> QED
    BY <1>8, <2>1 DEF Lookup, Goes, tables, removal, ServerTypeOK
<1>9. ASSUME NEW d \in Dispatches, Enqueue(d)
      PROVE  ServerTypeOK'
  <2>1. (\A pc \in {"outbox", "done", "spoilt"} : Locally(d, pc) \in Locals) /\ job[d].id \in Ids
    BY <1>9, LocallyType, LocalsShape DEF Enqueue
  <2> QED
    BY <1>9, <2>1 DEF Enqueue, Goes, removal, ServerTypeOK
<1>10. ASSUME NEW p \in {"on", "off"}, UpdatePreferences(p)
       PROVE  ServerTypeOK'
  <2>1. ASSUME NEW d \in Dispatches, job[d].pc \in {"lookup", "outbox"}
        PROVE  [job[d] EXCEPT !.was = @ \cup {p}] \in Locals
    BY <2>1 DEF ServerTypeOK, Locals, Failed, NotCalled
  <2>2. job' \in [Dispatches -> Locals]
    BY <1>10, <2>1 DEF UpdatePreferences, ServerTypeOK
  <2> QED
    BY <1>10, <2>2 DEF UpdatePreferences, removal, ServerTypeOK
<1>11. ASSUME NEW c \in Codes, NEW k \in {"good", "bad"}, UpsertTemplate(c, k)
       PROVE  ServerTypeOK'
  BY <1>11 DEF UpsertTemplate, removal, ServerTypeOK
<1>12. ASSUME Browse
       PROVE  ServerTypeOK'
  BY <1>12 DEF Browse, Told, tables, removal, ServerTypeOK
<1>13. ASSUME Restart
       PROVE  ServerTypeOK'
  <2>1. Failed \in Locals /\ \A d \in Dispatches : job[d].pc \in {"lookup", "outbox"} => Locally(d, "spoilt") \in Locals
    BY LocallyType DEF Locals
  <2>2. job' \in [Dispatches -> Locals]
    BY <1>13, <2>1 DEF Restart, ServerTypeOK
  <2>3. template' \in [Codes -> {"good", "bad", "none"}]
    BY <1>13 DEF Restart, Seeded, ServerTypeOK
  <2> QED
    BY <1>13, <2>2, <2>3 DEF Restart, ServerTypeOK
<1>14. ASSUME UNCHANGED <<list, server>>
       PROVE  ServerTypeOK'
  BY <1>14 DEF server, tables, removal, ServerTypeOK
<1> QED
  BY <1>1, <1>2, <1>3, <1>4, <1>5, <1>6, <1>7, <1>8, <1>9, <1>10, <1>11, <1>12, <1>13, <1>14
     DEF Next, Serve, vars

LEMMA NextType == TypeOK /\ [Next]_vars => TypeOK'
BY StepSimulates, PagingNextType, ServerNextType DEF TypeOK, ServerTypeOK

LEMMA InitType == Init => TypeOK
<1> SUFFICES ASSUME Init
             PROVE  TypeOK
  OBVIOUS
<1>1. last \in 0..MaxRows
  BY PagingBoundAssumption DEF Init
<1>2. template \in [Codes -> {"good", "bad", "none"}]
  BY DEF Init
<1>3. job \in [Dispatches -> Locals]
  BY DEF Init, Locals
<1> QED
  BY <1>1, <1>2, <1>3, PagingInitType DEF Init, TypeOK

\* The tables, the store and what requests and calls of Dispatch know keep
\* their types.
THEOREM TypeCorrect == Spec => []TypeOK
BY InitType, NextType, PTL DEF Spec

\* Each of the lists that the server serves and the frontend loads is one of
\* Paging, with whatever INSERTs, UPDATEs and DELETEs change its table.
THEOREM ListingsArePaged == Spec => PagingSpec
<1>1. Init => PagingInit
  BY DEF Init
<1> QED
  BY <1>1, TypeCorrect, StepSimulates, PTL DEF Spec, PagingSpec

\* So all of them are complete when they are loaded one page at a time.
THEOREM ListsComplete == Spec => []ListComplete
BY ListingsArePaged, PagedCompletely, PTL

-----------------------------------------------------------------------------
(* Notifications are delivered.                                            *)

HasId(d) == job[d].pc \in {"inserting", "lookup", "outbox", "done", "spoilt"}

\* Calls have ids of their own, below the last one given out.
OwnIds ==
    /\ \A d \in Dispatches : HasId(d) => job[d].id <= last
    /\ \A d, e \in Dispatches : HasId(d) /\ HasId(e) /\ job[d].id = job[e].id => d = e
    /\ \A i \in outbox : i <= last
    /\ \A d \in Dispatches : job[d].pc # "idle" => list = "notices"

\* What call d has done and seen so far.
Sound(d) ==
    /\ job[d].pc = "inserting" => begun[job[d].id] # NoRow /\ job[d].id \notin outbox
    /\ job[d].pc \in {"lookup", "outbox", "done", "spoilt"} =>
          /\ rows[job[d].id] # NoRow
          /\ "off" \notin job[d].was => job[d].id \notin outbox
    /\ job[d].pc = "lookup" => pref \in job[d].was
    /\ job[d].pc = "outbox" => "off" \in job[d].was
    /\ job[d].pc = "done" => (job[d].was = {"off"} => job[d].id \in outbox)

Delivering == OwnIds /\ \A d \in Dispatches : Sound(d)

\* Steps that keep the calls, the rows that there are and the tables they use.
LEMMA QuietStep ==
    ASSUME TypeOK, Delivering, UNCHANGED <<list, job, begun, outbox, last, pref>>,
           list = "notices" => \A i \in Ids : rows[i] # NoRow => rows'[i] # NoRow
    PROVE  Delivering'
<1>1. OwnIds'
  BY DEF Delivering, OwnIds, HasId
<1>2. ASSUME NEW d \in Dispatches
      PROVE  Sound(d)'
  <2>1. job[d].pc \in {"lookup", "outbox", "done", "spoilt"} => rows'[job[d].id] # NoRow
    BY LocalsShape DEF Delivering, OwnIds, Sound, TypeOK, ServerTypeOK
  <2> QED
    BY <2>1 DEF Delivering, Sound
<1> QED
  BY <1>1, <1>2 DEF Delivering

\* Marking notifications as read removes none.
LEMMA NoticesStay ==
    ASSUME TypeOK, list = "notices", Update \/ Remove, NEW i \in Ids, rows[i] # NoRow
    PROVE  rows'[i] # NoRow
<1>1. rows[i] \in Row
  BY DEF TypeOK, PagingTypeOK
<1>2. [rows[i] EXCEPT !.mark = TRUE] # NoRow
  BY <1>1 DEF Row, NoRow
<1>3. rows'[i] \in {rows[i], [rows[i] EXCEPT !.mark = TRUE]}
  BY DEF Update, Remove, ClearHistory, RemoveFavorite, Moderate, ToggleStatus, UpdateOffering,
         MarkRead, MarkAllRead, Change, TypeOK, PagingTypeOK
<1> QED
  BY <1>2, <1>3

\* Without a list of notifications there are no calls.
LEMMA ElsewhereStep ==
    ASSUME TypeOK, Delivering, list # "notices", UNCHANGED <<list, job, outbox>>,
           last' = last \/ last' = last + 1
    PROVE  Delivering'
<1>1. \A d \in Dispatches : job[d].pc = "idle"
  BY DEF Delivering, OwnIds
<1>2. \A i \in outbox : i <= last'
  BY PagingBoundAssumption DEF Delivering, OwnIds, TypeOK, Ids
<1> QED
  BY <1>1, <1>2 DEF Delivering, OwnIds, Sound, HasId

LEMMA InsertNoticeDelivering ==
    ASSUME TypeOK, Delivering, NEW d \in Dispatches, InsertNotice(d)
    PROVE  Delivering'
<1>0. ServerTypeOK
  BY DEF TypeOK, ServerTypeOK
<1>1. /\ last' = last + 1 /\ UNCHANGED <<list, rows, pref, outbox>>
      /\ begun' = [begun EXCEPT ![last + 1] = [mark |-> FALSE, of |-> job[d].of]]
      /\ job' = [job EXCEPT ![d] = [pc |-> "inserting", id |-> last + 1]]
      /\ last + 1 \in Ids /\ last \in Nat
  BY PagingBoundAssumption DEF InsertNotice, Begin, Goes, paging, TypeOK, Ids
<1>2. job'[d].pc = "inserting" /\ job'[d].id = last + 1 /\ \A e \in Dispatches \ {d} : job'[e] = job[e]
  BY <1>1 DEF TypeOK
<1>3. \A e \in Dispatches : HasId(e) => job[e].id \in Ids /\ job[e].id <= last
  BY <1>0, LocalsShape DEF HasId, Delivering, OwnIds
<1>4. \A e \in Dispatches : HasId(e)' => e = d \/ HasId(e)
  BY <1>2 DEF HasId
<1>5. OwnIds'
  <2>1. \A e \in Dispatches : HasId(e)' => job'[e].id <= last'
    BY <1>1, <1>2, <1>3, <1>4 DEF Ids
  <2>2. \A e \in Dispatches : HasId(e)' /\ job'[e].id = last + 1 => e = d
    BY <1>1, <1>2, <1>3, <1>4 DEF Ids
  <2>3. ASSUME NEW e \in Dispatches, NEW f \in Dispatches, HasId(e)', HasId(f)', job'[e].id = job'[f].id
        PROVE  e = f
    BY <1>2, <1>4, <2>2, <2>3 DEF Delivering, OwnIds
  <2>4. \A i \in outbox' : i <= last'
    BY <1>1 DEF Delivering, OwnIds, TypeOK, Ids
  <2>5. \A e \in Dispatches : job'[e].pc # "idle" => list' = "notices"
    BY <1>1, <1>2 DEF InsertNotice, Delivering, OwnIds
  <2> QED
    BY <2>1, <2>3, <2>4, <2>5 DEF OwnIds
<1>6. Sound(d)'
  <2>1. begun'[last + 1] = [mark |-> FALSE, of |-> job[d].of]
    BY <1>1 DEF TypeOK
  <2>2. begun'[last + 1] # NoRow
    BY <2>1 DEF NoRow
  <2>3. last + 1 \notin outbox
    BY <1>1 DEF Delivering, OwnIds, Ids, TypeOK
  <2> QED
    BY <1>1, <1>2, <2>2, <2>3 DEF Sound
<1>7. ASSUME NEW e \in Dispatches, e # d
      PROVE  Sound(e)'
  <2>1. HasId(e) => begun'[job[e].id] = begun[job[e].id]
    BY <1>1, <1>3 DEF Ids
  <2>2. job'[e] = job[e] /\ Sound(e) /\ UNCHANGED <<rows, pref, outbox>>
    BY <1>1, <1>2, <1>7 DEF Delivering
  <2> QED
    BY <2>1, <2>2 DEF Sound, HasId
<1> QED
  BY <1>5, <1>6, <1>7 DEF Delivering

LEMMA CommitNoticeDelivering ==
    ASSUME TypeOK, Delivering, NEW d \in Dispatches, CommitNotice(d)
    PROVE  Delivering'
<1>0. ServerTypeOK
  BY DEF TypeOK, ServerTypeOK
<1> PICK i : i = job[d].id
  OBVIOUS
<1>1. /\ UNCHANGED <<list, last, pref, outbox>> /\ i \in Ids /\ job[d].pc = "inserting"
      /\ begun' = [begun EXCEPT ![i] = NoRow]
      /\ \/ rows' = [rows EXCEPT ![i] = begun[i]]
            /\ job' = [job EXCEPT ![d] = [pc |-> "lookup", id |-> i, was |-> {pref}]]
         \/ rows' = rows /\ job' = [job EXCEPT ![d] = Failed]
  BY <1>0, LocalsShape DEF CommitNotice, Ended, Goes, Change, paging
<1>2. HasId(d) /\ begun[i] # NoRow /\ i \notin outbox /\ list = "notices"
  BY <1>1 DEF HasId, Delivering, Sound, OwnIds
<1>3. \A e \in Dispatches \ {d} : job'[e] = job[e]
  BY <1>1 DEF TypeOK
<1>4. \/ job'[d].pc = "lookup" /\ job'[d].id = i /\ job'[d].was = {pref} /\ rows'[i] = begun[i]
      \/ job'[d].pc = "failed"
  BY <1>1 DEF TypeOK, PagingTypeOK, Failed
<1>5. \A e \in Dispatches : HasId(e)' => HasId(e) /\ job'[e].id = job[e].id
  BY <1>2, <1>3, <1>4 DEF HasId
<1>6. OwnIds'
  BY <1>1, <1>2, <1>5, <1>3 DEF Delivering, OwnIds
<1>7. Sound(d)'
  BY <1>1, <1>2, <1>4 DEF Sound
<1>8. ASSUME NEW e \in Dispatches, e # d
      PROVE  Sound(e)'
  <2>1. HasId(e) => job[e].id # i /\ job[e].id \in Ids
    BY <1>0, <1>2, <1>8, LocalsShape DEF Delivering, OwnIds, HasId
  <2>2. HasId(e) => begun'[job[e].id] = begun[job[e].id] /\ rows'[job[e].id] = rows[job[e].id]
    BY <1>1, <2>1 DEF TypeOK, PagingTypeOK
  <2> QED
    BY <1>1, <1>3, <1>8, <2>2 DEF Delivering, Sound, HasId
<1> QED
  BY <1>6, <1>7, <1>8 DEF Delivering

\* lookupNotifyInApp and the row of the outbox.
LEMMA LookupDelivering ==
    ASSUME TypeOK, Delivering, NEW d \in Dispatches, Lookup(d) \/ Enqueue(d)
    PROVE  Delivering'
<1>1. /\ job[d].pc \in {"lookup", "outbox"} /\ HasId(d) /\ Sound(d)
      /\ UNCHANGED <<list, rows, last, begun, pref>>
      /\ outbox' = outbox \/ (job[d].pc = "outbox" /\ outbox' = outbox \cup {job[d].id})
  BY DEF Lookup, Enqueue, HasId, Delivering, tables, paging
<1>2. PICK pc \in {"outbox", "done", "spoilt"} : job' = [job EXCEPT ![d] = Locally(d, pc)]
  BY DEF Lookup, Enqueue, Goes
<1>3. /\ job'[d].pc \in {"outbox", "done", "spoilt"} /\ job'[d].id = job[d].id /\ job'[d].was = job[d].was
      /\ \A e \in Dispatches \ {d} : job'[e] = job[e]
  BY <1>2 DEF Locally, TypeOK
<1>4. \A e \in Dispatches : HasId(e)' => HasId(e) /\ job'[e].id = job[e].id
  BY <1>1, <1>3 DEF HasId
<1>5. OwnIds'
  <2>1. \A i \in outbox' : i <= last'
    BY <1>1 DEF Delivering, OwnIds
  <2>2. list = "notices"
    BY <1>1 DEF Delivering, OwnIds
  <2> QED
    BY <1>1, <1>4, <2>1, <2>2 DEF Delivering, OwnIds
<1>6. Sound(d)'
  <2>1. job'[d].pc = "outbox" => "off" \in job[d].was
    <3>1. Lookup(d) /\ job'[d].pc = "outbox" => NotInApp
      BY <1>3 DEF Lookup, Goes, Locally, TypeOK
    <3>2. Enqueue(d) => job'[d].pc # "outbox"
      BY DEF Enqueue, Goes, Locally, TypeOK
    <3> QED
      BY <1>1, <3>1, <3>2 DEF Sound, NotInApp, Lookup
  <2>2. job'[d].pc = "done" => (job[d].was = {"off"} => job[d].id \in outbox')
    <3>1. Lookup(d) /\ job'[d].pc = "done" => ~NotInApp
      BY DEF Lookup, Goes, Locally, TypeOK
    <3>2. Enqueue(d) /\ job'[d].pc = "done" => job[d].id \in outbox'
      BY DEF Enqueue, Goes, Locally, TypeOK
    <3> QED
      BY <1>1, <3>1, <3>2 DEF Sound, NotInApp, Lookup
  <2>3. "off" \notin job[d].was => job[d].id \notin outbox'
    BY <1>1 DEF Sound
  <2>4. rows'[job[d].id] # NoRow
    BY <1>1 DEF Sound
  <2> QED
    BY <1>3, <2>1, <2>2, <2>3, <2>4 DEF Sound
<1>7. ASSUME NEW e \in Dispatches, e # d
      PROVE  Sound(e)'
  <2>1. HasId(e) => job[e].id # job[d].id
    BY <1>1, <1>7 DEF Delivering, OwnIds
  <2> QED
    BY <1>1, <1>3, <1>7, <2>1 DEF Delivering, Sound, HasId
<1> QED
  BY <1>5, <1>6, <1>7 DEF Delivering

\* UpdatePreferences: calls under way take the new preference down.
LEMMA PreferenceDelivering ==
    ASSUME TypeOK, Delivering, NEW p \in {"on", "off"}, UpdatePreferences(p)
    PROVE  Delivering'
<1>0. ServerTypeOK
  BY DEF TypeOK, ServerTypeOK
<1>1. ASSUME NEW d \in Dispatches
      PROVE  /\ job'[d].pc = job[d].pc /\ (HasId(d) => job'[d].id = job[d].id)
             /\ job[d].pc \in {"lookup", "outbox"} => job'[d].was = job[d].was \cup {p}
             /\ job[d].pc \notin {"lookup", "outbox"} => job'[d] = job[d]
  <2>1. CASE job[d].pc \in {"lookup", "outbox"}
    <3>1. job[d] \in [pc : {"lookup", "outbox", "done"}, id : Ids, was : SUBSET {"on", "off", "none"}]
      BY <2>1 DEF TypeOK, Locals, Failed, NotCalled
    <3>2. job'[d] = [job[d] EXCEPT !.was = @ \cup {p}]
      BY <2>1 DEF UpdatePreferences
    <3> QED
      BY <2>1, <3>1, <3>2
  <2>2. CASE job[d].pc \notin {"lookup", "outbox"}
    BY <2>2 DEF UpdatePreferences
  <2> QED
    BY <2>1, <2>2
<1>2. UNCHANGED <<rows, list, last, begun, outbox>> /\ pref' = p /\ list = "notices"
  BY DEF UpdatePreferences, paging
<1>3. OwnIds'
  BY <1>1, <1>2 DEF Delivering, OwnIds, HasId
<1>4. ASSUME NEW d \in Dispatches
      PROVE  Sound(d)'
  BY <1>1, <1>2 DEF Delivering, Sound, HasId
<1> QED
  BY <1>3, <1>4 DEF Delivering

LEMMA RestartDelivering ==
    ASSUME TypeOK, Delivering, Restart
    PROVE  Delivering'
<1>1. ASSUME NEW d \in Dispatches
      PROVE  \/ job'[d].pc = "failed" /\ job[d].pc # "idle"
             \/ /\ job'[d].pc = "spoilt" /\ job[d].pc \in {"lookup", "outbox"}
                /\ job'[d].id = job[d].id /\ job'[d].was = job[d].was
             \/ job'[d] = job[d] /\ job[d].pc \notin {"insert", "inserting", "lookup", "outbox"}
  BY DEF Restart, Failed, Locally
<1>2. UNCHANGED <<rows, list, last, pref, outbox>>
  BY DEF Restart, Drop
<1>3. OwnIds'
  BY <1>1, <1>2 DEF Delivering, OwnIds, HasId
<1>4. ASSUME NEW d \in Dispatches
      PROVE  Sound(d)'
  BY <1>1, <1>2 DEF Delivering, Sound
<1> QED
  BY <1>3, <1>4 DEF Delivering

LEMMA RenderDelivering ==
    ASSUME TypeOK, Delivering, NEW d \in Dispatches, NEW c \in Codes, Render(d, c)
    PROVE  Delivering'
<1>1. job'[d].pc \in {"insert", "failed"} /\ \A e \in Dispatches \ {d} : job'[e] = job[e]
  BY DEF Render, Goes, Failed, TypeOK
<1>2. UNCHANGED <<rows, list, last, begun, pref, outbox>> /\ list = "notices"
  BY DEF Render, paging, tables
<1>3. OwnIds'
  BY <1>1, <1>2 DEF Delivering, OwnIds, HasId
<1>4. ASSUME NEW e \in Dispatches
      PROVE  Sound(e)'
  <2>1. CASE e = d
    BY <1>1, <2>1 DEF Sound
  <2>2. CASE e # d
    BY <1>1, <1>2, <2>2 DEF Delivering, Sound
  <2> QED
    BY <2>1, <2>2
<1> QED
  BY <1>3, <1>4 DEF Delivering

LEMMA NextDelivering == TypeOK /\ Delivering /\ [Next]_vars => Delivering'
<1> SUFFICES ASSUME TypeOK, Delivering, [Next]_vars
             PROVE  Delivering'
  OBVIOUS
<1>1. CASE Insert
  <2>1. list # "notices" /\ UNCHANGED <<list, job, outbox>> /\ last' = last + 1
    BY <1>1 DEF Insert, CreateReview, CreateThread, CreateOffering, AddFavorite, RecordView, Begin
  <2> QED
    BY <2>1, ElsewhereStep
<1>2. ASSUME NEW i \in Ids, Commit(i) \/ Abandon(i)
      PROVE  Delivering'
  BY <1>2, ElsewhereStep DEF Commit, Abandon
<1>3. CASE (Update \/ Remove) /\ UNCHANGED <<list, tables, job>>
  BY <1>3, QuietStep, NoticesStay DEF tables
<1>4. ASSUME NEW d \in Dispatches,
             \/ InsertNotice(d) \/ CommitNotice(d) \/ Lookup(d) \/ Enqueue(d)
             \/ \E c \in Codes : Render(d, c)
      PROVE  Delivering'
  BY <1>4, InsertNoticeDelivering, CommitNoticeDelivering, LookupDelivering, RenderDelivering
<1>5. ASSUME NEW c \in Codes, NEW k \in {"good", "bad"}, UpsertTemplate(c, k)
      PROVE  Delivering'
  BY <1>5, QuietStep DEF UpsertTemplate, paging
<1>6. CASE (\E q \in Slots : Answer(q)) /\ UNCHANGED <<list, server>>
  BY <1>6, QuietStep DEF Answer, server, tables
<1>7. CASE Browse
  <2>1. rows' = rows
    BY <1>7 DEF Browse, Told, Receive, Drop, Ask, Forget
  <2> QED
    BY <1>7, <2>1, QuietStep DEF Browse, tables
<1>8. CASE UNCHANGED vars
  BY <1>8, QuietStep DEF vars, paging, server, tables
<1> QED
  BY <1>1, <1>2, <1>3, <1>4, <1>5, <1>6, <1>7, <1>8, PreferenceDelivering, RestartDelivering
     DEF Next, Serve

\* A call of Dispatch without a fault leaves a notification, and tells the
\* outbox of it if the user wanted none in the application all the time; a
\* user who wanted them all the time is never told by the outbox
\* (service.go:129).
THEOREM NoticesDelivered == Spec => []NoticeDelivered
<1>1. Init => Delivering
  <2> SUFFICES ASSUME Init
               PROVE  Delivering
    OBVIOUS
  <2>1. \A d \in Dispatches : job[d].pc = "idle"
    BY DEF Init, NotCalled
  <2> QED
    BY <2>1 DEF Init, Delivering, OwnIds, Sound, HasId
<1>2. Delivering => NoticeDelivered
  BY DEF Delivering, Sound, NoticeDelivered
<1> QED
  BY <1>1, <1>2, InitType, NextType, NextDelivering, PTL DEF Spec

-----------------------------------------------------------------------------
(* Ingest: inductive invariants.                                           *)

HasRows(j) == \E i \in Rows : bronze[i].job = j

\* A run is past the UPDATE to running, or past the INSERT of its row.
Marked(r) == run[r].pc \in {"marked", "resumed", "pulled", "stored", "derived", "saved"}
Stored(r) == run[r].pc \in {"stored", "derived", "saved"}

\* A job that a run has marked is not pending, and one whose run has stored its
\* row has rows.
RunsAgree ==
    \A r \in Runners : /\ Marked(r) => status[run[r].job] \notin {"absent", "pending"}
                       /\ Stored(r) => HasRows(run[r].job)

AgreeInv == IngestTypeOK /\ RowsAgree /\ RunsAgree

\* Only log files are rotated.
PastIsLog == past # {} => kind = "log_file"

\* What accounts for a version that lies behind a checkpoint.
Accounted(v) ==
    \/ Copies(v) # {}
    \/ v \in late
    \/ cutoff
    \/ \E x \in past : stamp[x] >= v[2]

\* What lies behind n is accounted for, V apart; and n itself is the stamp of an item, or
\* of an earlier version of it.
Covered(n, V) ==
    /\ \A v \in Present : v[2] <= n => v \in V \/ Accounted(v)
    /\ n = 0 \/ \E x \in Items : stamp[x] >= n

PassedInv ==
    /\ IngestTypeOK
    /\ PastIsLog
    /\ \A j \in Jobs : Covered(checkpoint[j].value, {})
    /\ \A r \in Runners :
           /\ run[r].pc = "resumed" => Covered(run[r].from.value, {})
           /\ run[r].pc = "pulled" => Covered(run[r].next.value, run[r].got)
           /\ run[r].pc \in {"stored", "derived"} => Covered(run[r].next.value, {})

\* The rows of pulls that found nothing in a table.
Empties == { i \in Rows : kind = "db_table" /\ bronze[i].got = {} }

\* v lies behind the checkpoint ck, as the next pull reads it.
Behind(v, ck) == v[2] <= Heeded(ck, IF kind = "log_file" THEN "offset" ELSE "updated_at")

\* What was pulled is not newer than its item.
Old(V) == \A v \in V : v[2] <= stamp[v[1]]

\* If the rows of W were stored after those of bronze and then ck were the newest
\* checkpoint, nothing would be pulled again before another empty pull.
Extra(v, W) == IF v \in W THEN 1 ELSE 0
Fresh(ck, W, empty) ==
    /\ \A v \in Present :
           Cardinality(Copies(v)) + Extra(v, W)
               <= Cardinality(Empties) + empty + (IF Behind(v, ck) THEN 1 ELSE 0)
    /\ kind = "log_file" /\ (\E v \in Present : v \in W \/ Copies(v) # {}) =>
           Heeded(ck, "offset") <= Latest(Present, 0)

Quiet == ~disturbed /\ faults = 0

Single ==
    /\ \A r, q \in Runners : run[r] # NoRun /\ run[q] # NoRun => r = q
    /\ newest = {} \/ \E j \in Jobs : newest = {j}
    /\ \A j \in Jobs : checkpoint[j] # NoCheckpoint =>
           \/ status[j] = "completed"
           \/ \E r \in Runners : run[r].pc = "saved" /\ run[r].job = j
    /\ \A r \in Runners : run[r] # NoRun /\ run[r].pc # "saved" => checkpoint[run[r].job] = NoCheckpoint

\* Empty is whether what a run has pulled makes a row of Empties.
Empty(got) == IF kind = "db_table" /\ got = {} THEN 1 ELSE 0

RunCounted(r) ==
    /\ run[r].pc = "resumed" => run[r].from \in Newest
    /\ run[r].pc = "pulled" =>
           /\ Old(run[r].got)
           /\ \A v \in run[r].got : Cardinality(Copies(v)) <= Cardinality(Empties)
           /\ Fresh(run[r].next, run[r].got, Empty(run[r].got))
    /\ run[r].pc \in {"stored", "derived"} => Fresh(run[r].next, {}, 0)

Counted ==
    /\ \A v \in Versions : Cardinality(Copies(v)) <= 1 + Cardinality(Empties)
    /\ \A i \in Rows : Old(bronze[i].got)
    /\ (\A r \in Runners : run[r].pc \notin {"stored", "derived"}) => \A ck \in Newest : Fresh(ck, {}, 0)
    /\ \A r \in Runners : RunCounted(r)

OnceInv == AgreeInv /\ PastIsLog /\ (Quiet => Single /\ Counted)

-----------------------------------------------------------------------------
(* Ingest: the largest stamp, and the types.                               *)

LEMMA MaxExists ==
    ASSUME NEW S \in SUBSET Nat, S # {}, NEW n \in Nat, \A s \in S : s <= n
    PROVE  \E m \in S : \A s \in S : s <= m
<1> DEFINE B == { b \in Nat : \A s \in S : s <= b }
           Less == OpToRel(<, Nat)
<1>1. n \in B
  OBVIOUS
<1>2. \A x \in Nat, y \in Nat : <<x, y>> \in Less <=> x < y
  BY DEF OpToRel
<1>3. PICK m \in B : \A b \in B : <<b, m>> \notin Less
  <2>1. B \subseteq Nat /\ B # {}
    BY <1>1
  <2> HIDE DEF B, Less
  <2>2. IsWellFoundedOn(Less, Nat)
    BY NatLessThanWellFounded DEF Less
  <2> QED
    BY <2>1, <2>2, WFMin
<1>4. m \in Nat /\ (\A s \in S : s <= m) /\ \A b \in B : ~ (b < m)
  BY <1>2, <1>3
<1> HIDE DEF Less
<1>5. m \in S
  <2>1. SUFFICES ASSUME m \notin S
                 PROVE  FALSE
    OBVIOUS
  <2>2. PICK s \in S : TRUE
    OBVIOUS
  <2>3. m - 1 \in Nat /\ \A u \in S : u <= m - 1
    BY <1>4, <2>1, <2>2
  <2> QED
    BY <1>4, <2>3
<1> QED
  BY <1>4, <1>5

\* Latest is what its name says.
LEMMA LatestIs ==
    ASSUME NEW V \in SUBSET Versions, NEW b \in 0..MaxStamp
    PROVE  /\ Latest(V, b) \in 0..MaxStamp
           /\ b <= Latest(V, b)
           /\ \A v \in V : v[2] <= Latest(V, b)
           /\ Latest(V, b) = b \/ \E v \in V : v[2] = Latest(V, b)
<1> DEFINE S == {b} \cup { v[2] : v \in V }
<1>1. S \in SUBSET (0..MaxStamp) /\ S # {}
  BY BoundAssumption DEF Versions, Stamps
<1>2. \E t \in S : \A u \in S : u <= t
  <2>1. S \in SUBSET Nat /\ \A s \in S : s <= MaxStamp
    BY <1>1, BoundAssumption
  <2> HIDE DEF S
  <2> QED
    BY <1>1, <2>1, MaxExists, BoundAssumption
<1>3. Latest(V, b) = CHOOSE t \in S : \A u \in S : u <= t
  BY DEF Latest
<1>4. Latest(V, b) \in S /\ \A u \in S : u <= Latest(V, b)
  <2> HIDE DEF S
  <2> QED
    BY <1>2, <1>3
<1> QED
  BY <1>1, <1>4

LEMMA PresentIs ==
    ASSUME IngestTypeOK
    PROVE  /\ Present \in SUBSET Versions
           /\ \A v \in Present : v[1] \in Items /\ v[2] \in Stamps /\ v[2] = stamp[v[1]] /\ v[1] \notin past
           /\ \A x \in Items : stamp[x] > 0 /\ x \notin past => <<x, stamp[x]>> \in Present
<1>1. \A x \in Items : stamp[x] \in 0..MaxStamp
  BY DEF IngestTypeOK
<1>2. \A x \in Items : stamp[x] > 0 => stamp[x] \in Stamps
  BY <1>1, BoundAssumption DEF Stamps
<1>3. \A v : v \in Present <=> \E x \in Items : stamp[x] > 0 /\ x \notin past /\ v = <<x, stamp[x]>>
  BY DEF Present
<1> QED
  BY <1>2, <1>3 DEF Versions

LEMMA HeededIs ==
    ASSUME NEW ck \in Checkpoints, NEW type \in {"updated_at", "offset"}
    PROVE  /\ ck.value \in 0..MaxStamp
           /\ Heeded(ck, type) \in 0..MaxStamp
           /\ Heeded(ck, type) <= ck.value
BY BoundAssumption DEF Heeded, Checkpoints, CheckpointRows, NoCheckpoint

\* What a pull may yield.
LEMMA PullIs ==
    ASSUME IngestTypeOK, NEW ck \in Checkpoints, NEW p \in Pulls(ck)
    PROVE  /\ p.got \in SUBSET Present
           /\ [type |-> p.type, value |-> p.value] \in CheckpointRows
<1> USE BoundAssumption
<1>1. Present \in SUBSET Versions
  BY PresentIs
<1>2. CASE kind = "log_file"
  BY <1>1, <1>2, LatestIs, HeededIs DEF Pulls, PullLogFile, CheckpointRows
<1>3. CASE kind = "filesystem_drop"
  <2> DEFINE got == { v \in Present : v[2] > Heeded(ck, "updated_at") }
  <2>1. p = [got |-> got, type |-> "updated_at", value |-> Latest(got, Heeded(ck, "updated_at"))]
    BY <1>3 DEF Pulls, PullFilesystemDrop
  <2>2. got \in SUBSET Versions
    BY <1>1
  <2>3. Latest(got, Heeded(ck, "updated_at")) \in 0..MaxStamp
    BY <2>2, LatestIs, HeededIs
  <2> QED
    BY <2>1, <2>3 DEF CheckpointRows
<1>4. CASE kind = "db_table"
  <2>1. p \in PullDBTable(ck)
    BY <1>4 DEF Pulls
  <2>2. PICK V \in SUBSET Present :
           p = IF V = {} THEN [got |-> V, type |-> "offset", value |-> Heeded(ck, "offset")]
                         ELSE [got |-> V, type |-> "updated_at", value |-> Latest(V, 0)]
    BY <2>1 DEF PullDBTable
  <2>3. Latest(V, 0) \in 0..MaxStamp /\ Heeded(ck, "offset") \in 0..MaxStamp
    BY <1>1, LatestIs, HeededIs
  <2> QED
    BY <2>2, <2>3 DEF CheckpointRows
<1> QED
  BY <1>2, <1>3, <1>4 DEF IngestTypeOK, Kinds

\* The locals of a run at each point.
LEMMA RunShape ==
    ASSUME IngestTypeOK, NEW r \in Runners
    PROVE  /\ run[r] # NoRun => run[r].pc \in {"loaded", "marked", "resumed", "pulled", "stored", "derived", "saved"}
           /\ run[r].pc \in {"loaded", "marked", "resumed", "pulled", "stored", "derived", "saved"} =>
                  run[r] # NoRun /\ run[r].job \in Jobs
           /\ run[r].pc = "resumed" => run[r].from \in Checkpoints
           /\ run[r].pc = "pulled" => run[r].got \in SUBSET Versions
           /\ run[r].pc \in {"pulled", "stored", "derived"} => run[r].next \in CheckpointRows
           /\ run[r].pc = "stored" => run[r].row \in Rows
BY DEF IngestTypeOK, RunLocals, NoRun, Rows

LEMMA IngestInitType == IngestInit => IngestTypeOK
<1> SUFFICES ASSUME IngestInit
             PROVE  IngestTypeOK
  OBVIOUS
<1>1. 0 \in 0..MaxStamp /\ 0 \in 0..MaxRuns /\ 0 \in 0..MaxFaults
  BY BoundAssumption
<1>2. stamp \in [Items -> 0..MaxStamp] /\ status \in [Jobs -> {"absent", "pending", "running", "completed", "failed"}]
  BY <1>1 DEF IngestInit
<1>3. checkpoint \in [Jobs -> Checkpoints]
  BY DEF IngestInit, Checkpoints
<1>4. run \in [Runners -> RunLocals \cup {NoRun}] /\ \A r \in Runners : run[r].pc = "idle"
  BY DEF IngestInit, NoRun
<1>5. bronze \in Seq(BronzeRows)
  BY DEF IngestInit
<1> QED
  BY <1>1, <1>2, <1>3, <1>4, <1>5 DEF IngestInit, IngestTypeOK

\* The rows after an INSERT, and after the row i was derived from.
LEMMA RowsAppended ==
    ASSUME IngestTypeOK, NEW r \in Runners, run[r].pc = "pulled",
           bronze' = Append(bronze, [job |-> run[r].job, got |-> run[r].got, top |-> "bronze"])
    PROVE  /\ bronze' \in Seq(BronzeRows)
           /\ Len(bronze') = Len(bronze) + 1
           /\ Rows' = Rows \cup {Len(bronze) + 1}
           /\ Len(bronze) + 1 \notin Rows
           /\ \A i \in Rows : bronze'[i] = bronze[i]
           /\ bronze'[Len(bronze) + 1].job = run[r].job
           /\ bronze'[Len(bronze) + 1].got = run[r].got
<1> DEFINE new     == [job |-> run[r].job, got |-> run[r].got, top |-> "bronze"]
<1>1. bronze \in Seq(BronzeRows)
  BY DEF IngestTypeOK
<1>2. new \in BronzeRows
  BY RunShape DEF BronzeRows
<1>3. new.job = run[r].job /\ new.got = run[r].got
  OBVIOUS
<1> HIDE DEF new
<1>4. bronze' = Append(bronze, new)
  BY DEF new
<1>5. /\ bronze' \in Seq(BronzeRows)
      /\ Len(bronze') = Len(bronze) + 1
      /\ Len(bronze) \in Nat
      /\ \A i \in 1..Len(bronze) : bronze'[i] = bronze[i]
      /\ bronze'[Len(bronze) + 1] = new
  BY <1>1, <1>2, <1>4, AppendProperties, LenProperties
<1>6. Rows' = Rows \cup {Len(bronze) + 1} /\ Len(bronze) + 1 \notin Rows
  BY <1>5 DEF Rows
<1> QED
  BY <1>3, <1>5, <1>6 DEF Rows, BronzeRows

LEMMA RowsDerived ==
    ASSUME IngestTypeOK, NEW r \in Runners, NEW top \in {"bronze", "silver", "gold"}, DeriveUpTo(r, top)
    PROVE  /\ bronze' \in Seq(BronzeRows)
           /\ Rows' = Rows /\ Len(bronze') = Len(bronze)
           /\ \A i \in Rows : bronze'[i].job = bronze[i].job /\ bronze'[i].got = bronze[i].got
<1> DEFINE i       == run[r].row
           new     == [bronze[i] EXCEPT !.top = top]
<1>1. bronze \in Seq(BronzeRows) /\ i \in 1..Len(bronze)
  BY RunShape DEF IngestTypeOK, DeriveUpTo, Rows
<1>2. bronze[i] \in BronzeRows
  <2> HIDE DEF i
  <2> QED
    BY <1>1, ElementOfSeq
<1>3. new \in BronzeRows /\ new.job = bronze[i].job /\ new.got = bronze[i].got
  BY <1>2 DEF BronzeRows
<1>4. bronze' = [bronze EXCEPT ![i] = new]
  <2>1. bronze' = [bronze EXCEPT ![i].top = top]
    BY DEF DeriveUpTo
  <2> QED
    BY <2>1
<1>5. /\ bronze' \in Seq(BronzeRows)
      /\ Len(bronze') = Len(bronze)
      /\ \A j \in 1..Len(bronze) : bronze'[j] = IF j = i THEN new ELSE bronze[j]
  <2> HIDE DEF i, new
  <2> QED
    BY <1>1, <1>3, <1>4, ExceptSeq
<1> QED
  BY <1>3, <1>5 DEF Rows

LEMMA SourceType ==
    ASSUME IngestTypeOK,
           \/ \E x \in Items : Grow(x)
           \/ \E x \in Items, t \in Stamps : Arrive(x, t)
           \/ Rotate
    PROVE  IngestTypeOK'
<1> USE BoundAssumption DEF IngestTypeOK, jobTables
<1>1. ASSUME NEW x \in Items, Grow(x)
      PROVE  IngestTypeOK'
  <2>1. Latest(Present, 0) \in 0..MaxStamp
    BY PresentIs, LatestIs
  <2>2. Latest(Present, 0) + 1 \in 0..MaxStamp
    BY <1>1, <2>1 DEF Grow
  <2> QED
    BY <1>1, <2>2 DEF Grow
<1>2. ASSUME NEW x \in Items, NEW t \in Stamps, Arrive(x, t)
      PROVE  IngestTypeOK'
  BY <1>2 DEF Arrive, Stamps, Versions
<1>3. CASE Rotate
  <2>1. past' \in SUBSET Items
    BY <1>3, PresentIs DEF Rotate
  <2> QED
    BY <1>3, <2>1 DEF Rotate
<1> QED
  BY <1>1, <1>2, <1>3

\* A step of goroutine r that leaves the rows alone, or adds to them.
LEMMA RunType ==
    ASSUME IngestTypeOK, NEW r \in Runners,
           run' = [run EXCEPT ![r] = run'[r]], run'[r] \in RunLocals \cup {NoRun},
           bronze' \in Seq(BronzeRows),
           Len(bronze') \in Nat, Len(bronze') >= Len(bronze),
           run'[r].pc = "stored" => run'[r].row \in 1..Len(bronze')
    PROVE  /\ run' \in [Runners -> RunLocals \cup {NoRun}]
           /\ \A q \in Runners : run'[q].pc = "stored" => run'[q].row \in 1..Len(bronze')
<1>1. \A q \in Runners : q # r => run'[q] = run[q]
  BY DEF IngestTypeOK
<1>3. Len(bronze) \in Nat
  BY LenProperties DEF IngestTypeOK
<1>4. \A q \in Runners : run[q].pc = "stored" => run[q].row \in 1..Len(bronze')
  BY <1>3 DEF IngestTypeOK
<1> QED
  BY <1>1, <1>4 DEF IngestTypeOK

LEMMA LocalsAre ==
    ASSUME NEW j \in Jobs
    PROVE  /\ NoRun.pc # "stored"
           /\ \A pc \in {"loaded", "marked", "saved"} : [pc |-> pc, job |-> j] \in RunLocals
           /\ \A ck \in Checkpoints : [pc |-> "resumed", job |-> j, from |-> ck] \in RunLocals
           /\ \A got \in SUBSET Versions, after \in CheckpointRows :
                 [pc |-> "pulled", job |-> j, got |-> got, next |-> after] \in RunLocals
           /\ \A after \in CheckpointRows, row \in Nat :
                 [pc |-> "stored", job |-> j, next |-> after, row |-> row] \in RunLocals
           /\ \A after \in CheckpointRows : [pc |-> "derived", job |-> j, next |-> after] \in RunLocals
BY DEF RunLocals, NoRun

LEMMA RunJobType ==
    ASSUME IngestTypeOK, NEW r \in Runners, RunJob(r)
    PROVE  IngestTypeOK'
<1> DEFINE j       == run[r].job
<1>0. bronze \in Seq(BronzeRows) /\ Len(bronze) \in Nat
  BY LenProperties DEF IngestTypeOK
<1>1. ASSUME NEW i \in Jobs, Load(r, i)
      PROVE  IngestTypeOK'
  <2>1. [pc |-> "loaded", job |-> i] \in RunLocals
    BY LocalsAre
  <2>2. runs' \in 0..MaxRuns
    BY <1>1, BoundAssumption DEF Load, IngestTypeOK
  <2>3. disturbed' \in BOOLEAN
    BY <1>1 DEF Load
  <2>4. /\ run' \in [Runners -> RunLocals \cup {NoRun}]
        /\ \A q \in Runners : run'[q].pc = "stored" => run'[q].row \in 1..Len(bronze')
    <3>1. run' = [run EXCEPT ![r] = run'[r]] /\ run'[r] = [pc |-> "loaded", job |-> i]
      BY <1>1 DEF Load, IngestTypeOK
    <3>2. UNCHANGED bronze
      BY <1>1 DEF Load, jobTables
    <3> QED
      BY <1>0, <2>1, <3>1, <3>2, RunType
  <2> QED
    BY <1>1, <2>2, <2>3, <2>4 DEF IngestTypeOK, Load, source, jobTables
<1>2. CASE MarkRunning(r)
  <2>1. j \in Jobs /\ run[r] = [pc |-> "loaded", job |-> j]
    BY <1>2, RunShape DEF MarkRunning, IngestTypeOK, RunLocals, NoRun
  <2>2. [pc |-> "marked", job |-> j] \in RunLocals
    BY <2>1, LocalsAre
  <2>3. /\ run' \in [Runners -> RunLocals \cup {NoRun}]
        /\ \A q \in Runners : run'[q].pc = "stored" => run'[q].row \in 1..Len(bronze')
    <3>1. run' = [run EXCEPT ![r] = run'[r]] /\ run'[r] = [pc |-> "marked", job |-> j] /\ UNCHANGED bronze
      BY <1>2, <2>1 DEF MarkRunning, IngestTypeOK
    <3> QED
      BY <1>0, <2>2, <3>1, RunType
  <2> QED
    BY <1>2, <2>3 DEF IngestTypeOK, MarkRunning, source
<1>3. CASE Resume(r)
  <2>1. PICK ck \in Newest : run' = [run EXCEPT ![r] = [pc |-> "resumed", job |-> j, from |-> ck]]
    BY <1>3 DEF Resume
  <2>2. ck \in Checkpoints
    BY DEF Newest, IngestTypeOK, Checkpoints
  <2>3. [pc |-> "resumed", job |-> j, from |-> ck] \in RunLocals
    BY <1>3, <2>2, RunShape, LocalsAre DEF Resume
  <2>4. /\ run' \in [Runners -> RunLocals \cup {NoRun}]
        /\ \A q \in Runners : run'[q].pc = "stored" => run'[q].row \in 1..Len(bronze')
    <3>1. run' = [run EXCEPT ![r] = run'[r]] /\ run'[r] = [pc |-> "resumed", job |-> j, from |-> ck] /\ UNCHANGED bronze
      BY <1>0, <1>3, <2>1, <2>3 DEF Resume, jobTables, IngestTypeOK
    <3> QED
      BY <1>0, <2>3, <3>1, RunType
  <2> QED
    BY <1>3, <2>4 DEF IngestTypeOK, Resume, source, jobTables
<1>4. CASE Pull(r)
  <2>1. run[r].from \in Checkpoints /\ j \in Jobs
    BY <1>4, RunShape DEF Pull
  <2>2. PICK p \in Pulls(run[r].from) :
           run' = [run EXCEPT ![r] = [pc |-> "pulled", job |-> j, got |-> p.got,
                                      next |-> [type |-> p.type, value |-> p.value]]]
    BY <1>4 DEF Pull
  <2>3. p.got \in SUBSET Versions /\ [type |-> p.type, value |-> p.value] \in CheckpointRows
    BY <2>1, PullIs, PresentIs
  <2>4. [pc |-> "pulled", job |-> j, got |-> p.got, next |-> [type |-> p.type, value |-> p.value]] \in RunLocals
    BY <2>1, <2>3, LocalsAre
  <2>5. /\ run' \in [Runners -> RunLocals \cup {NoRun}]
        /\ \A q \in Runners : run'[q].pc = "stored" => run'[q].row \in 1..Len(bronze')
    <3>1. run' = [run EXCEPT ![r] = run'[r]] /\ run'[r] = [pc |-> "pulled", job |-> j, got |-> p.got, next |-> [type |-> p.type, value |-> p.value]] /\ UNCHANGED bronze
      BY <1>0, <1>4, <2>2, <2>4 DEF Pull, jobTables, IngestTypeOK
    <3> QED
      BY <1>0, <2>4, <3>1, RunType
  <2>6. cutoff' \in BOOLEAN
    BY <1>4 DEF Pull, IngestTypeOK
  <2> QED
    BY <1>4, <2>5, <2>6 DEF IngestTypeOK, Pull, source, jobTables
<1>5. CASE WriteBronze(r)
  <2>1. bronze' \in Seq(BronzeRows) /\ Len(bronze') = Len(bronze) + 1
    BY <1>5, RowsAppended DEF WriteBronze
  <2>2. [pc |-> "stored", job |-> j, next |-> run[r].next, row |-> Len(bronze) + 1] \in RunLocals
    <3>1. j \in Jobs /\ run[r].next \in CheckpointRows
      BY <1>5, RunShape DEF WriteBronze
    <3>2. Len(bronze) + 1 \in Nat
      BY <1>0
    <3> QED
      BY <3>1, <3>2, LocalsAre
  <2>3. /\ run' \in [Runners -> RunLocals \cup {NoRun}]
        /\ \A q \in Runners : run'[q].pc = "stored" => run'[q].row \in 1..Len(bronze')
    <3>1. run' = [run EXCEPT ![r] = run'[r]] /\ run'[r] = [pc |-> "stored", job |-> j, next |-> run[r].next, row |-> Len(bronze) + 1]
      BY <1>0, <1>5, <2>1, <2>2 DEF WriteBronze, IngestTypeOK
    <3> QED
      BY <1>0, <2>1, <2>2, <3>1, RunType
  <2> QED
    BY <1>5, <2>1, <2>3 DEF IngestTypeOK, WriteBronze, source
<1>6. CASE Derive(r)
  <2>1. bronze' \in Seq(BronzeRows) /\ Len(bronze') = Len(bronze)
    BY <1>6, RowsDerived DEF Derive
  <2>2. [pc |-> "derived", job |-> j, next |-> run[r].next] \in RunLocals
    BY <1>6, RunShape, LocalsAre DEF Derive, DeriveUpTo
  <2>3. /\ run' \in [Runners -> RunLocals \cup {NoRun}]
        /\ \A q \in Runners : run'[q].pc = "stored" => run'[q].row \in 1..Len(bronze')
    <3>1. run' = [run EXCEPT ![r] = run'[r]] /\ run'[r] = [pc |-> "derived", job |-> j, next |-> run[r].next]
      BY <1>0, <1>6, <2>1, <2>2 DEF Derive, DeriveUpTo, IngestTypeOK
    <3> QED
      BY <1>0, <2>1, <2>2, <3>1, RunType
  <2> QED
    BY <1>6, <2>1, <2>3 DEF IngestTypeOK, Derive, DeriveUpTo, source
<1>7. CASE SaveCheckpoint(r)
  <2>1. j \in Jobs /\ run[r].next \in CheckpointRows
    BY <1>7, RunShape DEF SaveCheckpoint
  <2>2. /\ checkpoint' = [checkpoint EXCEPT ![j] = run[r].next]
        /\ newest' \in {newest, {j}, newest \cup {j}}
        /\ disturbed' \in BOOLEAN
        /\ run' = [run EXCEPT ![r] = [pc |-> "saved", job |-> j]]
    BY <1>7 DEF SaveCheckpoint, IngestTypeOK
  <2>3. checkpoint' \in [Jobs -> Checkpoints] /\ newest' \in SUBSET Jobs
    BY <2>1, <2>2 DEF IngestTypeOK, Checkpoints
  <2>4. /\ run' \in [Runners -> RunLocals \cup {NoRun}]
        /\ \A q \in Runners : run'[q].pc = "stored" => run'[q].row \in 1..Len(bronze')
    <3>1. [pc |-> "saved", job |-> j] \in RunLocals
      BY <2>1, LocalsAre
    <3>2. run' = [run EXCEPT ![r] = run'[r]] /\ run'[r] = [pc |-> "saved", job |-> j] /\ UNCHANGED bronze
      BY <1>7, <2>2 DEF SaveCheckpoint, IngestTypeOK
    <3> QED
      BY <1>0, <3>1, <3>2, RunType
  <2> QED
    BY <1>7, <2>2, <2>3, <2>4 DEF IngestTypeOK, SaveCheckpoint, source
<1>8. CASE CompleteJob(r)
  <2>1. /\ run' \in [Runners -> RunLocals \cup {NoRun}]
        /\ \A q \in Runners : run'[q].pc = "stored" => run'[q].row \in 1..Len(bronze')
    <3>1. run' = [run EXCEPT ![r] = run'[r]] /\ run'[r] = NoRun /\ UNCHANGED bronze
      BY <1>0, <1>8 DEF CompleteJob, Stop, NoRun, IngestTypeOK
    <3> QED
      BY <1>0, <3>1, RunType DEF NoRun
  <2> QED
    BY <1>8, <2>1 DEF IngestTypeOK, CompleteJob, source
<1> QED
  BY <1>1, <1>2, <1>3, <1>4, <1>5, <1>6, <1>7, <1>8 DEF RunJob

LEMMA RunFailsType ==
    ASSUME IngestTypeOK, NEW r \in Runners, RunFails(r)
    PROVE  IngestTypeOK'
<1> DEFINE j       == run[r].job
<1>0. bronze \in Seq(BronzeRows) /\ Len(bronze) \in Nat
  BY LenProperties DEF IngestTypeOK
<1>1. ASSUME Fault
      PROVE  faults' \in 0..MaxFaults
  BY <1>1, BoundAssumption DEF Fault, IngestTypeOK
<1>2. ASSUME Stop(r), bronze' \in Seq(BronzeRows), Len(bronze') \in {Len(bronze), Len(bronze) + 1}
      PROVE  /\ run' \in [Runners -> RunLocals \cup {NoRun}]
             /\ \A q \in Runners : run'[q].pc = "stored" => run'[q].row \in 1..Len(bronze')
  <2>1. run' = [run EXCEPT ![r] = run'[r]] /\ run'[r] = NoRun
    BY <1>0, <1>2 DEF Stop, NoRun, IngestTypeOK
  <2> QED
    BY <1>0, <1>2, <2>1, RunType DEF NoRun
<1>3. CASE PullFails(r)
  <2>1. /\ run' \in [Runners -> RunLocals \cup {NoRun}]
        /\ \A q \in Runners : run'[q].pc = "stored" => run'[q].row \in 1..Len(bronze')
    BY <1>0, <1>2, <1>3 DEF PullFails
  <2> QED
    BY <1>3, <2>1 DEF PullFails, IngestTypeOK, source
<1>4. CASE ResumeFails(r)
  <2>1. [pc |-> "resumed", job |-> j, from |-> NoCheckpoint] \in RunLocals
    BY <1>4, RunShape, LocalsAre DEF ResumeFails, Checkpoints
  <2>2. /\ run' \in [Runners -> RunLocals \cup {NoRun}]
        /\ \A q \in Runners : run'[q].pc = "stored" => run'[q].row \in 1..Len(bronze')
    <3>1. run' = [run EXCEPT ![r] = run'[r]] /\ run'[r] = [pc |-> "resumed", job |-> j, from |-> NoCheckpoint] /\ UNCHANGED bronze
      BY <1>0, <1>4, <2>1 DEF ResumeFails, jobTables, IngestTypeOK
    <3> QED
      BY <1>0, <2>1, <3>1, RunType
  <2> QED
    BY <1>1, <1>4, <2>2 DEF ResumeFails, IngestTypeOK, source, jobTables
<1>5. CASE BronzeFails(r)
  <2>1. bronze' \in Seq(BronzeRows) /\ Len(bronze') \in {Len(bronze), Len(bronze) + 1}
    BY <1>0, <1>5, RowsAppended DEF BronzeFails
  <2>2. /\ run' \in [Runners -> RunLocals \cup {NoRun}]
        /\ \A q \in Runners : run'[q].pc = "stored" => run'[q].row \in 1..Len(bronze')
    BY <1>2, <1>5, <2>1 DEF BronzeFails
  <2> QED
    BY <1>1, <1>5, <2>1, <2>2 DEF BronzeFails, IngestTypeOK, source
<1>6. CASE DeriveFails(r)
  <2>1. PICK top \in {"bronze", "silver"} : DeriveUpTo(r, top)
    BY <1>6 DEF DeriveFails
  <2>2. bronze' \in Seq(BronzeRows) /\ Len(bronze') = Len(bronze)
    BY <2>1, RowsDerived
  <2>3. [pc |-> "derived", job |-> j, next |-> run[r].next] \in RunLocals
    BY <2>1, RunShape, LocalsAre DEF DeriveUpTo
  <2>4. /\ run' \in [Runners -> RunLocals \cup {NoRun}]
        /\ \A q \in Runners : run'[q].pc = "stored" => run'[q].row \in 1..Len(bronze')
    <3>1. run' = [run EXCEPT ![r] = run'[r]] /\ run'[r] = [pc |-> "derived", job |-> j, next |-> run[r].next]
      BY <1>0, <2>1, <2>2, <2>3 DEF DeriveUpTo, IngestTypeOK
    <3> QED
      BY <1>0, <2>2, <2>3, <3>1, RunType
  <2> QED
    BY <1>1, <1>6, <2>1, <2>2, <2>4 DEF DeriveFails, DeriveUpTo, IngestTypeOK, source
<1>7. CASE SaveFails(r)
  <2>1. [pc |-> "saved", job |-> j] \in RunLocals
    BY <1>7, RunShape, LocalsAre DEF SaveFails
  <2>2. /\ run' \in [Runners -> RunLocals \cup {NoRun}]
        /\ \A q \in Runners : run'[q].pc = "stored" => run'[q].row \in 1..Len(bronze')
    <3>1. run' = [run EXCEPT ![r] = run'[r]] /\ run'[r] = [pc |-> "saved", job |-> j] /\ UNCHANGED bronze
      BY <1>0, <1>7, <2>1 DEF SaveFails, jobTables, IngestTypeOK
    <3> QED
      BY <1>0, <2>1, <3>1, RunType
  <2> QED
    BY <1>1, <1>7, <2>2 DEF SaveFails, IngestTypeOK, source, jobTables
<1>8. CASE RunCut(r)
  <2>1. /\ run' \in [Runners -> RunLocals \cup {NoRun}]
        /\ \A q \in Runners : run'[q].pc = "stored" => run'[q].row \in 1..Len(bronze')
    BY <1>0, <1>2, <1>8 DEF RunCut, jobTables
  <2> QED
    BY <1>1, <1>8, <2>1 DEF RunCut, IngestTypeOK, source, jobTables
<1> QED
  BY <1>3, <1>4, <1>5, <1>6, <1>7, <1>8 DEF RunFails

LEMMA IngestNextType == IngestTypeOK /\ [IngestNext]_ingestVars => IngestTypeOK'
<1> SUFFICES ASSUME IngestTypeOK, [IngestNext]_ingestVars
             PROVE  IngestTypeOK'
  OBVIOUS
<1>1. ASSUME NEW j \in Jobs, CreateJob(j)
      PROVE  IngestTypeOK'
  BY <1>1 DEF CreateJob, IngestTypeOK, source
<1>2. CASE Crash
  <2>1. faults' \in 0..MaxFaults
    BY <1>2, BoundAssumption DEF Crash, Fault, IngestTypeOK
  <2>2. run' \in [Runners -> RunLocals \cup {NoRun}] /\ \A r \in Runners : run'[r].pc = "idle"
    BY <1>2 DEF Crash, NoRun
  <2> QED
    BY <1>2, <2>1, <2>2 DEF Crash, IngestTypeOK, source, jobTables
<1>3. CASE UNCHANGED ingestVars
  BY <1>3 DEF ingestVars, source, jobTables, IngestTypeOK
<1> QED
  BY <1>1, <1>2, <1>3, SourceType, RunJobType, RunFailsType DEF IngestNext

\* The types of the tables of jobs, checkpoints and rows, and of the runs.
THEOREM IngestTypeCorrect == IngestSpec => []IngestTypeOK
BY IngestInitType, IngestNextType, PTL DEF IngestSpec

-----------------------------------------------------------------------------
(* Ingest: the tables agree.                                               *)

\* Rows are only added, by a run that has pulled.
RowsStay == Rows \subseteq Rows' /\ \A i \in Rows : bronze'[i].job = bronze[i].job /\ bronze'[i].got = bronze[i].got

RowAdded(r) ==
    /\ run[r].pc = "pulled"
    /\ Rows' = Rows \cup {Len(bronze) + 1}
    /\ Len(bronze) + 1 \notin Rows
    /\ bronze'[Len(bronze) + 1].job = run[r].job
    /\ bronze'[Len(bronze) + 1].got = run[r].got

LEMMA RowsStep ==
    ASSUME IngestTypeOK, [IngestNext]_ingestVars
    PROVE  /\ RowsStay
           /\ \/ Rows' = Rows
              \/ \E r \in Runners : RowAdded(r) /\ (WriteBronze(r) \/ BronzeFails(r))
<1>1. ASSUME UNCHANGED bronze
      PROVE  RowsStay /\ Rows' = Rows
  BY <1>1 DEF RowsStay, Rows
<1>2. ASSUME NEW r \in Runners, RunJob(r)
      PROVE  RowsStay /\ (Rows' = Rows \/ (RowAdded(r) /\ WriteBronze(r)))
  <2>1. CASE WriteBronze(r)
    BY <2>1, RowsAppended DEF WriteBronze, RowsStay, RowAdded
  <2>2. CASE Derive(r)
    BY <2>2, RowsDerived DEF Derive, RowsStay
  <2>3. CASE ~WriteBronze(r) /\ ~Derive(r)
    <3>1. UNCHANGED bronze
      BY <1>2, <2>3 DEF RunJob, Load, MarkRunning, Resume, Pull, SaveCheckpoint, CompleteJob, jobTables
    <3> QED
      BY <1>1, <3>1
  <2> QED
    BY <2>1, <2>2, <2>3
<1>3. ASSUME NEW r \in Runners, RunFails(r)
      PROVE  RowsStay /\ (Rows' = Rows \/ (RowAdded(r) /\ BronzeFails(r)))
  <2>1. CASE BronzeFails(r)
    <3>1. CASE bronze' = bronze
      BY <1>1, <3>1
    <3>2. CASE bronze' # bronze
      <4>1. bronze' = Append(bronze, [job |-> run[r].job, got |-> run[r].got, top |-> "bronze"])
            /\ run[r].pc = "pulled"
        BY <2>1, <3>2 DEF BronzeFails
      <4> QED
        BY <2>1, <4>1, RowsAppended DEF RowsStay, RowAdded
    <3> QED
      BY <3>1, <3>2
  <2>2. CASE DeriveFails(r)
    <3>1. PICK top \in {"bronze", "silver"} : DeriveUpTo(r, top)
      BY <2>2 DEF DeriveFails
    <3> QED
      BY <3>1, RowsDerived DEF RowsStay
  <2>3. CASE ~BronzeFails(r) /\ ~DeriveFails(r)
    <3>1. UNCHANGED bronze
      BY <1>3, <2>3 DEF RunFails, PullFails, ResumeFails, SaveFails, RunCut, jobTables
    <3> QED
      BY <1>1, <3>1
  <2> QED
    BY <2>1, <2>2, <2>3
<1>4. CASE ~ \E r \in Runners : RunJob(r) \/ RunFails(r)
  <2>1. UNCHANGED bronze
    BY <1>4 DEF IngestNext, Grow, Arrive, Rotate, CreateJob, Crash, ingestVars, jobTables
  <2> QED
    BY <1>1, <2>1
<1> QED
  BY <1>2, <1>3, <1>4

\* A step of goroutine r is none of the others'.
LEMMA OthersStay ==
    ASSUME IngestTypeOK, NEW r \in Runners, RunJob(r) \/ RunFails(r)
    PROVE  \A q \in Runners : q # r => run'[q] = run[q]
<1>1. CASE RunJob(r)
  BY <1>1 DEF RunJob, Load, MarkRunning, Resume, Pull, WriteBronze, Derive, DeriveUpTo, SaveCheckpoint,
              CompleteJob, Stop, IngestTypeOK
<1>2. CASE RunFails(r)
  BY <1>2 DEF RunFails, PullFails, ResumeFails, BronzeFails, DeriveFails, DeriveUpTo, SaveFails, RunCut,
              Stop, IngestTypeOK
<1> QED
  BY <1>1, <1>2

\* What a step of r does to r itself.
LEMMA StepOf ==
    ASSUME IngestTypeOK, NEW r \in Runners, RunJob(r) \/ RunFails(r)
    PROVE  \/ run'[r] = NoRun /\ run[r] # NoRun
           \/ run[r] = NoRun /\ run'[r].pc = "loaded"
           \/ /\ run[r] # NoRun
              /\ run'[r].job = run[r].job
              /\ <<run[r].pc, run'[r].pc>> \in
                     {<<"loaded", "marked">>, <<"marked", "resumed">>, <<"resumed", "pulled">>,
                      <<"pulled", "stored">>, <<"stored", "derived">>, <<"derived", "saved">>}
<1> USE DEF IngestTypeOK
<1>1. run[r].pc \in {"loaded", "marked", "resumed", "pulled", "stored", "derived", "saved"} => run[r] # NoRun
  BY RunShape
<1>2. CASE \E j \in Jobs : Load(r, j)
  BY <1>2 DEF Load
<1>3. CASE MarkRunning(r)
  BY <1>1, <1>3 DEF MarkRunning, RunLocals, NoRun
<1>4. CASE Resume(r) \/ Pull(r) \/ ResumeFails(r)
  BY <1>1, <1>4 DEF Resume, Pull, ResumeFails
<1>5. CASE WriteBronze(r) \/ Derive(r) \/ DeriveFails(r)
  BY <1>1, <1>5 DEF WriteBronze, Derive, DeriveFails, DeriveUpTo
<1>6. CASE SaveCheckpoint(r) \/ SaveFails(r)
  BY <1>1, <1>6 DEF SaveCheckpoint, SaveFails
<1>7. CASE CompleteJob(r) \/ PullFails(r) \/ BronzeFails(r) \/ RunCut(r)
  BY <1>1, <1>7 DEF CompleteJob, PullFails, BronzeFails, RunCut, Stop
<1> QED
  BY <1>2, <1>3, <1>4, <1>5, <1>6, <1>7 DEF RunJob, RunFails

LEMMA IngestInitAgree == IngestInit => AgreeInv
<1> SUFFICES ASSUME IngestInit
             PROVE  AgreeInv
  OBVIOUS
<1>1. IngestTypeOK
  BY IngestInitType
<1>2. RowsAgree
  BY DEF IngestInit, RowsAgree, Rows
<1>3. RunsAgree
  BY DEF IngestInit, RunsAgree, Marked, Stored, NoRun
<1> QED
  BY <1>1, <1>2, <1>3 DEF AgreeInv

LEMMA RowsHad ==
    ASSUME RowsStay, NEW j \in Jobs, HasRows(j)
    PROVE  HasRows(j)'
BY DEF RowsStay, HasRows

\* The status of a job that was filed is never again what it was before a run.
LEMMA RunsAgreeNext ==
    ASSUME AgreeInv, NEW r \in Runners, RunJob(r) \/ RunFails(r)
    PROVE  RunsAgree'
<1> USE DEF AgreeInv
<1>1. RowsStay
  BY RowsStep DEF IngestNext
<1>2. \A j \in Jobs : status[j] \notin {"absent", "pending"} => status'[j] \notin {"absent", "pending"}
  <2>1. \A q \in Runners : run[q].pc \in {"loaded", "resumed", "pulled", "saved"} => run[q].job \in Jobs
    BY RunShape
  <2>2. \/ UNCHANGED status
        \/ /\ run[r].pc \in {"loaded", "resumed", "pulled", "saved"}
           /\ \E s \in {"running", "failed", "completed"} : status' = [status EXCEPT ![run[r].job] = s]
    <3>1. CASE MarkRunning(r) \/ CompleteJob(r)
      BY <3>1 DEF MarkRunning, CompleteJob
    <3>2. CASE PullFails(r) \/ BronzeFails(r)
      BY <3>2 DEF PullFails, BronzeFails
    <3>3. CASE ~MarkRunning(r) /\ ~CompleteJob(r) /\ ~PullFails(r) /\ ~BronzeFails(r)
      BY <3>3 DEF RunJob, RunFails, Load, Resume, Pull, WriteBronze, Derive, DeriveUpTo, SaveCheckpoint,
                  ResumeFails, DeriveFails, SaveFails, RunCut, jobTables
    <3> QED
      BY <3>1, <3>2, <3>3
  <2> QED
    BY <2>1, <2>2 DEF IngestTypeOK
<1>3. ASSUME NEW q \in Runners, q # r
      PROVE  /\ Marked(q)' => status'[run'[q].job] \notin {"absent", "pending"}
             /\ Stored(q)' => HasRows(run[q].job)'
  <2>1. run'[q] = run[q]
    BY <1>3, OthersStay
  <2>2. Marked(q) \/ Stored(q) => run[q].job \in Jobs
    BY RunShape DEF Marked, Stored
  <2> QED
    BY <1>1, <1>2, <2>1, <2>2, RowsHad DEF RunsAgree, Marked, Stored
<1>4. Marked(r)' => status'[run'[r].job] \notin {"absent", "pending"}
  <2>1. CASE run[r].pc = "loaded"
    <3>1. run[r].job \in Jobs
      BY <2>1, RunShape
    <3>2. MarkRunning(r) \/ RunCut(r)
      BY <2>1 DEF RunJob, RunFails, Load, MarkRunning, Resume, Pull, WriteBronze, Derive, DeriveUpTo, SaveCheckpoint,
           CompleteJob, PullFails, ResumeFails, BronzeFails, DeriveFails, SaveFails, RunCut, NoRun
    <3>3. CASE MarkRunning(r)
      <4>1. status'[run[r].job] = "running"
        BY <3>1, <3>3 DEF MarkRunning, IngestTypeOK
      <4>2. Marked(r)' => run'[r].job = run[r].job
        BY <2>1, StepOf DEF Marked, NoRun
      <4> QED
        BY <4>1, <4>2
    <3>4. CASE RunCut(r)
      BY <3>4 DEF RunCut, Stop, Marked, NoRun, IngestTypeOK
    <3> QED
      BY <3>2, <3>3, <3>4
  <2>2. CASE run[r].pc # "loaded"
    <3>1. Marked(r)' => Marked(r) /\ run'[r].job = run[r].job
      BY <2>2, StepOf, RunShape DEF Marked, NoRun
    <3>2. Marked(r) => run[r].job \in Jobs
      BY RunShape DEF Marked
    <3> QED
      BY <1>2, <3>1, <3>2 DEF RunsAgree
  <2> QED
    BY <2>1, <2>2
<1>5. Stored(r)' => HasRows(run[r].job)'
  <2>1. CASE run[r].pc = "pulled"
    <3>1. CASE WriteBronze(r)
      <4>1. RowAdded(r)
        BY <3>1, RowsAppended DEF WriteBronze, RowAdded
      <4>2. run'[r].job = run[r].job
        BY <2>1, <3>1 DEF WriteBronze, IngestTypeOK
      <4> QED
        BY <4>1, <4>2 DEF RowAdded, HasRows
    <3>2. CASE ~WriteBronze(r)
      <4>1. run'[r] = NoRun
        <5>1. BronzeFails(r) \/ RunCut(r)
          BY <2>1, <3>2 DEF RunJob, RunFails, Load, MarkRunning, Resume, Pull, Derive, DeriveUpTo,
             SaveCheckpoint, CompleteJob, PullFails, ResumeFails, DeriveFails, SaveFails, NoRun
        <5> QED
          BY <5>1 DEF BronzeFails, RunCut, Stop, IngestTypeOK
      <4> QED
        BY <4>1 DEF Stored, NoRun
    <3> QED
      BY <3>1, <3>2
  <2>2. CASE run[r].pc # "pulled"
    <3>1. Stored(r)' => Stored(r) /\ run'[r].job = run[r].job
      BY <2>2, StepOf, RunShape DEF Stored, NoRun
    <3>2. Stored(r) => run[r].job \in Jobs
      BY RunShape DEF Stored
    <3> QED
      BY <1>1, <3>1, <3>2, RowsHad DEF RunsAgree
  <2> QED
    BY <2>1, <2>2
<1> QED
  BY <1>3, <1>4, <1>5 DEF RunsAgree

\* A job gets a row, or a new status that is not that of a job that waits.
LEMMA AgreeStep ==
    ASSUME IngestTypeOK, RowsAgree, RowsStay, UNCHANGED <<checkpoint, newest>>,
           NEW k \in Jobs,
           \A j \in Jobs \ {k} : status'[j] = status[j],
           status'[k] # status[k] \/ Rows' # Rows => status'[k] \notin {"absent", "pending"},
           status'[k] = "completed" => status[k] = "completed" \/ HasRows(k)',
           \A i \in Rows' \ Rows : bronze'[i].job = k
    PROVE  RowsAgree'
<1>1. ASSUME NEW j \in Jobs, j # k
      PROVE  /\ HasRows(j)' <=> HasRows(j)
             /\ (\E i \in Rows' : bronze'[i].job = j) <=> (\E i \in Rows : bronze[i].job = j)
  BY <1>1 DEF RowsStay, HasRows
<1>2. ASSUME NEW j \in Jobs
      PROVE  /\ status'[j] = "completed" \/ checkpoint'[j] # NoCheckpoint => \E i \in Rows' : bronze'[i].job = j
             /\ status'[j] \in {"absent", "pending"} =>
                    checkpoint'[j] = NoCheckpoint /\ \A i \in Rows' : bronze'[i].job # j
             /\ j \in newest' => checkpoint'[j] # NoCheckpoint
  <2>1. CASE j # k
    BY <1>1, <2>1 DEF RowsAgree
  <2>2. CASE j = k
    <3>1. HasRows(k) => HasRows(k)'
      BY RowsHad
    <3>2. status'[k] \in {"absent", "pending"} => Rows' = Rows /\ status'[k] = status[k]
      OBVIOUS
    <3> QED
      BY <2>2, <3>1, <3>2 DEF RowsAgree, HasRows, RowsStay
  <2> QED
    BY <2>1, <2>2
<1> QED
  BY <1>2 DEF RowsAgree

LEMMA SaveAgrees ==
    ASSUME AgreeInv, NEW r \in Runners, SaveCheckpoint(r)
    PROVE  RowsAgree'
<1> DEFINE k == run[r].job
<1> USE DEF AgreeInv
<1>1. k \in Jobs /\ run[r].next \in CheckpointRows /\ HasRows(k) /\ status[k] \notin {"absent", "pending"}
  BY RunShape DEF SaveCheckpoint, RunsAgree, Stored, Marked
<1>2. run[r].next # NoCheckpoint
  BY <1>1 DEF CheckpointRows, NoCheckpoint
<1>3. /\ checkpoint'[k] = run[r].next
      /\ \A j \in Jobs \ {k} : checkpoint'[j] = checkpoint[j]
      /\ newest' \in {newest, {k}, newest \cup {k}}
      /\ checkpoint[k] # run[r].next => newest' # newest \/ k \in newest
      /\ UNCHANGED <<status, bronze>>
  BY <1>1 DEF SaveCheckpoint, IngestTypeOK
<1>4. newest' # {}
  <2>1. CASE newest # {}
    BY <1>3, <2>1
  <2>2. CASE newest = {}
    BY <1>1, <1>2, <1>3, <2>2 DEF RowsAgree
  <2> QED
    BY <2>1, <2>2
<1> QED
  BY <1>1, <1>2, <1>3, <1>4 DEF RowsAgree, Rows, HasRows

LEMMA IngestNextAgree == AgreeInv /\ [IngestNext]_ingestVars => AgreeInv'
<1> SUFFICES ASSUME AgreeInv, [IngestNext]_ingestVars
             PROVE  AgreeInv'
  OBVIOUS
<1> USE DEF AgreeInv
<1>1. IngestTypeOK'
  BY IngestNextType
<1>2. RowsStay
  BY RowsStep
<1>3. ASSUME UNCHANGED <<status, checkpoint, newest>>, Rows' = Rows
      PROVE  RowsAgree'
  BY <1>2, <1>3 DEF RowsAgree, RowsStay
<1>4. ASSUME NEW r \in Runners, RunJob(r) \/ RunFails(r)
      PROVE  RunsAgree' /\ RowsAgree'
  <2> DEFINE k == run[r].job
  <2>1. RunsAgree'
    BY <1>4, RunsAgreeNext
  <2>2. CASE MarkRunning(r)
    <3>1. k \in Jobs
      BY <2>2, RunShape DEF MarkRunning
    <3>2. Rows' = Rows /\ status'[k] = "running" /\ \A j \in Jobs \ {k} : status'[j] = status[j]
      BY <2>2, <3>1 DEF MarkRunning, Rows, IngestTypeOK
    <3> QED
      BY <1>2, <2>1, <2>2, <3>1, <3>2, AgreeStep DEF MarkRunning
  <2>3. CASE CompleteJob(r)
    <3>1. k \in Jobs /\ HasRows(k)
      BY <2>3, RunShape DEF CompleteJob, RunsAgree, Stored
    <3>2. Rows' = Rows /\ status'[k] = "completed" /\ \A j \in Jobs \ {k} : status'[j] = status[j]
      BY <2>3, <3>1 DEF CompleteJob, Rows, IngestTypeOK
    <3> QED
      BY <1>2, <2>1, <2>3, <3>1, <3>2, AgreeStep, RowsHad DEF CompleteJob
  <2>4. CASE PullFails(r)
    <3>1. k \in Jobs
      BY <2>4, RunShape DEF PullFails
    <3>2. Rows' = Rows /\ status'[k] = "failed" /\ \A j \in Jobs \ {k} : status'[j] = status[j]
      BY <2>4, <3>1 DEF PullFails, Rows, IngestTypeOK
    <3> QED
      BY <1>2, <2>1, <2>4, <3>1, <3>2, AgreeStep DEF PullFails
  <2>5. CASE WriteBronze(r)
    <3>1. k \in Jobs /\ status[k] \notin {"absent", "pending"}
      BY <2>5, RunShape DEF WriteBronze, RunsAgree, Marked
    <3>2. RowAdded(r)
      BY <2>5, RowsAppended DEF WriteBronze, RowAdded
    <3>3. \A i \in Rows' \ Rows : bronze'[i].job = k
      BY <3>2 DEF RowAdded
    <3>4. status' = status /\ UNCHANGED <<checkpoint, newest>>
      BY <2>5 DEF WriteBronze
    <3> QED
      BY <1>2, <2>1, <3>1, <3>3, <3>4, AgreeStep
  <2>6. CASE BronzeFails(r)
    <3>1. k \in Jobs
      BY <2>6, RunShape DEF BronzeFails
    <3>2. \A i \in Rows' \ Rows : bronze'[i].job = k
      <4>1. CASE bronze' = bronze
        BY <4>1 DEF Rows
      <4>2. CASE bronze' # bronze
        BY <2>6, <4>2, RowsAppended DEF BronzeFails
      <4> QED
        BY <4>1, <4>2
    <3>3. status'[k] = "failed" /\ (\A j \in Jobs \ {k} : status'[j] = status[j]) /\ UNCHANGED <<checkpoint, newest>>
      BY <2>6, <3>1 DEF BronzeFails, IngestTypeOK
    <3> QED
      BY <1>2, <2>1, <3>1, <3>2, <3>3, AgreeStep
  <2>7. CASE SaveCheckpoint(r)
    BY <2>1, <2>7, SaveAgrees
  <2>8. CASE /\ ~MarkRunning(r) /\ ~CompleteJob(r) /\ ~PullFails(r)
             /\ ~WriteBronze(r) /\ ~BronzeFails(r) /\ ~SaveCheckpoint(r)
    <3>1. UNCHANGED <<status, checkpoint, newest>>
      BY <1>4, <2>8 DEF RunJob, RunFails, Load, Resume, Pull, Derive, DeriveUpTo, ResumeFails, DeriveFails,
                        SaveFails, RunCut, jobTables
    <3>2. Rows' = Rows
      <4>1. CASE Derive(r) \/ DeriveFails(r)
        BY <4>1, RowsDerived DEF Derive, DeriveFails
      <4>2. CASE ~Derive(r) /\ ~DeriveFails(r)
        BY <1>4, <2>8, <4>2 DEF RunJob, RunFails, Load, Resume, Pull, ResumeFails, SaveFails, RunCut, jobTables, Rows
      <4> QED
        BY <4>1, <4>2
    <3> QED
      BY <1>3, <2>1, <3>1, <3>2
  <2> QED
    BY <2>2, <2>3, <2>4, <2>5, <2>6, <2>7, <2>8
<1>5. ASSUME NEW j \in Jobs, CreateJob(j)
      PROVE  RunsAgree' /\ RowsAgree'
  <2>1. /\ status[j] = "absent" /\ status'[j] = "pending"
        /\ \A i \in Jobs \ {j} : status'[i] = status[i]
        /\ UNCHANGED <<checkpoint, newest, bronze, run>>
    BY <1>5 DEF CreateJob, IngestTypeOK
  <2>2. RowsAgree'
    BY <2>1 DEF RowsAgree, Rows
  <2>3. \A r \in Runners : Marked(r) => run[r].job \in Jobs
    BY RunShape DEF Marked
  <2>4. RunsAgree'
    BY <2>1, <2>3 DEF RunsAgree, Marked, Stored, HasRows, Rows
  <2> QED
    BY <2>2, <2>4
<1>6. CASE ~ \E r \in Runners : RunJob(r) \/ RunFails(r)
  <2>1. CASE \E j \in Jobs : CreateJob(j)
    BY <1>1, <1>5, <2>1
  <2>2. CASE ~ \E j \in Jobs : CreateJob(j)
    <3>1. UNCHANGED <<status, checkpoint, newest, bronze>>
      BY <1>6, <2>2 DEF IngestNext, Grow, Arrive, Rotate, Crash, ingestVars, jobTables
    <3>2. UNCHANGED run \/ \A r \in Runners : run'[r].pc = "idle"
      BY <1>6, <2>2 DEF IngestNext, Grow, Arrive, Rotate, Crash, ingestVars, NoRun
    <3>3. RowsAgree'
      BY <1>3, <3>1 DEF Rows
    <3>4. RunsAgree'
      BY <3>1, <3>2 DEF RunsAgree, Marked, Stored, HasRows, Rows
    <3> QED
      BY <1>1, <3>3, <3>4
  <2> QED
    BY <2>1, <2>2
<1> QED
  BY <1>1, <1>4, <1>6

\* The jobs of the runs that are in hand.
Held == { j \in Jobs : \E r \in Runners : InHand(r, j) }

LEMMA SetsOfJobs ==
    ASSUME NEW S \in SUBSET Jobs
    PROVE  IsFiniteSet(S) /\ Cardinality(S) \in Nat
<1>1. IsFiniteSet(Jobs)
  BY FS_Interval, BoundAssumption DEF Jobs
<1> QED
  BY <1>1, FS_Subset, FS_CardinalityType

\* Each runner has one job in hand.
LEMMA HeldBound ==
    ASSUME IngestTypeOK
    PROVE  /\ IsFiniteSet(Held) /\ Cardinality(Held) \in Nat
           /\ Cardinality(Runners) \in Nat
           /\ Cardinality(Held) <= Cardinality(Runners)
<1> DEFINE Busy == { r \in Runners : run[r].pc \notin {"idle", "loaded"} }
           f    == [r \in Busy |-> run[r].job]
<1>1. IsFiniteSet(Busy) /\ Cardinality(Busy) <= Cardinality(Runners) /\ Cardinality(Runners) \in Nat
  <2>1. Busy \subseteq Runners
    OBVIOUS
  <2> QED
    BY <2>1, RunnersAssumption, FS_Subset, FS_CardinalityType
<1>2. f \in Surjection(Busy, Held)
  <2>1. \A r \in Busy : f[r] \in Held
    <3>1. \A r \in Runners : run[r] # NoRun => run[r].job \in Jobs
      BY RunShape
    <3>2. \A r \in Busy : run[r].job \in Jobs
      BY <3>1 DEF NoRun
    <3> QED
      BY <3>2 DEF Held, InHand
  <2>2. \A j \in Held : \E r \in Busy : f[r] = j
    BY DEF Held, InHand
  <2> QED
    BY <2>1, <2>2 DEF Surjection
<1> HIDE DEF f, Busy
<1>3. IsFiniteSet(Held) /\ Cardinality(Held) <= Cardinality(Busy)
  BY <1>1, <1>2, FS_Surjection
<1>4. Cardinality(Held) \in Nat /\ Cardinality(Busy) \in Nat
  BY <1>1, <1>3, FS_CardinalityType
<1> QED
  BY <1>1, <1>3, <1>4

LEMMA StrandedIs ==
    /\ Stranded \in SUBSET Jobs
    /\ \A j \in Jobs : j \in Stranded <=> status[j] = "running" /\ j \notin Held
BY DEF Stranded, Held

\* A step of a run strands its own job at most, and that by a fault.
LEMMA StrandedByRun ==
    ASSUME IngestTypeOK, NEW r \in Runners, RunJob(r) \/ RunFails(r)
    PROVE  \/ Stranded' \subseteq Stranded
           \/ /\ Stranded' \subseteq Stranded \cup Held
              /\ RunCut(r)
<1>1. \A q \in Runners : q # r => run'[q] = run[q]
  BY OthersStay
<1>2. \A q \in Runners, j \in Jobs : q # r => (InHand(q, j)' <=> InHand(q, j))
  BY <1>1 DEF InHand
<1>3. CASE RunCut(r)
  <2>1. \A j \in Jobs : j \in Stranded' => j \in Stranded \/ InHand(r, j)
    BY <1>2, <1>3 DEF RunCut, jobTables, Stranded
  <2>2. Stranded' \subseteq Jobs
    BY DEF Stranded
  <2> QED
    BY <1>3, <2>1, <2>2 DEF Held
<1>4. CASE ~ RunCut(r)
  <2>1. ASSUME NEW j \in Jobs, j \in Stranded'
        PROVE  j \in Stranded
    <3>1. status'[j] = "running" /\ ~ InHand(r, j)'
      BY <2>1 DEF Stranded
    <3>2. CASE MarkRunning(r)
      <4>1. run[r].job \in Jobs /\ run'[r].job = run[r].job /\ run'[r].pc = "marked"
        BY <3>2, StepOf, RunShape DEF MarkRunning, NoRun
      <4>2. j # run[r].job
        BY <3>1, <4>1 DEF InHand
      <4>3. status'[j] = status[j] /\ ~ InHand(r, j)
        BY <3>2, <4>1, <4>2 DEF MarkRunning, InHand, IngestTypeOK
      <4> QED
        BY <1>2, <2>1, <3>1, <4>3 DEF Stranded
    <3>3. CASE CompleteJob(r) \/ PullFails(r) \/ BronzeFails(r)
      <4>1. run[r].job \in Jobs
        BY <3>3, RunShape DEF CompleteJob, PullFails, BronzeFails
      <4>2. /\ status'[run[r].job] \in {"completed", "failed"}
            /\ \A i \in Jobs \ {run[r].job} : status'[i] = status[i]
        BY <3>3, <4>1 DEF CompleteJob, PullFails, BronzeFails, IngestTypeOK
      <4>3. j # run[r].job
        BY <3>1, <4>2
      <4>4. status'[j] = status[j] /\ ~ InHand(r, j)
        BY <4>2, <4>3 DEF InHand
      <4> QED
        BY <1>2, <2>1, <3>1, <4>4 DEF Stranded
    <3>4. CASE ~MarkRunning(r) /\ ~CompleteJob(r) /\ ~PullFails(r) /\ ~BronzeFails(r)
      <4>1. status' = status
        BY <1>4, <3>4 DEF RunJob, RunFails, Load, Resume, Pull, WriteBronze, Derive, DeriveUpTo,
              SaveCheckpoint, ResumeFails, DeriveFails, SaveFails, jobTables
      <4>2. run[r].pc \notin {"idle", "loaded"} => run'[r] # NoRun
        BY <1>4, <3>4 DEF RunJob, RunFails, Load, Resume, Pull, WriteBronze, Derive, DeriveUpTo,
              SaveCheckpoint, ResumeFails, DeriveFails, SaveFails, NoRun, IngestTypeOK
      <4>3. InHand(r, j) => InHand(r, j)'
        <5>1. ASSUME InHand(r, j)
              PROVE  run'[r].job = run[r].job /\ run'[r].pc \notin {"idle", "loaded"}
          <6>1. run[r] # NoRun /\ run[r].pc \notin {"idle", "loaded"}
            BY <5>1 DEF InHand, NoRun
          <6> QED
            BY <4>2, <6>1, StepOf
        <5> QED
          BY <5>1 DEF InHand
      <4> QED
        BY <1>2, <2>1, <3>1, <4>1, <4>3 DEF Stranded
    <3> QED
      BY <3>2, <3>3, <3>4
  <2>2. Stranded' \subseteq Jobs
    BY DEF Stranded
  <2> QED
    BY <2>1, <2>2
<1> QED
  BY <1>3, <1>4

Bounded == Cardinality(Stranded) <= faults * Cardinality(Runners)

LEMMA NextBounded == IngestTypeOK /\ Bounded /\ [IngestNext]_ingestVars => Bounded'
<1> SUFFICES ASSUME IngestTypeOK, Bounded, [IngestNext]_ingestVars
             PROVE  Bounded'
  OBVIOUS
<1>1. faults \in Nat
  BY BoundAssumption DEF IngestTypeOK
<1>2. IsFiniteSet(Stranded) /\ Cardinality(Stranded) \in Nat
  BY StrandedIs, SetsOfJobs
<1>3. Stranded' \in SUBSET Jobs
  BY DEF Stranded
<1>4. IsFiniteSet(Stranded') /\ Cardinality(Stranded') \in Nat
  BY <1>3, SetsOfJobs
<1>5. Cardinality(Runners) \in Nat
  BY HeldBound
<1> DEFINE c == Cardinality(Runners)
<1>6. ASSUME Stranded' \subseteq Stranded, faults' = faults \/ faults' = faults + 1
      PROVE  Bounded'
  <2>1. Cardinality(Stranded') <= Cardinality(Stranded)
    BY <1>2, <1>6, FS_Subset
  <2>2. \A x, y \in Nat : x * y \in Nat /\ (x + 1) * y \in Nat /\ x * y <= (x + 1) * y
    OBVIOUS
  <2>3. faults * c \in Nat /\ faults' * c \in Nat /\ faults * c <= faults' * c
    BY <1>1, <1>5, <1>6, <2>2
  <2>4. Cardinality(Stranded) <= faults * c
    BY DEF Bounded
  <2>5. Cardinality(Stranded') <= faults' * c
    <3> HIDE DEF c
    <3> QED
      BY <1>2, <1>4, <2>1, <2>3, <2>4
  <2> QED
    BY <2>5 DEF Bounded
<1>7. ASSUME Stranded' \subseteq Stranded \cup Held, faults' = faults + 1
      PROVE  Bounded'
  <2>1. Cardinality(Stranded \cup Held) <= Cardinality(Stranded) + Cardinality(Held)
    <3>1. Cardinality(Stranded \cap Held) \in Nat
      BY StrandedIs, SetsOfJobs
    <3>2. Cardinality(Stranded \cup Held) = Cardinality(Stranded) + Cardinality(Held)
                                               - Cardinality(Stranded \cap Held)
      BY <1>2, HeldBound, FS_Union
    <3> QED
      BY <1>2, <3>1, <3>2, HeldBound
  <2>2. IsFiniteSet(Stranded \cup Held) /\ Cardinality(Stranded \cup Held) \in Nat
    BY <1>2, HeldBound, FS_Union, FS_CardinalityType
  <2>3. Cardinality(Stranded') <= Cardinality(Stranded \cup Held)
    BY <1>7, <2>2, FS_Subset
  <2>4. Cardinality(Stranded') <= Cardinality(Stranded) + c
    BY <1>2, <1>4, <1>5, <2>1, <2>2, <2>3, HeldBound
  <2>5. Cardinality(Stranded) <= faults * c
    BY DEF Bounded
  <2>6. \A x, y \in Nat : (x + 1) * y = x * y + y
    OBVIOUS
  <2>7. faults * c \in Nat /\ faults' * c = faults * c + c
    <3>1. \A x, y \in Nat : x * y \in Nat
      OBVIOUS
    <3>2. faults * c \in Nat
      BY <1>1, <1>5, <3>1
    <3>3. faults' * c = faults * c + c
      BY <1>1, <1>5, <1>7, <2>6
    <3> QED
      BY <3>2, <3>3
  <2>8. Cardinality(Stranded') <= faults' * c
    <3>1. \A a, b, d, e \in Nat : a <= b + d /\ b <= e => a <= e + d
      OBVIOUS
    <3>2. c \in Nat
      BY <1>5
    <3> HIDE DEF c
    <3> QED
      BY <1>2, <1>4, <2>4, <2>5, <2>7, <3>1, <3>2
  <2> QED
    BY <2>8 DEF Bounded
<1>8. CASE \E r \in Runners : RunJob(r) \/ RunFails(r)
  <2>1. PICK r \in Runners : RunJob(r) \/ RunFails(r)
    BY <1>8
  <2>2. faults' = faults \/ faults' = faults + 1
    BY <2>1 DEF RunJob, RunFails, Load, MarkRunning, Resume, Pull, WriteBronze, Derive, SaveCheckpoint,
                CompleteJob, PullFails, ResumeFails, BronzeFails, DeriveFails, SaveFails, RunCut, Fault
  <2>3. RunCut(r) => faults' = faults + 1
    BY DEF RunCut, Fault
  <2> QED
    BY <1>6, <1>7, <2>1, <2>2, <2>3, StrandedByRun
<1>9. CASE Crash
  <2>1. \A j \in Jobs : j \in Stranded' => status[j] = "running"
    BY <1>9 DEF Crash, jobTables, Stranded
  <2>2. Stranded' \subseteq Stranded \cup Held
    BY <1>3, <2>1, StrandedIs
  <2> QED
    BY <1>7, <1>9, <2>2 DEF Crash, Fault
<1>10. CASE ~ Crash /\ ~ \E r \in Runners : RunJob(r) \/ RunFails(r)
  <2>1. run' = run /\ faults' = faults
    BY <1>10 DEF IngestNext, Grow, Arrive, Rotate, CreateJob, ingestVars
  <2>2. \A j \in Jobs : status'[j] = "running" => status[j] = "running"
    BY <1>10 DEF IngestNext, Grow, Arrive, Rotate, CreateJob, ingestVars, jobTables, IngestTypeOK
  <2>3. Stranded' \subseteq Stranded
    BY <2>1, <2>2 DEF Stranded, InHand
  <2> QED
    BY <1>6, <2>1, <2>3
<1> QED
  BY <1>8, <1>9, <1>10

LEMMA IngestInitBounded == IngestInit => Bounded
<1> SUFFICES ASSUME IngestInit
             PROVE  Bounded
  OBVIOUS
<1>1. Stranded = {}
  BY DEF IngestInit, Stranded
<1>2. Cardinality(Runners) \in Nat
  BY RunnersAssumption, FS_CardinalityType
<1>3. faults * Cardinality(Runners) = 0
  BY <1>2 DEF IngestInit
<1> QED
  BY <1>1, <1>3, FS_EmptySet DEF Bounded

\* However runs of one job overlap, fail and are cut: what the tables say of a
\* job agrees (runner.go, RunJob; service.go, SaveCheckpoint), and a job that
\* stays running, and is refused for ever, lost its run to a fault.
THEOREM JobTablesAgree == IngestSpec => []TablesAgree
<1>1. AgreeInv /\ Bounded => TablesAgree
  BY DEF AgreeInv, Bounded, TablesAgree
<1>2. AgreeInv /\ Bounded /\ [IngestNext]_ingestVars => Bounded'
  BY NextBounded DEF AgreeInv
<1> QED
  BY <1>1, <1>2, IngestInitAgree, IngestInitBounded, IngestNextAgree, PTL DEF IngestSpec

-----------------------------------------------------------------------------
(* Ingest: nothing else is passed over.                                    *)

\* What accounts for a version goes on to do so, while rows are only added and
\* what is rotated stays what it was.
LEMMA AccountedStays ==
    ASSUME RowsStay, NEW v, Accounted(v), late \subseteq late', past \subseteq past', cutoff => cutoff',
           \A x \in past : stamp[x] >= v[2] => stamp'[x] >= v[2]
    PROVE  Accounted(v)'
BY DEF RowsStay, Accounted, Copies

\* A step that leaves the source alone.
LEMMA CoveredStays ==
    ASSUME RowsStay, UNCHANGED source, cutoff => cutoff', NEW n, NEW V, Covered(n, V)
    PROVE  Covered(n, V)'
<1>1. Present' = Present
  BY DEF source, Present
<1>2. \A v \in Present : Accounted(v) => Accounted(v)'
  BY AccountedStays DEF source
<1> QED
  BY <1>1, <1>2 DEF Covered, source

\* A stamp that is newer than all that are present is newer than n too, unless a
\* file that was rotated away had reached n.
LEMMA NewIsAhead ==
    ASSUME IngestTypeOK, NEW n \in 0..MaxStamp, n = 0 \/ \E x \in Items : stamp[x] >= n,
           NEW t \in Stamps, t > Latest(Present, 0), t <= n
    PROVE  \E x \in past : stamp[x] >= t
<1>1. PICK x \in Items : stamp[x] >= n
  BY DEF Stamps
<1>2. stamp[x] \in 0..MaxStamp /\ Latest(Present, 0) \in 0..MaxStamp /\ \A v \in Present : v[2] <= Latest(Present, 0)
  <2>1. Present \in SUBSET Versions /\ 0 \in 0..MaxStamp
    BY PresentIs, BoundAssumption
  <2>2. Latest(Present, 0) \in 0..MaxStamp /\ \A v \in Present : v[2] <= Latest(Present, 0)
    BY <2>1, LatestIs
  <2> QED
    BY <2>2 DEF IngestTypeOK
<1>3. stamp[x] >= t /\ stamp[x] > 0 /\ stamp[x] > Latest(Present, 0)
  BY <1>1, <1>2, BoundAssumption DEF Stamps
<1>4. x \in past
  <2>1. SUFFICES ASSUME x \notin past
                 PROVE  FALSE
    OBVIOUS
  <2>2. <<x, stamp[x]>> \in Present
    BY <1>3, <2>1, PresentIs
  <2>3. stamp[x] <= Latest(Present, 0)
    BY <1>2, <2>2
  <2> QED
    BY <1>2, <1>3, <2>3, BoundAssumption
<1> QED
  BY <1>3, <1>4

LEMMA GrowCovers ==
    ASSUME IngestTypeOK, NEW x \in Items, Grow(x), NEW n \in 0..MaxStamp, NEW V \in SUBSET Versions, Covered(n, V)
    PROVE  Covered(n, V)'
<1>0. PICK t : t = Latest(Present, 0) + 1
  OBVIOUS
<1>1. Latest(Present, 0) \in 0..MaxStamp /\ t \in Stamps
  <2>1. Present \in SUBSET Versions /\ 0 \in 0..MaxStamp
    BY PresentIs, BoundAssumption
  <2>2. Latest(Present, 0) \in 0..MaxStamp
    BY <2>1, LatestIs
  <2> QED
    BY <1>0, <2>2, BoundAssumption DEF Grow, Stamps
<1>2. /\ stamp[x] = 0 /\ stamp'[x] = t /\ \A y \in Items \ {x} : stamp'[y] = stamp[y]
      /\ UNCHANGED <<past, late, cutoff, bronze>>
  BY <1>0 DEF Grow, IngestTypeOK, jobTables
<1>3. \A y \in Items : stamp[y] \in Nat /\ stamp'[y] \in Nat /\ stamp'[y] >= stamp[y]
  BY <1>1, <1>2, BoundAssumption DEF IngestTypeOK, Stamps
<1>4. \A v \in Present' : v \in Present \/ v = <<x, t>>
  BY <1>2 DEF Present
<1>5. \A v \in Present : Accounted(v) => Accounted(v)'
  <2>1. RowsStay
    BY <1>2 DEF RowsStay, Rows
  <2>2. \A v \in Present : v[2] \in Nat
    BY PresentIs DEF Stamps
  <2>3. \A v \in Present : \A y \in past : stamp[y] >= v[2] => stamp'[y] >= v[2]
    BY <1>3, <2>2 DEF IngestTypeOK
  <2> QED
    BY <1>2, <2>1, <2>3, AccountedStays
<1>6. t <= n => Accounted(<<x, t>>)'
  <2>1. SUFFICES ASSUME t <= n
                 PROVE  Accounted(<<x, t>>)'
    OBVIOUS
  <2>2. PICK y \in past : stamp[y] >= t
    <3>1. t > Latest(Present, 0)
      BY <1>0, <1>1, BoundAssumption
    <3> QED
      BY <1>1, <2>1, <3>1, NewIsAhead DEF Covered
  <2>3. y \in Items /\ stamp[y] \in Nat /\ stamp'[y] \in Nat /\ t \in Nat /\ stamp'[y] >= t
    BY <1>1, <1>2, <1>3, <2>2 DEF IngestTypeOK, Stamps
  <2> QED
    BY <1>2, <2>2, <2>3 DEF Accounted
<1>7. n = 0 \/ \E y \in Items : stamp'[y] >= n
  <2>1. CASE n # 0
    <3>1. PICK y \in Items : stamp[y] >= n
      BY <2>1 DEF Covered
    <3>2. stamp'[y] >= n
      BY <1>1, <1>2, <1>3, <3>1, BoundAssumption DEF Stamps
    <3> QED
      BY <3>2
  <2> QED
    BY <2>1
<1>8. \A v \in Present' : v[2] <= n => v \in V \/ Accounted(v)'
  BY <1>4, <1>5, <1>6 DEF Covered
<1> QED
  BY <1>7, <1>8 DEF Covered

LEMMA ArriveCovers ==
    ASSUME IngestTypeOK, PastIsLog, NEW x \in Items, NEW t \in Stamps, Arrive(x, t),
           NEW n \in 0..MaxStamp, NEW V \in SUBSET Versions, Covered(n, V)
    PROVE  Covered(n, V)'
<1>1. /\ past = {} /\ past' = {}
      /\ stamp'[x] = t /\ stamp'[x] > stamp[x] /\ \A y \in Items \ {x} : stamp'[y] = stamp[y]
      /\ late \subseteq late'
      /\ t > Latest(Present, 0) \/ <<x, t>> \in late'
      /\ UNCHANGED <<cutoff, bronze>>
  BY DEF Arrive, PastIsLog, IngestTypeOK, jobTables
<1>2. \A y \in Items : stamp[y] \in Nat /\ stamp'[y] \in Nat /\ stamp'[y] >= stamp[y]
  BY <1>1, BoundAssumption DEF IngestTypeOK, Stamps
<1>3. \A v \in Present' : v \in Present \/ v = <<x, t>>
  BY <1>1 DEF Present
<1>4. \A v \in Present : Accounted(v) => Accounted(v)'
  <2>1. RowsStay
    BY <1>1 DEF RowsStay, Rows
  <2> QED
    BY <1>1, <2>1, AccountedStays
<1>5. t <= n => Accounted(<<x, t>>)'
  <2>1. CASE <<x, t>> \in late'
    BY <2>1 DEF Accounted
  <2>2. CASE t > Latest(Present, 0)
    BY <1>1, <2>2, NewIsAhead DEF Covered
  <2> QED
    BY <1>1, <2>1, <2>2
<1>6. n = 0 \/ \E y \in Items : stamp'[y] >= n
  <2>1. CASE n # 0
    <3>1. PICK y \in Items : stamp[y] >= n
      BY <2>1 DEF Covered
    <3>2. stamp'[y] >= n
      BY <1>2, <3>1, BoundAssumption
    <3> QED
      BY <3>2
  <2> QED
    BY <2>1
<1>7. \A v \in Present' : v[2] <= n => v \in V \/ Accounted(v)'
  BY <1>3, <1>4, <1>5 DEF Covered
<1> QED
  BY <1>6, <1>7 DEF Covered

\* After a rotation there is nothing to pass over.
LEMMA RotateCovers ==
    ASSUME IngestTypeOK, Rotate, NEW n \in 0..MaxStamp, NEW V \in SUBSET Versions, Covered(n, V)
    PROVE  Covered(n, V)'
<1>1. \A x \in Items : stamp[x] > 0 => x \in past'
  <2>1. past' = past \cup { v[1] : v \in Present }
    BY DEF Rotate
  <2>2. ASSUME NEW x \in Items, stamp[x] > 0, x \notin past
        PROVE  x \in past'
    <3>1. <<x, stamp[x]>> \in Present
      BY <2>2, PresentIs
    <3>2. x \in { v[1] : v \in Present }
      BY <3>1
    <3> QED
      BY <2>1, <3>2
  <2> QED
    BY <2>1, <2>2
<1>2. stamp' = stamp
  BY DEF Rotate
<1>3. Present' = {}
  BY <1>1, <1>2 DEF Present
<1> QED
  BY <1>2, <1>3 DEF Covered

\* The next checkpoint of a pull covers what the one before it covered and what
\* was pulled.
LEMMA PullCovers ==
    ASSUME IngestTypeOK, NEW ck \in Checkpoints, Covered(ck.value, {}), NEW p \in Pulls(ck)
    PROVE  /\ \A v \in Present : v[2] <= p.value =>
                  \/ v \in p.got
                  \/ Accounted(v)
                  \/ kind = "db_table" /\ \E u \in Present \ p.got : u[2] > Heeded(ck, "updated_at")
           /\ p.value = 0 \/ \E x \in Items : stamp[x] >= p.value
<1>1. /\ Present \in SUBSET Versions
      /\ \A v \in Present : v[1] \in Items /\ v[2] \in Stamps /\ stamp[v[1]] = v[2]
      /\ \A v \in Present : v[2] \in Nat /\ v[2] > 0
  BY PresentIs DEF Stamps
<1>2. /\ ck.value \in Nat
      /\ \A type \in {"updated_at", "offset"} :
             Heeded(ck, type) \in 0..MaxStamp /\ Heeded(ck, type) \in Nat /\ Heeded(ck, type) <= ck.value
  BY HeededIs, BoundAssumption
<1>3. \A v \in Present : v[2] <= ck.value => Accounted(v)
  BY DEF Covered
<1>4. ck.value = 0 \/ \E x \in Items : stamp[x] >= ck.value
  BY DEF Covered
<1>5. \A x \in Items : stamp[x] \in Nat
  BY BoundAssumption DEF IngestTypeOK
<1>6. CASE kind = "log_file"
  <2> DEFINE size   == Latest(Present, 0)
             offset == IF Heeded(ck, "offset") > size THEN 0 ELSE Heeded(ck, "offset")
  <2>1. p = [got |-> { v \in Present : v[2] > offset }, type |-> "offset", value |-> size]
    BY <1>6 DEF Pulls, PullLogFile
  <2>2. offset \in Nat /\ offset <= ck.value
    BY <1>2
  <2>3. size = 0 \/ \E v \in Present : v[2] = size
    BY <1>1, LatestIs, BoundAssumption
  <2> HIDE DEF size, offset
  <2>4. \A v \in Present : v \notin p.got => Accounted(v)
    BY <1>1, <1>2, <1>3, <2>1, <2>2
  <2>5. p.value = 0 \/ \E x \in Items : stamp[x] >= p.value
    BY <1>1, <2>1, <2>3
  <2> QED
    BY <2>4, <2>5
<1>7. CASE kind = "filesystem_drop"
  <2> DEFINE lastSeen == Heeded(ck, "updated_at")
             got      == { v \in Present : v[2] > lastSeen }
  <2>1. p = [got |-> got, type |-> "updated_at", value |-> Latest(got, lastSeen)]
    BY <1>7 DEF Pulls, PullFilesystemDrop
  <2>2. lastSeen \in Nat /\ lastSeen <= ck.value
    BY <1>2
  <2>3. Latest(got, lastSeen) = lastSeen \/ \E v \in got : v[2] = Latest(got, lastSeen)
    BY <1>1, <1>2, LatestIs
  <2>6. \A v \in got : v \in Present
    OBVIOUS
  <2>7. \A v \in Present : v \notin got => ~(v[2] > lastSeen)
    OBVIOUS
  <2> HIDE DEF lastSeen, got
  <2>4. \A v \in Present : v \notin p.got => Accounted(v)
    BY <1>1, <1>2, <1>3, <2>1, <2>2, <2>7
  <2>5. p.value = 0 \/ \E x \in Items : stamp[x] >= p.value
    <3>1. CASE Latest(got, lastSeen) = lastSeen
      BY <1>2, <1>4, <1>5, <2>1, <2>2, <3>1
    <3>2. CASE \E v \in got : v[2] = Latest(got, lastSeen)
      BY <1>1, <2>1, <2>6, <3>2
    <3> QED
      BY <2>3, <3>1, <3>2
  <2> QED
    BY <2>4, <2>5
<1>8. CASE kind = "db_table"
  <2>1. p \in PullDBTable(ck)
    BY <1>8 DEF Pulls
  <2>2. PICK V \in SUBSET Present :
           p = IF V = {} THEN [got |-> V, type |-> "offset", value |-> Heeded(ck, "offset")]
                         ELSE [got |-> V, type |-> "updated_at", value |-> Latest(V, 0)]
    BY <2>1 DEF PullDBTable
  <2>3. CASE V = {}
    <3>1. p.value \in Nat /\ p.value <= ck.value
      BY <1>2, <2>2, <2>3
    <3>2. \A v \in Present : v[2] <= p.value => Accounted(v)
      BY <1>1, <1>2, <1>3, <3>1
    <3>3. p.value = 0 \/ \E x \in Items : stamp[x] >= p.value
      BY <1>2, <1>4, <1>5, <3>1
    <3> QED
      BY <3>2, <3>3
  <2>4. CASE V # {}
    <3>1. p.got = V /\ p.value = Latest(V, 0)
      BY <2>2, <2>4
    <3>2. Latest(V, 0) = 0 \/ \E v \in V : v[2] = Latest(V, 0)
      BY <1>1, LatestIs, BoundAssumption
    <3>3. p.value = 0 \/ \E x \in Items : stamp[x] >= p.value
      BY <1>1, <3>1, <3>2
    <3>4. ASSUME NEW v \in Present, v \notin V, ~(v[2] > Heeded(ck, "updated_at"))
          PROVE  Accounted(v)
      BY <1>1, <1>2, <1>3, <3>4
    <3> QED
      BY <1>8, <3>1, <3>3, <3>4
  <2> QED
    BY <2>3, <2>4
<1> QED
  BY <1>6, <1>7, <1>8 DEF IngestTypeOK, Kinds

\* What the goroutine of a run goes on with covers what it says.
RunCovers(r) ==
    /\ run[r].pc = "resumed" => Covered(run[r].from.value, {})
    /\ run[r].pc = "pulled" => Covered(run[r].next.value, run[r].got)
    /\ run[r].pc \in {"stored", "derived"} => Covered(run[r].next.value, {})

LEMMA ZeroCovers ==
    ASSUME IngestTypeOK
    PROVE  Covered(NoCheckpoint.value, {})
<1>1. \A v \in Present : v[2] \in Nat /\ v[2] > 0
  BY PresentIs DEF Stamps
<1> QED
  BY <1>1 DEF Covered, NoCheckpoint

LEMMA SourceCovers ==
    ASSUME PassedInv,
           \/ \E x \in Items : Grow(x)
           \/ \E x \in Items, t \in Stamps : Arrive(x, t)
           \/ Rotate
    PROVE  /\ PastIsLog'
           /\ \A j \in Jobs : Covered(checkpoint[j].value, {})'
           /\ \A r \in Runners : RunCovers(r)'
<1> USE DEF PassedInv
<1>1. PastIsLog'
  <2>1. CASE \E x \in Items : Grow(x)
    BY <2>1 DEF Grow, PastIsLog
  <2>2. CASE \E x \in Items, t \in Stamps : Arrive(x, t)
    BY <2>2 DEF Arrive, PastIsLog
  <2>3. CASE Rotate
    BY <2>3 DEF Rotate, PastIsLog
  <2> QED
    BY <2>1, <2>2, <2>3
<1>2. \A n \in 0..MaxStamp, V \in SUBSET Versions : Covered(n, V) => Covered(n, V)'
  BY GrowCovers, ArriveCovers, RotateCovers
<1>3. checkpoint' = checkpoint /\ run' = run
  BY DEF Grow, Arrive, Rotate, jobTables
<1>4. ASSUME NEW j \in Jobs
      PROVE  Covered(checkpoint[j].value, {})'
  <2>1. checkpoint[j].value \in 0..MaxStamp
    BY HeededIs DEF IngestTypeOK
  <2> QED
    BY <1>2, <1>3, <2>1
<1>5. ASSUME NEW r \in Runners
      PROVE  RunCovers(r)'
  <2>1. run[r].pc = "resumed" => run[r].from.value \in 0..MaxStamp
    BY RunShape, HeededIs
  <2>2. run[r].pc = "pulled" => run[r].got \in SUBSET Versions
    BY RunShape
  <2>3. run[r].pc \in {"pulled", "stored", "derived"} => run[r].next.value \in 0..MaxStamp
    BY RunShape DEF CheckpointRows
  <2> QED
    BY <1>2, <1>3, <2>1, <2>2, <2>3 DEF RunCovers
<1> QED
  BY <1>1, <1>4, <1>5

\* What a step of r goes on with.
LEMMA RunCoversNext ==
    ASSUME PassedInv, NEW r \in Runners, RunJob(r) \/ RunFails(r), RowsStay
    PROVE  RunCovers(r)'
<1> USE DEF PassedInv
<1>0. \A n, V : UNCHANGED source /\ (cutoff => cutoff') /\ Covered(n, V) => Covered(n, V)'
  BY CoveredStays
<1>1. CASE Resume(r)
  <2>1. PICK ck \in Newest : run' = [run EXCEPT ![r] = [pc |-> "resumed", job |-> @.job, from |-> ck]]
    BY <1>1 DEF Resume
  <2>2. Covered(ck.value, {})
    BY ZeroCovers DEF Newest, IngestTypeOK
  <2>3. run'[r].pc = "resumed" /\ run'[r].from = ck
    BY <2>1 DEF IngestTypeOK
  <2>4. Covered(ck.value, {})'
    BY <1>0, <1>1, <2>2 DEF Resume
  <2> QED
    BY <2>3, <2>4 DEF RunCovers
<1>2. CASE ResumeFails(r)
  <2>1. run'[r].pc = "resumed" /\ run'[r].from = NoCheckpoint
    BY <1>2 DEF ResumeFails, IngestTypeOK
  <2>2. Covered(NoCheckpoint.value, {})'
    BY <1>0, <1>2, ZeroCovers DEF ResumeFails
  <2> QED
    BY <2>1, <2>2 DEF RunCovers, NoCheckpoint
<1>3. CASE Pull(r)
  <2> DEFINE ck == run[r].from
  <2>1. PICK p \in Pulls(ck) :
          /\ run' = [run EXCEPT ![r] = [pc |-> "pulled", job |-> @.job, got |-> p.got,
                                        next |-> [type |-> p.type, value |-> p.value]]]
          /\ cutoff' = (cutoff \/ (kind = "db_table" /\ \E v \in Present \ p.got :
                                       v[2] > Heeded(ck, "updated_at")))
    BY <1>3 DEF Pull
  <2>2. ck \in Checkpoints /\ Covered(ck.value, {})
    BY <1>3, RunShape DEF Pull
  <2>3. /\ \A v \in Present : v[2] <= p.value =>
               \/ v \in p.got
               \/ Accounted(v)
               \/ kind = "db_table" /\ \E u \in Present \ p.got : u[2] > Heeded(ck, "updated_at")
        /\ p.value = 0 \/ \E x \in Items : stamp[x] >= p.value
    <3> HIDE DEF ck
    <3> QED
      BY <2>1, <2>2, PullCovers
  <2>4. UNCHANGED source
    BY <1>3 DEF Pull
  <2>5. Present' = Present
    BY <2>4 DEF Present, source
  <2>6. \A v \in Present : v[2] <= p.value => v \in p.got \/ Accounted(v)'
    <3>1. cutoff => cutoff'
      BY <2>1
    <3>2. \A v : Accounted(v) => Accounted(v)'
      BY <2>4, <3>1, AccountedStays DEF source
    <3>3. (kind = "db_table" /\ \E u \in Present \ p.got : u[2] > Heeded(ck, "updated_at")) => \A v : Accounted(v)'
      BY <2>1 DEF Accounted
    <3> QED
      BY <2>3, <3>2, <3>3
  <2>7. Covered(p.value, p.got)'
    BY <2>3, <2>4, <2>5, <2>6 DEF Covered, source
  <2>8. run'[r].pc = "pulled" /\ run'[r].got = p.got /\ run'[r].next.value = p.value
    BY <2>1 DEF IngestTypeOK
  <2> QED
    BY <2>7, <2>8 DEF RunCovers
<1>4. CASE WriteBronze(r)
  <2>1. RowAdded(r)
    BY <1>4, RowsAppended DEF WriteBronze, RowAdded
  <2>2. Covered(run[r].next.value, run[r].got) /\ UNCHANGED source /\ cutoff' = cutoff
    BY <1>4 DEF WriteBronze
  <2>3. PICK n, V : n = run[r].next.value /\ V = run[r].got
    OBVIOUS
  <2>4. Covered(n, V)'
    BY <1>0, <2>2, <2>3
  <2>5. \A v \in V : Accounted(v)'
    BY <2>1, <2>3 DEF RowAdded, Accounted, Copies
  <2>6. Covered(n, {})'
    BY <2>4, <2>5 DEF Covered
  <2>7. run'[r].pc = "stored" /\ run'[r].next.value = n
    BY <1>4, <2>3 DEF WriteBronze, IngestTypeOK
  <2> QED
    BY <2>6, <2>7 DEF RunCovers
<1>5. CASE Derive(r) \/ DeriveFails(r)
  <2>1. PICK top \in {"bronze", "silver", "gold"} : DeriveUpTo(r, top)
    BY <1>5 DEF Derive, DeriveFails
  <2>2. PICK n : n = run[r].next.value
    OBVIOUS
  <2>3. run'[r].pc = "derived" /\ run'[r].next.value = n
    BY <2>1, <2>2 DEF DeriveUpTo, IngestTypeOK
  <2>4. Covered(n, {})'
    BY <1>0, <2>1, <2>2 DEF DeriveUpTo
  <2> QED
    BY <2>3, <2>4 DEF RunCovers
<1>6. CASE \/ \E j \in Jobs : Load(r, j)
           \/ MarkRunning(r) \/ SaveCheckpoint(r) \/ CompleteJob(r) \/ PullFails(r)
           \/ BronzeFails(r) \/ SaveFails(r) \/ RunCut(r)
  <2>1. run'[r].pc \in {"loaded", "marked", "saved", "idle"}
    <3>1. CASE (\E j \in Jobs : Load(r, j)) \/ SaveCheckpoint(r) \/ SaveFails(r)
      BY <3>1 DEF Load, SaveCheckpoint, SaveFails, IngestTypeOK
    <3>2. CASE MarkRunning(r)
      BY <3>2, StepOf DEF MarkRunning, NoRun, RunJob
    <3>3. CASE CompleteJob(r) \/ PullFails(r) \/ BronzeFails(r) \/ RunCut(r)
      BY <3>3 DEF CompleteJob, PullFails, BronzeFails, RunCut, Stop, NoRun, IngestTypeOK
    <3> QED
      BY <1>6, <3>1, <3>2, <3>3
  <2> QED
    BY <2>1 DEF RunCovers
<1> QED
  BY <1>1, <1>2, <1>3, <1>4, <1>5, <1>6 DEF RunJob, RunFails

LEMMA IngestInitPassed == IngestInit => PassedInv
<1> SUFFICES ASSUME IngestInit
             PROVE  PassedInv
  OBVIOUS
<1>1. IngestTypeOK
  BY IngestInitType
<1>2. \A j \in Jobs : Covered(checkpoint[j].value, {})
  BY <1>1, ZeroCovers DEF IngestInit
<1>3. PastIsLog /\ \A r \in Runners : run[r].pc = "idle"
  BY DEF IngestInit, PastIsLog, NoRun
<1> QED
  BY <1>1, <1>2, <1>3 DEF PassedInv

LEMMA IngestNextPassed == PassedInv /\ [IngestNext]_ingestVars => PassedInv'
<1> SUFFICES ASSUME PassedInv, [IngestNext]_ingestVars
             PROVE  PassedInv'
  OBVIOUS
<1> USE DEF PassedInv
<1>1. IngestTypeOK' /\ RowsStay
  BY IngestNextType, RowsStep
<1>2. ASSUME UNCHANGED source, cutoff => cutoff', UNCHANGED checkpoint, NEW j \in Jobs
      PROVE  PastIsLog' /\ Covered(checkpoint[j].value, {})'
  <2>1. PICK n : n = checkpoint[j].value
    OBVIOUS
  <2>2. Covered(n, {})'
    BY <1>1, <1>2, <2>1, CoveredStays
  <2> QED
    BY <1>2, <2>1, <2>2 DEF PastIsLog, source
<1>3. ASSUME UNCHANGED source, cutoff => cutoff', NEW q \in Runners, run'[q] = run[q] \/ run'[q] = NoRun
      PROVE  RunCovers(q)'
  <2>1. \A n, V : Covered(n, V) => Covered(n, V)'
    BY <1>1, <1>3, CoveredStays
  <2>2. CASE run'[q] = run[q]
    BY <2>1, <2>2 DEF RunCovers
  <2>3. CASE run'[q] = NoRun
    BY <2>3 DEF RunCovers, NoRun
  <2> QED
    BY <1>3, <2>2, <2>3
<1>4. ASSUME NEW r \in Runners, RunJob(r) \/ RunFails(r)
      PROVE  PassedInv'
  <2>1. UNCHANGED source /\ (cutoff => cutoff')
    <3>1. CASE Pull(r)
      BY <3>1 DEF Pull
    <3>2. CASE RunJob(r) /\ ~Pull(r)
      BY <3>2 DEF RunJob, Load, MarkRunning, Resume, WriteBronze, Derive, DeriveUpTo, SaveCheckpoint, CompleteJob
    <3>3. CASE RunFails(r)
      BY <3>3 DEF RunFails, PullFails, ResumeFails, BronzeFails, DeriveFails, DeriveUpTo, SaveFails, RunCut
    <3> QED
      BY <1>4, <3>1, <3>2, <3>3
  <2>2. \A q \in Runners : RunCovers(q)'
    <3>1. ASSUME NEW q \in Runners, q # r
          PROVE  RunCovers(q)'
      BY <1>3, <1>4, <2>1, <3>1, OthersStay
    <3>2. RunCovers(r)'
      BY <1>1, <1>4, RunCoversNext
    <3> QED
      BY <3>1, <3>2
  <2>3. PastIsLog'
    BY <2>1 DEF PastIsLog, source
  <2>4. \A j \in Jobs : Covered(checkpoint[j].value, {})'
    <3>1. CASE SaveCheckpoint(r)
      <4>1. run[r].job \in Jobs /\ checkpoint' = [checkpoint EXCEPT ![run[r].job] = run[r].next]
        BY <3>1, RunShape DEF SaveCheckpoint
      <4>2. ASSUME NEW j \in Jobs
            PROVE  Covered(checkpoint[j].value, {})'
        <5>1. PICK n : n = checkpoint'[j].value
          OBVIOUS
        <5>2. n = checkpoint[j].value \/ n = run[r].next.value
          BY <4>1, <5>1 DEF IngestTypeOK
        <5>3. Covered(n, {})
          BY <3>1, <5>2 DEF SaveCheckpoint
        <5>4. Covered(n, {})'
          BY <1>1, <2>1, <5>3, CoveredStays
        <5> QED
          BY <5>1, <5>4
      <4> QED
        BY <4>2
    <3>2. CASE ~SaveCheckpoint(r)
      <4>1. UNCHANGED checkpoint
        BY <1>4, <3>2 DEF RunJob, RunFails, Load, MarkRunning, Resume, Pull, WriteBronze, Derive, DeriveUpTo,
             CompleteJob, PullFails, ResumeFails, BronzeFails, DeriveFails, SaveFails, RunCut, jobTables
      <4> QED
        BY <1>2, <2>1, <4>1
    <3> QED
      BY <3>1, <3>2
  <2> QED
    BY <1>1, <2>2, <2>3, <2>4 DEF RunCovers
<1>5. CASE \/ \E x \in Items : Grow(x)
           \/ \E x \in Items, t \in Stamps : Arrive(x, t)
           \/ Rotate
  BY <1>1, <1>5, SourceCovers DEF RunCovers
<1>6. CASE (\E j \in Jobs : CreateJob(j)) \/ Crash \/ UNCHANGED ingestVars
  <2>1. UNCHANGED <<source, checkpoint>> /\ cutoff' = cutoff
    BY <1>6 DEF CreateJob, Crash, ingestVars, jobTables
  <2>2. \A q \in Runners : run'[q] = run[q] \/ run'[q] = NoRun
    BY <1>6 DEF CreateJob, Crash, ingestVars
  <2>3. \A q \in Runners : RunCovers(q)'
    BY <1>3, <2>1, <2>2
  <2>4. PastIsLog' /\ \A j \in Jobs : Covered(checkpoint[j].value, {})'
    BY <1>2, <2>1 DEF PastIsLog, source
  <2> QED
    BY <1>1, <2>3, <2>4 DEF RunCovers
<1> QED
  BY <1>4, <1>5, <1>6 DEF IngestNext

\* However runs overlap, fail and are cut, on every kind of source: a version
\* that lies behind a checkpoint is in the lakehouse, came late, was left out by
\* the LIMIT or is hidden by a rotation (runner.go, RunJob and the pullers).
THEOREM NothingLost == IngestSpec => []NothingElseIsPassedOver
<1>1. PassedInv => NothingElseIsPassedOver
  BY DEF PassedInv, NothingElseIsPassedOver, Covered, Accounted
<1> QED
  BY <1>1, IngestInitPassed, IngestNextPassed, PTL DEF IngestSpec

-----------------------------------------------------------------------------
(* Ingest: nothing is stored twice.                                        *)

LEMMA CountsAre ==
    ASSUME IngestTypeOK
    PROVE  /\ \A v : IsFiniteSet(Copies(v)) /\ Cardinality(Copies(v)) \in Nat
           /\ IsFiniteSet(Empties) /\ Cardinality(Empties) \in Nat
<1>1. IsFiniteSet(Rows)
  <2>1. Len(bronze) \in Nat
    BY LenProperties DEF IngestTypeOK
  <2> QED
    BY <2>1, FS_Interval DEF Rows
<1>2. Empties \subseteq Rows /\ \A v : Copies(v) \subseteq Rows
  BY DEF Empties, Copies
<1> QED
  BY <1>1, <1>2, FS_Subset, FS_CardinalityType

LEMMA NoCopies ==
    ASSUME NEW v, Copies(v) = {}
    PROVE  Cardinality(Copies(v)) = 0
BY FS_EmptySet

LEMMA CountsStay ==
    ASSUME RowsStay, Rows' = Rows, kind' = kind
    PROVE  /\ \A v : Copies(v)' = Copies(v)
           /\ Empties' = Empties
BY DEF RowsStay, Copies, Empties

\* A row more is a copy more of each version that it holds.
LEMMA CountsGrow ==
    ASSUME IngestTypeOK, RowsStay, NEW r \in Runners, RowAdded(r), kind' = kind
    PROVE  /\ \A v : Cardinality(Copies(v))' = Cardinality(Copies(v)) + Extra(v, run[r].got)
           /\ \A v : Copies(v)' # {} => v \in run[r].got \/ Copies(v) # {}
           /\ Cardinality(Empties)'
                  = Cardinality(Empties) + Empty(run[r].got)
<1> DEFINE n == Len(bronze) + 1
<1>1. n \notin Rows /\ Rows' = Rows \cup {n} /\ bronze'[n].got = run[r].got
  BY DEF RowAdded
<1>2. \A i \in Rows : bronze'[i].got = bronze[i].got
  BY DEF RowsStay
<1> HIDE DEF n
<1>3. ASSUME NEW v
      PROVE  /\ Cardinality(Copies(v))' = Cardinality(Copies(v)) + Extra(v, run[r].got)
             /\ Copies(v)' # {} => v \in run[r].got \/ Copies(v) # {}
  <2>1. Copies(v)' = IF v \in run[r].got THEN Copies(v) \cup {n} ELSE Copies(v)
    BY <1>1, <1>2 DEF Copies
  <2>2. n \notin Copies(v) /\ IsFiniteSet(Copies(v)) /\ Cardinality(Copies(v)) \in Nat
    BY <1>1, CountsAre DEF Copies
  <2>3. Cardinality(Copies(v) \cup {n}) = Cardinality(Copies(v)) + 1
    BY <2>2, FS_AddElement
  <2> QED
    BY <2>1, <2>2, <2>3 DEF Extra
<1>4. Cardinality(Empties)' = Cardinality(Empties) + Empty(run[r].got)
  <2>1. Empties' = IF kind = "db_table" /\ run[r].got = {} THEN Empties \cup {n} ELSE Empties
    BY <1>1, <1>2 DEF Empties
  <2>2. n \notin Empties /\ IsFiniteSet(Empties) /\ Cardinality(Empties) \in Nat
    BY <1>1, CountsAre DEF Empties
  <2>3. Cardinality(Empties \cup {n}) = Cardinality(Empties) + 1
    BY <2>2, FS_AddElement
  <2> QED
    BY <2>1, <2>2, <2>3 DEF Empty
<1> QED
  BY <1>3, <1>4

LEMMA PresentNext ==
    ASSUME IngestTypeOK'
    PROVE  Present' \in SUBSET Versions
<1>1. \A x \in Items : stamp'[x] \in 0..MaxStamp
  BY DEF IngestTypeOK
<1>2. \A x \in Items : stamp'[x] > 0 => stamp'[x] \in Stamps
  BY <1>1, BoundAssumption DEF Stamps
<1> QED
  BY <1>2 DEF Present, Versions

\* What a step of the source leaves of the versions that are present, and that
\* what it brings is new.
LEMMA SourceIs ==
    ASSUME IngestTypeOK, IngestTypeOK',
           \/ \E x \in Items : Grow(x)
           \/ \E x \in Items, t \in Stamps : Arrive(x, t)
           \/ Rotate
    PROVE  /\ UNCHANGED <<kind, jobTables, run>>
           /\ \A x \in Items : stamp'[x] >= stamp[x]
           /\ \A v \in Present' : v \in Present \/ (v[2] > stamp[v[1]] /\ v[1] \in Items)
           /\ kind = "log_file" /\ Present' # {} => Latest(Present, 0) <= Latest(Present, 0)'
<1> USE BoundAssumption
<1>1. \A x \in Items : stamp[x] \in Nat /\ stamp'[x] \in Nat
  BY DEF IngestTypeOK
<1>2. /\ Present \in SUBSET Versions /\ Present' \in SUBSET Versions
      /\ Latest(Present, 0) \in Nat
      /\ Latest(Present, 0) = 0 \/ \E v \in Present : v[2] = Latest(Present, 0)
      /\ Latest(Present, 0)' \in Nat
      /\ \A v \in Present' : v[2] <= Latest(Present, 0)'
  <2>1. Present \in SUBSET Versions /\ 0 \in 0..MaxStamp
    BY PresentIs
  <2>2. Present' \in SUBSET Versions
    BY PresentNext
  <2>3. Latest(Present, 0) \in Nat /\ (Latest(Present, 0) = 0 \/ \E v \in Present : v[2] = Latest(Present, 0))
    BY <2>1, LatestIs
  <2>4. \A V \in SUBSET Versions : Latest(V, 0) \in Nat /\ \A v \in V : v[2] <= Latest(V, 0)
    BY LatestIs
  <2>5. Latest(Present, 0)' = Latest(Present', 0)
    BY DEF Latest
  <2> QED
    BY <2>1, <2>2, <2>3, <2>4, <2>5
<1>3. ASSUME NEW x \in Items, NEW t \in Nat, stamp' = [stamp EXCEPT ![x] = t], t > stamp[x], UNCHANGED past
      PROVE  /\ \A y \in Items : stamp'[y] >= stamp[y]
             /\ \A v \in Present' : v \in Present \/ (v[2] > stamp[v[1]] /\ v[1] \in Items)
  <2>1. \A y \in Items : stamp'[y] = IF y = x THEN t ELSE stamp[y]
    BY <1>3 DEF IngestTypeOK
  <2>2. \A v \in Present' : v \in Present \/ v = <<x, t>>
    BY <1>3, <2>1 DEF Present
  <2> QED
    BY <1>1, <1>3, <2>1, <2>2
<1>4. ASSUME NEW x \in Items, Grow(x)
      PROVE  /\ \A y \in Items : stamp'[y] >= stamp[y]
             /\ \A v \in Present' : v \in Present \/ (v[2] > stamp[v[1]] /\ v[1] \in Items)
             /\ Latest(Present, 0) <= Latest(Present, 0)'
  <2>1. stamp[x] = 0 /\ UNCHANGED past
    BY <1>4 DEF Grow
  <2>4. PICK t \in Nat : stamp' = [stamp EXCEPT ![x] = t] /\ t > 0
    <3>1. Latest(Present, 0) + 1 \in Nat /\ Latest(Present, 0) + 1 > 0
      BY <1>2
    <3>2. stamp' = [stamp EXCEPT ![x] = Latest(Present, 0) + 1]
      BY <1>4 DEF Grow
    <3> QED
      BY <3>1, <3>2
  <2>2. \A v \in Present : v \in Present'
    <3>1. ASSUME NEW y \in Items, stamp[y] > 0
          PROVE  stamp'[y] = stamp[y]
      BY <2>1, <2>4, <3>1 DEF IngestTypeOK
    <3> QED
      BY <2>1, <3>1 DEF Present
  <2>3. Latest(Present, 0) <= Latest(Present, 0)'
    BY <1>2, <2>2
  <2> QED
    BY <1>3, <2>1, <2>3, <2>4
<1>5. ASSUME NEW x \in Items, NEW t \in Stamps, Arrive(x, t)
      PROVE  /\ kind # "log_file"
             /\ \A y \in Items : stamp'[y] >= stamp[y]
             /\ \A v \in Present' : v \in Present \/ (v[2] > stamp[v[1]] /\ v[1] \in Items)
  <2>1. kind # "log_file" /\ t > stamp[x] /\ stamp' = [stamp EXCEPT ![x] = t] /\ UNCHANGED past
    BY <1>5 DEF Arrive
  <2>2. t \in Nat
    BY DEF Stamps
  <2> QED
    BY <1>3, <2>1, <2>2
<1>6. CASE Rotate
  <2>1. Present' = {}
    <3>1. past' = past \cup { v[1] : v \in Present } /\ stamp' = stamp
      BY <1>6 DEF Rotate
    <3>2. ASSUME NEW x \in Items, stamp[x] > 0, x \notin past
          PROVE  x \in past'
      <4>1. <<x, stamp[x]>> \in Present
        BY <3>2, PresentIs
      <4> QED
        BY <3>1, <4>1
    <3> QED
      BY <3>1, <3>2 DEF Present
  <2>2. \A y \in Items : stamp'[y] >= stamp[y]
    BY <1>1, <1>6 DEF Rotate
  <2>3. UNCHANGED <<kind, jobTables, run>>
    BY <1>6 DEF Rotate
  <2> QED
    BY <2>1, <2>2, <2>3
<1>7. CASE (\E x \in Items : Grow(x)) \/ \E x \in Items, t \in Stamps : Arrive(x, t)
  <2>1. UNCHANGED <<kind, jobTables, run>>
    BY <1>7 DEF Grow, Arrive
  <2> QED
    BY <1>4, <1>5, <1>7, <2>1
<1> QED
  BY <1>6, <1>7

\* What is new is neither stored nor pulled.
LEMMA SourceFresh ==
    ASSUME IngestTypeOK, IngestTypeOK',
           \/ \E x \in Items : Grow(x)
           \/ \E x \in Items, t \in Stamps : Arrive(x, t)
           \/ Rotate,
           \A i \in Rows : Old(bronze[i].got),
           NEW ck \in Checkpoints, NEW W, Old(W), NEW empty \in {0, 1}, Fresh(ck, W, empty)
    PROVE  Fresh(ck, W, empty)'
<1>1. /\ UNCHANGED <<kind, jobTables>>
      /\ \A v \in Present' : v \in Present \/ (v[2] > stamp[v[1]] /\ v[1] \in Items)
      /\ kind = "log_file" /\ Present' # {} => Latest(Present, 0) <= Latest(Present, 0)'
  BY SourceIs
<1>2. Copies(NoRun)' = Copies(NoRun) /\ Empties' = Empties /\ \A v : Copies(v)' = Copies(v)
  <2>1. RowsStay /\ Rows' = Rows
    BY <1>1 DEF jobTables, RowsStay, Rows
  <2> QED
    BY <1>1, <2>1, CountsStay
<1>3. ASSUME NEW v \in Present', v \notin Present
      PROVE  Copies(v) = {} /\ v \notin W
  <2>1. v[2] > stamp[v[1]] /\ v[2] \in Nat /\ stamp[v[1]] \in Nat
    <3>1. v \in Versions
      BY PresentNext
    <3> QED
      BY <1>1, <1>3, <3>1, BoundAssumption DEF Versions, Stamps, IngestTypeOK
  <2>2. ~(v[2] <= stamp[v[1]])
    BY <2>1
  <2> QED
    BY <2>2 DEF Old, Copies
<1>4. \A v : Behind(v, ck)' <=> Behind(v, ck)
  BY <1>1 DEF Behind, Heeded
<1>5. ASSUME NEW v \in Present'
      PROVE  Cardinality(Copies(v))' + Extra(v, W)
                 <= Cardinality(Empties)' + empty + (IF Behind(v, ck)' THEN 1 ELSE 0)
  <2>1. CASE v \in Present
    BY <1>2, <1>4, <2>1 DEF Fresh
  <2>2. CASE v \notin Present
    <3>1. Cardinality(Copies(v)) = 0 /\ Extra(v, W) = 0 /\ Cardinality(Empties) \in Nat
      BY <1>3, <2>2, NoCopies, CountsAre DEF Extra
    <3> QED
      BY <1>2, <3>1
  <2> QED
    BY <2>1, <2>2
<1>6. ASSUME kind = "log_file", NEW v \in Present', v \in W \/ Copies(v) # {}
      PROVE  Heeded(ck, "offset") <= Latest(Present, 0)'
  <2>1. Heeded(ck, "offset") <= Latest(Present, 0)
    BY <1>3, <1>6 DEF Fresh
  <2>2. Latest(Present, 0) <= Latest(Present, 0)'
    BY <1>1, <1>6
  <2>3. Heeded(ck, "offset") \in Nat /\ Latest(Present, 0) \in Nat /\ Latest(Present, 0)' \in Nat
    <3>1. Present \in SUBSET Versions /\ Present' \in SUBSET Versions /\ 0 \in 0..MaxStamp
      BY PresentIs, PresentNext, BoundAssumption
    <3>2. \A V \in SUBSET Versions : Latest(V, 0) \in Nat
      BY <3>1, LatestIs, BoundAssumption
    <3>3. Latest(Present, 0)' = Latest(Present', 0)
      BY DEF Latest
    <3> QED
      BY <3>1, <3>2, <3>3, HeededIs, BoundAssumption
  <2> QED
    BY <2>1, <2>2, <2>3
<1>7. (Heeded(ck, "offset"))' = Heeded(ck, "offset")
  BY DEF Heeded
<1> QED
  BY <1>1, <1>2, <1>5, <1>6, <1>7 DEF Fresh, Extra

LEMMA FreshAfter ==
    ASSUME IngestTypeOK, NEW ck \in Checkpoints, Fresh(ck, {}, 0), NEW after, NEW W, NEW e \in {0, 1},
           \A v \in Present : v \in W => Cardinality(Copies(v)) <= Cardinality(Empties),
           \A v \in Present : \/ Behind(v, after)
                              \/ v \notin W /\ (e = 1 \/ Cardinality(Copies(v)) <= Cardinality(Empties)),
           kind = "log_file" => Heeded(after, "offset") <= Latest(Present, 0)
    PROVE  Fresh(after, W, e)
<1>1. ASSUME NEW v \in Present
      PROVE  Cardinality(Copies(v)) + Extra(v, W)
                 <= Cardinality(Empties) + e + (IF Behind(v, after) THEN 1 ELSE 0)
  <2>1. Cardinality(Copies(v)) \in Nat /\ Cardinality(Empties) \in Nat
    BY CountsAre
  <2>2. Cardinality(Copies(v)) <= Cardinality(Empties) + 1
    BY <2>1 DEF Fresh, Extra
  <2>3. CASE v \in W
    BY <2>1, <2>3 DEF Extra
  <2>4. CASE v \notin W
    BY <2>1, <2>2, <2>4 DEF Extra
  <2> QED
    BY <2>3, <2>4
<1> QED
  BY <1>1 DEF Fresh

\* A pull after the newest checkpoint finds nothing that is stored, unless a
\* pull has found nothing since.
LEMMA PullFresh ==
    ASSUME IngestTypeOK, NEW ck \in Checkpoints, NEW p \in Pulls(ck), Fresh(ck, {}, 0)
    PROVE  /\ Old(p.got)
           /\ \A v \in p.got : Cardinality(Copies(v)) <= Cardinality(Empties)
           /\ Fresh([type |-> p.type, value |-> p.value], p.got, Empty(p.got))
<1> DEFINE after == [type |-> p.type, value |-> p.value]
           e    == Empty(p.got)
<1> USE BoundAssumption
<1>1. /\ Present \in SUBSET Versions
      /\ \A v \in Present : v[2] \in Nat /\ v[2] > 0 /\ v[2] = stamp[v[1]]
  BY PresentIs DEF Stamps
<1>2. p.got \in SUBSET Present
  BY PullIs
<1>3. Old(p.got)
  BY <1>1, <1>2 DEF Old
<1>4. \A v : Cardinality(Copies(v)) \in Nat /\ Cardinality(Empties) \in Nat
  BY CountsAre
<1>5. \A v \in Present : ~Behind(v, ck) => Cardinality(Copies(v)) <= Cardinality(Empties)
  <2>1. ASSUME NEW v \in Present, ~Behind(v, ck)
        PROVE  Cardinality(Copies(v)) <= Cardinality(Empties)
    BY <1>4, <2>1 DEF Fresh, Extra
  <2> QED
    BY <2>1
<1>6. \A type \in {"updated_at", "offset"} : Heeded(ck, type) \in 0..MaxStamp /\ Heeded(ck, type) \in Nat
  BY HeededIs
<1>7. /\ \A v \in Present : v \in p.got => Cardinality(Copies(v)) <= Cardinality(Empties)
      /\ \A v \in Present : \/ Behind(v, after)
                            \/ v \notin p.got /\ (e = 1 \/ Cardinality(Copies(v)) <= Cardinality(Empties))
      /\ kind = "log_file" => Heeded(after, "offset") <= Latest(Present, 0)
  <2>1. CASE kind = "log_file"
    <3> DEFINE size   == Latest(Present, 0)
               offset == IF Heeded(ck, "offset") > size THEN 0 ELSE Heeded(ck, "offset")
    <3>1. p = [got |-> { v \in Present : v[2] > offset }, type |-> "offset", value |-> size]
      BY <2>1 DEF Pulls, PullLogFile
    <3>2. size \in Nat /\ \A v \in Present : v[2] <= size
      <4>1. 0 \in 0..MaxStamp
        OBVIOUS
      <4> QED
        BY <1>1, <4>1, LatestIs
    <3>3. Heeded(after, "offset") = size
      BY <3>1 DEF Heeded
    <3>4. \A v \in Present : Behind(v, after)
      BY <2>1, <3>2, <3>3 DEF Behind
    <3>5. ASSUME NEW v \in p.got
          PROVE  Cardinality(Copies(v)) <= Cardinality(Empties)
      <4>1. v \in Present /\ v[2] > offset
        BY <3>1
      <4>2. CASE Heeded(ck, "offset") > size
        <5>1. Copies(v) = {}
          BY <1>6, <2>1, <3>2, <4>1, <4>2 DEF Fresh
        <5> QED
          BY <1>4, <5>1, NoCopies
      <4>3. CASE ~(Heeded(ck, "offset") > size)
        <5>1. ~Behind(v, ck)
          BY <1>1, <1>6, <2>1, <4>1, <4>3 DEF Behind
        <5> QED
          BY <1>5, <4>1, <5>1
      <4> QED
        BY <4>2, <4>3
    <3> QED
      BY <3>2, <3>3, <3>4, <3>5
  <2>2. CASE kind = "filesystem_drop"
    <3> DEFINE lastSeen == Heeded(ck, "updated_at")
               got      == { v \in Present : v[2] > lastSeen }
    <3>1. p = [got |-> got, type |-> "updated_at", value |-> Latest(got, lastSeen)]
      BY <2>2 DEF Pulls, PullFilesystemDrop
    <3>2. /\ Latest(got, lastSeen) \in Nat
          /\ lastSeen <= Latest(got, lastSeen)
          /\ \A v \in got : v[2] <= Latest(got, lastSeen)
      <4>1. got \in SUBSET Versions /\ lastSeen \in 0..MaxStamp
        BY <1>1, <1>6
      <4> QED
        BY <4>1, LatestIs
    <3>3. after = [type |-> "updated_at", value |-> Latest(got, lastSeen)] /\ p.got = got
      BY <3>1
    <3>4. Heeded(after, "updated_at") = Latest(got, lastSeen)
      BY <3>3 DEF Heeded
    <3>5. \A v \in got : v[2] > lastSeen
      OBVIOUS
    <3>6. \A v \in Present : v \in got \/ v[2] <= lastSeen
      BY <1>1, <1>6
    <3>7. lastSeen \in Nat
      BY <1>6
    <3>8. \A v \in got : ~Behind(v, ck)
      BY <1>1, <2>2, <3>5, <3>7 DEF Behind
    <3>9. \A v \in Present : v[2] <= Latest(got, lastSeen)
      <4> HIDE DEF got, lastSeen
      <4> QED
        BY <1>1, <3>2, <3>6, <3>7
    <3>10. \A v \in Present : Behind(v, after)
      <4> HIDE DEF after
      <4> QED
        BY <2>2, <3>4, <3>9 DEF Behind
    <3> QED
      BY <1>5, <2>2, <3>3, <3>8, <3>10
  <2>3. CASE kind = "db_table"
    <3>1. p \in PullDBTable(ck)
      BY <2>3 DEF Pulls
    <3>2. PICK V \in SUBSET { v \in Present : v[2] > Heeded(ck, "updated_at") } :
             p = IF V = {} THEN [got |-> V, type |-> "offset", value |-> Heeded(ck, "offset")]
                           ELSE [got |-> V, type |-> "updated_at", value |-> Latest(V, 0)]
      BY <3>1 DEF PullDBTable
    <3>3. p.got = V /\ V \subseteq Present
      BY <3>2
    <3>4. \A v \in V : v[2] > Heeded(ck, "updated_at") /\ ~Behind(v, ck)
      BY <1>1, <1>6, <2>3, <3>2 DEF Behind
    <3>5. CASE V = {}
      <4>1. e = 1
        BY <2>3, <3>3, <3>5 DEF Empty
      <4> QED
        BY <2>3, <3>3, <3>5, <4>1
    <3>6. CASE V # {}
      <4>1. after = [type |-> "updated_at", value |-> Latest(V, 0)]
        BY <3>2, <3>6
      <4>2. Heeded(after, "updated_at") = Latest(V, 0)
        BY <4>1 DEF Heeded
      <4>3. Latest(V, 0) \in Nat /\ \A v \in V : v[2] <= Latest(V, 0)
        <5>1. V \in SUBSET Versions /\ 0 \in 0..MaxStamp
          BY <1>1, <3>3
        <5> QED
          BY <5>1, LatestIs
      <4>4. ASSUME NEW v \in Present
            PROVE  \/ Behind(v, after)
                   \/ v \notin p.got /\ Cardinality(Copies(v)) <= Cardinality(Empties)
        <5> HIDE DEF after
        <5>1. CASE v \in V
          BY <2>3, <4>2, <4>3, <5>1 DEF Behind
        <5>2. CASE v \notin V /\ Behind(v, ck)
          <6>1. PICK u \in V : TRUE
            BY <3>6
          <6>2. v[2] <= Heeded(ck, "updated_at") /\ Heeded(ck, "updated_at") < u[2] /\ u[2] <= Latest(V, 0)
            BY <2>3, <3>4, <4>3, <5>2 DEF Behind
          <6>3. v[2] <= Latest(V, 0)
            BY <1>1, <1>6, <3>3, <4>3, <6>2
          <6> QED
            BY <2>3, <4>2, <6>3 DEF Behind
        <5>3. CASE v \notin V /\ ~Behind(v, ck)
          BY <1>5, <3>3, <5>3
        <5> QED
          BY <5>1, <5>2, <5>3
      <4> QED
        BY <1>5, <2>3, <3>3, <3>4, <4>4
    <3> QED
      BY <3>5, <3>6
  <2> QED
    BY <2>1, <2>2, <2>3 DEF IngestTypeOK, Kinds
<1>8. Fresh(after, p.got, e)
  <2>1. e \in {0, 1}
    BY DEF Empty
  <2> HIDE DEF after, e
  <2> QED
    BY <1>7, <2>1, FreshAfter
<1> QED
  BY <1>2, <1>3, <1>7, <1>8

LEMMA UndisturbedStep ==
    ASSUME IngestTypeOK, [IngestNext]_ingestVars, Quiet'
    PROVE  /\ Quiet
           /\ \/ \/ \E x \in Items : Grow(x)
                 \/ \E x \in Items, t \in Stamps : Arrive(x, t)
                 \/ Rotate
              \/ \E j \in Jobs : CreateJob(j)
              \/ \E r \in Runners : RunJob(r) \/ PullFails(r)
              \/ UNCHANGED ingestVars
<1>1. ~Fault
  BY BoundAssumption DEF Fault, Quiet, IngestTypeOK
<1>2. ASSUME NEW r \in Runners, RunJob(r)
      PROVE  Quiet
  <2>1. CASE SaveCheckpoint(r)
    BY <2>1 DEF SaveCheckpoint, Quiet, IngestTypeOK
  <2>2. CASE ~SaveCheckpoint(r)
    BY <1>2, <2>2 DEF RunJob, Load, MarkRunning, Resume, Pull, WriteBronze, Derive, DeriveUpTo, CompleteJob, Quiet,
                      IngestTypeOK
  <2> QED
    BY <2>1, <2>2
<1>3. ASSUME NEW r \in Runners, RunFails(r)
      PROVE  PullFails(r) /\ Quiet
  BY <1>1, <1>3 DEF RunFails, PullFails, ResumeFails, BronzeFails, DeriveFails, SaveFails, RunCut, Quiet
<1>4. ~Crash
  BY <1>1 DEF Crash
<1>5. CASE \/ \E x \in Items : Grow(x)
           \/ \E x \in Items, t \in Stamps : Arrive(x, t)
           \/ Rotate
  BY <1>5 DEF Grow, Arrive, Rotate, Quiet
<1>6. CASE (\E j \in Jobs : CreateJob(j)) \/ UNCHANGED ingestVars
  BY <1>6 DEF CreateJob, ingestVars, Quiet
<1> QED
  BY <1>2, <1>3, <1>4, <1>5, <1>6 DEF IngestNext

\* While runs do not overlap, the goroutine of a step is the only one.
LEMMA AloneStep ==
    ASSUME IngestTypeOK, Single, NEW r \in Runners, RunJob(r) \/ PullFails(r), Quiet'
    PROVE  \A q \in Runners : q # r => run[q] = NoRun /\ run'[q] = NoRun
<1>1. \A q \in Runners : q # r => run'[q] = run[q]
  BY OthersStay DEF RunFails
<1>2. CASE run[r] = NoRun
  <2>1. PICK j \in Jobs : Load(r, j)
    BY <1>2 DEF RunJob, MarkRunning, Resume, Pull, WriteBronze, Derive, DeriveUpTo, SaveCheckpoint, CompleteJob,
                PullFails, NoRun
  <2>2. \A q \in Runners : run[q] = NoRun
    BY <2>1 DEF Load, Quiet
  <2> QED
    BY <1>1, <2>2
<1>3. CASE run[r] # NoRun
  BY <1>1, <1>3 DEF Single
<1> QED
  BY <1>2, <1>3

LEMMA SaveIs ==
    ASSUME AgreeInv, Single, NEW r \in Runners, SaveCheckpoint(r), Quiet'
    PROVE  /\ run[r].job \in Jobs
           /\ newest' = {run[r].job}
           /\ checkpoint'[run[r].job] = run[r].next
           /\ \A j \in Jobs \ {run[r].job} : checkpoint'[j] = checkpoint[j]
           /\ run'[r].pc = "saved" /\ run'[r].job = run[r].job
           /\ UNCHANGED <<source, status, bronze>>
<1> DEFINE k == run[r].job
<1> USE DEF AgreeInv
<1>1. k \in Jobs /\ run[r].next \in CheckpointRows /\ run[r] # NoRun /\ run[r].pc = "derived"
  BY RunShape DEF SaveCheckpoint
<1>2. checkpoint[k] = NoCheckpoint /\ run[r].next # NoCheckpoint
  BY <1>1 DEF Single, CheckpointRows, NoCheckpoint
<1>3. /\ checkpoint' = [checkpoint EXCEPT ![k] = run[r].next]
      /\ run' = [run EXCEPT ![r] = [pc |-> "saved", job |-> k]]
      /\ UNCHANGED <<source, status, bronze>>
  BY DEF SaveCheckpoint
<1>4. newest' \in {{k}, newest \cup {k}} /\ (newest \ {k} = {} \/ newest' = {k})
  BY <1>2 DEF SaveCheckpoint, Quiet
<1> QED
  BY <1>1, <1>3, <1>4 DEF IngestTypeOK

LEMMA SingleNext ==
    ASSUME AgreeInv, Single, NEW r \in Runners, RunJob(r) \/ PullFails(r), Quiet'
    PROVE  Single'
<1> DEFINE k == run[r].job
<1> USE DEF AgreeInv
<1>1. \A q \in Runners : q # r => run[q] = NoRun /\ run'[q] = NoRun
  BY AloneStep
<1>2. NoRun.pc = "idle"
  BY DEF NoRun
<1>3. \A r1, q \in Runners : run'[r1] # NoRun /\ run'[q] # NoRun => r1 = q
  BY <1>1
<1>4. SUFFICES /\ newest' = {} \/ \E j \in Jobs : newest' = {j}
               /\ \A j \in Jobs : checkpoint'[j] # NoCheckpoint =>
                      status'[j] = "completed" \/ (run'[r].pc = "saved" /\ run'[r].job = j)
               /\ run'[r] # NoRun /\ run'[r].pc # "saved" => checkpoint'[run'[r].job] = NoCheckpoint
  BY <1>1, <1>3 DEF Single
<1>5. \A j \in Jobs : checkpoint[j] # NoCheckpoint =>
          status[j] = "completed" \/ (run[r].pc = "saved" /\ run[r].job = j)
  BY <1>1, <1>2 DEF Single
<1>6. CASE \E j \in Jobs : Load(r, j)
  <2>1. PICK j \in Jobs : Load(r, j)
    BY <1>6
  <2>2. run'[r] = [pc |-> "loaded", job |-> j] /\ run[r] = NoRun /\ Runnable(j) /\ UNCHANGED <<status, checkpoint, newest>>
    BY <2>1 DEF Load, IngestTypeOK, jobTables
  <2>3. \A i \in Jobs : checkpoint[i] # NoCheckpoint => status[i] = "completed"
    BY <1>2, <1>5, <2>2
  <2> QED
    BY <2>2, <2>3 DEF Single, Runnable
<1>7. CASE MarkRunning(r) \/ Resume(r) \/ Pull(r) \/ WriteBronze(r) \/ Derive(r) \/ PullFails(r)
  <2>1. run[r].pc \in {"loaded", "marked", "resumed", "pulled", "stored"} /\ UNCHANGED <<checkpoint, newest>>
    BY <1>7 DEF MarkRunning, Resume, Pull, WriteBronze, Derive, DeriveUpTo, PullFails, jobTables
  <2>2. k \in Jobs /\ run[r] # NoRun /\ checkpoint[k] = NoCheckpoint
    BY <2>1, RunShape DEF Single
  <2>3. \A j \in Jobs : j # k => status'[j] = status[j]
    BY <1>7 DEF MarkRunning, Resume, Pull, WriteBronze, Derive, DeriveUpTo, PullFails, jobTables, IngestTypeOK
  <2>4. run'[r] # NoRun => run'[r].job = k
    BY <2>2, StepOf DEF RunFails
  <2> QED
    BY <1>5, <2>1, <2>2, <2>3, <2>4 DEF Single
<1>8. CASE SaveCheckpoint(r)
  <2>1. /\ k \in Jobs /\ newest' = {k} /\ status' = status
        /\ \A j \in Jobs \ {k} : checkpoint'[j] = checkpoint[j]
        /\ run'[r].pc = "saved" /\ run'[r].job = k
    BY <1>8, SaveIs
  <2>2. run[r].pc # "saved"
    BY <1>8 DEF SaveCheckpoint
  <2> QED
    BY <1>5, <2>1, <2>2
<1>9. CASE CompleteJob(r)
  <2>1. /\ run[r].pc = "saved" /\ UNCHANGED <<checkpoint, newest>> /\ run'[r] = NoRun
        /\ status' = [status EXCEPT ![k] = "completed"]
    BY <1>9 DEF CompleteJob, Stop, IngestTypeOK
  <2>2. k \in Jobs
    BY <2>1, RunShape
  <2> QED
    BY <1>5, <2>1, <2>2 DEF Single, IngestTypeOK
<1> QED
  BY <1>6, <1>7, <1>8, <1>9 DEF RunJob

\* A step that leaves the source and what is stored alone.
LEMMA FreshStays ==
    ASSUME UNCHANGED source, RowsStay, Rows' = Rows, NEW ck, NEW W, NEW e, Fresh(ck, W, e)
    PROVE  Fresh(ck, W, e)'
<1>1. Empties' = Empties /\ \A v : Copies(v)' = Copies(v)
  BY CountsStay DEF source
<1>2. Present' = Present /\ kind' = kind
  BY DEF source, Present
<1>3. Latest(Present, 0)' = Latest(Present, 0)
  BY <1>2 DEF Latest
<1>4. \A v : Behind(v, ck)' <=> Behind(v, ck)
  BY <1>2 DEF Behind, Heeded
<1> QED
  BY <1>1, <1>2, <1>3, <1>4 DEF Fresh, Extra, Heeded

\* The parts of Counted that speak of the rows alone.
LEMMA RowsCounted ==
    ASSUME UNCHANGED source, RowsStay, Rows' = Rows, Counted
    PROVE  /\ \A v \in Versions : Cardinality(Copies(v))' <= 1 + Cardinality(Empties)'
           /\ \A i \in Rows' : Old(bronze[i].got)'
<1>1. Empties' = Empties /\ \A v : Copies(v)' = Copies(v)
  BY CountsStay DEF source
<1> QED
  BY <1>1 DEF Counted, RowsStay, Old, source

LEMMA PullCounted ==
    ASSUME IngestTypeOK, NEW r \in Runners, Pull(r), Single, Counted, RowsStay, Rows' = Rows,
           \A q \in Runners : q # r => run[q] = NoRun
    PROVE  RunCounted(r)'
<1> DEFINE ck == run[r].from
<1>1. PICK p \in Pulls(ck) :
        run' = [run EXCEPT ![r] = [pc |-> "pulled", job |-> @.job, got |-> p.got,
                                   next |-> [type |-> p.type, value |-> p.value]]]
  BY DEF Pull
<1>2. ck \in Checkpoints /\ ck \in Newest
  BY RunShape DEF Pull, Counted, RunCounted
<1>3. Fresh(ck, {}, 0)
  <2>1. \A q \in Runners : run[q].pc \notin {"stored", "derived"}
    BY DEF Pull, NoRun
  <2> QED
    BY <1>2, <2>1 DEF Counted
<1> HIDE DEF ck
<1>4. PICK after, W, e : after = [type |-> p.type, value |-> p.value] /\ W = p.got /\ e = Empty(p.got)
  OBVIOUS
<1>5. /\ Old(W)
      /\ \A v \in W : Cardinality(Copies(v)) <= Cardinality(Empties)
      /\ Fresh(after, W, e)
  BY <1>1, <1>2, <1>3, <1>4, PullFresh
<1>6. UNCHANGED source
  BY DEF Pull
<1>7. Fresh(after, W, e)'
  BY <1>5, <1>6, FreshStays
<1>8. Empties' = Empties /\ \A v : Copies(v)' = Copies(v)
  BY <1>6, CountsStay DEF source
<1>9. Old(W)' /\ Empty(W)' = e
  BY <1>4, <1>5, <1>6 DEF Old, Empty, source
<1>10. run'[r].pc = "pulled" /\ run'[r].got = W /\ run'[r].next = after
  BY <1>1, <1>4 DEF IngestTypeOK
<1> QED
  BY <1>5, <1>7, <1>8, <1>9, <1>10 DEF RunCounted

LEMMA WriteCounted ==
    ASSUME IngestTypeOK, NEW r \in Runners, WriteBronze(r), Counted, RowsStay, RowAdded(r)
    PROVE  /\ \A v \in Versions : Cardinality(Copies(v))' <= 1 + Cardinality(Empties)'
           /\ \A i \in Rows' : Old(bronze[i].got)'
           /\ RunCounted(r)'
<1>1. UNCHANGED source /\ run[r].pc = "pulled"
  BY DEF WriteBronze
<1>2. PICK after, W, e : after = run[r].next /\ W = run[r].got /\ e = Empty(run[r].got)
  OBVIOUS
<1>3. /\ Old(W)
      /\ \A v \in W : Cardinality(Copies(v)) <= Cardinality(Empties)
      /\ Fresh(after, W, e)
  BY <1>1, <1>2 DEF Counted, RunCounted
<1>4. /\ \A v : Cardinality(Copies(v))' = Cardinality(Copies(v)) + Extra(v, W)
      /\ \A v : Copies(v)' # {} => v \in W \/ Copies(v) # {}
      /\ Cardinality(Empties)' = Cardinality(Empties) + e
  BY <1>1, <1>2, CountsGrow DEF source
<1>5. e \in {0, 1} /\ Cardinality(Empties) \in Nat /\ \A v : Cardinality(Copies(v)) \in Nat
  BY <1>2, CountsAre DEF Empty
<1>6. ASSUME NEW v \in Versions
      PROVE  Cardinality(Copies(v))' <= 1 + Cardinality(Empties)'
  <2>1. Cardinality(Copies(v)) <= 1 + Cardinality(Empties)
    BY DEF Counted
  <2>2. CASE v \in W
    BY <1>3, <1>4, <1>5, <2>2 DEF Extra
  <2>3. CASE v \notin W
    BY <1>4, <1>5, <2>1, <2>3 DEF Extra
  <2> QED
    BY <2>2, <2>3
<1>7. ASSUME NEW i \in Rows'
      PROVE  Old(bronze[i].got)'
  <2>1. CASE i \in Rows
    BY <1>1, <2>1 DEF Counted, RowsStay, Old, source
  <2>2. CASE i \notin Rows
    BY <1>1, <1>2, <1>3, <1>7, <2>2 DEF RowAdded, Old, source
  <2> QED
    BY <2>1, <2>2
<1>8. Fresh(after, {}, 0)'
  <2>1. Present' = Present /\ kind' = kind
    BY <1>1 DEF source, Present
  <2>2. Latest(Present, 0)' = Latest(Present, 0)
    BY <2>1 DEF Latest
  <2>3. \A v : Behind(v, after)' <=> Behind(v, after)
    BY <2>1 DEF Behind, Heeded
  <2>4. ASSUME NEW v \in Present
        PROVE  Cardinality(Copies(v))' + Extra(v, {}) <= Cardinality(Empties)' + 0 + (IF Behind(v, after) THEN 1 ELSE 0)
    <3>1. Cardinality(Copies(v)) + Extra(v, W) <= Cardinality(Empties) + e + (IF Behind(v, after) THEN 1 ELSE 0)
      BY <1>3 DEF Fresh
    <3>2. Extra(v, {}) = 0 /\ Extra(v, W) \in Nat
      BY DEF Extra
    <3> QED
      BY <1>4, <1>5, <3>1, <3>2
  <2>5. kind = "log_file" /\ (\E v \in Present : Copies(v)' # {}) => Heeded(after, "offset") <= Latest(Present, 0)
    BY <1>3, <1>4 DEF Fresh
  <2> QED
    BY <2>1, <2>2, <2>3, <2>4, <2>5 DEF Fresh, Extra, Heeded
<1>9. run'[r].pc = "stored" /\ run'[r].next = after
  BY <1>2 DEF WriteBronze, IngestTypeOK
<1> QED
  BY <1>6, <1>7, <1>8, <1>9 DEF RunCounted

LEMMA CountedNext ==
    ASSUME AgreeInv, Single, Counted, NEW r \in Runners, RunJob(r) \/ PullFails(r), Quiet', RowsStay
    PROVE  Counted'
<1> USE DEF AgreeInv
<1>1. \A q \in Runners : q # r => run[q] = NoRun /\ run'[q] = NoRun
  BY AloneStep
<1>2. ASSUME NEW q \in Runners, q # r
      PROVE  RunCounted(q)'
  BY <1>1, <1>2 DEF RunCounted, NoRun
<1>3. \A q \in Runners : q # r => run[q].pc = "idle" /\ run'[q].pc = "idle"
  BY <1>1 DEF NoRun
<1>4. CASE WriteBronze(r)
  <2>1. RowAdded(r)
    BY <1>4, RowsAppended DEF WriteBronze, RowAdded
  <2>2. run'[r].pc = "stored"
    BY <1>4 DEF WriteBronze, IngestTypeOK
  <2> QED
    BY <1>2, <1>4, <2>1, <2>2, WriteCounted DEF Counted
<1>5. CASE Derive(r)
  <2>1. Rows' = Rows /\ UNCHANGED source
    BY <1>5, RowsDerived DEF Derive, DeriveUpTo
  <2>2. run[r].pc = "stored" /\ run'[r].pc = "derived" /\ run'[r].next = run[r].next
    BY <1>5 DEF Derive, DeriveUpTo, IngestTypeOK
  <2>3. PICK after : after = run[r].next
    OBVIOUS
  <2>4. Fresh(after, {}, 0)'
    BY <2>1, <2>2, <2>3, FreshStays DEF Counted, RunCounted
  <2>5. RunCounted(r)'
    BY <2>2, <2>3, <2>4 DEF RunCounted
  <2> QED
    BY <1>2, <2>1, <2>2, <2>5, RowsCounted DEF Counted
<1>6. CASE SaveCheckpoint(r)
  <2>1. /\ newest' = {run[r].job} /\ checkpoint'[run[r].job] = run[r].next
        /\ run'[r].pc = "saved" /\ UNCHANGED <<source, bronze>>
    BY <1>6, SaveIs
  <2>2. Rows' = Rows
    BY <2>1 DEF Rows
  <2>3. PICK after : after = run[r].next
    OBVIOUS
  <2>4. Fresh(after, {}, 0)'
    BY <1>6, <2>1, <2>2, <2>3, FreshStays DEF SaveCheckpoint, Counted, RunCounted
  <2>5. Newest' = {after}
    BY <2>1, <2>3 DEF Newest
  <2>6. RunCounted(r)'
    BY <2>1 DEF RunCounted
  <2> QED
    BY <1>2, <2>1, <2>2, <2>4, <2>5, <2>6, RowsCounted DEF Counted
<1>7. CASE \/ \E j \in Jobs : Load(r, j)
           \/ MarkRunning(r) \/ Resume(r) \/ Pull(r) \/ CompleteJob(r) \/ PullFails(r)
  <2>1. UNCHANGED <<source, checkpoint, newest, bronze>>
    BY <1>7 DEF Load, MarkRunning, Resume, Pull, CompleteJob, PullFails, jobTables
  <2>2. Rows' = Rows /\ Newest' = Newest
    BY <2>1 DEF Rows, Newest
  <2>3. run[r].pc \notin {"stored", "derived"}
    BY <1>7 DEF Load, MarkRunning, Resume, Pull, CompleteJob, PullFails, NoRun
  <2>4. \A ck \in Newest : Fresh(ck, {}, 0)
    BY <1>3, <2>3 DEF Counted
  <2>5. \A ck \in Newest : Fresh(ck, {}, 0)'
    BY <2>1, <2>2, <2>4, FreshStays
  <2>6. RunCounted(r)'
    <3>1. CASE Pull(r)
      BY <1>1, <2>2, <3>1, PullCounted
    <3>2. CASE Resume(r)
      <4>1. run'[r].pc = "resumed" /\ run'[r].from \in Newest
        BY <3>2 DEF Resume, IngestTypeOK
      <4> QED
        BY <2>2, <4>1 DEF RunCounted
    <3>3. CASE ~Pull(r) /\ ~Resume(r)
      <4>1. run'[r].pc \in {"loaded", "marked", "idle"}
        <5>1. CASE \E j \in Jobs : Load(r, j)
          BY <5>1 DEF Load, IngestTypeOK
        <5>2. CASE MarkRunning(r)
          BY <5>2, StepOf DEF MarkRunning, NoRun
        <5>3. CASE CompleteJob(r) \/ PullFails(r)
          BY <5>3 DEF CompleteJob, PullFails, Stop, NoRun, IngestTypeOK
        <5> QED
          BY <1>7, <3>3, <5>1, <5>2, <5>3
      <4> QED
        BY <4>1 DEF RunCounted
    <3> QED
      BY <3>1, <3>2, <3>3
  <2> QED
    BY <1>2, <2>1, <2>2, <2>5, <2>6, RowsCounted DEF Counted
<1> QED
  BY <1>4, <1>5, <1>6, <1>7 DEF RunJob

LEMMA SourceCounted ==
    ASSUME IngestTypeOK, IngestTypeOK', Counted,
           \/ \E x \in Items : Grow(x)
           \/ \E x \in Items, t \in Stamps : Arrive(x, t)
           \/ Rotate
    PROVE  Counted'
<1>1. UNCHANGED <<kind, jobTables, run>> /\ \A x \in Items : stamp'[x] >= stamp[x]
  BY SourceIs
<1>2. RowsStay /\ Rows' = Rows /\ Newest' = Newest
  BY <1>1 DEF jobTables, RowsStay, Rows, Newest
<1>3. Empties' = Empties /\ \A v : Copies(v)' = Copies(v)
  BY <1>1, <1>2, CountsStay
<1>4. \A V \in SUBSET Versions : Old(V) => Old(V)'
  <2>1. \A x \in Items : stamp[x] \in Nat /\ stamp'[x] \in Nat
    BY BoundAssumption DEF IngestTypeOK
  <2> QED
    BY <1>1, <2>1 DEF Old, Versions, Stamps
<1>5. \A i \in Rows : bronze[i].got \in SUBSET Versions
  <2>1. ASSUME NEW i \in Rows
        PROVE  bronze[i] \in BronzeRows
    BY ElementOfSeq DEF IngestTypeOK, Rows
  <2> QED
    BY <2>1 DEF BronzeRows
<1>6. ASSUME NEW ck \in Checkpoints, NEW W, Old(W), NEW e \in {0, 1}, Fresh(ck, W, e)
      PROVE  Fresh(ck, W, e)'
  BY <1>6, SourceFresh DEF Counted
<1>7. Old({})
  BY DEF Old
<1>8. Newest \subseteq Checkpoints
  BY DEF Newest, Checkpoints, IngestTypeOK
<1>9. ASSUME NEW r \in Runners
      PROVE  RunCounted(r)'
  <2>0. PICK after, W, e : after = run[r].next /\ W = run[r].got /\ e = Empty(run[r].got)
    OBVIOUS
  <2>1. e \in {0, 1} /\ Empty(W)' = e
    BY <1>1, <2>0 DEF Empty
  <2>2. CASE run[r].pc = "pulled"
    <3>1. after \in Checkpoints /\ W \in SUBSET Versions /\ Old(W) /\ Fresh(after, W, e)
      BY <2>0, <2>2, RunShape DEF Counted, RunCounted, Checkpoints
    <3>2. Old(W)' /\ Fresh(after, W, e)'
      BY <1>4, <1>6, <2>1, <3>1
    <3>3. \A v \in W : Cardinality(Copies(v)) <= Cardinality(Empties)
      BY <2>0, <2>2 DEF Counted, RunCounted
    <3> QED
      BY <1>1, <1>3, <2>0, <2>1, <2>2, <3>2, <3>3 DEF RunCounted
  <2>3. CASE run[r].pc \in {"stored", "derived"}
    <3>1. after \in Checkpoints /\ Fresh(after, {}, 0)
      BY <2>0, <2>3, RunShape DEF Counted, RunCounted, Checkpoints
    <3>2. Fresh(after, {}, 0)'
      BY <1>6, <1>7, <3>1
    <3> QED
      BY <1>1, <2>0, <2>3, <3>2 DEF RunCounted
  <2>4. CASE run[r].pc \notin {"pulled", "stored", "derived"}
    BY <1>1, <1>2, <2>4 DEF RunCounted, Counted
  <2> QED
    BY <2>2, <2>3, <2>4
<1>10. (\A r \in Runners : run'[r].pc \notin {"stored", "derived"}) => \A ck \in Newest : Fresh(ck, {}, 0)'
  BY <1>1, <1>6, <1>7, <1>8 DEF Counted
<1>11. \A i \in Rows : Old(bronze[i].got)'
  <2>1. ASSUME NEW i \in Rows
        PROVE  Old(bronze[i].got)'
    <3>1. PICK V \in SUBSET Versions : V = bronze[i].got
      BY <1>5
    <3>2. Old(V)'
      BY <1>4, <3>1 DEF Counted
    <3> QED
      BY <1>1, <3>1, <3>2 DEF jobTables
  <2> QED
    BY <2>1
<1> QED
  BY <1>2, <1>3, <1>9, <1>10, <1>11 DEF Counted

LEMMA IngestInitOnce == IngestInit => OnceInv
<1> SUFFICES ASSUME IngestInit
             PROVE  OnceInv
  OBVIOUS
<1>1. AgreeInv /\ PastIsLog
  BY IngestInitAgree, IngestInitPassed DEF PassedInv
<1>2. Rows = {} /\ Newest = {NoCheckpoint} /\ \A r \in Runners : run[r] = NoRun
  BY DEF IngestInit, Rows, Newest
<1>3. (\A v : Copies(v) = {}) /\ Empties = {} /\ Present = {}
  BY <1>2 DEF Copies, Empties, IngestInit, Present
<1>4. Single
  BY <1>2 DEF Single, IngestInit
<1>5. Counted
  BY <1>2, <1>3, FS_EmptySet DEF Counted, RunCounted, Fresh, NoRun
<1> QED
  BY <1>1, <1>4, <1>5 DEF OnceInv

LEMMA IngestNextOnce == OnceInv /\ [IngestNext]_ingestVars => OnceInv'
<1> SUFFICES ASSUME OnceInv, [IngestNext]_ingestVars
             PROVE  OnceInv'
  OBVIOUS
<1> USE DEF OnceInv, AgreeInv
<1>1. AgreeInv' /\ IngestTypeOK'
  BY IngestNextAgree
<1>2. RowsStay
  BY RowsStep
<1>3. PastIsLog'
  <2>1. CASE Rotate
    BY <2>1 DEF Rotate, PastIsLog
  <2>2. CASE ~Rotate
    <3>1. UNCHANGED <<kind, past>>
      <4>1. CASE \E r \in Runners : RunJob(r) \/ RunFails(r)
        BY <4>1 DEF RunJob, RunFails, Load, MarkRunning, Resume, Pull, WriteBronze, Derive, DeriveUpTo, SaveCheckpoint,
             CompleteJob, PullFails, ResumeFails, BronzeFails, DeriveFails, SaveFails, RunCut, source
      <4>2. CASE ~ \E r \in Runners : RunJob(r) \/ RunFails(r)
        BY <2>2, <4>2 DEF IngestNext, Grow, Arrive, CreateJob, Crash, ingestVars, source
      <4> QED
        BY <4>1, <4>2
    <3> QED
      BY <3>1 DEF PastIsLog
  <2> QED
    BY <2>1, <2>2
<1>4. ASSUME Quiet'
      PROVE  Single' /\ Counted'
  <2>1. Single /\ Counted
    BY <1>4, UndisturbedStep
  <2>2. ASSUME NEW r \in Runners, RunJob(r) \/ PullFails(r)
        PROVE  Single' /\ Counted'
    BY <1>2, <1>4, <2>1, <2>2, SingleNext, CountedNext
  <2>3. CASE \/ \E x \in Items : Grow(x)
             \/ \E x \in Items, t \in Stamps : Arrive(x, t)
             \/ Rotate
    <3>1. UNCHANGED <<kind, jobTables, run>>
      BY <1>1, <2>3, SourceIs
    <3>2. Counted'
      BY <1>1, <2>1, <2>3, SourceCounted
    <3>3. Single'
      BY <2>1, <3>1 DEF Single, jobTables
    <3> QED
      BY <3>2, <3>3
  <2>4. ASSUME NEW j \in Jobs, CreateJob(j)
        PROVE  Single' /\ Counted'
    <3>1. /\ UNCHANGED <<source, checkpoint, newest, bronze, run>> /\ status[j] = "absent"
          /\ \A i \in Jobs : i # j => status'[i] = status[i]
      BY <2>4 DEF CreateJob, IngestTypeOK
    <3>2. Single'
      BY <2>1, <3>1 DEF Single, RowsAgree
    <3>3. Rows' = Rows /\ Newest' = Newest
      BY <3>1 DEF Rows, Newest
    <3>4. Counted'
      <4>1. \A ck, W, e : Fresh(ck, W, e) => Fresh(ck, W, e)'
        BY <1>2, <3>1, <3>3, FreshStays
      <4>2. Empties' = Empties /\ \A v : Copies(v)' = Copies(v)
        BY <1>2, <3>1, <3>3, CountsStay DEF source
      <4>3. \A W : (Old(W)' <=> Old(W)) /\ Empty(W)' = Empty(W)
        BY <3>1 DEF Old, Empty, source
      <4>4. \A r \in Runners : RunCounted(r)'
        BY <2>1, <3>1, <3>3, <4>1, <4>2, <4>3 DEF Counted, RunCounted
      <4> QED
        BY <1>2, <2>1, <3>1, <3>3, <4>1, <4>4, RowsCounted DEF Counted
    <3> QED
      BY <3>2, <3>4
  <2>5. CASE UNCHANGED ingestVars
    <3>1. UNCHANGED <<kind, past, stamp, late, status, checkpoint, newest, bronze, run>>
      BY <2>5 DEF ingestVars, source, jobTables
    <3>2. Single'
      BY <2>1, <3>1 DEF Single
    <3>3. Counted'
      <4>1. Rows' = Rows /\ Newest' = Newest /\ UNCHANGED source
        BY <3>1 DEF Rows, Newest, source
      <4>2. \A ck, W, e : Fresh(ck, W, e) => Fresh(ck, W, e)'
        BY <1>2, <4>1, FreshStays
      <4>3. Empties' = Empties /\ \A v : Copies(v)' = Copies(v)
        BY <1>2, <4>1, CountsStay DEF source
      <4>4. \A W : (Old(W)' <=> Old(W)) /\ Empty(W)' = Empty(W)
        BY <3>1 DEF Old, Empty
      <4>5. \A r \in Runners : RunCounted(r)'
        BY <2>1, <3>1, <4>1, <4>2, <4>3, <4>4 DEF Counted, RunCounted
      <4> QED
        BY <1>2, <2>1, <3>1, <4>1, <4>2, <4>5, RowsCounted DEF Counted
    <3> QED
      BY <3>2, <3>3
  <2> QED
    BY <1>4, <2>2, <2>3, <2>4, <2>5, UndisturbedStep
<1> QED
  BY <1>1, <1>3, <1>4

\* While runs do not overlap or fail and save their checkpoints in different
\* seconds, nothing is stored twice, but for the pulls of a table that found
\* nothing (runner.go, RunJob, pullDBTable).
THEOREM StoredOnce == IngestSpec => []OnceWhenUndisturbed
<1>1. OnceInv => OnceWhenUndisturbed
  BY DEF OnceInv, OnceWhenUndisturbed, Quiet, Counted, Empties
<1> QED
  BY <1>1, IngestInitOnce, IngestNextOnce, PTL DEF IngestSpec
=============================================================================
