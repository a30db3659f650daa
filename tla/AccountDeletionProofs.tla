----------------------- MODULE AccountDeletionProofs -----------------------
(***************************************************************************)
(* Theorems about AccountDeletion, for every set of users, every finite    *)
(* set of request goroutines and every bound.                              *)
(*                                                                         *)
(* The bounds on what late requests leave behind count the data of a user  *)
(* together with the requests of the user that are under way: a request    *)
(* that writes gives up its own place in the count.                        *)
(***************************************************************************)
EXTENDS AccountDeletion, FiniteSetTheorems, TLAPS

\* The deletion request i is of one user, and of none before it is inserted.
OneAsker ==
    \A i \in Deletions :
        /\ status[i] = "absent" => asker[i] = {}
        /\ \A u, v \in asker[i] : u = v

\* The worker is at work on requests that have come due.
TodoIsDue == \A i \in todo : due[i] /\ status[i] # "absent"

AccountInv == TypeOK /\ OneAsker /\ TodoIsDue /\ AccountAgrees

BookInv == TypeOK /\ TicketKeepsAddress

\* The part of ResidueBounded that is about u.
Within(u) ==
    deleted[u] => Cardinality(book[u]) + (IF personal[u] THEN 1 ELSE 0) + Cardinality(Of(u))
                      <= Cardinality(Requests)

ResidueInv == TypeOK /\ \A u \in Users : Within(u)

\* The requests that will make the address they insert the default of u.
Claims(u) == { r \in Of(u) : req[r].pc = "counted" /\ req[r].first }

\* The part of DefaultsBounded that is about u.
Capped(u) ==
    Cardinality(default \cap book[u]) + Cardinality(Claims(u)) <= Cardinality(Requests) + faults

DefaultsInv == BookInv /\ \A u \in Users : Capped(u)

-----------------------------------------------------------------------------
(* Type correctness.                                                       *)

\* A request that is past Begin has its locals.
LEMMA ActiveRequest ==
    ASSUME TypeOK, NEW r \in Requests, req[r].pc # "idle"
    PROVE  req[r] \in Locals /\ req[r] # NoRequest /\ req[r].user \in Users
BY DEF TypeOK, NoRequest, Locals

LEMMA InitType == Init => TypeOK
BY BoundAssumption DEF Init, TypeOK

LEMMA AnonymizeType ==
    ASSUME TypeOK, NEW u \in Users, AnonymizeUser(u), todo' \in SUBSET Deletions, hard' \in SUBSET Users
    PROVE  TypeOK'
BY DEF AnonymizeUser, TypeOK

LEMMA NextType == TypeOK /\ [Next]_vars => TypeOK'
<1> SUFFICES ASSUME TypeOK, [Next]_vars
             PROVE  TypeOK'
  OBVIOUS
<1> USE BoundAssumption DEF TypeOK, account, addressT, deletion
<1>1. ASSUME NEW r \in Requests, NEW u \in Users, Begin(r, u)
      PROVE  TypeOK'
  BY <1>1 DEF Begin, Locals
<1>2. ASSUME NEW r \in Requests, UpdateProfile(r)
      PROVE  TypeOK'
  BY <1>2 DEF UpdateProfile, Done
<1>3. ASSUME NEW r \in Requests, CountAddresses(r)
      PROVE  TypeOK'
  BY <1>3, ActiveRequest DEF CountAddresses, IsDefault, Locals
<1>4. ASSUME NEW r \in Requests, CountFails(r)
      PROVE  TypeOK'
  BY <1>4, ActiveRequest DEF CountFails, Fault, Locals
<1>5. ASSUME NEW r \in Requests, Insert(r)
      PROVE  TypeOK'
  BY <1>5, ActiveRequest DEF Insert, Done
<1>6. ASSUME NEW r \in Requests, NEW a \in Addresses, DeleteAddress(r, a)
      PROVE  TypeOK'
  BY <1>6, ActiveRequest DEF DeleteAddress, Done
<1>7. ASSUME NEW r \in Requests, NEW a \in Addresses, LoadAddress(r, a)
      PROVE  TypeOK'
  BY <1>7, ActiveRequest DEF LoadAddress, Locals
<1>8. ASSUME NEW r \in Requests, NEW a \in Addresses, CheckOwner(r, a)
      PROVE  TypeOK'
  BY <1>8, ActiveRequest DEF CheckOwner, Locals
<1>9. ASSUME NEW r \in Requests, SetDefault(r)
      PROVE  TypeOK'
  BY <1>9, ActiveRequest DEF SetDefault, Done
<1>10. ASSUME NEW r \in Requests, FileTicket(r)
       PROVE  TypeOK'
  BY <1>10 DEF FileTicket, Referable, Done
<1>11. ASSUME NEW r \in Requests, CheckPending(r)
       PROVE  TypeOK'
  <2>1. req[r] \in [pc : {"authed", "unasked"}, user : Users]
    BY <1>11, ActiveRequest DEF CheckPending, Locals
  <2> QED
    BY <1>11, <2>1 DEF CheckPending, Locals
<1>12. ASSUME NEW r \in Requests, CommitDeletion(r)
       PROVE  TypeOK'
  BY <1>12, ActiveRequest DEF CommitDeletion, Done
<1>13. ASSUME NEW r \in Requests, RequestFails(r)
       PROVE  TypeOK'
  BY <1>13 DEF RequestFails, Fault, Done
<1>14. ASSUME NEW i \in Deletions, ComeDue(i)
       PROVE  TypeOK'
  BY <1>14 DEF ComeDue
<1>15. ASSUME NEW i \in Deletions, Anonymize(i)
       PROVE  TypeOK'
  BY <1>15, AnonymizeType DEF Anonymize
<1>16. ASSUME NEW i \in Deletions, AnonymizeBlocked(i)
       PROVE  TypeOK'
  BY <1>16 DEF AnonymizeBlocked
<1>17. ASSUME NEW i \in Deletions, AnonymizeFails(i)
       PROVE  TypeOK'
  BY <1>17 DEF AnonymizeFails, Fault
<1>18. ASSUME NEW u \in Users, HardDelete(u)
       PROVE  TypeOK'
  BY <1>18, AnonymizeType DEF HardDelete
<1>19. CASE SelectDue
  BY <1>19 DEF SelectDue, Due
<1>20. CASE Crash
  BY <1>20 DEF Crash, Fault
<1>21. CASE UNCHANGED vars
  BY <1>21 DEF vars
<1> QED
  BY <1>1, <1>2, <1>3, <1>4, <1>5, <1>6, <1>7, <1>8, <1>9, <1>10, <1>11, <1>12, <1>13,
     <1>14, <1>15, <1>16, <1>17, <1>18, <1>19, <1>20, <1>21 DEF Next, Request

\* Every column and every request's locals keep their types.
THEOREM TypeCorrect == Spec => []TypeOK
<1>1. Init => TypeOK
  BY InitType
<1>2. TypeOK /\ [Next]_vars => TypeOK'
  BY NextType
<1> QED
  BY <1>1, <1>2, PTL DEF Spec

-----------------------------------------------------------------------------
(* The accounts and their deletion requests.                               *)

LEMMA InitAccount == Init => AccountInv
BY InitType DEF Init, AccountInv, OneAsker, TodoIsDue, AccountAgrees

\* A step that leaves flags and deletion requests alone.
LEMMA QuietAccount ==
    ASSUME AccountInv, TypeOK', UNCHANGED <<active, deleted, deletion, hard>>, todo' \subseteq todo
    PROVE  AccountInv'
BY DEF AccountInv, OneAsker, TodoIsDue, AccountAgrees, deletion

\* The anonymization of u, either by hand or for a due request.
LEMMA AnonymizeAccount ==
    ASSUME AccountInv, TypeOK', NEW u \in Users, AnonymizeUser(u), todo' \subseteq todo,
           hard \subseteq hard',
           u \in hard' \/ \E i \in todo : u \in asker[i]
    PROVE  AccountInv'
<1> USE DEF AccountInv, TypeOK
<1>1. UNCHANGED <<asker, due>>
  BY DEF AnonymizeUser
<1>2. \A v \in Users : /\ active'[v] = IF v = u THEN FALSE ELSE active[v]
                       /\ deleted'[v] = IF v = u THEN TRUE ELSE deleted[v]
  BY DEF AnonymizeUser
<1>3. \A i \in Deletions :
          status'[i] = IF status[i] = "pending" /\ u \in asker[i] THEN "anonymized" ELSE status[i]
  BY DEF AnonymizeUser
<1>4. OneAsker'
  BY <1>1, <1>3 DEF OneAsker
<1>5. TodoIsDue'
  BY <1>1, <1>3 DEF TodoIsDue
<1>6. AccountAgrees'
  <2> SUFFICES ASSUME NEW v \in Users
               PROVE  /\ \A i \in Deletions : v \in asker[i] => ~active'[v]
                      /\ ~active'[v] => v \in hard' \/ \E i \in Deletions : v \in asker[i]
                      /\ deleted'[v] => ~active'[v] /\ (v \in hard' \/ \E i \in Deletions : v \in asker[i] /\ due[i])
                      /\ \A i \in Deletions : v \in asker[i] /\ status'[i] = "anonymized" => deleted'[v]
    BY <1>1 DEF AccountAgrees
  <2>1. CASE v = u
    BY <1>2, <2>1 DEF TodoIsDue
  <2>2. CASE v # u
    <3>1. active'[v] = active[v] /\ deleted'[v] = deleted[v]
      BY <1>2, <2>2
    <3>2. ASSUME NEW i \in Deletions, v \in asker[i]
          PROVE  status'[i] = status[i]
      BY <1>3, <2>2, <3>2 DEF OneAsker
    <3>3. \A i \in Deletions : v \in asker[i] => ~active'[v]
      BY <3>1 DEF AccountAgrees
    <3>4. ~active'[v] => v \in hard' \/ \E i \in Deletions : v \in asker[i]
      BY <3>1 DEF AccountAgrees
    <3>5. deleted'[v] => ~active'[v] /\ (v \in hard' \/ \E i \in Deletions : v \in asker[i] /\ due[i])
      BY <3>1 DEF AccountAgrees
    <3>6. \A i \in Deletions : v \in asker[i] /\ status'[i] = "anonymized" => deleted'[v]
      BY <3>1, <3>2 DEF AccountAgrees
    <3> QED
      BY <3>3, <3>4, <3>5, <3>6
  <2> QED
    BY <2>1, <2>2
<1> QED
  BY <1>4, <1>5, <1>6

\* The transaction of RequestDeletion.
LEMMA CommitAccount ==
    ASSUME AccountInv, TypeOK', NEW r \in Requests, CommitDeletion(r)
    PROVE  AccountInv'
<1> USE DEF AccountInv, TypeOK
<1> DEFINE u == req[r].user
<1>1. u \in Users
  BY ActiveRequest DEF CommitDeletion
<1>2. PICK i \in Deletions : /\ status[i] = "absent"
                             /\ status' = [status EXCEPT ![i] = "pending"]
                             /\ asker' = [asker EXCEPT ![i] = {u}]
  BY DEF CommitDeletion
<1>3. /\ \A v \in Users : active'[v] = IF v = u THEN FALSE ELSE active[v]
      /\ UNCHANGED <<deleted, due, todo, hard>>
  BY DEF CommitDeletion
<1>4. \A j \in Deletions : /\ status'[j] = IF j = i THEN "pending" ELSE status[j]
                           /\ asker'[j] = IF j = i THEN {u} ELSE asker[j]
  BY <1>2
<1>5. OneAsker' /\ TodoIsDue'
  BY <1>3, <1>4 DEF OneAsker, TodoIsDue
<1>6. asker[i] = {}
  BY <1>2 DEF OneAsker
<1>7. AccountAgrees'
  <2> SUFFICES ASSUME NEW v \in Users
               PROVE  /\ \A j \in Deletions : v \in asker'[j] => ~active'[v]
                      /\ ~active'[v] => v \in hard \/ \E j \in Deletions : v \in asker'[j]
                      /\ deleted[v] => ~active'[v] /\ (v \in hard \/ \E j \in Deletions : v \in asker'[j] /\ due[j])
                      /\ \A j \in Deletions : v \in asker'[j] /\ status'[j] = "anonymized" => deleted[v]
    BY <1>3 DEF AccountAgrees
  <2>1. \A j \in Deletions : v \in asker'[j] => ~active'[v]
    BY <1>3, <1>4 DEF AccountAgrees
  <2>2. \A j \in Deletions : asker[j] \subseteq asker'[j]
    BY <1>4, <1>6
  <2>3. ~active'[v] => v \in hard \/ \E j \in Deletions : v \in asker'[j]
    <3>1. CASE v = u
      BY <1>4, <3>1
    <3>2. CASE v # u
      BY <1>3, <2>2, <3>2 DEF AccountAgrees
    <3> QED
      BY <3>1, <3>2
  <2>4. deleted[v] => ~active'[v] /\ (v \in hard \/ \E j \in Deletions : v \in asker'[j] /\ due[j])
    BY <1>3, <2>2 DEF AccountAgrees
  <2>5. \A j \in Deletions : v \in asker'[j] /\ status'[j] = "anonymized" => deleted[v]
    BY <1>4 DEF AccountAgrees
  <2> QED
    BY <2>1, <2>3, <2>4, <2>5
<1> QED
  BY <1>5, <1>7

LEMMA NextAccount == AccountInv /\ [Next]_vars => AccountInv'
<1> SUFFICES ASSUME AccountInv, [Next]_vars
             PROVE  AccountInv'
  OBVIOUS
<1> USE DEF account, addressT
<1>1. TypeOK'
  BY NextType DEF AccountInv
<1>2. ASSUME NEW r \in Requests, NEW u \in Users, Begin(r, u)
      PROVE  AccountInv'
  BY <1>1, <1>2, QuietAccount DEF Begin
<1>3. ASSUME NEW r \in Requests, UpdateProfile(r) \/ CountAddresses(r) \/ CountFails(r) \/ Insert(r)
      PROVE  AccountInv'
  BY <1>1, <1>3, QuietAccount DEF UpdateProfile, CountAddresses, CountFails, Insert
<1>4. ASSUME NEW r \in Requests, NEW a \in Addresses,
             DeleteAddress(r, a) \/ LoadAddress(r, a) \/ CheckOwner(r, a)
      PROVE  AccountInv'
  BY <1>1, <1>4, QuietAccount DEF DeleteAddress, LoadAddress, CheckOwner
<1>5. ASSUME NEW r \in Requests, SetDefault(r) \/ FileTicket(r) \/ CheckPending(r) \/ RequestFails(r)
      PROVE  AccountInv'
  BY <1>1, <1>5, QuietAccount DEF SetDefault, FileTicket, CheckPending, RequestFails
<1>6. ASSUME NEW r \in Requests, CommitDeletion(r)
      PROVE  AccountInv'
  BY <1>1, <1>6, CommitAccount
<1>7. ASSUME NEW i \in Deletions, ComeDue(i)
      PROVE  AccountInv'
  <2>1. /\ UNCHANGED <<active, deleted, status, asker, hard, todo>>
        /\ \A j \in Deletions : due[j] => due'[j]
    BY <1>7 DEF ComeDue, AccountInv, TypeOK
  <2>2. AccountAgrees'
    BY <2>1 DEF AccountInv, AccountAgrees
  <2> QED
    BY <1>1, <2>1, <2>2 DEF AccountInv, OneAsker, TodoIsDue, TypeOK
<1>8. ASSUME NEW i \in Deletions, Anonymize(i)
      PROVE  AccountInv'
  <2>1. PICK u \in asker[i] : AnonymizeUser(u)
    BY <1>8 DEF Anonymize
  <2>2. u \in Users /\ i \in todo /\ todo' \subseteq todo /\ hard' = hard
    BY <1>8, <2>1 DEF Anonymize, AccountInv, TypeOK
  <2> QED
    BY <1>1, <2>1, <2>2, AnonymizeAccount
<1>9. ASSUME NEW i \in Deletions, AnonymizeBlocked(i) \/ AnonymizeFails(i)
      PROVE  AccountInv'
  BY <1>1, <1>9, QuietAccount DEF AnonymizeBlocked, AnonymizeFails
<1>10. ASSUME NEW u \in Users, HardDelete(u)
       PROVE  AccountInv'
  BY <1>1, <1>10, AnonymizeAccount DEF HardDelete
<1>11. CASE SelectDue
  <2>1. todo' = Due /\ UNCHANGED <<active, deleted, deletion, hard>>
    BY <1>11 DEF SelectDue
  <2>2. TodoIsDue'
    BY <2>1 DEF Due, TodoIsDue, deletion
  <2> QED
    BY <1>1, <2>1, <2>2 DEF AccountInv, OneAsker, AccountAgrees, deletion
<1>12. CASE Crash
  BY <1>1, <1>12, QuietAccount DEF Crash
<1>13. CASE UNCHANGED vars
  BY <1>1, <1>13, QuietAccount DEF vars
<1> QED
  BY <1>2, <1>3, <1>4, <1>5, <1>6, <1>7, <1>8, <1>9, <1>10, <1>11, <1>12, <1>13 DEF Next, Request

\* The flags of an account agree with its deletion requests, and the worker
\* deletes no account before the grace period of a request is over.
THEOREM FlagsAgree == Spec => []AccountAgrees
<1>1. Init => AccountInv
  BY InitAccount
<1>2. AccountInv /\ [Next]_vars => AccountInv'
  BY NextAccount
<1>3. AccountInv => AccountAgrees
  BY DEF AccountInv
<1> QED
  BY <1>1, <1>2, <1>3, PTL DEF Spec

-----------------------------------------------------------------------------
(* The address book and the tickets.                                       *)

LEMMA InitBook == Init => BookInv
BY InitType DEF Init, BookInv, TicketKeepsAddress

LEMMA AnonymizeBook ==
    ASSUME BookInv, TypeOK', NEW u \in Users, AnonymizeUser(u)
    PROVE  BookInv'
<1>1. /\ book[u] \cap ticketed = {}
      /\ ticketed' = ticketed
      /\ \A v \in Users : book'[v] = IF v = u THEN {} ELSE book[v]
  BY DEF AnonymizeUser, Blocked, BookInv, TypeOK
<1> QED
  BY <1>1 DEF BookInv, TicketKeepsAddress

LEMMA NextBook == BookInv /\ [Next]_vars => BookInv'
<1> SUFFICES ASSUME BookInv, [Next]_vars
             PROVE  BookInv'
  OBVIOUS
<1> USE DEF BookInv, account, addressT
<1>1. TypeOK'
  BY NextType
<1>2. ASSUME UNCHANGED <<book, ticketed>>
      PROVE  BookInv'
  BY <1>1, <1>2 DEF TicketKeepsAddress
<1>3. ASSUME NEW r \in Requests, NEW u \in Users, Begin(r, u)
      PROVE  BookInv'
  BY <1>2, <1>3 DEF Begin
<1>4. ASSUME NEW r \in Requests, UpdateProfile(r) \/ CountAddresses(r) \/ CountFails(r)
      PROVE  BookInv'
  BY <1>2, <1>4 DEF UpdateProfile, CountAddresses, CountFails
<1>5. ASSUME NEW r \in Requests, Insert(r)
      PROVE  BookInv'
  <2> DEFINE u == req[r].user
  <2>1. /\ u \in Users
        /\ ticketed' = ticketed
        /\ \A v \in Users : book'[v] = IF v = u THEN book[v] \cup {lastId + 1} ELSE book[v]
    BY <1>5, ActiveRequest DEF Insert, TypeOK
  <2>2. \A v \in Users : lastId + 1 \notin book[v]
    BY DEF TypeOK
  <2>3. \A a \in ticketed' : \E v \in Users : a \in book'[v]
    BY <2>1 DEF TicketKeepsAddress
  <2>4. ASSUME NEW v \in Users, NEW w \in Users, v # w
        PROVE  book'[v] \cap book'[w] = {}
    <3>1. book[v] \cap book[w] = {}
      BY <2>4 DEF TicketKeepsAddress
    <3> QED
      BY <2>1, <2>2, <2>4, <3>1
  <2> QED
    BY <1>1, <2>3, <2>4 DEF TicketKeepsAddress
<1>6. ASSUME NEW r \in Requests, NEW a \in Addresses, DeleteAddress(r, a)
      PROVE  BookInv'
  <2> DEFINE u == req[r].user
  <2>1. /\ u \in Users
        /\ a \notin ticketed
        /\ ticketed' = ticketed
        /\ \A v \in Users : book'[v] = IF v = u THEN book[v] \ {a} ELSE book[v]
    BY <1>6, ActiveRequest DEF DeleteAddress, TypeOK
  <2> QED
    BY <1>1, <2>1 DEF TicketKeepsAddress
<1>7. ASSUME NEW r \in Requests, NEW a \in Addresses, LoadAddress(r, a) \/ CheckOwner(r, a)
      PROVE  BookInv'
  BY <1>2, <1>7 DEF LoadAddress, CheckOwner
<1>8. ASSUME NEW r \in Requests, SetDefault(r) \/ CheckPending(r) \/ CommitDeletion(r) \/ RequestFails(r)
      PROVE  BookInv'
  BY <1>2, <1>8 DEF SetDefault, CheckPending, CommitDeletion, RequestFails
<1>9. ASSUME NEW r \in Requests, FileTicket(r)
      PROVE  BookInv'
  BY <1>1, <1>9 DEF FileTicket, Referable, TicketKeepsAddress
<1>10. ASSUME NEW i \in Deletions,
              ComeDue(i) \/ AnonymizeBlocked(i) \/ AnonymizeFails(i)
       PROVE  BookInv'
  BY <1>2, <1>10 DEF ComeDue, AnonymizeBlocked, AnonymizeFails
<1>11. ASSUME NEW i \in Deletions, Anonymize(i)
       PROVE  BookInv'
  BY <1>1, <1>11, AnonymizeBook DEF Anonymize, TypeOK
<1>12. ASSUME NEW u \in Users, HardDelete(u)
       PROVE  BookInv'
  BY <1>1, <1>12, AnonymizeBook DEF HardDelete
<1>13. CASE SelectDue \/ Crash \/ UNCHANGED vars
  BY <1>2, <1>13 DEF SelectDue, Crash, vars
<1> QED
  BY <1>3, <1>4, <1>5, <1>6, <1>7, <1>8, <1>9, <1>10, <1>11, <1>12, <1>13 DEF Next, Request

\* No ticket loses its address, and no address is in two users' books.
THEOREM AddressesKept == Spec => []TicketKeepsAddress
<1>1. Init => BookInv
  BY InitBook
<1>2. BookInv /\ [Next]_vars => BookInv'
  BY NextBook
<1>3. BookInv => TicketKeepsAddress
  BY DEF BookInv
<1> QED
  BY <1>1, <1>2, <1>3, PTL DEF Spec

-----------------------------------------------------------------------------
(* Counting requests and what they leave behind.                           *)

\* The sets that the bounds count are finite.
LEMMA BooksFinite ==
    ASSUME TypeOK, NEW u \in Users
    PROVE  /\ IsFiniteSet(book[u]) /\ Cardinality(book[u]) \in Nat
           /\ IsFiniteSet(default \cap book[u]) /\ Cardinality(default \cap book[u]) \in Nat
<1>1. IsFiniteSet(1..lastId)
  BY FS_Interval, BoundAssumption DEF TypeOK
<1>2. book[u] \in SUBSET (1..lastId) /\ default \cap book[u] \in SUBSET (1..lastId)
  BY DEF TypeOK
<1>3. IsFiniteSet(book[u]) /\ IsFiniteSet(default \cap book[u])
  BY <1>1, <1>2, FS_Subset
<1> QED
  BY <1>3, FS_CardinalityType

\* So is every set of requests.
LEMMA RequestSets ==
    ASSUME NEW R \in SUBSET Requests
    PROVE  /\ IsFiniteSet(R) /\ Cardinality(R) \in Nat
           /\ Cardinality(Requests) \in Nat
           /\ Cardinality(R) <= Cardinality(Requests)
BY RequestsAssumption, FS_Subset, FS_CardinalityType

\* A part of a set of requests is not larger.
LEMMA FewerRequests ==
    ASSUME NEW R \in SUBSET Requests, NEW S \in SUBSET R
    PROVE  /\ Cardinality(R) \in Nat /\ Cardinality(S) \in Nat
           /\ Cardinality(S) <= Cardinality(R)
<1>1. S \in SUBSET Requests
  OBVIOUS
<1> QED
  BY <1>1, RequestSets, FS_Subset

\* Without one of its members it is smaller by one.
LEMMA OneRequestLess ==
    ASSUME NEW R \in SUBSET Requests, NEW r \in R
    PROVE  /\ Cardinality(R) \in Nat /\ Cardinality(R \ {r}) \in Nat
           /\ Cardinality(R \ {r}) = Cardinality(R) - 1
BY RequestSets, FS_RemoveElement, FewerRequests

LEMMA RequestsOf == \A u \in Users : Of(u) \in SUBSET Requests
BY DEF Of

\* A request that ends is no more among those of its user.
LEMMA DoneLeaves ==
    ASSUME TypeOK, NEW r \in Requests, req[r].pc # "idle", Done(r)
    PROVE  /\ \A u \in Users : Of(u)' = Of(u) \ {r}
           /\ r \in Of(req[r].user)
           /\ \A u \in Users : r \in Of(u) => u = req[r].user
<1>1. req[r] # NoRequest /\ req[r].user \in Users
  BY ActiveRequest
<1>2. \A q \in Requests : req'[q] = IF q = r THEN NoRequest ELSE req[q]
  BY DEF Done, TypeOK
<1> QED
  BY <1>1, <1>2 DEF Of

\* A request that goes on stays with its user.
LEMMA StaysOf ==
    ASSUME TypeOK, NEW r \in Requests, req[r].pc # "idle", NEW q,
           q # NoRequest, q.user = req[r].user, req' = [req EXCEPT ![r] = q]
    PROVE  \A u \in Users : Of(u)' = Of(u)
<1>1. req[r] # NoRequest
  BY ActiveRequest
<1>2. \A p \in Requests : req'[p] = IF p = r THEN q ELSE req[p]
  BY DEF TypeOK
<1> QED
  BY <1>1, <1>2 DEF Of

-----------------------------------------------------------------------------
(* What late requests leave behind.                                        *)

LEMMA InitResidue == Init => ResidueInv
BY InitType DEF Init, ResidueInv, Within

\* A step that does not add to the data of u nor to its requests.
LEMMA QuietResidue ==
    ASSUME ResidueInv, TypeOK', NEW u \in Users, Of(u)' \subseteq Of(u), book'[u] \subseteq book[u],
           personal'[u] => personal[u], deleted'[u] => deleted[u]
    PROVE  Within(u)'
<1>1. /\ Cardinality(Of(u)) \in Nat /\ Cardinality(Of(u)') \in Nat
      /\ Cardinality(Of(u)') <= Cardinality(Of(u))
  BY RequestsOf, FewerRequests
<1>2. /\ Cardinality(book[u]) \in Nat /\ Cardinality(book'[u]) \in Nat
      /\ Cardinality(book'[u]) <= Cardinality(book[u])
  BY BooksFinite, FS_Subset, FS_CardinalityType DEF ResidueInv
<1>3. (IF personal'[u] THEN 1 ELSE 0) <= (IF personal[u] THEN 1 ELSE 0)
  OBVIOUS
<1>4. Cardinality(Requests) \in Nat
  BY RequestSets
<1> QED
  BY <1>1, <1>2, <1>3, <1>4 DEF ResidueInv, Within

\* A request of u that ends and adds one datum at most.
LEMMA WriteResidue ==
    ASSUME ResidueInv, TypeOK', NEW r \in Requests, NEW u \in Users, r \in Of(u),
           Of(u)' = Of(u) \ {r}, deleted'[u] => deleted[u],
           \/ personal'[u] = personal[u] /\ \E a : book'[u] = book[u] \cup {a}
           \/ book'[u] = book[u]
    PROVE  Within(u)'
<1>1. /\ Cardinality(Of(u)) \in Nat /\ Cardinality(Of(u)') \in Nat
      /\ Cardinality(Of(u)') = Cardinality(Of(u)) - 1
  BY RequestsOf, OneRequestLess
<1>2. Cardinality(book[u]) \in Nat /\ Cardinality(book'[u]) \in Nat
  <2>1. Cardinality(book[u]) \in Nat
    BY BooksFinite DEF ResidueInv
  <2>2. CASE book'[u] = book[u]
    BY <2>1, <2>2
  <2>3. ASSUME NEW a, book'[u] = book[u] \cup {a}
        PROVE  Cardinality(book'[u]) \in Nat
    BY <2>3, BooksFinite, FS_AddElement, FS_CardinalityType DEF ResidueInv
  <2> QED
    BY <2>1, <2>2, <2>3
<1>3. Cardinality(Requests) \in Nat
  BY RequestSets
<1>4. CASE book'[u] = book[u]
  <2>1. (IF personal'[u] THEN 1 ELSE 0) <= (IF personal[u] THEN 1 ELSE 0) + 1
    OBVIOUS
  <2> QED
    BY <1>1, <1>2, <1>3, <1>4, <2>1 DEF ResidueInv, Within
<1>5. ASSUME NEW a, book'[u] = book[u] \cup {a}, personal'[u] = personal[u]
      PROVE  Within(u)'
  <2>1. Cardinality(book'[u]) <= Cardinality(book[u]) + 1
    <3>1. IsFiniteSet(book[u])
      BY BooksFinite DEF ResidueInv
    <3>2. Cardinality(book[u] \cup {a}) =
              IF a \in book[u] THEN Cardinality(book[u]) ELSE Cardinality(book[u]) + 1
      BY <3>1, FS_AddElement
    <3> QED
      BY <1>2, <1>5, <3>2
  <2> QED
    BY <1>1, <1>2, <1>3, <1>5, <2>1 DEF ResidueInv, Within
<1> QED
  BY <1>4, <1>5

\* An anonymization leaves nothing, and the requests under way are few.
LEMMA AnonymizeResidue ==
    ASSUME ResidueInv, TypeOK', NEW u \in Users, AnonymizeUser(u)
    PROVE  \A v \in Users : Within(v)'
<1> SUFFICES ASSUME NEW v \in Users
             PROVE  Within(v)'
  OBVIOUS
<1>1. Of(v)' = Of(v)
  BY DEF AnonymizeUser, Of
<1>2. CASE v = u
  <2>1. book'[u] = {} /\ ~personal'[u]
    BY DEF AnonymizeUser, ResidueInv, TypeOK
  <2>2. Cardinality(book'[u]) = 0
    BY <2>1, FS_EmptySet
  <2>3. /\ Cardinality(Of(u)') \in Nat /\ Cardinality(Requests) \in Nat
        /\ Cardinality(Of(u)') <= Cardinality(Requests)
    BY <1>1, <1>2, RequestsOf, RequestSets
  <2> QED
    BY <1>2, <2>1, <2>2, <2>3 DEF Within
<1>3. CASE v # u
  <2>1. book'[v] = book[v] /\ personal'[v] = personal[v] /\ deleted'[v] = deleted[v]
    BY <1>3 DEF AnonymizeUser, ResidueInv, TypeOK
  <2> QED
    BY <1>1, <2>1, QuietResidue
<1> QED
  BY <1>2, <1>3

LEMMA NextResidue == ResidueInv /\ [Next]_vars => ResidueInv'
<1> SUFFICES ASSUME ResidueInv, [Next]_vars
             PROVE  ResidueInv'
  OBVIOUS
<1> USE DEF account, addressT
<1>1. TypeOK /\ TypeOK'
  BY NextType DEF ResidueInv
<1>2. ASSUME UNCHANGED <<account, book>>, \A u \in Users : Of(u)' \subseteq Of(u)
      PROVE  ResidueInv'
  BY <1>1, <1>2, QuietResidue DEF ResidueInv
<1>3. ASSUME NEW r \in Requests, NEW u \in Users, Begin(r, u)
      PROVE  ResidueInv'
  <2> SUFFICES ASSUME NEW v \in Users
               PROVE  Within(v)'
    BY <1>1 DEF ResidueInv
  <2>1. UNCHANGED <<account, book>>
    BY <1>3 DEF Begin
  <2>2. CASE v = u
    BY <1>3, <2>1, <2>2 DEF Begin, Admitted, Within
  <2>3. CASE v # u
    <3>1. \A q \in Requests : req'[q] = IF q = r THEN [pc |-> "authed", user |-> u] ELSE req[q]
      BY <1>1, <1>3 DEF Begin, TypeOK
    <3>2. Of(v)' \subseteq Of(v)
      BY <2>3, <3>1 DEF Of
    <3> QED
      BY <1>1, <2>1, <3>2, QuietResidue
  <2> QED
    BY <2>2, <2>3
<1>4. ASSUME NEW r \in Requests, UpdateProfile(r)
      PROVE  ResidueInv'
  <2> PICK u \in Users : u = req[r].user
    BY <1>1, <1>4, ActiveRequest DEF UpdateProfile
  <2>1. r \in Of(u) /\ \A v \in Users : Of(v)' = Of(v) \ {r}
    BY <1>1, <1>4, DoneLeaves DEF UpdateProfile
  <2>2. /\ UNCHANGED <<deleted, book>>
        /\ \A v \in Users : v # u => personal'[v] = personal[v]
    BY <1>1, <1>4 DEF UpdateProfile, TypeOK
  <2>3. Within(u)'
    BY <1>1, <2>1, <2>2, WriteResidue
  <2>4. ASSUME NEW v \in Users, v # u
        PROVE  Within(v)'
    BY <1>1, <2>1, <2>2, <2>4, QuietResidue
  <2> QED
    BY <1>1, <2>3, <2>4 DEF ResidueInv
<1>5. ASSUME NEW r \in Requests, Insert(r)
      PROVE  ResidueInv'
  <2> PICK u \in Users : u = req[r].user
    BY <1>1, <1>5, ActiveRequest DEF Insert
  <2>1. r \in Of(u) /\ \A v \in Users : Of(v)' = Of(v) \ {r}
    BY <1>1, <1>5, DoneLeaves DEF Insert
  <2>2. /\ UNCHANGED <<deleted, personal>>
        /\ \A v \in Users : book'[v] = IF v = u THEN book[v] \cup {lastId + 1} ELSE book[v]
    BY <1>1, <1>5 DEF Insert, TypeOK
  <2>3. Within(u)'
    BY <1>1, <2>1, <2>2, WriteResidue
  <2>4. ASSUME NEW v \in Users, v # u
        PROVE  Within(v)'
    BY <1>1, <2>1, <2>2, <2>4, QuietResidue
  <2> QED
    BY <1>1, <2>3, <2>4 DEF ResidueInv
<1>6. ASSUME NEW r \in Requests, NEW a \in Addresses, DeleteAddress(r, a)
      PROVE  ResidueInv'
  <2>1. \A v \in Users : Of(v)' \subseteq Of(v)
    BY <1>1, <1>6, DoneLeaves DEF DeleteAddress
  <2>2. UNCHANGED account /\ \A v \in Users : book'[v] \subseteq book[v]
    BY <1>1, <1>6 DEF DeleteAddress, TypeOK
  <2> QED
    BY <1>1, <2>1, <2>2, QuietResidue DEF ResidueInv
<1>7. ASSUME NEW r \in Requests, CountAddresses(r)
      PROVE  ResidueInv'
  BY <1>1, <1>2, <1>7, StaysOf DEF CountAddresses, NoRequest
<1>8. ASSUME NEW r \in Requests, CountFails(r)
      PROVE  ResidueInv'
  BY <1>1, <1>2, <1>8, StaysOf DEF CountFails, NoRequest
<1>9. ASSUME NEW r \in Requests, NEW a \in Addresses, LoadAddress(r, a) \/ CheckOwner(r, a)
      PROVE  ResidueInv'
  BY <1>1, <1>2, <1>9, StaysOf DEF LoadAddress, CheckOwner, NoRequest
<1>10. ASSUME NEW r \in Requests, CheckPending(r)
       PROVE  ResidueInv'
  <2>1. req[r] \in [pc : {"authed", "unasked"}, user : Users]
    BY <1>1, <1>10, ActiveRequest DEF CheckPending, Locals
  <2>2. req' = [req EXCEPT ![r] = [req[r] EXCEPT !.pc = "unasked"]]
    BY <1>10 DEF CheckPending
  <2> QED
    BY <1>1, <1>2, <1>10, <2>1, <2>2, StaysOf DEF CheckPending, NoRequest
<1>11. ASSUME NEW r \in Requests, SetDefault(r) \/ FileTicket(r)
       PROVE  ResidueInv'
  BY <1>1, <1>2, <1>11, DoneLeaves DEF SetDefault, FileTicket
<1>12. ASSUME NEW r \in Requests, CommitDeletion(r)
       PROVE  ResidueInv'
  <2>1. \A v \in Users : Of(v)' \subseteq Of(v)
    BY <1>1, <1>12, DoneLeaves DEF CommitDeletion
  <2>2. UNCHANGED <<deleted, personal, book>>
    BY <1>12 DEF CommitDeletion
  <2> QED
    BY <1>1, <2>1, <2>2, QuietResidue DEF ResidueInv
<1>13. ASSUME NEW r \in Requests, RequestFails(r)
       PROVE  ResidueInv'
  <2>1. req[r].pc # "idle"
    BY <1>1, <1>13 DEF RequestFails, TypeOK, Locals, NoRequest
  <2> QED
    BY <1>1, <1>2, <1>13, <2>1, DoneLeaves DEF RequestFails
<1>14. ASSUME NEW i \in Deletions, ComeDue(i) \/ AnonymizeBlocked(i) \/ AnonymizeFails(i)
       PROVE  ResidueInv'
  BY <1>2, <1>14 DEF ComeDue, AnonymizeBlocked, AnonymizeFails, Of
<1>15. ASSUME NEW i \in Deletions, Anonymize(i)
       PROVE  ResidueInv'
  BY <1>1, <1>15, AnonymizeResidue DEF Anonymize, TypeOK, ResidueInv
<1>16. ASSUME NEW u \in Users, HardDelete(u)
       PROVE  ResidueInv'
  BY <1>1, <1>16, AnonymizeResidue DEF HardDelete, ResidueInv
<1>17. CASE SelectDue \/ UNCHANGED vars
  BY <1>2, <1>17 DEF SelectDue, vars, Of
<1>18. CASE Crash
  BY <1>2, <1>18 DEF Crash, Of
<1> QED
  BY <1>3, <1>4, <1>5, <1>6, <1>7, <1>8, <1>9, <1>10, <1>11, <1>12, <1>13, <1>14, <1>15,
     <1>16, <1>17, <1>18 DEF Next, Request

\* Requests that were let in before the end of an account leave at most one
\* datum each behind in it.
THEOREM ResidueStaysBounded == Spec => []ResidueBounded
<1>1. Init => ResidueInv
  BY InitResidue
<1>2. ResidueInv /\ [Next]_vars => ResidueInv'
  BY NextResidue
<1>3. ResidueInv => ResidueBounded
  BY DEF ResidueInv, Within, ResidueBounded
<1> QED
  BY <1>1, <1>2, <1>3, PTL DEF Spec

-----------------------------------------------------------------------------
(* Default addresses.                                                      *)

LEMMA InitDefaults == Init => DefaultsInv
<1> SUFFICES ASSUME Init
             PROVE  DefaultsInv
  OBVIOUS
<1>1. BookInv
  BY InitBook
<1>2. ASSUME NEW u \in Users
      PROVE  Capped(u)
  <2>1. Claims(u) = {} /\ default \cap book[u] = {} /\ faults = 0
    BY DEF Init, Claims, Of
  <2> QED
    BY <2>1, FS_EmptySet, RequestSets DEF Capped
<1> QED
  BY <1>1, <1>2 DEF DefaultsInv

LEMMA ClaimsOf == \A u \in Users : Claims(u) \subseteq Of(u) /\ Claims(u) \in SUBSET Requests
BY DEF Claims, Of

\* Only a request that has counted no address, or failed to, becomes a claim.
LEMMA NoNewClaim ==
    ASSUME TypeOK, NEW r \in Requests, NEW q, req' = [req EXCEPT ![r] = q],
           q = NoRequest \/ q.pc # "counted" \/ ~q.first
    PROVE  \A u \in Users : Claims(u)' \subseteq Claims(u)
<1>1. \A p \in Requests : req'[p] = IF p = r THEN q ELSE req[p]
  BY DEF TypeOK
<1> QED
  BY <1>1 DEF Claims, Of

\* A request that counted for user u is a claim of u alone.
LEMMA OneNewClaim ==
    ASSUME TypeOK, NEW r \in Requests, NEW u \in Users, NEW b \in BOOLEAN,
           req' = [req EXCEPT ![r] = [pc |-> "counted", user |-> u, first |-> b]]
    PROVE  /\ Claims(u)' \subseteq Claims(u) \cup {r}
           /\ b = FALSE => Claims(u)' \subseteq Claims(u)
           /\ \A v \in Users : v # u => Claims(v)' \subseteq Claims(v)
<1>1. \A p \in Requests :
          req'[p] = IF p = r THEN [pc |-> "counted", user |-> u, first |-> b] ELSE req[p]
  BY DEF TypeOK
<1> QED
  BY <1>1 DEF Claims, Of

\* A step that adds neither a default nor a claim of u.
LEMMA QuietDefaults ==
    ASSUME DefaultsInv, TypeOK', NEW u \in Users, Claims(u)' \subseteq Claims(u),
           default' \cap book'[u] \subseteq default \cap book[u], faults <= faults'
    PROVE  Capped(u)'
<1>1. /\ Cardinality(Claims(u)) \in Nat /\ Cardinality(Claims(u)') \in Nat
      /\ Cardinality(Claims(u)') <= Cardinality(Claims(u))
  BY ClaimsOf, FewerRequests
<1>2. IsFiniteSet(default \cap book[u]) /\ Cardinality(default \cap book[u]) \in Nat
  BY BooksFinite DEF DefaultsInv, BookInv
<1>3. /\ Cardinality(default' \cap book'[u]) \in Nat
      /\ Cardinality(default' \cap book'[u]) <= Cardinality(default \cap book[u])
  BY <1>2, FS_Subset, FS_CardinalityType
<1>4. Cardinality(Requests) \in Nat /\ faults \in Nat /\ faults' \in Nat
  BY RequestSets, BoundAssumption DEF TypeOK, DefaultsInv, BookInv
<1> QED
  BY <1>1, <1>2, <1>3, <1>4 DEF DefaultsInv, Capped

LEMMA AnonymizeDefaults ==
    ASSUME DefaultsInv, TypeOK', NEW u \in Users, AnonymizeUser(u)
    PROVE  \A v \in Users : Capped(v)'
<1> SUFFICES ASSUME NEW v \in Users
             PROVE  Capped(v)'
  OBVIOUS
<1> USE DEF DefaultsInv, BookInv
<1>1. Claims(v)' = Claims(v)
  BY DEF AnonymizeUser, Claims, Of
<1>2. default' \cap book'[v] \subseteq default \cap book[v] /\ faults' = faults
  <2>1. book'[v] \subseteq book[v] /\ default' \subseteq default
    BY DEF AnonymizeUser, TypeOK
  <2> QED
    BY <2>1 DEF AnonymizeUser
<1>3. faults <= faults'
  BY <1>2, BoundAssumption DEF TypeOK
<1> QED
  BY <1>1, <1>2, <1>3, QuietDefaults

\* An address that is inserted as the default takes the place of its claim.
LEMMA InsertDefaults ==
    ASSUME DefaultsInv, TypeOK', NEW r \in Requests, Insert(r)
    PROVE  \A v \in Users : Capped(v)'
<1> SUFFICES ASSUME NEW v \in Users
             PROVE  Capped(v)'
  OBVIOUS
<1> USE DEF DefaultsInv, BookInv
<1> PICK u \in Users : u = req[r].user
  BY ActiveRequest DEF Insert
<1>1. /\ \A w \in Users : book'[w] = IF w = u THEN book[w] \cup {lastId + 1} ELSE book[w]
      /\ default' = IF req[r].first THEN default \cup {lastId + 1} ELSE default
      /\ req' = [req EXCEPT ![r] = NoRequest]
      /\ req[r].pc = "counted"
      /\ faults' = faults
  BY DEF Insert, Done, TypeOK
<1>2. lastId + 1 \notin default /\ \A w \in Users : lastId + 1 \notin book[w]
  BY DEF TypeOK
<1>3. \A w \in Users : Claims(w)' \subseteq Claims(w)
  BY <1>1, NoNewClaim
<1>4. faults \in Nat /\ faults <= faults'
  BY <1>1, BoundAssumption DEF TypeOK
<1>5. CASE v # u \/ ~req[r].first
  <2>1. default' \cap book'[v] \subseteq default \cap book[v]
    BY <1>1, <1>2, <1>5
  <2> QED
    BY <1>3, <1>4, <2>1, QuietDefaults
<1>6. CASE v = u /\ req[r].first
  <2>1. r \in Claims(u)
    BY <1>1, <1>6, ActiveRequest DEF Claims, Of
  <2>2. Claims(u)' \subseteq Claims(u) \ {r}
    <3>1. \A p \in Requests : req'[p] = IF p = r THEN NoRequest ELSE req[p]
      BY <1>1 DEF TypeOK
    <3> QED
      BY <3>1 DEF Claims, Of
  <2>3. /\ Cardinality(Claims(u)) \in Nat /\ Cardinality(Claims(u) \ {r}) \in Nat
        /\ Cardinality(Claims(u) \ {r}) = Cardinality(Claims(u)) - 1
    BY <2>1, ClaimsOf, OneRequestLess
  <2>4. Claims(u) \ {r} \in SUBSET Requests
    BY ClaimsOf
  <2>5. Cardinality(Claims(u)') \in Nat /\ Cardinality(Claims(u)') <= Cardinality(Claims(u) \ {r})
    BY <2>2, <2>4, FewerRequests
  <2>6. default' \cap book'[u] = (default \cap book[u]) \cup {lastId + 1}
    BY <1>1, <1>2, <1>6
  <2>7. /\ IsFiniteSet(default \cap book[u]) /\ Cardinality(default \cap book[u]) \in Nat
        /\ lastId + 1 \notin default \cap book[u]
    BY <1>2, BooksFinite
  <2>8. Cardinality(default' \cap book'[u]) = Cardinality(default \cap book[u]) + 1
    BY <2>6, <2>7, FS_AddElement
  <2>9. Cardinality(Requests) \in Nat
    BY RequestSets
  <2>10. Capped(u)'
    BY <1>1, <1>4, <2>3, <2>5, <2>7, <2>8, <2>9 DEF Capped
  <2> QED
    BY <1>6, <2>10
<1> QED
  BY <1>5, <1>6

\* The transaction of SetDefault leaves one default at most, and its request
\* is no claim.
LEMMA SetDefaults ==
    ASSUME DefaultsInv, TypeOK', NEW r \in Requests, SetDefault(r)
    PROVE  \A v \in Users : Capped(v)'
<1> SUFFICES ASSUME NEW v \in Users
             PROVE  Capped(v)'
  OBVIOUS
<1> USE DEF DefaultsInv, BookInv
<1> PICK u \in Users : u = req[r].user
  BY ActiveRequest DEF SetDefault
<1>1. /\ book' = book /\ faults' = faults
      /\ default' = (default \ book[u]) \cup (book[u] \cap {req[r].address})
      /\ req' = [req EXCEPT ![r] = NoRequest]
      /\ req[r].pc = "loaded"
  BY DEF SetDefault, Done
<1>2. \A w \in Users : Claims(w)' \subseteq Claims(w)
  BY <1>1, NoNewClaim
<1>3. faults \in Nat /\ faults <= faults'
  BY <1>1, BoundAssumption DEF TypeOK
<1>4. CASE v # u
  <2>1. default' \cap book'[v] \subseteq default \cap book[v]
    BY <1>1, <1>4 DEF TicketKeepsAddress
  <2> QED
    BY <1>2, <1>3, <2>1, QuietDefaults
<1>5. CASE v = u
  <2>1. Claims(u)' \subseteq Requests \ {r}
    BY <1>1, <1>2 DEF Claims, Of
  <2>2. /\ Cardinality(Requests) \in Nat
        /\ Cardinality(Requests \ {r}) \in Nat
        /\ Cardinality(Requests \ {r}) = Cardinality(Requests) - 1
    BY OneRequestLess
  <2>3. Requests \ {r} \in SUBSET Requests
    OBVIOUS
  <2>4. /\ Cardinality(Claims(u)') \in Nat
        /\ Cardinality(Claims(u)') <= Cardinality(Requests \ {r})
    BY <2>1, <2>3, FewerRequests
  <2>5. default' \cap book'[u] \in SUBSET {req[r].address}
    BY <1>1
  <2>6. IsFiniteSet({req[r].address}) /\ Cardinality({req[r].address}) = 1
    BY FS_Singleton
  <2>7. /\ Cardinality(default' \cap book'[u]) <= 1
        /\ Cardinality(default' \cap book'[u]) \in Nat
    BY <2>5, <2>6, FS_Subset, FS_CardinalityType
  <2>8. Capped(u)'
    BY <1>1, <1>3, <2>2, <2>4, <2>7 DEF Capped
  <2> QED
    BY <1>5, <2>8
<1> QED
  BY <1>4, <1>5

\* The first address is counted while there is no default to be counted.
LEMMA CountDefaults ==
    ASSUME DefaultsInv, TypeOK', NEW r \in Requests, CountAddresses(r)
    PROVE  \A v \in Users : Capped(v)'
<1> SUFFICES ASSUME NEW v \in Users
             PROVE  Capped(v)'
  OBVIOUS
<1> USE DEF DefaultsInv, BookInv
<1> PICK u \in Users : u = req[r].user
  BY ActiveRequest DEF CountAddresses
<1> PICK b \in BOOLEAN : b = (book[u] = {})
  OBVIOUS
<1>1. /\ book' = book /\ faults' = faults /\ default' = default
      /\ req' = [req EXCEPT ![r] = [pc |-> "counted", user |-> u, first |-> b]]
  BY DEF CountAddresses, addressT, IsDefault
<1>2. faults \in Nat /\ faults <= faults'
  BY <1>1, BoundAssumption DEF TypeOK
<1>3. CASE v # u \/ book[u] # {}
  <2>1. Claims(v)' \subseteq Claims(v)
    <3>1. CASE v # u
      BY <1>1, <3>1, OneNewClaim
    <3>2. CASE v = u
      <4>1. b = FALSE
        BY <1>3, <3>2
      <4>2. Claims(u)' \subseteq Claims(u)
        BY <1>1, <4>1, OneNewClaim
      <4> QED
        BY <3>2, <4>2
    <3> QED
      BY <3>1, <3>2
  <2> QED
    BY <1>1, <1>2, <2>1, QuietDefaults
<1>4. CASE v = u /\ book[u] = {}
  <2>1. default' \cap book'[v] = {}
    BY <1>1, <1>4
  <2>2. Claims(v)' \subseteq Requests
    BY DEF Claims, Of
  <2>3. /\ Cardinality(Claims(v)') \in Nat /\ Cardinality(Requests) \in Nat
        /\ Cardinality(Claims(v)') <= Cardinality(Requests)
    BY <2>2, FewerRequests, RequestSets
  <2> QED
    BY <1>1, <1>2, <2>1, <2>3, FS_EmptySet DEF Capped
<1> QED
  BY <1>3, <1>4

\* A count that fails may make one more claim, and is one more fault.
LEMMA FailDefaults ==
    ASSUME DefaultsInv, TypeOK', NEW r \in Requests, CountFails(r)
    PROVE  \A v \in Users : Capped(v)'
<1> SUFFICES ASSUME NEW v \in Users
             PROVE  Capped(v)'
  OBVIOUS
<1> USE DEF DefaultsInv, BookInv
<1> PICK u \in Users : u = req[r].user
  BY ActiveRequest DEF CountFails
<1>1. /\ book' = book /\ faults' = faults + 1 /\ default' = default
      /\ req' = [req EXCEPT ![r] = [pc |-> "counted", user |-> u, first |-> TRUE]]
  BY DEF CountFails, Fault, addressT
<1>2. faults \in Nat /\ faults <= faults'
  BY <1>1, BoundAssumption DEF TypeOK
<1>3. Claims(v)' \subseteq Claims(v) \cup {r}
  BY <1>1, OneNewClaim
<1>4. IsFiniteSet(Claims(v)) /\ Cardinality(Claims(v)) \in Nat
  BY ClaimsOf, RequestSets, FS_Subset, FS_CardinalityType
<1>5. /\ IsFiniteSet(Claims(v) \cup {r})
      /\ Cardinality(Claims(v) \cup {r}) <= Cardinality(Claims(v)) + 1
      /\ Cardinality(Claims(v) \cup {r}) \in Nat
  <2>1. /\ IsFiniteSet(Claims(v) \cup {r})
        /\ Cardinality(Claims(v) \cup {r})
             = IF r \in Claims(v) THEN Cardinality(Claims(v)) ELSE Cardinality(Claims(v)) + 1
    BY <1>4, FS_AddElement
  <2> QED
    BY <1>4, <2>1
<1>6. /\ Cardinality(Claims(v)') \in Nat
      /\ Cardinality(Claims(v)') <= Cardinality(Claims(v) \cup {r})
  BY <1>3, <1>5, FS_Subset, FS_CardinalityType
<1>7. Cardinality(Requests) \in Nat /\ Cardinality(default \cap book[v]) \in Nat
  BY RequestSets, BooksFinite
<1> QED
  BY <1>1, <1>2, <1>4, <1>5, <1>6, <1>7 DEF Capped

LEMMA NextDefaults == DefaultsInv /\ [Next]_vars => DefaultsInv'
<1> SUFFICES ASSUME DefaultsInv, [Next]_vars
             PROVE  \A v \in Users : Capped(v)'
  BY NextBook DEF DefaultsInv
<1> USE DEF account, addressT
<1>1. TypeOK /\ TypeOK'
  BY NextType DEF DefaultsInv, BookInv
<1>2. faults \in Nat
  BY <1>1, BoundAssumption DEF TypeOK
<1>3. ASSUME UNCHANGED <<book, default>>, faults' >= faults,
             \A u \in Users : Claims(u)' \subseteq Claims(u)
      PROVE  \A v \in Users : Capped(v)'
  BY <1>1, <1>2, <1>3, QuietDefaults
<1>4. ASSUME NEW r \in Requests, NEW u \in Users, Begin(r, u)
      PROVE  \A v \in Users : Capped(v)'
  <2>1. \A v \in Users : Claims(v)' \subseteq Claims(v)
    BY <1>1, <1>4, NoNewClaim DEF Begin
  <2> QED
    BY <1>2, <1>3, <1>4, <2>1 DEF Begin
<1>5. ASSUME NEW r \in Requests,
             UpdateProfile(r) \/ FileTicket(r) \/ CommitDeletion(r) \/ RequestFails(r)
      PROVE  \A v \in Users : Capped(v)'
  <2>1. \A v \in Users : Claims(v)' \subseteq Claims(v)
    BY <1>1, <1>5, NoNewClaim DEF UpdateProfile, FileTicket, CommitDeletion, RequestFails, Done
  <2>2. UNCHANGED <<book, default>> /\ faults' >= faults
    BY <1>2, <1>5 DEF UpdateProfile, FileTicket, CommitDeletion, RequestFails, Fault
  <2> QED
    BY <1>3, <2>1, <2>2
<1>6. ASSUME NEW r \in Requests, NEW a \in Addresses, LoadAddress(r, a) \/ CheckOwner(r, a)
      PROVE  \A v \in Users : Capped(v)'
  <2>1. \A v \in Users : Claims(v)' \subseteq Claims(v)
    BY <1>1, <1>6, NoNewClaim DEF LoadAddress, CheckOwner
  <2> QED
    BY <1>2, <1>3, <1>6, <2>1 DEF LoadAddress, CheckOwner
<1>7. ASSUME NEW r \in Requests, CheckPending(r)
      PROVE  \A v \in Users : Capped(v)'
  <2>1. req[r] \in [pc : {"authed", "unasked"}, user : Users]
    BY <1>1, <1>7, ActiveRequest DEF CheckPending, Locals
  <2>2. req' = [req EXCEPT ![r] = [req[r] EXCEPT !.pc = "unasked"]]
    BY <1>7 DEF CheckPending
  <2>3. [req[r] EXCEPT !.pc = "unasked"].pc = "unasked"
    BY <2>1
  <2>4. \A v \in Users : Claims(v)' \subseteq Claims(v)
    BY <1>1, <2>2, <2>3, NoNewClaim
  <2> QED
    BY <1>2, <1>3, <1>7, <2>4 DEF CheckPending
<1>8. ASSUME NEW r \in Requests, NEW a \in Addresses, DeleteAddress(r, a)
      PROVE  \A v \in Users : Capped(v)'
  <2>1. \A v \in Users : Claims(v)' \subseteq Claims(v)
    BY <1>1, <1>8, NoNewClaim DEF DeleteAddress, Done
  <2>2. /\ \A v \in Users : book'[v] \subseteq book[v]
        /\ default' \subseteq default
        /\ faults' = faults
    BY <1>1, <1>8 DEF DeleteAddress, TypeOK
  <2>3. \A v \in Users : default' \cap book'[v] \subseteq default \cap book[v]
    BY <2>2
  <2> QED
    BY <1>1, <1>2, <2>1, <2>2, <2>3, QuietDefaults
<1>9. ASSUME NEW i \in Deletions, Anonymize(i)
      PROVE  \A v \in Users : Capped(v)'
  BY <1>1, <1>9, AnonymizeDefaults DEF Anonymize, TypeOK
<1>10. ASSUME NEW u \in Users, HardDelete(u)
       PROVE  \A v \in Users : Capped(v)'
  BY <1>1, <1>10, AnonymizeDefaults DEF HardDelete
<1>11. ASSUME NEW i \in Deletions, ComeDue(i) \/ AnonymizeBlocked(i) \/ AnonymizeFails(i)
       PROVE  \A v \in Users : Capped(v)'
  <2>1. UNCHANGED <<book, default, req>> /\ faults' >= faults
    BY <1>2, <1>11 DEF ComeDue, AnonymizeBlocked, AnonymizeFails, Fault
  <2> QED
    BY <1>3, <2>1 DEF Claims, Of
<1>12. CASE SelectDue \/ UNCHANGED vars
  <2>1. UNCHANGED <<book, default, req>> /\ faults' >= faults
    BY <1>2, <1>12 DEF SelectDue, vars
  <2> QED
    BY <1>3, <2>1 DEF Claims, Of
<1>13. CASE Crash
  <2>1. UNCHANGED <<book, default>> /\ faults' >= faults
    BY <1>2, <1>13 DEF Crash, Fault
  <2>2. \A v \in Users : Claims(v)' \subseteq Claims(v)
    BY <1>13 DEF Crash, Claims, Of
  <2> QED
    BY <1>3, <2>1, <2>2
<1>14. ASSUME NEW r \in Requests, CountAddresses(r) \/ CountFails(r) \/ Insert(r) \/ SetDefault(r)
       PROVE  \A v \in Users : Capped(v)'
  BY <1>1, <1>14, CountDefaults, FailDefaults, InsertDefaults, SetDefaults
<1> QED
  BY <1>4, <1>5, <1>6, <1>7, <1>8, <1>9, <1>10, <1>11, <1>12, <1>13, <1>14 DEF Next, Request

\* A user has no more default addresses than there were requests at once, and
\* counts that failed.
THEOREM DefaultsStayBounded == Spec => []DefaultsBounded
<1>1. Init => DefaultsInv
  BY InitDefaults
<1>2. DefaultsInv /\ [Next]_vars => DefaultsInv'
  BY NextDefaults
<1>3. DefaultsInv => DefaultsBounded
  BY DEF DefaultsInv, Capped, Claims, DefaultsBounded
<1> QED
  BY <1>1, <1>2, <1>3, PTL DEF Spec
=============================================================================
