-------------------------- MODULE ModerationProofs --------------------------
(***************************************************************************)
(* Theorems about Moderation, for every set of contents, authors and       *)
(* moderators and every length of the freezes.                             *)
(***************************************************************************)
EXTENDS Moderation, FiniteSetTheorems, SequenceTheorems, TLAPS

-----------------------------------------------------------------------------
(* Type correctness.  TypeOK says which values status has; that it is a    *)
(* function on Contents is part of the invariant.                          *)

Typed == TypeOK /\ status \in [Contents -> {"absent", "published", "pending_moderation",
                                            "rejected", "closed", "removed"}]

LEMMA FaultType == TypeOK /\ Fault => faults' \in 0..MaxFaults
BY BoundAssumption DEF TypeOK, Fault

LEMMA FreezeType == ASSUME TypeOK, NEW u, FreezeCheck(u) PROVE faults' \in 0..MaxFaults
BY FaultType DEF FreezeCheck, TypeOK

LEMMA HiddenType ==
    ASSUME NEW c \in Contents
    PROVE  /\ HiddenAs[Kind[c]] \in StatusOf(c)
           /\ HiddenAs[Kind[c]] \in {"rejected", "closed", "removed"}
           /\ "published" \in StatusOf(c) /\ "pending_moderation" \in StatusOf(c)
           /\ Kind[c] = "qa_post" => "removed" \in StatusOf(c)
<1>1. Kind[c] \in {"review", "qa_thread", "qa_post"}
  BY ContentAssumption DEF Kinds
<1> QED
  BY <1>1 DEF HiddenAs, StatusOf

\* A new status in one row.
LEMMA StatusType ==
    ASSUME Typed, NEW c \in Contents, NEW v \in StatusOf(c),
           v \in {"absent", "published", "pending_moderation", "rejected", "closed", "removed"},
           status' = [status EXCEPT ![c] = v]
    PROVE  /\ status' \in [Contents -> {"absent", "published", "pending_moderation",
                                        "rejected", "closed", "removed"}]
           /\ \A d \in Contents : status'[d] \in StatusOf(d)
BY DEF Typed, TypeOK

LEMMA ModShape ==
    ASSUME TypeOK, NEW m \in Moderators, mod[m].pc \in {"approving", "rejecting", "counted"}
    PROVE  /\ mod[m] \in Deciding /\ mod[m].item \in Contents
           /\ Author[mod[m].item] \in Users
           /\ mod[m].pc = "counted" => mod[m].priorCount \in Nat
<1>1. mod[m] \in Deciding
  BY DEF TypeOK, Idle
<1> QED
  BY <1>1, ContentAssumption DEF Deciding

LEMMA InitType == Init => Typed
<1> SUFFICES ASSUME Init
             PROVE  Typed
  OBVIOUS
<1>1. \A c \in Contents : status[c] \in StatusOf(c)
  BY DEF Init, StatusOf
<1>2. /\ status \in [Contents -> {"absent", "published", "pending_moderation",
                                  "rejected", "closed", "removed"}]
      /\ text \in [Contents -> {"clean", "borderline"}]
      /\ queue \in [Contents -> {"none", "pending", "approved", "rejected"}]
      /\ post \in [Contents -> {"idle", "passed", "flagged", "inserted", "demoted", "done"}]
      /\ mod \in [Moderators -> Deciding \cup {Idle}]
      /\ frozenUntil \in [Users -> Nat]
  BY DEF Init
<1>3. /\ actions \in [Contents -> Seq({"approve", "reject"})]
      /\ strikes \in [Users -> Seq({FirstFreezeHours, SecondFreezeHours})]
  <2>1. <<>> \in Seq({"approve", "reject"}) /\ <<>> \in Seq({FirstFreezeHours, SecondFreezeHours})
    OBVIOUS
  <2> QED
    BY <2>1 DEF Init
<1>4. now \in 0..MaxTime /\ faults \in 0..MaxFaults
  BY BoundAssumption DEF Init
<1> QED
  BY <1>1, <1>2, <1>3, <1>4 DEF Typed, TypeOK

LEMMA WriteType ==
    ASSUME Typed, NEW c \in Contents, Write(c)
    PROVE  Typed'
<1>1. ASSUME NEW txt \in {"clean", "borderline"}, NEW flagged \in BOOLEAN, StartPost(c, txt, flagged)
      PROVE  Typed'
  <2>1. faults' \in 0..MaxFaults
    BY <1>1, FreezeType DEF StartPost, Typed
  <2> QED
    BY <1>1, <2>1 DEF StartPost, Typed, TypeOK, StatusOf
<1>2. CASE Insert(c)
  <2>1. status' = [status EXCEPT ![c] = "published"]
    BY <1>2 DEF Insert
  <2> QED
    BY <1>2, <2>1, StatusType, HiddenType DEF Insert, Typed, TypeOK, StatusOf
<1>3. CASE Demote(c)
  <2>1. status' = [status EXCEPT ![c] = "pending_moderation"]
    BY <1>3 DEF Demote
  <2> QED
    BY <1>3, <2>1, StatusType, HiddenType DEF Demote, Typed, TypeOK, StatusOf
<1>4. CASE Enqueue(c)
  BY <1>4 DEF Enqueue, Typed, TypeOK, StatusOf
<1>5. ASSUME NEW txt \in {"clean", "borderline"}, UpdateReview(c, txt)
      PROVE  Typed'
  <2>1. faults' \in 0..MaxFaults
    BY <1>5, FreezeType DEF UpdateReview, Typed
  <2> QED
    BY <1>5, <2>1 DEF UpdateReview, Typed, TypeOK, StatusOf
<1>6. CASE DeletePost(c)
  <2>1. status' = [status EXCEPT ![c] = "removed"] /\ Kind[c] = "qa_post"
    BY <1>6 DEF DeletePost
  <2>2. "removed" \in StatusOf(c)
    BY <2>1 DEF StatusOf
  <2>3. \A d \in Contents : status'[d] \in StatusOf(d)
    BY <2>1, <2>2 DEF Typed, TypeOK
  <2> QED
    BY <1>6, <2>1, <2>3 DEF DeletePost, Typed, TypeOK
<1>7. CASE PostFails(c)
  BY <1>7, FaultType DEF PostFails, rows, Typed, TypeOK, StatusOf
<1> QED
  BY <1>1, <1>2, <1>3, <1>4, <1>5, <1>6, <1>7 DEF Write

LEMMA DecideType ==
    ASSUME Typed, NEW m \in Moderators, Decide(m)
    PROVE  Typed'
<1>0. Idle \in Deciding \cup {Idle}
  OBVIOUS
<1>1. ASSUME NEW c \in Contents, ApproveCheck(m, c) \/ RejectCheck(m, c)
      PROVE  Typed'
  <2>1. /\ [pc |-> "approving", item |-> c] \in Deciding
        /\ [pc |-> "rejecting", item |-> c] \in Deciding
    BY DEF Deciding
  <2>2. mod' \in [Moderators -> Deciding \cup {Idle}]
    BY <1>1, <2>1 DEF ApproveCheck, RejectCheck, Typed, TypeOK
  <2> QED
    BY <1>1, <2>2 DEF ApproveCheck, RejectCheck, rows, Typed, TypeOK, StatusOf
<1>2. CASE Approve(m)
  <2> PICK c : c = mod[m].item
    OBVIOUS
  <2>1. c \in Contents /\ status' = [status EXCEPT ![c] = "published"]
    BY <1>2, ModShape DEF Approve, Typed
  <2>2. actions' \in [Contents -> Seq({"approve", "reject"})]
    <3>1. Append(actions[c], "approve") \in Seq({"approve", "reject"})
      BY <2>1 DEF Typed, TypeOK
    <3> QED
      BY <1>2, <3>1 DEF Approve, Typed, TypeOK
  <2>3. mod' \in [Moderators -> Deciding \cup {Idle}]
    BY <1>0, <1>2 DEF Approve, Typed, TypeOK
  <2>4. queue' \in [Contents -> {"none", "pending", "approved", "rejected"}]
        /\ UNCHANGED <<text, strikes, frozenUntil, post, now, faults>>
    BY <1>2 DEF Approve, Typed, TypeOK
  <2>5. /\ status' \in [Contents -> {"absent", "published", "pending_moderation",
                                     "rejected", "closed", "removed"}]
        /\ \A d \in Contents : status'[d] \in StatusOf(d)
    BY <2>1, StatusType, HiddenType
  <2> QED
    BY <2>2, <2>3, <2>4, <2>5 DEF Typed, TypeOK, StatusOf
<1>3. CASE RejectCount(m)
  <2>1. mod[m].item \in Contents /\ Author[mod[m].item] \in Users
    BY <1>3, ModShape DEF RejectCount, Typed
  <2>2. Len(strikes[Author[mod[m].item]]) \in Nat
    BY <2>1 DEF Typed, TypeOK
  <2>3. [pc |-> "counted", item |-> mod[m].item,
         priorCount |-> Len(strikes[Author[mod[m].item]])] \in Deciding
    BY <2>1, <2>2 DEF Deciding
  <2>4. mod' \in [Moderators -> Deciding \cup {Idle}]
    BY <1>3, <2>3 DEF RejectCount, Typed, TypeOK
  <2> QED
    BY <1>3, <2>4 DEF RejectCount, rows, Typed, TypeOK, StatusOf
<1>4. CASE RejectCommit(m)
  <2> PICK c : c = mod[m].item
    OBVIOUS
  <2> PICK u : u = Author[c]
    OBVIOUS
  <2> PICK hours : hours = FreezeHours(mod[m].priorCount + 1)
    OBVIOUS
  <2>1. c \in Contents /\ u \in Users /\ mod[m].priorCount \in Nat
    BY <1>4, ModShape DEF RejectCommit, Typed
  <2>2. hours \in {FirstFreezeHours, SecondFreezeHours} /\ hours \in Nat
    BY FreezeAssumption DEF FreezeHours
  <2>3. /\ queue' = [queue EXCEPT ![c] = "rejected"]
        /\ status' = [status EXCEPT ![c] = HiddenAs[Kind[c]]]
        /\ actions' = [actions EXCEPT ![c] = Append(@, "reject")]
        /\ frozenUntil' = [frozenUntil EXCEPT ![u] = now + hours]
        /\ strikes' = [strikes EXCEPT ![u] = Append(@, hours)]
        /\ mod' = [mod EXCEPT ![m] = Idle]
        /\ UNCHANGED <<text, post, now, faults>>
    BY <1>4 DEF RejectCommit
  <2>4. actions' \in [Contents -> Seq({"approve", "reject"})]
    <3>1. Append(actions[c], "reject") \in Seq({"approve", "reject"})
      BY <2>1 DEF Typed, TypeOK
    <3> QED
      BY <2>3, <3>1 DEF Typed, TypeOK
  <2>5. strikes' \in [Users -> Seq({FirstFreezeHours, SecondFreezeHours})]
    <3>1. Append(strikes[u], hours) \in Seq({FirstFreezeHours, SecondFreezeHours})
      BY <2>1, <2>2 DEF Typed, TypeOK
    <3> QED
      BY <2>3, <3>1 DEF Typed, TypeOK
  <2>6. mod' \in [Moderators -> Deciding \cup {Idle}]
    BY <1>0, <2>3 DEF Typed, TypeOK
  <2>7. frozenUntil' \in [Users -> Nat]
    BY <2>1, <2>2, <2>3 DEF Typed, TypeOK
  <2>8. /\ status' \in [Contents -> {"absent", "published", "pending_moderation",
                                     "rejected", "closed", "removed"}]
        /\ \A d \in Contents : status'[d] \in StatusOf(d)
    BY <2>1, <2>3, StatusType, HiddenType
  <2> QED
    BY <2>3, <2>4, <2>5, <2>6, <2>7, <2>8 DEF Typed, TypeOK, StatusOf
<1>5. CASE DecisionFails(m)
  <2>1. mod' \in [Moderators -> Deciding \cup {Idle}]
    BY <1>0, <1>5 DEF DecisionFails, Typed, TypeOK
  <2> QED
    BY <1>5, <2>1, FaultType DEF DecisionFails, rows, Typed, TypeOK, StatusOf
<1> QED
  BY <1>1, <1>2, <1>3, <1>4, <1>5 DEF Decide

LEMMA NextType == Typed /\ [Next]_vars => Typed'
<1> SUFFICES ASSUME Typed, [Next]_vars
             PROVE  Typed'
  OBVIOUS
<1>1. CASE Tick
  <2>1. now' \in 0..MaxTime
    BY <1>1, BoundAssumption DEF Tick, Typed, TypeOK
  <2> QED
    BY <1>1, <2>1 DEF Tick, rows, Typed, TypeOK, StatusOf
<1>2. CASE Crash
  <2>1. post' \in [Contents -> {"idle", "passed", "flagged", "inserted", "demoted", "done"}]
    BY <1>2 DEF Crash
  <2>2. mod' \in [Moderators -> Deciding \cup {Idle}]
    BY <1>2 DEF Crash
  <2> QED
    BY <1>2, <2>1, <2>2, FaultType DEF Crash, rows, Typed, TypeOK, StatusOf
<1>3. CASE UNCHANGED vars
  BY <1>3 DEF vars, rows, Typed, TypeOK, StatusOf
<1> QED
  BY <1>1, <1>2, <1>3, WriteType, DecideType DEF Next

\* Every column holds a value of its type, the status columns one of the ENUM
\* of their table, whatever promoteContent writes.
THEOREM TypeCorrect == Spec => []TypeOK
<1>1. Typed => TypeOK
  BY DEF Typed
<1> QED
  BY <1>1, InitType, NextType, PTL DEF Spec

-----------------------------------------------------------------------------
(* The queue item, the content and the log agree.                          *)

\* A content that is still being written has no queue item; one that was
\* demoted is pending, unless a moderator deleted it.
Written ==
    \A c \in Contents :
        /\ post[c] \in {"idle", "passed", "flagged"} => status[c] = "absent"
        /\ post[c] # "done" => queue[c] = "none"
        /\ post[c] = "demoted" => status[c] \in {"pending_moderation", "removed"}
        /\ queue[c] # "none" => status[c] # "absent"

\* A decision is about content that is in the queue.
Decided == \A m \in Moderators : mod[m] # Idle => queue[mod[m].item] # "none"

AgreeInv == Typed /\ Written /\ Decided /\ QueueAgrees

LEMMA ModKnown == ASSUME TypeOK, NEW m \in Moderators
                  PROVE  mod[m] # Idle <=> mod[m].pc \in {"approving", "rejecting", "counted"}
BY DEF TypeOK, Deciding, Idle

LEMMA WriteAgrees ==
    ASSUME AgreeInv, NEW c \in Contents, Write(c)
    PROVE  Written' /\ Decided' /\ QueueAgrees'
<1> USE DEF AgreeInv
<1>1. ASSUME UNCHANGED <<status, queue, actions, mod>>,
             \A d \in Contents :
                \/ post'[d] = post[d]
                \/ post[d] \in {"idle", "passed", "flagged"} /\ post'[d] \in {"passed", "flagged"}
                \/ post'[d] = "done"
      PROVE  Written' /\ Decided' /\ QueueAgrees'
  <2>1. Written'
    BY <1>1 DEF Written
  <2> QED
    BY <1>1, <2>1 DEF Decided, QueueAgrees
<1>2. ASSUME NEW txt, NEW flagged, StartPost(c, txt, flagged)
      PROVE  Written' /\ Decided' /\ QueueAgrees'
  BY <1>1, <1>2 DEF StartPost, Typed, TypeOK
<1>3. ASSUME NEW txt, UpdateReview(c, txt)
      PROVE  Written' /\ Decided' /\ QueueAgrees'
  BY <1>1, <1>3 DEF UpdateReview
<1>4. CASE PostFails(c)
  BY <1>1, <1>4 DEF PostFails, rows, Typed, TypeOK
<1>5. ASSUME UNCHANGED <<queue, actions, mod>>, queue[c] = "none",
             NEW s, NEW p,
             status' = [status EXCEPT ![c] = s], post' = [post EXCEPT ![c] = p],
             p \in {"inserted", "demoted", "done"}, s # "absent",
             p = "demoted" => s = "pending_moderation"
      PROVE  Written' /\ Decided' /\ QueueAgrees'
  <2>1. Written'
    BY <1>5 DEF Written, Typed, TypeOK
  <2>2. QueueAgrees'
    BY <1>5 DEF QueueAgrees, Typed, TypeOK
  <2> QED
    BY <1>5, <2>1, <2>2 DEF Decided
<1>6. CASE Insert(c)
  <2>1. queue[c] = "none"
    BY <1>6 DEF Insert, Written
  <2> QED
    BY <1>5, <1>6, <2>1 DEF Insert, Typed, TypeOK
<1>7. CASE Demote(c)
  <2>1. queue[c] = "none"
    BY <1>7 DEF Demote, Written
  <2> QED
    BY <1>5, <1>7, <2>1 DEF Demote
<1>8. CASE Enqueue(c)
  <2>1. /\ queue[c] = "none" /\ status[c] \in {"pending_moderation", "removed"}
        /\ UNCHANGED <<status, actions, mod>>
        /\ queue' = [queue EXCEPT ![c] = "pending"]
        /\ post' = [post EXCEPT ![c] = "done"]
    BY <1>8 DEF Enqueue, Written
  <2>2. Written'
    BY <2>1 DEF Written, Typed, TypeOK
  <2>3. Decided'
    BY <2>1 DEF Decided, Typed, TypeOK
  <2>4. QueueAgrees'
    BY <2>1 DEF QueueAgrees, Typed, TypeOK
  <2> QED
    BY <2>2, <2>3, <2>4
<1>9. CASE DeletePost(c)
  <2>1. /\ Kind[c] = "qa_post" /\ status[c] \notin {"absent", "removed"}
        /\ UNCHANGED <<queue, actions, mod, post>>
        /\ status' = [status EXCEPT ![c] = "removed"]
    BY <1>9 DEF DeletePost
  <2>2. Written' /\ Decided'
    BY <2>1 DEF Written, Decided, Typed, TypeOK
  <2>3. QueueAgrees'
    BY <2>1 DEF QueueAgrees, HiddenAs, Typed, TypeOK
  <2> QED
    BY <2>2, <2>3
<1> QED
  BY <1>2, <1>3, <1>4, <1>6, <1>7, <1>8, <1>9 DEF Write

\* A decision writes the item, its content and the log in one transaction.
LEMMA DecisionAgrees ==
    ASSUME AgreeInv, NEW m \in Moderators, mod[m] # Idle,
           NEW c \in Contents, c = mod[m].item, NEW a \in {"approve", "reject"},
           queue' = [queue EXCEPT ![c] = DecidedAs[a]],
           status' = [status EXCEPT ![c] = IF a = "approve" THEN "published" ELSE HiddenAs[Kind[c]]],
           actions' = [actions EXCEPT ![c] = Append(@, a)],
           mod' = [mod EXCEPT ![m] = Idle], UNCHANGED post
    PROVE  Written' /\ Decided' /\ QueueAgrees'
<1> USE DEF AgreeInv
<1>1. queue[c] # "none" /\ post[c] = "done"
  BY DEF Decided, Written
<1>2. DecidedAs[a] \in {"approved", "rejected"} /\ (DecidedAs[a] = "approved" <=> a = "approve")
  BY DEF DecidedAs
<1>3. HiddenAs[Kind[c]] \in {"rejected", "closed", "removed"}
  BY HiddenType
<1>4. Written'
  BY <1>1, <1>3 DEF Written, Typed, TypeOK
<1>5. Decided'
  <2> SUFFICES ASSUME NEW n \in Moderators, mod'[n] # Idle
               PROVE  queue'[mod'[n].item] # "none"
    BY DEF Decided
  <2>1. n # m /\ mod'[n] = mod[n] /\ mod[n].item \in Contents
    BY ModShape, ModKnown DEF Typed, TypeOK
  <2> QED
    BY <1>2, <2>1 DEF Decided, Typed, TypeOK
<1>6. QueueAgrees'
  <2> SUFFICES ASSUME NEW d \in Contents
               PROVE  /\ actions'[d] = <<>> <=> queue'[d] \in {"none", "pending"}
                      /\ actions'[d] # <<>> => queue'[d] = DecidedAs[actions'[d][Len(actions'[d])]]
                      /\ queue'[d] = "rejected" => status'[d] = HiddenAs[Kind[d]]
                      /\ queue'[d] = "approved" => status'[d] \in {"published", "removed"}
                      /\ queue'[d] = "pending" => status'[d] \in {"pending_moderation", "removed"}
    BY DEF QueueAgrees
  <2>1. CASE d = c
    <3>1. /\ actions'[c] = Append(actions[c], a) /\ actions[c] \in Seq({"approve", "reject"})
          /\ queue'[c] = DecidedAs[a]
          /\ status'[c] = IF a = "approve" THEN "published" ELSE HiddenAs[Kind[c]]
      BY DEF Typed, TypeOK
    <3>2. actions'[c] # <<>> /\ actions'[c][Len(actions'[c])] = a
      BY <3>1
    <3> QED
      BY <1>2, <2>1, <3>1, <3>2
  <2>2. CASE d # c
    <3>1. actions'[d] = actions[d] /\ queue'[d] = queue[d] /\ status'[d] = status[d]
      BY <2>2 DEF Typed, TypeOK
    <3> QED
      BY <3>1 DEF QueueAgrees
  <2> QED
    BY <2>1, <2>2
<1> QED
  BY <1>4, <1>5, <1>6

LEMMA DecideAgrees ==
    ASSUME AgreeInv, NEW m \in Moderators, Decide(m)
    PROVE  Written' /\ Decided' /\ QueueAgrees'
<1> USE DEF AgreeInv
<1>1. ASSUME UNCHANGED <<status, queue, actions, post>>, NEW locals,
             mod' = [mod EXCEPT ![m] = locals],
             locals = Idle \/ queue[locals.item] # "none"
      PROVE  Written' /\ Decided' /\ QueueAgrees'
  <2>1. Decided'
    BY <1>1 DEF Decided, Typed, TypeOK
  <2> QED
    BY <1>1, <2>1 DEF Written, QueueAgrees
<1>2. ASSUME NEW c \in Contents, ApproveCheck(m, c)
      PROVE  Written' /\ Decided' /\ QueueAgrees'
  <2>1. PICK locals : locals = [pc |-> "approving", item |-> c]
    OBVIOUS
  <2>2. locals.item = c /\ queue[c] # "none"
    BY <1>2, <2>1 DEF ApproveCheck
  <2> QED
    BY <1>1, <1>2, <2>1, <2>2 DEF ApproveCheck, rows
<1>3. ASSUME NEW c \in Contents, RejectCheck(m, c)
      PROVE  Written' /\ Decided' /\ QueueAgrees'
  <2>1. PICK locals : locals = [pc |-> "rejecting", item |-> c]
    OBVIOUS
  <2>2. locals.item = c /\ queue[c] # "none"
    BY <1>3, <2>1 DEF RejectCheck
  <2> QED
    BY <1>1, <1>3, <2>1, <2>2 DEF RejectCheck, rows
<1>4. CASE RejectCount(m)
  <2>1. PICK locals : locals = [pc |-> "counted", item |-> mod[m].item,
                                priorCount |-> Len(strikes[Author[mod[m].item]])]
    OBVIOUS
  <2>2. locals.item = mod[m].item /\ queue[mod[m].item] # "none"
    BY <1>4, <2>1, ModKnown DEF RejectCount, Decided, Typed
  <2> QED
    BY <1>1, <1>4, <2>1, <2>2 DEF RejectCount, rows
<1>5. CASE Approve(m)
  <2>1. PICK c \in Contents : c = mod[m].item
    BY <1>5, ModShape DEF Approve, Typed
  <2>2. mod[m] # Idle /\ DecidedAs["approve"] = "approved"
    BY <1>5 DEF Approve, Idle, DecidedAs
  <2> QED
    BY <1>5, <2>1, <2>2, DecisionAgrees DEF Approve
<1>6. CASE RejectCommit(m)
  <2>1. PICK c \in Contents : c = mod[m].item
    BY <1>6, ModShape DEF RejectCommit, Typed
  <2>2. mod[m] # Idle /\ DecidedAs["reject"] = "rejected"
    BY <1>6 DEF RejectCommit, Idle, DecidedAs
  <2> QED
    BY <1>6, <2>1, <2>2, DecisionAgrees DEF RejectCommit
<1>7. CASE DecisionFails(m)
  BY <1>1, <1>7 DEF DecisionFails, rows
<1> QED
  BY <1>2, <1>3, <1>4, <1>5, <1>6, <1>7 DEF Decide

LEMMA InitAgrees == Init => AgreeInv
BY InitType DEF Init, AgreeInv, Written, Decided, QueueAgrees

LEMMA NextAgrees == AgreeInv /\ [Next]_vars => AgreeInv'
<1> SUFFICES ASSUME AgreeInv, [Next]_vars
             PROVE  AgreeInv'
  OBVIOUS
<1>1. Typed'
  BY NextType DEF AgreeInv
<1>2. CASE Crash
  <2>1. /\ UNCHANGED <<status, queue, actions>>
        /\ \A c \in Contents : post'[c] \in {post[c], "done"}
        /\ \A m \in Moderators : mod'[m] = Idle
    BY <1>2 DEF Crash, rows
  <2>2. Written'
    BY <2>1 DEF AgreeInv, Written
  <2>3. QueueAgrees'
    BY <2>1 DEF AgreeInv, QueueAgrees
  <2> QED
    BY <1>1, <2>1, <2>2, <2>3 DEF AgreeInv, Decided
<1>3. CASE Tick \/ UNCHANGED vars
  <2>1. UNCHANGED <<status, queue, actions, post, mod>>
    BY <1>3 DEF Tick, vars, rows
  <2> QED
    BY <1>1, <2>1 DEF AgreeInv, Written, Decided, QueueAgrees
<1> QED
  BY <1>1, <1>2, <1>3, WriteAgrees, DecideAgrees DEF Next, AgreeInv

\* QueueAgrees, for every number of moderators who decide on one item at once.
THEOREM StoriesAgree == Spec => []QueueAgrees
<1>1. AgreeInv => QueueAgrees
  BY DEF AgreeInv
<1> QED
  BY <1>1, InitAgrees, NextAgrees, PTL DEF Spec

-----------------------------------------------------------------------------
(* Strikes and rejections.                                                 *)

StrikesInv ==
    \A u \in Users : IsFiniteSet(Rejections(u)) /\ Len(strikes[u]) = Cardinality(Rejections(u))

LEMMA RejectionsHas ==
    ASSUME NEW u, NEW x
    PROVE  x \in Rejections(u) <=>
              \E d \in Contents : \E k \in DOMAIN actions[d] :
                 Author[d] = u /\ actions[d][k] = "reject" /\ x = <<d, k>>
BY DEF Rejections

\* An action a about c: a rejection more if it is one, of the author of c.
LEMMA RejectionsGrow ==
    ASSUME TypeOK, NEW c \in Contents, NEW a \in {"approve", "reject"},
           actions' = [actions EXCEPT ![c] = Append(@, a)], NEW u \in Users
    PROVE  /\ a = "reject" /\ Author[c] = u =>
                 /\ Rejections(u)' = Rejections(u) \cup {<<c, Len(actions[c]) + 1>>}
                 /\ <<c, Len(actions[c]) + 1>> \notin Rejections(u)
           /\ a # "reject" \/ Author[c] # u => Rejections(u)' = Rejections(u)
<1> PICK n : n = Len(actions[c])
  OBVIOUS
<1>1. /\ n \in Nat /\ DOMAIN actions[c] = 1..n
      /\ actions'[c] = Append(actions[c], a) /\ DOMAIN actions'[c] = 1..(n + 1)
      /\ actions'[c][n + 1] = a /\ \A k \in 1..n : actions'[c][k] = actions[c][k]
      /\ \A d \in Contents : d # c => actions'[d] = actions[d]
  BY DEF TypeOK
<1>2. ASSUME NEW x
      PROVE  x \in Rejections(u)' <=> \/ x \in Rejections(u)
                                      \/ a = "reject" /\ Author[c] = u /\ x = <<c, n + 1>>
  <2>1. x \in Rejections(u)' <=>
           \E d \in Contents : \E k \in DOMAIN actions'[d] :
              Author[d] = u /\ actions'[d][k] = "reject" /\ x = <<d, k>>
    BY DEF Rejections
  <2>2. x \in Rejections(u) <=>
           \E d \in Contents : \E k \in DOMAIN actions[d] :
              Author[d] = u /\ actions[d][k] = "reject" /\ x = <<d, k>>
    BY DEF Rejections
  <2>3. ASSUME NEW d \in Contents, NEW k
        PROVE  (k \in DOMAIN actions'[d] /\ actions'[d][k] = "reject") <=>
                  \/ k \in DOMAIN actions[d] /\ actions[d][k] = "reject"
                  \/ d = c /\ k = n + 1 /\ a = "reject"
    <3>1. CASE d # c
      BY <1>1, <3>1
    <3>2. CASE d = c
      <4>1. k \in 1..(n + 1) <=> k \in 1..n \/ k = n + 1
        BY <1>1
      <4>2. n + 1 \notin 1..n
        BY <1>1
      <4> QED
        BY <1>1, <3>2, <4>1, <4>2
    <3> QED
      BY <3>1, <3>2
  <2> QED
    BY <2>1, <2>2, <2>3
<1>3. <<c, n + 1>> \notin Rejections(u)
  <2>1. n + 1 \notin DOMAIN actions[c]
    BY <1>1
  <2> QED
    BY <2>1, RejectionsHas
<1> QED
  BY <1>2, <1>3

LEMMA DecideStrikes ==
    ASSUME Typed, StrikesInv, NEW m \in Moderators, Decide(m)
    PROVE  StrikesInv'
<1>1. CASE UNCHANGED <<actions, strikes>>
  BY <1>1 DEF StrikesInv, Rejections
<1>2. CASE Approve(m)
  <2>1. PICK c \in Contents : actions' = [actions EXCEPT ![c] = Append(@, "approve")]
    BY <1>2, ModShape DEF Approve, Typed
  <2>2. \A u \in Users : Rejections(u)' = Rejections(u)
    BY <2>1, RejectionsGrow DEF Typed
  <2>3. strikes' = strikes
    BY <1>2 DEF Approve
  <2> QED
    BY <2>2, <2>3 DEF StrikesInv
<1>3. CASE RejectCommit(m)
  <2>1. PICK c \in Contents, hours \in Nat :
           /\ Author[c] \in Users
           /\ actions' = [actions EXCEPT ![c] = Append(@, "reject")]
           /\ strikes' = [strikes EXCEPT ![Author[c]] = Append(@, hours)]
    BY <1>3, ModShape, FreezeAssumption DEF RejectCommit, FreezeHours, Typed
  <2> SUFFICES ASSUME NEW u \in Users
               PROVE  IsFiniteSet(Rejections(u)') /\ Len(strikes'[u]) = Cardinality(Rejections(u)')
    BY DEF StrikesInv
  <2>2. IsFiniteSet(Rejections(u)) /\ Len(strikes[u]) = Cardinality(Rejections(u))
    BY DEF StrikesInv
  <2>3. CASE Author[c] = u
    <3> PICK x : x = <<c, Len(actions[c]) + 1>>
      OBVIOUS
    <3>1. Rejections(u)' = Rejections(u) \cup {x} /\ x \notin Rejections(u)
      BY <2>1, <2>3, RejectionsGrow DEF Typed
    <3>2. IsFiniteSet(Rejections(u)') /\ Cardinality(Rejections(u)') = Cardinality(Rejections(u)) + 1
      BY <2>2, <3>1, FS_AddElement
    <3>3. Len(strikes'[u]) = Len(strikes[u]) + 1
      BY <2>1, <2>3 DEF Typed, TypeOK
    <3> QED
      BY <2>2, <3>2, <3>3
  <2>4. CASE Author[c] # u
    <3>1. Rejections(u)' = Rejections(u)
      BY <2>1, <2>4, RejectionsGrow DEF Typed
    <3>2. strikes'[u] = strikes[u]
      BY <2>1, <2>4 DEF Typed, TypeOK
    <3> QED
      BY <2>2, <3>1, <3>2
  <2> QED
    BY <2>3, <2>4
<1> QED
  BY <1>1, <1>2, <1>3 DEF Decide, ApproveCheck, RejectCheck, RejectCount, DecisionFails, rows

LEMMA NextStrikes == Typed /\ StrikesInv /\ [Next]_vars => StrikesInv'
<1> SUFFICES ASSUME Typed, StrikesInv, [Next]_vars
             PROVE  StrikesInv'
  OBVIOUS
<1>1. CASE UNCHANGED <<actions, strikes>>
  BY <1>1 DEF StrikesInv, Rejections
<1>2. ASSUME NEW c \in Contents, Write(c)
      PROVE  UNCHANGED <<actions, strikes>>
  BY <1>2 DEF Write, StartPost, Insert, Demote, Enqueue, UpdateReview, DeletePost, PostFails, rows
<1> QED
  BY <1>1, <1>2, DecideStrikes DEF Next, Tick, Crash, vars, rows

LEMMA InitStrikes == Init => StrikesInv
<1> SUFFICES ASSUME Init
             PROVE  StrikesInv
  OBVIOUS
<1>1. \A u \in Users : Rejections(u) = {}
  BY DEF Init, Rejections
<1>2. \A u \in Users : Len(strikes[u]) = 0
  BY DEF Init
<1> QED
  BY <1>1, <1>2, FS_EmptySet DEF StrikesInv

\* StrikePerRejection: no interleaving, rollback or restart loses a violation
\* or records one without a rejection.
THEOREM StrikesCounted == Spec => []StrikePerRejection
<1>1. StrikesInv => StrikePerRejection
  BY DEF StrikesInv, StrikePerRejection
<1> QED
  BY <1>1, InitType, NextType, InitStrikes, NextStrikes, PTL DEF Spec

-----------------------------------------------------------------------------
(* The escalation.                                                         *)

ShortStrikes(u) == { k \in DOMAIN strikes[u] : strikes[u][k] = FirstFreezeHours }

\* Moderators who will give u the short freeze.
Lenient(u) == { m \in Moderators : /\ mod[m].pc = "counted" /\ mod[m].priorCount = 0
                                   /\ Author[mod[m].item] = u }

Escalation ==
    /\ \A u \in Users :
          /\ strikes[u] # <<>> => strikes[u][1] = FirstFreezeHours
          /\ Cardinality(ShortStrikes(u)) + Cardinality(Lenient(u)) <= Cardinality(Moderators)
    /\ \A m \in Moderators : mod[m].pc = "counted" =>
          mod[m].priorCount <= Len(strikes[Author[mod[m].item]])

LEMMA EscalationSets ==
    ASSUME TypeOK, NEW u \in Users
    PROVE  /\ strikes[u] \in Seq({FirstFreezeHours, SecondFreezeHours}) /\ Len(strikes[u]) \in Nat
           /\ DOMAIN strikes[u] = 1..Len(strikes[u])
           /\ IsFiniteSet(ShortStrikes(u)) /\ Cardinality(ShortStrikes(u)) \in Nat
           /\ IsFiniteSet(Lenient(u)) /\ Cardinality(Lenient(u)) \in Nat
           /\ Cardinality(Lenient(u)) <= Cardinality(Moderators)
           /\ Cardinality(Moderators) \in Nat
<1>1. /\ strikes[u] \in Seq({FirstFreezeHours, SecondFreezeHours})
      /\ Len(strikes[u]) \in Nat /\ DOMAIN strikes[u] = 1..Len(strikes[u])
  BY DEF TypeOK
<1>2. IsFiniteSet(1..Len(strikes[u]))
  BY <1>1, FS_Interval
<1>3. IsFiniteSet(ShortStrikes(u)) /\ Cardinality(ShortStrikes(u)) \in Nat
  BY <1>1, <1>2, FS_Subset, FS_CardinalityType DEF ShortStrikes
<1>4. /\ IsFiniteSet(Lenient(u)) /\ Cardinality(Lenient(u)) <= Cardinality(Moderators)
      /\ Cardinality(Lenient(u)) \in Nat /\ Cardinality(Moderators) \in Nat
  BY ModeratorsAssumption, FS_Subset, FS_CardinalityType DEF Lenient
<1> QED
  BY <1>1, <1>3, <1>4

\* A step that records no strike and makes nobody more lenient.
LEMMA EscalationStays ==
    ASSUME Typed, Escalation, UNCHANGED strikes,
           \A m \in Moderators : mod'[m] = mod[m] \/ mod'[m].pc # "counted"
    PROVE  Escalation'
<1> SUFFICES ASSUME NEW u \in Users
             PROVE  Cardinality(ShortStrikes(u)') + Cardinality(Lenient(u)') <= Cardinality(Moderators)
  BY DEF Escalation
<1>1. ShortStrikes(u)' = ShortStrikes(u) /\ Lenient(u)' \subseteq Lenient(u)
  BY DEF ShortStrikes, Lenient
<1>2. Cardinality(Lenient(u)') <= Cardinality(Lenient(u)) /\ Cardinality(Lenient(u)') \in Nat
  BY <1>1, EscalationSets, FS_Subset, FS_CardinalityType DEF Typed
<1> QED
  BY <1>1, <1>2, EscalationSets DEF Typed, Escalation

LEMMA CountEscalates ==
    ASSUME Typed, Escalation, NEW m \in Moderators, RejectCount(m)
    PROVE  Escalation'
<1>1. PICK c \in Contents, n \in Nat :
         /\ Author[c] \in Users /\ n = Len(strikes[Author[c]]) /\ c = mod[m].item
         /\ mod' = [mod EXCEPT ![m] = [pc |-> "counted", item |-> c, priorCount |-> n]]
  <2>1. mod[m].item \in Contents /\ Author[mod[m].item] \in Users
    BY ModShape DEF RejectCount, Typed
  <2>2. Len(strikes[Author[mod[m].item]]) \in Nat
    BY <2>1, EscalationSets DEF Typed
  <2> QED
    BY <2>1, <2>2 DEF RejectCount
<1>2. /\ mod'[m].pc = "counted" /\ mod'[m].item = c /\ mod'[m].priorCount = n
      /\ \A k \in Moderators \ {m} : mod'[k] = mod[k]
      /\ strikes' = strikes
  BY <1>1 DEF RejectCount, rows, Typed, TypeOK
<1>3. \A k \in Moderators : mod'[k].pc = "counted" =>
         mod'[k].priorCount <= Len(strikes'[Author[mod'[k].item]])
  BY <1>1, <1>2 DEF Escalation
<1>4. ASSUME NEW u \in Users
      PROVE  Cardinality(ShortStrikes(u)') + Cardinality(Lenient(u)') <= Cardinality(Moderators)
  <2>1. ShortStrikes(u)' = ShortStrikes(u)
    BY <1>2 DEF ShortStrikes
  <2>2. CASE u = Author[c] /\ n = 0
    <3>1. ShortStrikes(u) = {}
      BY <1>1, <2>2, EscalationSets DEF ShortStrikes, Typed
    <3>2. Lenient(u)' \subseteq Moderators
      BY DEF Lenient
    <3>3. Cardinality(Lenient(u)') <= Cardinality(Moderators) /\ Cardinality(Lenient(u)') \in Nat
      BY <3>2, ModeratorsAssumption, FS_Subset, FS_CardinalityType
    <3> QED
      BY <2>1, <3>1, <3>3, FS_EmptySet
  <2>3. CASE u # Author[c] \/ n # 0
    <3>1. Lenient(u)' \subseteq Lenient(u)
      BY <1>2, <2>3 DEF Lenient
    <3>2. Cardinality(Lenient(u)') <= Cardinality(Lenient(u)) /\ Cardinality(Lenient(u)') \in Nat
      BY <3>1, EscalationSets, FS_Subset, FS_CardinalityType DEF Typed
    <3> QED
      BY <2>1, <3>2, EscalationSets DEF Typed, Escalation
  <2> QED
    BY <2>2, <2>3
<1>5. \A u \in Users : strikes'[u] # <<>> => strikes'[u][1] = FirstFreezeHours
  BY <1>2 DEF Escalation
<1> QED
  BY <1>3, <1>4, <1>5 DEF Escalation

\* The short freeze is given by a lenient moderator, who then is none.
LEMMA CommitEscalates ==
    ASSUME Typed, Escalation, NEW m \in Moderators, RejectCommit(m)
    PROVE  Escalation'
<1>1. PICK u \in Users, n \in Nat, hours \in Nat :
         /\ u = Author[mod[m].item] /\ n = mod[m].priorCount /\ mod[m].pc = "counted"
         /\ hours = FreezeHours(n + 1)
         /\ strikes' = [strikes EXCEPT ![u] = Append(@, hours)]
         /\ mod' = [mod EXCEPT ![m] = Idle]
  BY ModShape, FreezeAssumption DEF RejectCommit, FreezeHours, Typed
<1> PICK l : l = Len(strikes[u])
  OBVIOUS
<1>2. /\ hours \in Nat /\ (hours = FirstFreezeHours <=> n = 0) /\ n <= l /\ l \in Nat
  BY <1>1, FreezeAssumption, EscalationSets DEF FreezeHours, Escalation, Typed
<1>3. /\ mod'[m].pc # "counted" /\ \A k \in Moderators \ {m} : mod'[k] = mod[k]
      /\ \A v \in Users \ {u} : strikes'[v] = strikes[v]
      /\ strikes'[u] = Append(strikes[u], hours)
  BY <1>1 DEF Idle, Typed, TypeOK
<1>4. /\ Len(strikes'[u]) = l + 1 /\ DOMAIN strikes'[u] = 1..(l + 1)
      /\ strikes'[u][l + 1] = hours /\ \A k \in 1..l : strikes'[u][k] = strikes[u][k]
      /\ DOMAIN strikes[u] = 1..l
  BY <1>2, <1>3, EscalationSets DEF Typed
<1>5. \A v \in Users : strikes'[v] # <<>> => strikes'[v][1] = FirstFreezeHours
  <2>1. strikes'[u][1] = FirstFreezeHours
    <3>1. CASE l = 0
      BY <1>2, <1>4, <3>1
    <3>2. CASE l # 0
      <4>1. strikes[u] # <<>> /\ 1 \in 1..l
        BY <1>2, <3>2, EscalationSets DEF Typed
      <4> QED
        BY <1>4, <4>1 DEF Escalation
    <3> QED
      BY <3>1, <3>2
  <2> QED
    BY <1>3, <2>1 DEF Escalation
<1>6. \A k \in Moderators : mod'[k].pc = "counted" =>
         mod'[k].priorCount <= Len(strikes'[Author[mod'[k].item]])
  <2> SUFFICES ASSUME NEW k \in Moderators, mod'[k].pc = "counted"
               PROVE  mod'[k].priorCount <= Len(strikes'[Author[mod'[k].item]])
    OBVIOUS
  <2>1. k # m /\ mod'[k] = mod[k] /\ mod[k].priorCount \in Nat /\ Author[mod[k].item] \in Users
        /\ mod[k].priorCount <= Len(strikes[Author[mod[k].item]])
    BY <1>3, ModShape DEF Escalation, Typed
  <2>2. CASE Author[mod[k].item] = u
    BY <1>2, <1>4, <2>1, <2>2
  <2>3. CASE Author[mod[k].item] # u
    BY <1>3, <2>1, <2>3
  <2> QED
    BY <2>2, <2>3
<1>7. ASSUME NEW v \in Users
      PROVE  Cardinality(ShortStrikes(v)') + Cardinality(Lenient(v)') <= Cardinality(Moderators)
  <2>1. /\ IsFiniteSet(ShortStrikes(v)) /\ Cardinality(ShortStrikes(v)) \in Nat
        /\ IsFiniteSet(Lenient(v)) /\ Cardinality(Lenient(v)) \in Nat
        /\ Cardinality(Moderators) \in Nat
        /\ Cardinality(ShortStrikes(v)) + Cardinality(Lenient(v)) <= Cardinality(Moderators)
    BY EscalationSets DEF Typed, Escalation
  <2>2. CASE v = u /\ n = 0
    <3>1. Lenient(v)' = Lenient(v) \ {m} /\ m \in Lenient(v)
      BY <1>1, <1>3, <2>2 DEF Lenient
    <3>2. Cardinality(Lenient(v)') = Cardinality(Lenient(v)) - 1
      BY <2>1, <3>1, FS_RemoveElement
    <3>3. ShortStrikes(v)' = ShortStrikes(v) \cup {l + 1} /\ l + 1 \notin ShortStrikes(v)
      <4>1. \A k : k \in 1..(l + 1) <=> k \in 1..l \/ k = l + 1
        BY <1>2
      <4>2. l + 1 \notin 1..l
        BY <1>2
      <4> QED
        BY <1>2, <1>4, <2>2, <4>1, <4>2 DEF ShortStrikes
    <3>4. Cardinality(ShortStrikes(v)') = Cardinality(ShortStrikes(v)) + 1
      BY <2>1, <3>3, FS_AddElement
    <3> QED
      BY <2>1, <3>2, <3>4
  <2>3. CASE v # u \/ n # 0
    <3>1. Lenient(v)' \subseteq Lenient(v)
      BY <1>3 DEF Lenient
    <3>2. Cardinality(Lenient(v)') <= Cardinality(Lenient(v)) /\ Cardinality(Lenient(v)') \in Nat
      BY <2>1, <3>1, FS_Subset, FS_CardinalityType
    <3>3. ShortStrikes(v)' = ShortStrikes(v)
      <4>1. CASE v # u
        BY <1>3, <4>1 DEF ShortStrikes
      <4>2. CASE v = u /\ n # 0
        <5>1. \A k : k \in 1..(l + 1) <=> k \in 1..l \/ k = l + 1
          BY <1>2
        <5>2. l + 1 \notin 1..l /\ hours # FirstFreezeHours
          BY <1>2, <4>2
        <5> QED
          BY <1>4, <4>2, <5>1, <5>2 DEF ShortStrikes
      <4> QED
        BY <2>3, <4>1, <4>2
    <3> QED
      BY <2>1, <3>2, <3>3
  <2> QED
    BY <2>2, <2>3
<1> QED
  BY <1>5, <1>6, <1>7 DEF Escalation

LEMMA NextEscalates == Typed /\ Escalation /\ [Next]_vars => Escalation'
<1> SUFFICES ASSUME Typed, Escalation, [Next]_vars
             PROVE  Escalation'
  OBVIOUS
<1>1. CASE UNCHANGED <<strikes, mod>>
  BY <1>1, EscalationStays
<1>2. ASSUME NEW c \in Contents, Write(c)
      PROVE  UNCHANGED <<strikes, mod>>
  BY <1>2 DEF Write, StartPost, Insert, Demote, Enqueue, UpdateReview, DeletePost, PostFails, rows
<1>3. CASE Crash
  <2>1. strikes' = strikes /\ \A m \in Moderators : mod'[m].pc # "counted"
    BY <1>3 DEF Crash, Idle, rows
  <2> QED
    BY <2>1, EscalationStays
<1>4. ASSUME NEW m \in Moderators, Decide(m)
      PROVE  Escalation'
  <2>1. ASSUME strikes' = strikes, NEW locals, mod' = [mod EXCEPT ![m] = locals], locals.pc # "counted"
        PROVE  Escalation'
    <3>1. \A k \in Moderators : mod'[k] = mod[k] \/ mod'[k].pc # "counted"
      BY <2>1 DEF Typed, TypeOK
    <3> QED
      BY <2>1, <3>1, EscalationStays
  <2>2. ASSUME NEW c \in Contents, ApproveCheck(m, c)
        PROVE  Escalation'
    <3>1. strikes' = strikes /\ mod' = [mod EXCEPT ![m] = [pc |-> "approving", item |-> c]]
      BY <2>2 DEF ApproveCheck, rows
    <3>2. [pc |-> "approving", item |-> c].pc # "counted"
      OBVIOUS
    <3> QED
      BY <2>1, <3>1, <3>2
  <2>3. ASSUME NEW c \in Contents, RejectCheck(m, c)
        PROVE  Escalation'
    <3>1. strikes' = strikes /\ mod' = [mod EXCEPT ![m] = [pc |-> "rejecting", item |-> c]]
      BY <2>3 DEF RejectCheck, rows
    <3>2. [pc |-> "rejecting", item |-> c].pc # "counted"
      OBVIOUS
    <3> QED
      BY <2>1, <3>1, <3>2
  <2>4. CASE Approve(m) \/ DecisionFails(m)
    <3>1. strikes' = strikes /\ mod' = [mod EXCEPT ![m] = Idle] /\ Idle.pc # "counted"
      BY <2>4 DEF Approve, DecisionFails, rows, Idle
    <3> QED
      BY <2>1, <3>1
  <2> QED
    BY <1>4, <2>2, <2>3, <2>4, CountEscalates, CommitEscalates DEF Decide
<1> QED
  BY <1>1, <1>2, <1>3, <1>4 DEF Next, Tick, vars, rows

LEMMA InitEscalates == Init => Escalation
<1> SUFFICES ASSUME Init
             PROVE  Escalation
  OBVIOUS
<1>1. \A u \in Users : ShortStrikes(u) = {} /\ Lenient(u) = {} /\ strikes[u] = <<>>
  BY DEF Init, ShortStrikes, Lenient, Idle
<1>2. Cardinality(Moderators) \in Nat
  BY ModeratorsAssumption, FS_CardinalityType
<1>3. \A m \in Moderators : mod[m].pc # "counted"
  BY DEF Init, Idle
<1>4. \A u \in Users : Cardinality(ShortStrikes(u)) = 0 /\ Cardinality(Lenient(u)) = 0
  BY <1>1, FS_EmptySet
<1> QED
  BY <1>1, <1>2, <1>3, <1>4 DEF Escalation

\* LeniencyBounded: the short freeze at most once for each moderator, although
\* the violations are counted before the strike is written.
THEOREM LeniencyIsBounded == Spec => []LeniencyBounded
<1>1. Typed /\ Escalation => LeniencyBounded
  <2> SUFFICES ASSUME Typed, Escalation, NEW u \in Users
               PROVE  /\ strikes[u] # <<>> => strikes[u][1] = FirstFreezeHours
                      /\ Cardinality(ShortStrikes(u)) <= Cardinality(Moderators)
    BY DEF LeniencyBounded, ShortStrikes
  <2> QED
    BY EscalationSets DEF Typed, Escalation
<1> QED
  BY <1>1, InitType, NextType, InitEscalates, NextEscalates, PTL DEF Spec

-----------------------------------------------------------------------------
(* The freezes.                                                            *)

\* No freeze is longer from now on than the long one, and who has no strike
\* has no freeze.
Freezes ==
    /\ frozenUntil \in [Users -> Nat]
    /\ \A u \in Users : /\ frozenUntil[u] <= now + SecondFreezeHours
                        /\ strikes[u] = <<>> => frozenUntil[u] = 0

\* What a committed rejection writes.
LEMMA CommitFreezes ==
    ASSUME Typed, NEW m \in Moderators, RejectCommit(m)
    PROVE  \E u \in Users, n \in Nat, hours \in Nat :
              /\ mod[m].pc = "counted" /\ u = Author[mod[m].item] /\ n = mod[m].priorCount
              /\ hours = FreezeHours(n + 1)
              /\ frozenUntil' = [frozenUntil EXCEPT ![u] = now + hours]
              /\ strikes' = [strikes EXCEPT ![u] = Append(@, hours)]
              /\ now' = now
<1>1. /\ mod[m].pc = "counted" /\ Author[mod[m].item] \in Users /\ mod[m].priorCount \in Nat
  BY ModShape DEF RejectCommit, Typed
<1>2. FreezeHours(mod[m].priorCount + 1) \in Nat
  BY FreezeAssumption DEF FreezeHours
<1> QED
  BY <1>1, <1>2 DEF RejectCommit

LEMMA NextFreezes == Typed /\ Freezes /\ [Next]_vars => Freezes'
<1> SUFFICES ASSUME Typed, Freezes, [Next]_vars
             PROVE  Freezes'
  OBVIOUS
<1>0. now \in Nat /\ FirstFreezeHours \in Nat /\ SecondFreezeHours \in Nat
      /\ FirstFreezeHours < SecondFreezeHours
  BY FreezeAssumption, BoundAssumption DEF Typed, TypeOK
<1>1. CASE UNCHANGED <<frozenUntil, strikes, now>>
  BY <1>1 DEF Freezes
<1>2. ASSUME NEW c \in Contents, Write(c)
      PROVE  UNCHANGED <<frozenUntil, strikes, now>>
  BY <1>2 DEF Write, StartPost, Insert, Demote, Enqueue, UpdateReview, DeletePost, PostFails, rows
<1>3. CASE Crash
  BY <1>1, <1>3 DEF Crash, rows
<1>4. CASE Tick
  BY <1>0, <1>4 DEF Tick, rows, Freezes
<1>5. ASSUME NEW m \in Moderators, Decide(m)
      PROVE  Freezes'
  <2>1. CASE RejectCommit(m)
    <3>1. PICK u \in Users, n \in Nat, hours \in Nat :
             /\ hours = FreezeHours(n + 1)
             /\ frozenUntil' = [frozenUntil EXCEPT ![u] = now + hours]
             /\ strikes' = [strikes EXCEPT ![u] = Append(@, hours)]
             /\ now' = now
      BY <2>1, CommitFreezes
    <3>2. hours <= SecondFreezeHours
      BY <1>0, <3>1 DEF FreezeHours
    <3>3. strikes'[u] # <<>>
      <4>1. strikes'[u] = Append(strikes[u], hours) /\ strikes[u] \in Seq({FirstFreezeHours, SecondFreezeHours})
        BY <3>1 DEF Typed, TypeOK
      <4>2. Len(strikes'[u]) = Len(strikes[u]) + 1 /\ Len(strikes[u]) \in Nat /\ Len(<<>>) = 0
        BY <4>1
      <4> QED
        BY <4>2
    <3>4. frozenUntil' \in [Users -> Nat]
      BY <1>0, <3>1 DEF Freezes
    <3>5. \A v \in Users \ {u} : frozenUntil'[v] = frozenUntil[v] /\ strikes'[v] = strikes[v]
      BY <3>1 DEF Typed, TypeOK, Freezes
    <3>6. frozenUntil'[u] = now + hours
      BY <3>1 DEF Freezes
    <3> QED
      BY <1>0, <3>1, <3>2, <3>3, <3>4, <3>5, <3>6 DEF Freezes
  <2>2. CASE ~RejectCommit(m)
    <3>1. UNCHANGED <<frozenUntil, strikes, now>>
      BY <1>5, <2>2 DEF Decide, ApproveCheck, Approve, RejectCheck, RejectCount, DecisionFails, rows
    <3> QED
      BY <1>1, <3>1
  <2> QED
    BY <2>1, <2>2
<1> QED
  BY <1>1, <1>2, <1>3, <1>4, <1>5 DEF Next, vars, rows

LEMMA InitFreezes == Init => Freezes
BY FreezeAssumption DEF Init, Freezes

\* A rejection that counted every violation there is does not bring the end of
\* the freeze nearer.
LEMMA FreshCountKeeps ==
    ASSUME Typed, Escalation, Freezes, NEW m \in Moderators, RejectCommit(m),
           NEW u \in Users, frozenUntil'[u] < frozenUntil[u]
    PROVE  /\ mod[m].pc = "counted" /\ Author[mod[m].item] = u
           /\ mod[m].priorCount < Len(strikes[u])
<1>1. PICK a \in Users, n \in Nat, hours \in Nat :
         /\ mod[m].pc = "counted" /\ a = Author[mod[m].item] /\ n = mod[m].priorCount
         /\ hours = FreezeHours(n + 1)
         /\ frozenUntil' = [frozenUntil EXCEPT ![a] = now + hours]
  BY CommitFreezes
<1>2. now \in Nat /\ frozenUntil[u] \in Nat /\ frozenUntil[u] <= now + SecondFreezeHours
      /\ FirstFreezeHours \in Nat /\ SecondFreezeHours \in Nat
  BY FreezeAssumption, BoundAssumption DEF Typed, TypeOK, Freezes
<1>3. a = u /\ frozenUntil'[u] = now + hours
  BY <1>1, <1>2 DEF Freezes
<1>4. n <= Len(strikes[u]) /\ Len(strikes[u]) \in Nat
  BY <1>1, <1>3, EscalationSets DEF Escalation, Typed
<1>5. n = 0 /\ strikes[u] # <<>>
  BY <1>1, <1>2, <1>3 DEF FreezeHours, Freezes
<1>6. Len(strikes[u]) > 0
  BY <1>4, <1>5, EscalationSets, EmptySeq DEF Typed
<1> QED
  BY <1>1, <1>3, <1>5, <1>6

\* ShortenedOnlyByStaleCount: the end of a freeze comes nearer only by a
\* rejection whose count of violations is out of date.
THEOREM FreezesStand == Spec => ShortenedOnlyByStaleCount
<1> DEFINE Stale(u) == \E m \in Moderators : /\ mod[m].pc = "counted"
                                             /\ Author[mod[m].item] = u
                                             /\ mod[m].priorCount < Len(strikes[u])
<1>1. ASSUME Typed, Escalation, Freezes, [Next]_vars
      PROVE  [\A u \in Users : frozenUntil'[u] < frozenUntil[u] => Stale(u)]_vars
  <2> SUFFICES ASSUME NEW u \in Users, frozenUntil'[u] < frozenUntil[u]
               PROVE  Stale(u)
    OBVIOUS
  <2>1. frozenUntil' # frozenUntil
    <3>1. frozenUntil[u] \in Nat
      BY <1>1 DEF Freezes
    <3> QED
      BY <3>1
  <2>2. PICK m \in Moderators : RejectCommit(m)
    <3>1. ASSUME NEW c \in Contents, Write(c)
          PROVE  UNCHANGED frozenUntil
      BY <3>1 DEF Write, StartPost, Insert, Demote, Enqueue, UpdateReview, DeletePost, PostFails, rows
    <3>2. ASSUME NEW m \in Moderators, Decide(m), ~RejectCommit(m)
          PROVE  UNCHANGED frozenUntil
      BY <3>2 DEF Decide, ApproveCheck, Approve, RejectCheck, RejectCount, DecisionFails, rows
    <3>3. Crash \/ Tick => UNCHANGED frozenUntil
      BY DEF Crash, Tick, rows
    <3> QED
      BY <1>1, <2>1, <3>1, <3>2, <3>3 DEF Next, vars, rows
  <2> QED
    BY <1>1, <2>2, FreshCountKeeps
<1>2. Typed /\ Escalation /\ Freezes /\ [Next]_vars =>
         [\A u \in Users : frozenUntil'[u] < frozenUntil[u] => Stale(u)]_vars
  BY <1>1
<1> QED
  BY <1>2, InitType, NextType, InitEscalates, NextEscalates, InitFreezes, NextFreezes, PTL
     DEF Spec, ShortenedOnlyByStaleCount
=============================================================================
