----------------------------- MODULE Moderation -----------------------------
(***************************************************************************)
(* Content moderation (internal/moderation) with the writers it guards,    *)
(* reviews (internal/review) and Q&A threads and posts (internal/qa).      *)
(*                                                                         *)
(* A writing request runs FreezeCheck and ScreenContent (StartPost), then  *)
(* INSERTs the row as published (Insert); a request whose text was flagged *)
(* goes on with OnBorderlineFlagged, which demotes the row in a            *)
(* transaction (Demote) and INSERTs the queue item after the commit        *)
(* (Enqueue).  Requests that the freeze, the screening or the service      *)
(* refuses change nothing and have no step.                                *)
(*                                                                         *)
(* A moderator's decision SELECTs the queue item and looks at its status   *)
(* outside the transaction that then writes it (ApproveCheck, RejectCheck).*)
(* Approve is a transaction of blind writes and one step.  Reject counts   *)
(* the author's violations after it has locked the queue item and the      *)
(* content (RejectCount) and writes the freeze and the violation on that   *)
(* count (RejectCommit); InnoDB shows its writes to nobody before then.    *)
(*                                                                         *)
(* Each content has its own queue item, since only its creation enqueues   *)
(* it, so a queue item goes by the name of its content.                    *)
(***************************************************************************)
EXTENDS Naturals, FiniteSets, Sequences

CONSTANTS Contents,           \* reviews, threads and posts that may be written
          Users,              \* their authors
          Moderators,         \* goroutines of moderators' decisions
          Kind,               \* Kind[c]: the table c is stored in
          Author,             \* Author[c]: its user_id or author_id
          FirstFreezeHours, SecondFreezeHours,
          MaxTime,            \* bound: the clock, in the unit of the freezes
          MaxFaults           \* bound: crashes and requests cut short

Kinds == {"review", "qa_thread", "qa_post"}

ASSUME ContentAssumption == /\ Kind \in [Contents -> Kinds]
                            /\ Author \in [Contents -> Users]
ASSUME ModeratorsAssumption == IsFiniteSet(Moderators)
ASSUME FreezeAssumption == /\ FirstFreezeHours \in Nat \ {0}
                           /\ SecondFreezeHours \in Nat
                           /\ FirstFreezeHours < SecondFreezeHours
ASSUME BoundAssumption == MaxTime \in Nat /\ MaxFaults \in Nat

VARIABLES
    status,       \* status column of the content row; "absent" before the INSERT
    text,         \* text[c]: "clean", or "borderline": holds a borderline term
    queue,        \* status of the moderation_queue row; "none" without a row
    actions,      \* actions[c]: the moderation_actions rows of c, oldest first
    strikes,      \* strikes[u]: freeze hours in the violation_records of u
    frozenUntil,  \* users.posting_freeze_until; 0 for NULL
    post,         \* post[c]: where the request that writes c is
    mod,          \* mod[m]: the locals of the decision of moderator m
    now,          \* the clock
    faults        \* faults so far

rows == <<status, text, queue, actions, strikes, frozenUntil>>
vars == <<rows, post, mod, now, faults>>

Idle == [pc |-> "idle"]

Deciding == [pc : {"approving", "rejecting"}, item : Contents]
              \cup [pc : {"counted"}, item : Contents, priorCount : Nat]

\* The values of the three ENUM columns.
StatusOf(c) ==
    {"absent", "published", "pending_moderation"} \cup
    CASE Kind[c] = "review"    -> {"rejected"}
      [] Kind[c] = "qa_thread" -> {"closed"}
      [] Kind[c] = "qa_post"   -> {"removed"}

\* Every column holds a value of its type, the status columns one of the
\* ENUM of their table.
TypeOK ==
    /\ \A c \in Contents : status[c] \in StatusOf(c)
    /\ text \in [Contents -> {"clean", "borderline"}]
    /\ queue \in [Contents -> {"none", "pending", "approved", "rejected"}]
    /\ actions \in [Contents -> Seq({"approve", "reject"})]
    /\ strikes \in [Users -> Seq({FirstFreezeHours, SecondFreezeHours})]
    /\ frozenUntil \in [Users -> Nat]
    /\ post \in [Contents -> {"idle", "passed", "flagged", "inserted", "demoted", "done"}]
    /\ mod \in [Moderators -> Deciding \cup {Idle}]
    /\ now \in 0..MaxTime
    /\ faults \in 0..MaxFaults

Init ==
    /\ status = [c \in Contents |-> "absent"]
    /\ text = [c \in Contents |-> "clean"]
    /\ queue = [c \in Contents |-> "none"]
    /\ actions = [c \in Contents |-> <<>>]
    /\ strikes = [u \in Users |-> <<>>]
    /\ frozenUntil = [u \in Users |-> 0]
    /\ post = [c \in Contents |-> "idle"]
    /\ mod = [m \in Moderators |-> Idle]
    /\ now = 0
    /\ faults = 0

Tick == /\ now < MaxTime
        /\ now' = now + 1
        /\ UNCHANGED <<rows, post, mod, faults>>

-----------------------------------------------------------------------------
(* Writing.                                                                *)

Frozen(u) == now < frozenUntil[u]

Fault == faults < MaxFaults /\ faults' = faults + 1

\* FreezeCheck stops a frozen author, unless its SELECT fails.
FreezeCheck(u) == \/ ~Frozen(u) /\ UNCHANGED faults
                  \/ Frozen(u) /\ Fault

\* FreezeCheck and ScreenContent let the request through.  A body that does not
\* say that it is JSON is not screened, and a dictionary that was never loaded
\* flags nothing, so a borderline text may pass like any other.
StartPost(c, txt, flagged) ==
    /\ post[c] = "idle"
    /\ FreezeCheck(Author[c])
    /\ flagged => txt = "borderline"
    /\ text' = [text EXCEPT ![c] = txt]
    /\ post' = [post EXCEPT ![c] = IF flagged THEN "flagged" ELSE "passed"]
    /\ UNCHANGED <<status, queue, actions, strikes, frozenUntil, mod, now>>

Insert(c) ==
    /\ post[c] \in {"passed", "flagged"}
    /\ status' = [status EXCEPT ![c] = "published"]
    /\ post' = [post EXCEPT ![c] = IF @ = "flagged" THEN "inserted" ELSE "done"]
    /\ UNCHANGED <<text, queue, actions, strikes, frozenUntil, mod, now, faults>>

\* The first half of OnBorderlineFlagged: a committed transaction.
Demote(c) ==
    /\ post[c] = "inserted"
    /\ status' = [status EXCEPT ![c] = "pending_moderation"]
    /\ post' = [post EXCEPT ![c] = "demoted"]
    /\ UNCHANGED <<text, queue, actions, strikes, frozenUntil, mod, now, faults>>

\* Mutant of Enqueue: a removed post is not worth a moderator's time.
EnqueueUnlessRemoved(c) ==
    /\ post[c] = "demoted"
    /\ queue' = IF status[c] = "removed" THEN queue ELSE [queue EXCEPT ![c] = "pending"]
    /\ post' = [post EXCEPT ![c] = "done"]
    /\ UNCHANGED <<status, text, actions, strikes, frozenUntil, mod, now, faults>>

\* The second half: EnqueueBorderline.
Enqueue(c) ==
    /\ post[c] = "demoted"
    /\ queue' = [queue EXCEPT ![c] = "pending"]
    /\ post' = [post EXCEPT ![c] = "done"]
    /\ UNCHANGED <<status, text, actions, strikes, frozenUntil, mod, now, faults>>

\* A reject that has begun its transaction holds the queue item and the row.
Locked(c) == \E m \in Moderators : mod[m].pc = "counted" /\ mod[m].item = c

\* PUT of a review by its author: screened, but without the borderline hook.
UpdateReview(c, txt) ==
    /\ Kind[c] = "review" /\ status[c] # "absent"
    /\ FreezeCheck(Author[c])
    /\ ~Locked(c)
    /\ text' = [text EXCEPT ![c] = txt]
    /\ UNCHANGED <<status, queue, actions, strikes, frozenUntil, post, mod, now>>

\* DELETE of a reply by a moderator.
DeletePost(c) ==
    /\ Kind[c] = "qa_post" /\ status[c] \notin {"absent", "removed"}
    /\ ~Locked(c)
    /\ status' = [status EXCEPT ![c] = "removed"]
    /\ UNCHANGED <<text, queue, actions, strikes, frozenUntil, post, mod, now, faults>>

-----------------------------------------------------------------------------
(* Deciding.                                                               *)

\* GetQueueItem, and the test that the item is pending.
ApproveCheck(m, c) ==
    /\ mod[m] = Idle
    /\ queue[c] = "pending"
    /\ mod' = [mod EXCEPT ![m] = [pc |-> "approving", item |-> c]]
    /\ UNCHANGED <<rows, post, now, faults>>

\* Mutant of Approve: the content is promoted, the queue item forgotten.
ApproveContentOnly(m) ==
    LET c == mod[m].item IN
    /\ mod[m].pc = "approving"
    /\ ~Locked(c)
    /\ status' = [status EXCEPT ![c] = "published"]
    /\ actions' = [actions EXCEPT ![c] = Append(@, "approve")]
    /\ mod' = [mod EXCEPT ![m] = Idle]
    /\ UNCHANGED <<text, queue, strikes, frozenUntil, post, now, faults>>

\* The transaction of ApproveItem.
Approve(m) ==
    LET c == mod[m].item IN
    /\ mod[m].pc = "approving"
    /\ ~Locked(c)
    /\ queue' = [queue EXCEPT ![c] = "approved"]
    /\ status' = [status EXCEPT ![c] = "published"]
    /\ actions' = [actions EXCEPT ![c] = Append(@, "approve")]
    /\ mod' = [mod EXCEPT ![m] = Idle]
    /\ UNCHANGED <<text, strikes, frozenUntil, post, now, faults>>

\* GetQueueItem, the test that the item is pending, and resolveAuthorID.
RejectCheck(m, c) ==
    /\ mod[m] = Idle
    /\ queue[c] = "pending"
    /\ mod' = [mod EXCEPT ![m] = [pc |-> "rejecting", item |-> c]]
    /\ UNCHANGED <<rows, post, now, faults>>

\* The transaction of RejectItem as far as SELECT COUNT(*): it waits for a
\* transaction that has locked the same item.
RejectCount(m) ==
    LET c == mod[m].item IN
    /\ mod[m].pc = "rejecting"
    /\ ~Locked(c)
    /\ mod' = [mod EXCEPT ![m] = [pc |-> "counted", item |-> c,
                                  priorCount |-> Len(strikes[Author[c]])]]
    /\ UNCHANGED <<rows, post, now, faults>>

\* Mutant of FreezeHours: the escalation is applied from the first strike.
FreezeHoursAlwaysLong(n) == SecondFreezeHours

\* The freeze for the n-th violation.
FreezeHours(n) == IF n = 1 THEN FirstFreezeHours ELSE SecondFreezeHours

\* What promoteContent(..., "rejected") writes to each table.
HiddenAs == [review |-> "rejected", qa_thread |-> "closed", qa_post |-> "removed"]

\* Mutant of RejectCommit: the violation is recorded on the first offence only.
RejectCommitOnce(m) ==
    LET c == mod[m].item
        u == Author[c]
        hours == FreezeHours(mod[m].priorCount + 1)
    IN
    /\ mod[m].pc = "counted"
    /\ queue' = [queue EXCEPT ![c] = "rejected"]
    /\ status' = [status EXCEPT ![c] = HiddenAs[Kind[c]]]
    /\ actions' = [actions EXCEPT ![c] = Append(@, "reject")]
    /\ frozenUntil' = [frozenUntil EXCEPT ![u] = now + hours]
    /\ strikes' = IF mod[m].priorCount = 0
                  THEN [strikes EXCEPT ![u] = Append(@, hours)] ELSE strikes
    /\ mod' = [mod EXCEPT ![m] = Idle]
    /\ UNCHANGED <<text, post, now, faults>>

\* Mutant of RejectCommit: the freeze does not count the violation at hand.
RejectCommitUncounted(m) ==
    LET c == mod[m].item
        u == Author[c]
    IN
    /\ mod[m].pc = "counted"
    /\ queue' = [queue EXCEPT ![c] = "rejected"]
    /\ status' = [status EXCEPT ![c] = HiddenAs[Kind[c]]]
    /\ actions' = [actions EXCEPT ![c] = Append(@, "reject")]
    /\ frozenUntil' = [frozenUntil EXCEPT ![u] = now + FreezeHours(mod[m].priorCount)]
    /\ strikes' = [strikes EXCEPT ![u] = Append(@, FreezeHours(mod[m].priorCount + 1))]
    /\ mod' = [mod EXCEPT ![m] = Idle]
    /\ UNCHANGED <<text, post, now, faults>>

\* The rest of the transaction: freeze, violation, commit.
RejectCommit(m) ==
    LET c == mod[m].item
        u == Author[c]
        hours == FreezeHours(mod[m].priorCount + 1)
    IN
    /\ mod[m].pc = "counted"
    /\ queue' = [queue EXCEPT ![c] = "rejected"]
    /\ status' = [status EXCEPT ![c] = HiddenAs[Kind[c]]]
    /\ actions' = [actions EXCEPT ![c] = Append(@, "reject")]
    /\ frozenUntil' = [frozenUntil EXCEPT ![u] = now + hours]
    /\ strikes' = [strikes EXCEPT ![u] = Append(@, hours)]
    /\ mod' = [mod EXCEPT ![m] = Idle]
    /\ UNCHANGED <<text, post, now, faults>>

-----------------------------------------------------------------------------
(* Faults.                                                                 *)

\* A statement of the writing request fails, or its client hangs up and the
\* request's context is cancelled: the rest of the request is not done.
PostFails(c) ==
    /\ Fault
    /\ post[c] \in {"passed", "flagged", "inserted", "demoted"}
    /\ post' = [post EXCEPT ![c] = "done"]
    /\ UNCHANGED <<rows, mod, now>>

\* A decision fails: its transaction, if it has begun, is rolled back.
DecisionFails(m) ==
    /\ Fault
    /\ mod[m] # Idle
    /\ mod' = [mod EXCEPT ![m] = Idle]
    /\ UNCHANGED <<rows, post, now>>

\* The process dies and is started again.
Crash ==
    /\ Fault
    /\ post' = [c \in Contents |-> IF post[c] = "idle" THEN "idle" ELSE "done"]
    /\ mod' = [m \in Moderators |-> Idle]
    /\ UNCHANGED <<rows, now>>

-----------------------------------------------------------------------------

Write(c) == \/ \E txt \in {"clean", "borderline"}, flagged \in BOOLEAN :
                   StartPost(c, txt, flagged)
            \/ Insert(c)
            \/ Demote(c)
            \/ Enqueue(c)
            \/ \E txt \in {"clean", "borderline"} : UpdateReview(c, txt)
            \/ DeletePost(c)
            \/ PostFails(c)

Decide(m) == \/ \E c \in Contents : ApproveCheck(m, c) \/ RejectCheck(m, c)
             \/ Approve(m)
             \/ RejectCount(m)
             \/ RejectCommit(m)
             \/ DecisionFails(m)

Next == \/ Tick
        \/ \E c \in Contents : Write(c)
        \/ \E m \in Moderators : Decide(m)
        \/ Crash

\* A request goroutine that has begun runs to its end.  Nothing is assumed of
\* moderators, of new requests or of time.
Fairness == \A c \in Contents : WF_vars(Insert(c)) /\ WF_vars(Demote(c)) /\ WF_vars(Enqueue(c))

Spec == Init /\ [][Next]_vars /\ Fairness

-----------------------------------------------------------------------------
(* Properties.                                                             *)

DecidedAs == [approve |-> "approved", reject |-> "rejected"]

\* However the decisions of moderators race on one item, its queue row, the
\* row of its content and the log of actions tell the same story, that of the
\* last decision: rejected content is hidden, approved content is published
\* (or a post that was deleted), and nothing undecided is published.
QueueAgrees ==
    \A c \in Contents :
        /\ actions[c] = <<>> <=> queue[c] \in {"none", "pending"}
        /\ actions[c] # <<>> => queue[c] = DecidedAs[actions[c][Len(actions[c])]]
        /\ queue[c] = "rejected" => status[c] = HiddenAs[Kind[c]]
        /\ queue[c] = "approved" => status[c] \in {"published", "removed"}
        /\ queue[c] = "pending" => status[c] \in {"pending_moderation", "removed"}

\* The rejections of content by user u that the log records.
Rejections(u) ==
    UNION { { <<c, k>> : k \in { i \in DOMAIN actions[c] : actions[c][i] = "reject" } } :
            c \in { d \in Contents : Author[d] = u } }

\* service.go:310-350 and docs/api-spec.md:126-127: a violation is recorded
\* for each rejection in the log and for nothing else, across rolled-back
\* transactions and restarts.
StrikePerRejection ==
    \A u \in Users : Len(strikes[u]) = Cardinality(Rejections(u))

\* The escalation as racing rejections leave it: the first strike of an
\* author has the short freeze, and no more than one strike for each
\* moderator deciding at the time has it.
LeniencyBounded ==
    \A u \in Users :
        /\ strikes[u] # <<>> => strikes[u][1] = FirstFreezeHours
        /\ Cardinality({ k \in DOMAIN strikes[u] : strikes[u][k] = FirstFreezeHours })
              <= Cardinality(Moderators)

\* A decision never brings the end of a freeze nearer (RejectItem writes it by
\* the user's id alone), but for a rejection whose count of violations went
\* stale, because another one of the same author was committed after it.
ShortenedOnlyByStaleCount ==
    [][\A u \in Users : frozenUntil'[u] < frozenUntil[u] =>
           \E m \in Moderators : /\ mod[m].pc = "counted"
                                 /\ Author[mod[m].item] = u
                                 /\ mod[m].priorCount < Len(strikes[u])]_vars

\* A flagged text that was inserted comes before a moderator in the end,
\* unless its request was cut short.
FlaggedIsQueued ==
    \A c \in Contents : post[c] = "inserted" ~> (queue[c] # "none" \/ faults > 0)
=============================================================================
