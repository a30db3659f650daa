---------------------------- MODULE MCModeration ----------------------------
(* Instances of Moderation for TLC: one author with a review, a reply and *)
(* a thread, and two moderators.                                           *)
EXTENDS Moderation

CONSTANTS author, review, reply, thread

MCKind == [c \in Contents |-> CASE c = review -> "review"
                                  [] c = reply  -> "qa_post"
                                  [] c = thread -> "qa_thread"]
MCAuthor == [c \in Contents |-> author]
=============================================================================
