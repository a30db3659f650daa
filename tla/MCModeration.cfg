\* One author, a review, a reply and a thread, two moderators, one fault.
SPECIFICATION Spec
CONSTANTS
    author = author
    review = review
    reply = reply
    thread = thread
    Contents = {review, reply, thread}
    Users = {author}
    Moderators = {m1, m2}
    Kind <- MCKind
    Author <- MCAuthor
    FirstFreezeHours = 1
    SecondFreezeHours = 2
    MaxTime = 2
    MaxFaults = 1
INVARIANTS QueueAgrees StrikePerRejection LeniencyBounded
PROPERTIES ShortenedOnlyByStaleCount FlaggedIsQueued
\* A behaviour ends when all content is decided and the clock has stopped.
CHECK_DEADLOCK FALSE
