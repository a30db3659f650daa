---------------------------- MODULE RateLimiter -----------------------------
(***************************************************************************)
(* The sliding-window rate limiter (internal/middleware/ratelimit.go), one *)
(* of which stands before all routes and another before the posting of     *)
(* reviews.  A request takes the mutex, trims the entries of its user that *)
(* have left the window, and is let through and entered if fewer than      *)
(* Limit are left (Pass); else it is refused and nothing is stored.        *)
(*                                                                         *)
(* A refused request has already compacted the entries in place, in the    *)
(* array that the map still refers to with its old length.  That is        *)
(* harmless only because a bucket never holds more than Limit entries, so  *)
(* that a request that finds Limit of them fresh has trimmed none.         *)
(*                                                                         *)
(* The buckets live in memory: a restart empties them.                     *)
(***************************************************************************)
EXTENDS Integers, FiniteSets

CONSTANTS Users,      \* keys of the buckets: user ids or client addresses
          Limit,
          Window,
          MaxTime,    \* bound: the clock
          MaxPasses,  \* bound: requests that are let through
          MaxBoots    \* bound: starts of the process

ASSUME LimitAssumption == Limit \in Nat \ {0} /\ Window \in Nat \ {0}
ASSUME LimiterBoundAssumption == /\ MaxTime \in Nat /\ MaxPasses \in Nat
                                 /\ MaxBoots \in Nat

VARIABLES
    now,     \* the clock
    bucket,  \* bucket[u]: the entries of user u, told apart by a number
    passed,  \* history: all entries that were ever made
    boots    \* starts of the process so far

limiter == <<now, bucket, passed, boots>>

Entries == [n : 1..MaxPasses, user : Users, at : 0..MaxTime, boot : 1..MaxBoots]

LimiterTypeOK ==
    /\ now \in 0..MaxTime
    /\ bucket \in [Users -> SUBSET Entries]
    /\ passed \in SUBSET Entries
    /\ boots \in 0..MaxBoots

LimiterInit ==
    /\ now = 0
    /\ bucket = [u \in Users |-> {}]
    /\ passed = {}
    /\ boots = 0

\* t.After(cutoff).
Fresh(u) == { e \in bucket[u] : e.at > now - Window }

\* Mutant of Allowed: the comparison is off by one.
AllowedOneMore(u) == Cardinality(Fresh(u)) <= Limit

Allowed(u) == Cardinality(Fresh(u)) < Limit

NewEntry(u) == [n |-> Cardinality(passed) + 1, user |-> u, at |-> now, boot |-> boots]

\* A request of user u is let through.
Pass(u) ==
    /\ Allowed(u)
    /\ Cardinality(passed) < MaxPasses
    /\ bucket' = [bucket EXCEPT ![u] = Fresh(u) \cup {NewEntry(u)}]
    /\ passed' = passed \cup {NewEntry(u)}
    /\ UNCHANGED <<now, boots>>

Tick == /\ now < MaxTime
        /\ now' = now + 1
        /\ UNCHANGED <<bucket, passed, boots>>

\* NewRateLimiter, when the process starts.
NewRateLimiter ==
    /\ boots < MaxBoots
    /\ boots' = boots + 1
    /\ bucket' = [u \in Users |-> {}]
    /\ UNCHANGED <<now, passed>>

\* The limiter by itself, once a process runs.
LimiterNext == (boots > 0 /\ \E u \in Users : Pass(u)) \/ Tick \/ NewRateLimiter

LimiterSpec == LimiterInit /\ [][LimiterNext]_limiter

\* Entries of user u in the window that ends at t, from one life of the process.
InWindow(u, t, b) ==
    { e \in passed : e.user = u /\ e.boot = b /\ t - Window < e.at /\ e.at <= t }

\* In every window, wherever it ends, a process lets no more than Limit
\* requests of a user through (Limit): the window slides with the clock, and
\* trimming a bucket never forgets a request that still counts.
WindowKept ==
    \A u \in Users, t \in 0..MaxTime, b \in 1..MaxBoots :
        Cardinality(InWindow(u, t, b)) <= Limit
=============================================================================
