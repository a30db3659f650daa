----------------------------- MODULE Screening ------------------------------
(***************************************************************************)
(* The way of a post to its handler: the rate limiter and ScreenContent,   *)
(* which scans the text against the dictionary of sensitive terms          *)
(* (internal/moderation).  The freeze of the author, between the two, and  *)
(* what the handler does with a flagged text are in Moderation.            *)
(*                                                                         *)
(* The dictionary is a table with a copy in memory, the cache.  An         *)
(* administrator's request changes the table (AddTerm, DeleteTerm) and     *)
(* then reloads the cache: a SELECT of the whole table (Select) and an     *)
(* assignment under the mutex (Store), with nothing to keep reloads of two *)
(* requests in order.  A post reloads the cache if none was ever loaded    *)
(* (EnsureCache) and scans its text against the cache (Scan).  Versions    *)
(* number the states of the table.                                         *)
(***************************************************************************)
EXTENDS RateLimiter, Sequences

CONSTANTS Terms,
          Admins,      \* goroutines of administrators' requests
          Posters,     \* goroutines of posts
          Author,      \* Author[p]: who posts
          MaxChanges,  \* bound: changes of the table
          MaxFaults    \* bound: failed statements

Goroutines == Admins \cup Posters

Classes == {"prohibited", "borderline"}

ASSUME PeersAssumption == Author \in [Posters -> Users] /\ Admins \cap Posters = {}
ASSUME FaultAssumption == MaxChanges \in Nat /\ MaxFaults \in Nat

VARIABLES
    dict,      \* dict[t]: the class of term t in sensitive_terms, or "none"
    cache,     \* cacheTerm
    loaded,    \* cacheLoaded
    pc,        \* pc[g]: where goroutine g is
    text,      \* text[p]: the terms that are words of the text of post p
    verdict,   \* verdict[p]: what Scan said of it
    seen,      \* seen[g]: the table as the reload of g has read it
    version,   \* changes of the table so far
    tables,    \* history: tables[v], the table after v changes
    versions,  \* history: the versions of the cache, of seen[g], of the change
               \* of g, and the one that was promised when post p arrived
    trusted,   \* history: posts that were scanned with an untainted cache
    promised,  \* history: the newest change that an administrator was told of
    alone,     \* history: the goroutines that overlapped no other since they
               \* changed the table or began to reload the cache
    tainted,   \* history: the cache was last stored by a reload that was not
               \* alone, or a change was not followed by a reload
    faults     \* faults so far

table   == <<dict, version>>
memory  == <<cache, loaded>>
history == <<tables, versions, trusted, promised, alone, tainted>>
vars    == <<limiter, table, memory, pc, text, verdict, seen, history, faults>>

Dictionaries == [Terms -> Classes \cup {"none"}]

Empty == [t \in Terms |-> "none"]

TypeOK ==
    /\ LimiterTypeOK
    /\ dict \in Dictionaries /\ cache \in Dictionaries
    /\ loaded \in BOOLEAN
    /\ pc \in [Goroutines -> {"idle", "changed", "unloaded", "selected", "stored", "passed",
                              "ready", "scanned"}]
    /\ text \in [Posters -> SUBSET Terms]
    /\ verdict \in [Posters -> Classes \cup {"clean"}]
    /\ seen \in [Goroutines -> Dictionaries]
    /\ version \in 0..MaxChanges
    /\ versions \in [cache : 0..MaxChanges, seen : [Goroutines -> 0..MaxChanges],
                     of : [Goroutines -> 0..MaxChanges]]
    /\ tables \in [0..MaxChanges -> Dictionaries]
    /\ trusted \in SUBSET Posters
    /\ promised \in 0..MaxChanges
    /\ alone \in SUBSET Goroutines
    /\ tainted \in BOOLEAN
    /\ faults \in 0..MaxFaults

Init ==
    /\ LimiterInit
    /\ dict = Empty /\ cache = Empty
    /\ loaded = FALSE
    /\ pc = [g \in Goroutines |-> "idle"]
    /\ text = [p \in Posters |-> {}]
    /\ verdict = [p \in Posters |-> "clean"]
    /\ seen = [g \in Goroutines |-> Empty]
    /\ version = 0
    /\ versions = [cache |-> 0, seen |-> [g \in Goroutines |-> 0], of |-> [g \in Goroutines |-> 0]]
    /\ tables = [v \in 0..MaxChanges |-> Empty]
    /\ trusted = {}
    /\ promised = 0
    /\ alone = {}
    /\ tainted = FALSE
    /\ faults = 0

Up == boots > 0

Fault == faults < MaxFaults /\ faults' = faults + 1

Goes(g, to) == pc' = [pc EXCEPT ![g] = to]

-----------------------------------------------------------------------------
(* The dictionary.                                                         *)

\* Goroutines that are between a change or the start of a reload and the Store.
Reloading == { g \in Goroutines : pc[g] \in {"changed", "unloaded", "selected"} }

\* g joins them.
Joins(g) == alone' = IF Reloading = {} THEN {g} ELSE {}

Change(a, d) ==
    /\ Up
    /\ pc[a] = "idle"
    /\ version < MaxChanges
    /\ dict' = d
    /\ version' = version + 1
    /\ tables' = [tables EXCEPT ![version + 1] = d]
    /\ versions' = [versions EXCEPT !.of[a] = version + 1]
    /\ Goes(a, "changed")
    /\ Joins(a)
    /\ UNCHANGED <<limiter, memory, text, verdict, seen, trusted, promised, tainted, faults>>

\* The INSERT of AddTerm, which a duplicate fails.
AddTerm(a, t, class) == dict[t] = "none" /\ Change(a, [dict EXCEPT ![t] = class])

\* The DELETE of DeleteTerm.
DeleteTerm(a, t) == dict[t] # "none" /\ Change(a, [dict EXCEPT ![t] = "none"])

\* The SELECT of ReloadTerms.
Select(g) ==
    /\ pc[g] \in {"changed", "unloaded"}
    /\ seen' = [seen EXCEPT ![g] = dict]
    /\ versions' = [versions EXCEPT !.seen[g] = version]
    /\ Goes(g, "selected")
    /\ UNCHANGED <<limiter, table, memory, text, verdict, tables, trusted, promised, alone, tainted, faults>>

\* It fails: the administrator is answered with an error although the change
\* is made; the post goes on with the cache there is.
SelectFails(g) ==
    /\ pc[g] \in {"changed", "unloaded"}
    /\ Fault
    /\ Goes(g, IF g \in Admins THEN "idle" ELSE "ready")
    /\ tainted' = (tainted \/ g \in Admins)
    /\ alone' = alone \ {g}
    /\ versions' = IF g \in Admins THEN [versions EXCEPT !.of[g] = 0] ELSE versions
    /\ UNCHANGED <<limiter, table, memory, text, verdict, seen, tables, trusted, promised>>

\* Mutant of Store: a reload merges into the map it finds.
StoreMerged(g) ==
    /\ pc[g] = "selected"
    /\ cache' = [t \in Terms |-> IF seen[g][t] # "none" THEN seen[g][t] ELSE cache[t]]
    /\ loaded' = TRUE
    /\ versions' = [versions EXCEPT !.cache = versions.seen[g], !.seen[g] = 0]
    /\ tainted' = (g \notin alone)
    /\ seen' = [seen EXCEPT ![g] = Empty]
    /\ alone' = alone \ {g}
    /\ Goes(g, IF g \in Admins THEN "stored" ELSE "ready")
    /\ UNCHANGED <<limiter, table, text, verdict, tables, trusted, promised, faults>>

\* The map is replaced under the mutex.
Store(g) ==
    /\ pc[g] = "selected"
    /\ cache' = seen[g]
    /\ loaded' = TRUE
    /\ versions' = [versions EXCEPT !.cache = versions.seen[g], !.seen[g] = 0]
    /\ tainted' = (g \notin alone)
    /\ seen' = [seen EXCEPT ![g] = Empty]
    /\ alone' = alone \ {g}
    /\ Goes(g, IF g \in Admins THEN "stored" ELSE "ready")
    /\ UNCHANGED <<limiter, table, text, verdict, tables, trusted, promised, faults>>

\* 201 or 204.
Answer(a) ==
    /\ pc[a] = "stored"
    /\ promised' = IF versions.of[a] > promised THEN versions.of[a] ELSE promised
    /\ versions' = [versions EXCEPT !.of[a] = 0]
    /\ Goes(a, "idle")
    /\ UNCHANGED <<limiter, table, memory, text, verdict, seen, tables, trusted, alone, tainted, faults>>

-----------------------------------------------------------------------------
(* Posts.                                                                  *)

\* The limiter lets the post through.
Arrive(p, words) ==
    /\ Up
    /\ pc[p] = "idle"
    /\ Pass(Author[p])
    /\ text' = [text EXCEPT ![p] = words]
    /\ versions' = [versions EXCEPT !.of[p] = promised]
    /\ Goes(p, "passed")
    /\ UNCHANGED <<table, memory, verdict, seen, tables, trusted, promised, alone, tainted, faults>>

EnsureCache(p) ==
    /\ pc[p] = "passed"
    /\ IF loaded THEN Goes(p, "ready") /\ UNCHANGED alone
                 ELSE Goes(p, "unloaded") /\ Joins(p)
    /\ UNCHANGED <<limiter, table, memory, text, verdict, seen, tables, versions, trusted, promised, tainted, faults>>

\* ScanText: a prohibited word beats a borderline one.
ScanText(words, d) ==
    IF \E t \in words : d[t] = "prohibited" THEN "prohibited"
    ELSE IF \E t \in words : d[t] = "borderline" THEN "borderline" ELSE "clean"

\* What Screen reads the pointer to the map once for.
Judge(p, words) ==
    /\ pc[p] = "ready"
    /\ verdict' = [verdict EXCEPT ![p] = ScanText(words, cache)]
    /\ trusted' = IF loaded /\ ~tainted THEN trusted \cup {p} ELSE trusted
    /\ Goes(p, "scanned")
    /\ UNCHANGED <<limiter, table, memory, text, seen, tables, versions, promised, alone, tainted, faults>>

\* Mutant of Scan: the route names a field that the body does not have.
ScanWrongField(p) == Judge(p, {})

\* ScreenContent joins the fields that the route names.
Scan(p) == Judge(p, text[p])

\* A prohibited text is refused, any other goes on to the handler.
Leave(p) ==
    /\ pc[p] = "scanned"
    /\ Goes(p, "idle")
    /\ text' = [text EXCEPT ![p] = {}]
    /\ verdict' = [verdict EXCEPT ![p] = "clean"]
    /\ versions' = [versions EXCEPT !.of[p] = 0]
    /\ trusted' = trusted \ {p}
    /\ UNCHANGED <<limiter, table, memory, seen, tables, promised, alone, tainted, faults>>

-----------------------------------------------------------------------------
(* The process.  router.New makes the limiter and loads the cache before   *)
(* the server listens; a failure of that reload is ignored.  What was      *)
(* under way when the last process ended is gone.                          *)

Boot ==
    /\ NewRateLimiter
    /\ pc' = [g \in Goroutines |-> "idle"]
    /\ \/ cache' = dict /\ loaded' = TRUE /\ UNCHANGED faults
       \/ cache' = Empty /\ loaded' = FALSE /\ Fault
    /\ text' = [p \in Posters |-> {}]
    /\ verdict' = [p \in Posters |-> "clean"]
    /\ seen' = [g \in Goroutines |-> Empty]
    /\ versions' = [cache |-> IF loaded' THEN version ELSE 0,
                    seen |-> [g \in Goroutines |-> 0], of |-> [g \in Goroutines |-> 0]]
    /\ tainted' = FALSE
    /\ trusted' = {}
    /\ alone' = {}
    /\ UNCHANGED <<table, tables, promised>>

Clock == Tick /\ UNCHANGED <<table, memory, pc, text, verdict, seen, history, faults>>

ReloadTerms(g) == Select(g) \/ SelectFails(g) \/ Store(g)

Next ==
    \/ \E a \in Admins : \/ \E t \in Terms, class \in Classes : AddTerm(a, t, class)
                         \/ \E t \in Terms : DeleteTerm(a, t)
                         \/ Answer(a)
    \/ \E p \in Posters : \/ \E words \in SUBSET Terms : Arrive(p, words)
                          \/ EnsureCache(p) \/ Scan(p) \/ Leave(p)
    \/ \E g \in Goroutines : ReloadTerms(g)
    \/ Boot
    \/ Clock

Spec == Init /\ [][Next]_vars

-----------------------------------------------------------------------------
(* Correctness.                                                            *)

\* The cache is the table whenever nobody is reloading it, once it was loaded
\* and unless the last reload overlapped another or a change or a failed
\* reload came after it: one reload that runs by itself mends a cache that is
\* stale, however that came about (ReloadTerms, AddTerm, DeleteTerm).
CacheAgrees ==
    (loaded /\ ~tainted /\ Reloading = {}) => cache = dict

\* A text is judged by one state of the table, at least as new as the newest
\* change that an administrator was told of when the text arrived, unless
\* reloads crossed, one failed or none ever succeeded (Screen, ScreenContent):
\* a term that is in is in for every later post.
ScreenedAsPromised ==
    \A p \in Posters :
        (pc[p] = "scanned" /\ p \in trusted) =>
            \E v \in versions.of[p]..version : verdict[p] = ScanText(text[p], tables[v])
=============================================================================
