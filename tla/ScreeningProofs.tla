-------------------------- MODULE ScreeningProofs ---------------------------
(***************************************************************************)
(* Theorems about RateLimiter and Screening, for every set of users, terms *)
(* and goroutines, every limit, window and bound.                          *)
(***************************************************************************)
EXTENDS Screening, FiniteSetTheorems, TLAPS

-----------------------------------------------------------------------------
(* The rate limiter.                                                       *)

\* The bucket of a user holds every request of this life of the process that
\* still counts, and no other life's; entries are not from the future.
Remembered ==
    /\ IsFiniteSet(passed)
    /\ \A e \in passed : e.at <= now /\ e.boot <= boots
    /\ \A u \in Users : bucket[u] \subseteq passed
    /\ \A u \in Users : \A e \in passed :
          (e.user = u /\ e.boot = boots /\ e.at > now - Window) => e \in bucket[u]

LimiterInv == LimiterTypeOK /\ Remembered /\ WindowKept

LEMMA PassedFinite ==
    ASSUME Remembered, NEW S, S \subseteq passed
    PROVE  IsFiniteSet(S) /\ Cardinality(S) \in Nat /\ Cardinality(S) <= Cardinality(passed)
           /\ Cardinality(passed) \in Nat
BY FS_Subset, FS_CardinalityType DEF Remembered

LEMMA FreshSubset ==
    ASSUME Remembered, NEW u \in Users
    PROVE  Fresh(u) \subseteq passed
BY DEF Remembered, Fresh

LEMMA PassType ==
    ASSUME LimiterInv, boots > 0, NEW u \in Users, Pass(u)
    PROVE  LimiterTypeOK' /\ NewEntry(u) \in Entries
<1> USE DEF LimiterInv, LimiterTypeOK
<1>1. Cardinality(passed) \in Nat /\ Cardinality(passed) < MaxPasses
  BY PassedFinite DEF Pass
<1>2. Cardinality(passed) + 1 \in 1..MaxPasses /\ boots \in 1..MaxBoots
  BY <1>1, LimiterBoundAssumption
<1>3. NewEntry(u) \in Entries
  BY <1>2 DEF NewEntry, Entries
<1>4. Fresh(u) \subseteq Entries
  BY DEF Fresh
<1> QED
  BY <1>3, <1>4 DEF Pass

LEMMA PassRemembered ==
    ASSUME LimiterInv, boots > 0, NEW u \in Users, Pass(u)
    PROVE  Remembered'
<1> USE DEF LimiterInv
<1>1. /\ bucket' = [bucket EXCEPT ![u] = Fresh(u) \cup {NewEntry(u)}]
      /\ passed' = passed \cup {NewEntry(u)}
      /\ now' = now /\ boots' = boots
  BY DEF Pass
<1>2. NewEntry(u).at = now /\ NewEntry(u).boot = boots /\ NewEntry(u).user = u
  BY DEF NewEntry
<1>3. IsFiniteSet(passed')
  BY <1>1, FS_AddElement DEF Remembered
<1>4. \A e \in passed' : e.at <= now /\ e.boot <= boots
  BY <1>1, <1>2 DEF Remembered, LimiterTypeOK
<1>5. \A v \in Users : bucket'[v] = IF v = u THEN Fresh(u) \cup {NewEntry(u)} ELSE bucket[v]
  BY <1>1 DEF LimiterTypeOK
<1>6. \A v \in Users : bucket'[v] \subseteq passed'
  BY <1>1, <1>5, FreshSubset DEF Remembered
<1>7. ASSUME NEW v \in Users, NEW e \in passed', e.user = v, e.boot = boots, e.at > now - Window
      PROVE  e \in bucket'[v]
  <2>1. CASE e = NewEntry(u)
    BY <1>2, <1>5, <1>7, <2>1
  <2>2. CASE e # NewEntry(u)
    <3>1. e \in bucket[v]
      BY <1>1, <1>7, <2>2 DEF Remembered
    <3> QED
      BY <1>5, <1>7, <3>1 DEF Fresh
  <2> QED
    BY <2>1, <2>2
<1> QED
  BY <1>1, <1>3, <1>4, <1>6, <1>7 DEF Remembered

\* One more request fits into every window.
LEMMA PassWindow ==
    ASSUME LimiterInv, boots > 0, NEW u \in Users, Pass(u)
    PROVE  WindowKept'
<1> SUFFICES ASSUME NEW v \in Users, NEW t \in 0..MaxTime, NEW b \in 1..MaxBoots
             PROVE  Cardinality(InWindow(v, t, b)') <= Limit
  BY DEF WindowKept
<1> USE DEF LimiterInv
<1> PICK e : e = NewEntry(u)
  OBVIOUS
<1>1. passed' = passed \cup {e} /\ e.at = now /\ e.boot = boots /\ e.user = u
  BY DEF Pass, NewEntry
<1>2. InWindow(v, t, b) \subseteq passed /\ Cardinality(InWindow(v, t, b)) <= Limit
  BY DEF InWindow, WindowKept
<1>3. IsFiniteSet(InWindow(v, t, b)) /\ Cardinality(InWindow(v, t, b)) \in Nat
  BY <1>2, PassedFinite
<1>4. CASE ~(v = u /\ b = boots /\ t - Window < now /\ now <= t)
  <2>1. InWindow(v, t, b)' = InWindow(v, t, b)
    BY <1>1, <1>4 DEF InWindow
  <2> QED
    BY <1>2, <2>1
<1>5. CASE v = u /\ b = boots /\ t - Window < now /\ now <= t
  <2>1. InWindow(v, t, b)' \subseteq InWindow(v, t, b) \cup {e}
    BY <1>1 DEF InWindow
  <2>2. InWindow(v, t, b) \subseteq Fresh(u)
    <3>1. ASSUME NEW f \in InWindow(v, t, b)
          PROVE  f \in Fresh(u)
      <4>1. f \in passed /\ f.user = u /\ f.boot = boots /\ f.at > t - Window
        BY <1>5 DEF InWindow
      <4>2. f.at \in Int /\ now \in Int /\ t \in Int /\ Window \in Int
        BY <4>1, LimitAssumption, LimiterBoundAssumption DEF LimiterTypeOK, Entries
      <4>3. f.at > now - Window
        BY <1>5, <4>1, <4>2
      <4> QED
        BY <4>1, <4>3 DEF Remembered, Fresh
    <3> QED
      BY <3>1
  <2>3. IsFiniteSet(Fresh(u)) /\ Cardinality(Fresh(u)) \in Nat
    BY FreshSubset, PassedFinite
  <2>4. Cardinality(InWindow(v, t, b)) <= Cardinality(Fresh(u))
    BY <2>2, <2>3, FS_Subset
  <2>5. Cardinality(Fresh(u)) < Limit
    BY DEF Pass, Allowed
  <2>6. /\ IsFiniteSet(InWindow(v, t, b) \cup {e})
        /\ Cardinality(InWindow(v, t, b) \cup {e}) <= Cardinality(InWindow(v, t, b)) + 1
        /\ Cardinality(InWindow(v, t, b) \cup {e}) \in Nat
    <3>1. /\ IsFiniteSet(InWindow(v, t, b) \cup {e})
          /\ Cardinality(InWindow(v, t, b) \cup {e}) =
                 IF e \in InWindow(v, t, b) THEN Cardinality(InWindow(v, t, b))
                                            ELSE Cardinality(InWindow(v, t, b)) + 1
      BY <1>3, FS_AddElement
    <3> QED
      BY <1>3, <3>1
  <2>7. /\ Cardinality(InWindow(v, t, b)') \in Nat
        /\ Cardinality(InWindow(v, t, b)') <= Cardinality(InWindow(v, t, b) \cup {e})
    BY <2>1, <2>6, FS_Subset, FS_CardinalityType
  <2> QED
    BY <1>3, <2>3, <2>4, <2>5, <2>6, <2>7, LimitAssumption
<1> QED
  BY <1>4, <1>5

LEMMA LimiterNextInv == LimiterInv /\ [LimiterNext]_limiter => LimiterInv'
<1> SUFFICES ASSUME LimiterInv, [LimiterNext]_limiter
             PROVE  LimiterInv'
  OBVIOUS
<1>1. ASSUME boots > 0, NEW u \in Users, Pass(u)
      PROVE  LimiterInv'
  BY <1>1, PassType, PassRemembered, PassWindow DEF LimiterInv
<1>2. CASE Tick
  <2>1. now' \in 0..MaxTime /\ now' = now + 1 /\ UNCHANGED <<bucket, passed, boots>>
    BY <1>2, LimiterBoundAssumption DEF Tick, LimiterInv, LimiterTypeOK
  <2>2. \A e \in passed : e.at \in Int
    BY DEF LimiterInv, LimiterTypeOK, Entries
  <2>3. Remembered'
    BY <2>1, <2>2, LimitAssumption DEF LimiterInv, LimiterTypeOK, Remembered
  <2> QED
    BY <2>1, <2>3 DEF LimiterInv, LimiterTypeOK, WindowKept, InWindow
<1>3. CASE NewRateLimiter
  <2>1. boots' \in 0..MaxBoots /\ boots' = boots + 1 /\ UNCHANGED <<now, passed>>
    BY <1>3, LimiterBoundAssumption DEF NewRateLimiter, LimiterInv, LimiterTypeOK
  <2>2. bucket' = [u \in Users |-> {}]
    BY <1>3 DEF NewRateLimiter
  <2>3. \A e \in passed : e.boot \in Int /\ e.boot <= boots
    BY DEF LimiterInv, LimiterTypeOK, Remembered, Entries
  <2>4. boots \in Nat
    BY DEF LimiterInv, LimiterTypeOK
  <2>5. Remembered'
    BY <2>1, <2>2, <2>3, <2>4 DEF LimiterInv, Remembered
  <2> QED
    BY <2>1, <2>2, <2>5 DEF LimiterInv, LimiterTypeOK, WindowKept, InWindow
<1>4. CASE UNCHANGED limiter
  BY <1>4 DEF limiter, LimiterInv, LimiterTypeOK, Remembered, WindowKept, InWindow
<1> QED
  BY <1>1, <1>2, <1>3, <1>4 DEF LimiterNext

LEMMA LimiterInitInv == LimiterInit => LimiterInv
<1> SUFFICES ASSUME LimiterInit
             PROVE  LimiterInv
  OBVIOUS
<1>1. LimiterTypeOK
  BY LimiterBoundAssumption DEF LimiterInit, LimiterTypeOK
<1>2. passed = {} /\ IsFiniteSet({}) /\ Cardinality({}) = 0
  BY FS_EmptySet DEF LimiterInit
<1>3. Remembered
  BY <1>2 DEF LimiterInit, Remembered
<1>4. WindowKept
  <2>1. \A u, t, b : InWindow(u, t, b) = {}
    BY <1>2 DEF InWindow
  <2> QED
    BY <1>2, <2>1, LimitAssumption DEF WindowKept
<1> QED
  BY <1>1, <1>3, <1>4 DEF LimiterInv

\* In every window that ends at any time, a process lets no more than Limit
\* requests of a user through, although a bucket is trimmed (Limit).
THEOREM LimitHolds == LimiterSpec => []WindowKept
<1>1. LimiterInv => WindowKept
  BY DEF LimiterInv
<1> QED
  BY <1>1, LimiterInitInv, LimiterNextInv, PTL DEF LimiterSpec

-----------------------------------------------------------------------------
(* Screening goes through the limiter.                                     *)

LEMMA ScreeningPasses == PeersAssumption /\ [Next]_vars => [LimiterNext]_limiter
<1> SUFFICES ASSUME [Next]_vars
             PROVE  LimiterNext \/ UNCHANGED limiter
  BY PeersAssumption
<1>1. ASSUME NEW p \in Posters, NEW words \in SUBSET Terms, Arrive(p, words)
      PROVE  LimiterNext
  <2>1. Author[p] \in Users
    BY PeersAssumption
  <2> QED
    BY <1>1, <2>1 DEF Arrive, Up, LimiterNext
<1>2. ASSUME NEW p \in Posters, EnsureCache(p) \/ Scan(p) \/ Leave(p)
      PROVE  UNCHANGED limiter
  BY <1>2 DEF EnsureCache, Scan, Judge, Leave
<1>3. ASSUME NEW a \in Admins, \/ \E t \in Terms, class \in Classes : AddTerm(a, t, class)
                               \/ \E t \in Terms : DeleteTerm(a, t)
                               \/ Answer(a)
      PROVE  UNCHANGED limiter
  BY <1>3 DEF AddTerm, DeleteTerm, Change, Answer
<1>4. ASSUME NEW g \in Goroutines, ReloadTerms(g)
      PROVE  UNCHANGED limiter
  BY <1>4 DEF ReloadTerms, Select, SelectFails, Store
<1>5. CASE Boot
  BY <1>5 DEF Boot, LimiterNext
<1>6. CASE Clock
  BY <1>6 DEF Clock, LimiterNext
<1>7. CASE UNCHANGED vars
  BY <1>7 DEF vars
<1> QED
  BY <1>1, <1>2, <1>3, <1>4, <1>5, <1>6, <1>7 DEF Next

\* The limiter before the routes behaves as the limiter by itself.
THEOREM ScreeningLimits == Spec => LimiterSpec
<1>1. Init => LimiterInit
  BY DEF Init
<1> QED
  BY <1>1, ScreeningPasses, PeersAssumption, PTL DEF Spec, LimiterSpec

\* So its windows are kept, whatever becomes of the posts that it lets through.
THEOREM WindowsKept == Spec => []WindowKept
BY ScreeningLimits, LimitHolds, PTL

-----------------------------------------------------------------------------
(* Type correctness.                                                       *)

Pcs == {"idle", "changed", "unloaded", "selected", "stored", "passed", "ready", "scanned"}

Versions == [cache : 0..MaxChanges, seen : [Goroutines -> 0..MaxChanges],
             of : [Goroutines -> 0..MaxChanges]]

\* TypeOK, without what belongs to the limiter.
ScreenTypeOK ==
    /\ dict \in Dictionaries /\ cache \in Dictionaries
    /\ loaded \in BOOLEAN
    /\ pc \in [Goroutines -> Pcs]
    /\ text \in [Posters -> SUBSET Terms]
    /\ verdict \in [Posters -> Classes \cup {"clean"}]
    /\ seen \in [Goroutines -> Dictionaries]
    /\ version \in 0..MaxChanges
    /\ versions \in Versions
    /\ tables \in [0..MaxChanges -> Dictionaries]
    /\ trusted \in SUBSET Posters
    /\ promised \in 0..MaxChanges
    /\ alone \in SUBSET Goroutines
    /\ tainted \in BOOLEAN
    /\ faults \in 0..MaxFaults

\* The histories of versions, taken apart.
LEMMA VersionsShape ==
    ASSUME ScreenTypeOK
    PROVE  /\ versions.cache \in 0..MaxChanges
           /\ versions.seen \in [Goroutines -> 0..MaxChanges]
           /\ versions.of \in [Goroutines -> 0..MaxChanges]
           /\ \A g \in Goroutines, v \in 0..MaxChanges :
                 /\ [versions EXCEPT !.of[g] = v] \in Versions
                 /\ [versions EXCEPT !.of[g] = v].of = [versions.of EXCEPT ![g] = v]
                 /\ [versions EXCEPT !.of[g] = v].cache = versions.cache
                 /\ [versions EXCEPT !.of[g] = v].seen = versions.seen
                 /\ [versions EXCEPT !.seen[g] = v] \in Versions
                 /\ [versions EXCEPT !.seen[g] = v].seen = [versions.seen EXCEPT ![g] = v]
                 /\ [versions EXCEPT !.seen[g] = v].cache = versions.cache
                 /\ [versions EXCEPT !.seen[g] = v].of = versions.of
BY DEF ScreenTypeOK, Versions

LEMMA StoreVersions ==
    ASSUME ScreenTypeOK, NEW g \in Goroutines, Store(g)
    PROVE  /\ versions' \in Versions
           /\ versions'.cache = versions.seen[g]
           /\ versions'.seen = [versions.seen EXCEPT ![g] = 0]
           /\ versions'.of = versions.of
<1>1. versions \in Versions /\ 0 \in 0..MaxChanges /\ versions.seen[g] \in 0..MaxChanges
  BY FaultAssumption DEF ScreenTypeOK, Versions
<1>2. versions' = [versions EXCEPT !.cache = versions.seen[g], !.seen[g] = 0]
  BY DEF Store
<1> QED
  BY <1>1, <1>2 DEF Versions

LEMMA ChangeType ==
    ASSUME ScreenTypeOK, NEW a \in Admins, NEW d \in Dictionaries, Change(a, d)
    PROVE  ScreenTypeOK'
<1>1. a \in Goroutines /\ version + 1 \in 0..MaxChanges /\ version + 1 = version'
  BY FaultAssumption DEF Goroutines, ScreenTypeOK, Change
<1>2. versions' \in Versions
  BY <1>1, VersionsShape DEF Change
<1>3. pc' \in [Goroutines -> Pcs] /\ tables' \in [0..MaxChanges -> Dictionaries]
  BY <1>1 DEF Change, Goes, Pcs, ScreenTypeOK
<1>4. alone' \in SUBSET Goroutines
  BY <1>1 DEF Change, Joins
<1> QED
  BY <1>1, <1>2, <1>3, <1>4 DEF Change, memory, ScreenTypeOK

LEMMA ReloadType ==
    ASSUME ScreenTypeOK, NEW g \in Goroutines, ReloadTerms(g)
    PROVE  ScreenTypeOK'
<1>1. CASE Select(g)
  <2>1. versions' \in Versions
    BY <1>1, VersionsShape DEF Select, ScreenTypeOK
  <2> QED
    BY <1>1, <2>1 DEF Select, Goes, Pcs, table, memory, ScreenTypeOK
<1>2. CASE SelectFails(g)
  <2>1. versions' \in Versions
    <3>1. 0 \in 0..MaxChanges
      BY FaultAssumption
    <3> QED
      BY <1>2, <3>1, VersionsShape DEF SelectFails, ScreenTypeOK
  <2>2. faults' \in 0..MaxFaults
    BY <1>2, FaultAssumption DEF SelectFails, Fault, ScreenTypeOK
  <2>3. tainted' \in BOOLEAN
    BY <1>2 DEF SelectFails, ScreenTypeOK
  <2>4. pc' \in [Goroutines -> Pcs]
    BY <1>2 DEF SelectFails, Goes, Pcs, ScreenTypeOK
  <2> QED
    BY <1>2, <2>1, <2>2, <2>3, <2>4 DEF SelectFails, table, memory, ScreenTypeOK
<1>3. CASE Store(g)
  <2>1. versions' \in Versions
    BY <1>3, StoreVersions
  <2>2. tainted' \in BOOLEAN
    BY <1>3 DEF Store
  <2>3. pc' \in [Goroutines -> Pcs]
    BY <1>3 DEF Store, Goes, Pcs, ScreenTypeOK
  <2>4. seen' \in [Goroutines -> Dictionaries] /\ cache' \in Dictionaries
    BY <1>3 DEF Store, Empty, Dictionaries, ScreenTypeOK
  <2> QED
    BY <1>3, <2>1, <2>2, <2>3, <2>4 DEF Store, table, ScreenTypeOK
<1> QED
  BY <1>1, <1>2, <1>3 DEF ReloadTerms

LEMMA PostType ==
    ASSUME ScreenTypeOK, NEW p \in Posters, NEW words \in SUBSET Terms,
           Arrive(p, words) \/ EnsureCache(p) \/ Scan(p) \/ Leave(p)
    PROVE  ScreenTypeOK'
<1>0. p \in Goroutines /\ 0 \in 0..MaxChanges
  BY FaultAssumption DEF Goroutines
<1>1. CASE Arrive(p, words)
  <2>1. versions' \in Versions
    BY <1>0, <1>1, VersionsShape DEF Arrive, ScreenTypeOK
  <2> QED
    BY <1>0, <1>1, <2>1 DEF Arrive, Goes, Pcs, table, memory, ScreenTypeOK
<1>2. CASE EnsureCache(p)
  <2>1. alone' \in SUBSET Goroutines
    BY <1>0, <1>2 DEF EnsureCache, Joins, ScreenTypeOK
  <2> QED
    BY <1>0, <1>2, <2>1 DEF EnsureCache, Goes, Pcs, table, memory, ScreenTypeOK
<1>3. CASE Scan(p)
  <2>1. ScanText(text[p], cache) \in Classes \cup {"clean"}
    BY DEF ScanText, Classes
  <2>2. trusted' \in SUBSET Posters
    BY <1>3 DEF Scan, Judge, ScreenTypeOK
  <2> QED
    BY <1>0, <1>3, <2>1, <2>2 DEF Scan, Judge, Goes, Pcs, table, memory, ScreenTypeOK
<1>4. CASE Leave(p)
  <2>1. versions' \in Versions
    BY <1>0, <1>4, VersionsShape DEF Leave
  <2> QED
    BY <1>0, <1>4, <2>1 DEF Leave, Goes, Pcs, table, memory, ScreenTypeOK
<1> QED
  BY <1>1, <1>2, <1>3, <1>4

\* What Boot does to the cache and the versions.
LEMMA BootVersions ==
    ASSUME ScreenTypeOK, Boot
    PROVE  /\ versions' \in Versions
           /\ versions'.cache = IF loaded' THEN version ELSE 0
           /\ \A g \in Goroutines : versions'.of[g] = 0 /\ versions'.seen[g] = 0
<1>1. 0 \in 0..MaxChanges /\ version \in 0..MaxChanges
  BY FaultAssumption DEF ScreenTypeOK
<1> QED
  BY <1>1 DEF Boot, Versions

LEMMA ScreenNextType == ScreenTypeOK /\ [Next]_vars => ScreenTypeOK'
<1> SUFFICES ASSUME ScreenTypeOK, [Next]_vars
             PROVE  ScreenTypeOK'
  OBVIOUS
<1>1. ASSUME NEW a \in Admins, NEW t \in Terms, NEW class \in Classes \cup {"none"},
             Change(a, [dict EXCEPT ![t] = class])
      PROVE  ScreenTypeOK'
  <2>1. [dict EXCEPT ![t] = class] \in Dictionaries
    BY DEF ScreenTypeOK, Dictionaries
  <2> QED
    BY <1>1, <2>1, ChangeType
<1>2. ASSUME NEW a \in Admins, Answer(a)
      PROVE  ScreenTypeOK'
  <2>1. a \in Goroutines /\ 0 \in 0..MaxChanges
    BY FaultAssumption DEF Goroutines
  <2>2. versions' \in Versions /\ promised' \in 0..MaxChanges
    BY <1>2, <2>1, VersionsShape DEF Answer, ScreenTypeOK
  <2> QED
    BY <1>2, <2>1, <2>2 DEF Answer, Goes, Pcs, table, memory, ScreenTypeOK
<1>3. CASE Boot
  <2>1. versions' \in Versions
    BY <1>3, BootVersions
  <2>0. Empty \in Dictionaries
    BY DEF Empty, Dictionaries
  <2>2. cache' \in Dictionaries /\ loaded' \in BOOLEAN
    BY <1>3, <2>0 DEF Boot, ScreenTypeOK
  <2>3. faults' \in 0..MaxFaults
    BY <1>3, FaultAssumption DEF Boot, Fault, ScreenTypeOK
  <2>4. /\ pc' \in [Goroutines -> Pcs]
        /\ seen' \in [Goroutines -> Dictionaries]
        /\ text' \in [Posters -> SUBSET Terms]
        /\ verdict' \in [Posters -> Classes \cup {"clean"}]
    BY <1>3, <2>0 DEF Boot, Pcs
  <2> QED
    BY <1>3, <2>1, <2>2, <2>3, <2>4 DEF Boot, table, ScreenTypeOK
<1>4. CASE Clock \/ UNCHANGED vars
  BY <1>4 DEF Clock, vars, table, memory, history, ScreenTypeOK
<1> QED
  BY <1>1, <1>2, <1>3, <1>4, ReloadType, PostType DEF Next, AddTerm, DeleteTerm

-----------------------------------------------------------------------------
(* The cache agrees with the table.                                        *)

\* Only administrators change the dictionary, only posts find the cache not
\* loaded.
Places == /\ \A p \in Posters : pc[p] \notin {"changed", "stored"}
          /\ \A a \in Admins : pc[a] \in {"idle", "changed", "selected", "stored"}

\* A reload that is alone has read the table as it is.
Lone == \A g \in alone : /\ Reloading = {g}
                         /\ pc[g] = "selected" => seen[g] = dict /\ versions.seen[g] = version

\* A post that waits for the first reload keeps the cache under suspicion.
Suspected == \A g \in Goroutines : pc[g] = "unloaded" => ~loaded \/ tainted

CacheInv == ScreenTypeOK /\ Places /\ Lone /\ Suspected /\ CacheAgrees

\* Where a goroutine goes, and who is reloading then.
LEMMA GoesTo ==
    ASSUME ScreenTypeOK, NEW g \in Goroutines, NEW to, Goes(g, to)
    PROVE  /\ pc'[g] = to /\ \A h \in Goroutines \ {g} : pc'[h] = pc[h]
           /\ Reloading' = IF to \in {"changed", "unloaded", "selected"}
                           THEN Reloading \cup {g} ELSE Reloading \ {g}
<1>1. pc'[g] = to /\ \A h \in Goroutines \ {g} : pc'[h] = pc[h]
  BY DEF ScreenTypeOK, Goes
<1> QED
  BY <1>1 DEF Reloading

LEMMA PlacesStep == ScreenTypeOK /\ Places /\ [Next]_vars => Places'
<1> SUFFICES ASSUME ScreenTypeOK, Places, [Next]_vars
             PROVE  Places'
  OBVIOUS
<1>1. ASSUME NEW g \in Goroutines, NEW to, Goes(g, to),
             g \in Posters => to \notin {"changed", "stored"},
             g \in Admins => to \in {"idle", "changed", "selected", "stored"}
      PROVE  Places'
  BY <1>1, GoesTo DEF Places, Goroutines
<1>2. ASSUME NEW a \in Admins, \/ \E t \in Terms, class \in Classes : AddTerm(a, t, class)
                               \/ \E t \in Terms : DeleteTerm(a, t)
                               \/ Answer(a)
      PROVE  Places'
  <2>1. a \in Goroutines /\ a \notin Posters
    BY PeersAssumption DEF Goroutines
  <2>2. Goes(a, "changed") \/ Goes(a, "idle")
    BY <1>2 DEF AddTerm, DeleteTerm, Change, Answer
  <2> QED
    BY <1>1, <2>1, <2>2
<1>3. ASSUME NEW p \in Posters, \/ \E words \in SUBSET Terms : Arrive(p, words)
                                \/ EnsureCache(p) \/ Scan(p) \/ Leave(p)
      PROVE  Places'
  <2>1. p \in Goroutines /\ p \notin Admins
    BY PeersAssumption DEF Goroutines
  <2>2. \E to \in {"passed", "ready", "unloaded", "scanned", "idle"} : Goes(p, to)
    BY <1>3 DEF Arrive, EnsureCache, Scan, Judge, Leave
  <2> QED
    BY <1>1, <2>1, <2>2
<1>4. ASSUME NEW g \in Goroutines, ReloadTerms(g)
      PROVE  Places'
  <2>1. \/ Goes(g, "selected")
        \/ Goes(g, IF g \in Admins THEN "idle" ELSE "ready")
        \/ Goes(g, IF g \in Admins THEN "stored" ELSE "ready")
    BY <1>4 DEF ReloadTerms, Select, SelectFails, Store
  <2>2. g \in Posters => g \notin Admins
    BY PeersAssumption
  <2> QED
    BY <1>1, <2>1, <2>2
<1>5. CASE Boot
  BY <1>5 DEF Boot, Places, Goroutines
<1>6. CASE Clock \/ UNCHANGED vars
  BY <1>6 DEF Clock, vars, Places
<1> QED
  BY <1>2, <1>3, <1>4, <1>5, <1>6 DEF Next

\* A goroutine moves that neither reloads nor begins to.
LEMMA ElsewhereCache ==
    ASSUME CacheInv, NEW g \in Goroutines, NEW to, Goes(g, to), g \notin Reloading,
           to \notin {"changed", "unloaded", "selected"},
           UNCHANGED <<dict, version, cache, loaded, seen, alone, tainted>>,
           versions'.seen = versions.seen
    PROVE  Lone' /\ Suspected' /\ CacheAgrees'
<1> USE DEF CacheInv
<1>1. pc'[g] = to /\ (\A h \in Goroutines \ {g} : pc'[h] = pc[h]) /\ Reloading' = Reloading
  BY GoesTo
<1>2. \A h \in alone : h # g /\ h \in Goroutines
  BY DEF Lone, ScreenTypeOK
<1> QED
  BY <1>1, <1>2 DEF Lone, Suspected, CacheAgrees

\* A goroutine begins to reload.
LEMMA JoinCache ==
    ASSUME CacheInv, NEW g \in Goroutines, NEW to, Goes(g, to), Joins(g), g \notin Reloading,
           to = "changed" \/ (to = "unloaded" /\ ~loaded), UNCHANGED <<loaded, tainted>>
    PROVE  Lone' /\ Suspected' /\ CacheAgrees'
<1> USE DEF CacheInv
<1>1. pc'[g] = to /\ (\A h \in Goroutines \ {g} : pc'[h] = pc[h]) /\ Reloading' = Reloading \cup {g}
  BY GoesTo
<1>2. alone' = IF Reloading = {} THEN {g} ELSE {}
  BY DEF Joins
<1> QED
  BY <1>1, <1>2 DEF Lone, Suspected, CacheAgrees

LEMMA ReloadCache ==
    ASSUME CacheInv, NEW g \in Goroutines, ReloadTerms(g)
    PROVE  Lone' /\ Suspected' /\ CacheAgrees'
<1> USE DEF CacheInv
<1>0. g \in Reloading /\ \A h \in alone : h = g
  BY DEF ReloadTerms, Select, SelectFails, Store, Reloading, Lone
<1>1. CASE Select(g)
  <2>1. pc'[g] = "selected" /\ (\A h \in Goroutines \ {g} : pc'[h] = pc[h]) /\ Reloading' = Reloading
    BY <1>0, <1>1, GoesTo DEF Select
  <2>2. /\ UNCHANGED <<dict, version, cache, loaded, alone, tainted>>
        /\ seen' = [seen EXCEPT ![g] = dict]
        /\ versions' = [versions EXCEPT !.seen[g] = version]
    BY <1>1 DEF Select, table, memory
  <2>3. seen'[g] = dict /\ versions'.seen[g] = version
    BY <2>2, VersionsShape DEF ScreenTypeOK
  <2> QED
    BY <1>0, <2>1, <2>2, <2>3 DEF Lone, Suspected, CacheAgrees
<1>2. CASE SelectFails(g)
  <2>1. /\ \A h \in Goroutines \ {g} : pc'[h] = pc[h]
        /\ pc'[g] # "unloaded"
        /\ alone' = alone \ {g}
        /\ UNCHANGED <<dict, cache, loaded>>
        /\ tainted' = (tainted \/ g \in Admins)
    BY <1>2, GoesTo DEF SelectFails, table, memory
  <2>2. alone' = {}
    BY <1>0, <2>1
  <2>3. g \notin Admins => pc[g] = "unloaded"
    BY <1>2 DEF SelectFails, Places, Goroutines
  <2>4. tainted' \/ ~loaded
    BY <2>1, <2>3 DEF Suspected
  <2> QED
    BY <2>1, <2>2, <2>4 DEF Lone, Suspected, CacheAgrees
<1>3. CASE Store(g)
  <2>1. /\ \A h \in Goroutines \ {g} : pc'[h] = pc[h]
        /\ pc'[g] # "unloaded"
        /\ alone' = alone \ {g}
        /\ cache' = seen[g] /\ dict' = dict /\ loaded' = TRUE
        /\ tainted' = (g \notin alone)
    BY <1>3, GoesTo DEF Store, table
  <2>2. alone' = {}
    BY <1>0, <2>1
  <2>3. g \in alone => Reloading = {g} /\ seen[g] = dict
    BY <1>3 DEF Store, Lone
  <2>4. Suspected'
    BY <2>1, <2>3 DEF Suspected, Reloading
  <2> QED
    BY <2>1, <2>2, <2>3, <2>4 DEF Lone, CacheAgrees
<1> QED
  BY <1>1, <1>2, <1>3 DEF ReloadTerms

LEMMA CacheStep == CacheInv /\ [Next]_vars => CacheInv'
<1> SUFFICES ASSUME CacheInv, [Next]_vars
             PROVE  Lone' /\ Suspected' /\ CacheAgrees'
  BY ScreenNextType, PlacesStep DEF CacheInv
<1>0. ScreenTypeOK
  BY DEF CacheInv
<1>1. ASSUME NEW a \in Admins, NEW d, Change(a, d)
      PROVE  Lone' /\ Suspected' /\ CacheAgrees'
  <2>1. a \in Goroutines /\ a \notin Reloading /\ Goes(a, "changed") /\ Joins(a)
        /\ UNCHANGED <<loaded, tainted>>
    BY <1>1 DEF Change, Goroutines, Reloading, memory
  <2> QED
    BY <2>1, JoinCache
<1>2. ASSUME NEW a \in Admins, Answer(a)
      PROVE  Lone' /\ Suspected' /\ CacheAgrees'
  <2>1. a \in Goroutines /\ a \notin Reloading /\ Goes(a, "idle") /\ 0 \in 0..MaxChanges
    BY <1>2, FaultAssumption DEF Answer, Goroutines, Reloading
  <2>2. versions'.seen = versions.seen
    BY <1>0, <1>2, <2>1, VersionsShape DEF Answer
  <2> QED
    BY <1>2, <2>1, <2>2, ElsewhereCache DEF Answer, table, memory
<1>3. ASSUME NEW p \in Posters, NEW words, Arrive(p, words)
      PROVE  Lone' /\ Suspected' /\ CacheAgrees'
  <2>1. p \in Goroutines /\ p \notin Reloading /\ Goes(p, "passed") /\ promised \in 0..MaxChanges
    BY <1>0, <1>3 DEF Arrive, Goroutines, Reloading, ScreenTypeOK
  <2>2. versions'.seen = versions.seen
    BY <1>0, <1>3, <2>1, VersionsShape DEF Arrive
  <2> QED
    BY <1>3, <2>1, <2>2, ElsewhereCache DEF Arrive, table, memory
<1>4. ASSUME NEW p \in Posters, EnsureCache(p)
      PROVE  Lone' /\ Suspected' /\ CacheAgrees'
  <2>1. p \in Goroutines /\ p \notin Reloading
    BY <1>4 DEF EnsureCache, Goroutines, Reloading
  <2>2. CASE loaded
    BY <1>4, <2>1, <2>2, ElsewhereCache DEF EnsureCache, table, memory
  <2>3. CASE ~loaded
    BY <1>4, <2>1, <2>3, JoinCache DEF EnsureCache, memory
  <2> QED
    BY <2>2, <2>3
<1>5. ASSUME NEW p \in Posters, Scan(p) \/ Leave(p)
      PROVE  Lone' /\ Suspected' /\ CacheAgrees'
  <2>1. p \in Goroutines /\ p \notin Reloading /\ 0 \in 0..MaxChanges
    BY <1>5, FaultAssumption DEF Scan, Judge, Leave, Goroutines, Reloading
  <2>2. CASE Scan(p)
    <3>1. Goes(p, "scanned") /\ UNCHANGED <<dict, version, cache, loaded, seen, alone, tainted, versions>>
      BY <2>2 DEF Scan, Judge, table, memory
    <3> QED
      BY <2>1, <3>1, ElsewhereCache
  <2>3. CASE Leave(p)
    <3>1. Goes(p, "idle") /\ UNCHANGED <<dict, version, cache, loaded, seen, alone, tainted>>
      BY <2>3 DEF Leave, table, memory
    <3>2. versions'.seen = versions.seen
      BY <1>0, <2>1, <2>3, VersionsShape DEF Leave
    <3> QED
      BY <2>1, <3>1, <3>2, ElsewhereCache
  <2> QED
    BY <1>5, <2>2, <2>3
<1>6. CASE Boot
  <2>1. Reloading' = {} /\ alone' = {} /\ \A g \in Goroutines : pc'[g] = "idle"
    BY <1>6 DEF Boot, Reloading
  <2> QED
    BY <1>6, <2>1 DEF Boot, Lone, Suspected, CacheAgrees, table
<1>7. CASE Clock \/ UNCHANGED vars
  BY <1>7 DEF Clock, vars, table, memory, history, CacheInv, Lone, Suspected, CacheAgrees, Reloading
<1> QED
  BY <1>1, <1>2, <1>3, <1>4, <1>5, <1>6, <1>7, ReloadCache DEF Next, AddTerm, DeleteTerm

LEMMA InitCache == Init => CacheInv
<1> SUFFICES ASSUME Init
             PROVE  CacheInv
  OBVIOUS
<1>1. 0 \in 0..MaxChanges /\ 0 \in 0..MaxFaults /\ Empty \in Dictionaries
  BY FaultAssumption DEF Empty, Dictionaries
<1>2. versions \in Versions
  BY <1>1 DEF Init, Versions
<1>3. /\ pc \in [Goroutines -> Pcs]
      /\ text \in [Posters -> SUBSET Terms]
      /\ verdict \in [Posters -> Classes \cup {"clean"}]
      /\ seen \in [Goroutines -> Dictionaries]
      /\ tables \in [0..MaxChanges -> Dictionaries]
  BY <1>1 DEF Init, Pcs
<1>4. ScreenTypeOK
  BY <1>1, <1>2, <1>3 DEF Init, ScreenTypeOK
<1> QED
  BY <1>4 DEF Init, CacheInv, Places, Lone, Suspected, CacheAgrees, Goroutines

\* The dictionary, its copy in memory, the goroutines' locals and the buckets
\* keep their types.
THEOREM TypeCorrect == Spec => []TypeOK
<1>1. LimiterInv /\ ScreenTypeOK => TypeOK
  BY DEF LimiterInv, ScreenTypeOK, TypeOK, Versions, Pcs
<1>2. Spec => []LimiterInv
  BY ScreeningLimits, LimiterInitInv, LimiterNextInv, PTL DEF LimiterSpec
<1>3. CacheInv => ScreenTypeOK
  BY DEF CacheInv
<1> QED
  BY <1>1, <1>2, <1>3, InitCache, CacheStep, PTL DEF Spec

\* The cache is the table whenever nobody is reloading it, unless the last
\* reload overlapped another or a change or a failed reload came after it
\* (ReloadTerms).
THEOREM CacheIsTable == Spec => []CacheAgrees
<1>1. CacheInv => CacheAgrees
  BY DEF CacheInv
<1> QED
  BY <1>1, InitCache, CacheStep, PTL DEF Spec

-----------------------------------------------------------------------------
(* A text is judged as an administrator was promised.                      *)

\* What was read is the table as it was at some version.
Dated ==
    /\ tables[version] = dict
    /\ loaded => versions.cache <= version /\ cache = tables[versions.cache]
    /\ \A g \in Goroutines : pc[g] = "selected" =>
          versions.seen[g] <= version /\ seen[g] = tables[versions.seen[g]]

\* A cache that is trusted is as new as anything promised or about to be.
Recent ==
    /\ promised <= version
    /\ \A g \in Goroutines : versions.of[g] <= version
    /\ \A p \in Posters : versions.of[p] <= promised
    /\ loaded /\ ~tainted =>
          /\ promised <= versions.cache
          /\ \A a \in Admins : pc[a] = "stored" => versions.of[a] <= versions.cache

Judged(p) == /\ pc[p] = "scanned"
             /\ \E v \in versions.of[p]..version : verdict[p] = ScanText(text[p], tables[v])

PromiseInv == CacheInv /\ Dated /\ Recent /\ \A p \in trusted : Judged(p)

LEMMA ChangePromise ==
    ASSUME PromiseInv, NEW a \in Admins, NEW d \in Dictionaries, Change(a, d)
    PROVE  Dated' /\ Recent' /\ \A p \in trusted' : Judged(p)'
<1> USE DEF PromiseInv, CacheInv
<1>0. a \in Goroutines /\ a \notin Posters /\ version \in Nat /\ version + 1 \in 0..MaxChanges
  BY PeersAssumption, FaultAssumption DEF Goroutines, Change, ScreenTypeOK
<1>1. pc'[a] = "changed" /\ \A h \in Goroutines \ {a} : pc'[h] = pc[h]
  BY <1>0, GoesTo DEF Change
<1>2. /\ dict' = d /\ version' = version + 1
      /\ UNCHANGED <<cache, loaded, text, verdict, seen, trusted, promised, tainted>>
      /\ tables' = [tables EXCEPT ![version + 1] = d]
  BY DEF Change, memory
<1>3. /\ versions'.of = [versions.of EXCEPT ![a] = version + 1]
      /\ versions'.cache = versions.cache /\ versions'.seen = versions.seen
  BY <1>0, VersionsShape DEF Change
<1>4. tables'[version + 1] = d /\ \A v \in 0..version : tables'[v] = tables[v]
  BY <1>0, <1>2 DEF ScreenTypeOK
<1>5. versions.cache \in Nat /\ versions.of \in [Goroutines -> Nat] /\ versions.seen \in [Goroutines -> Nat]
      /\ promised \in Nat
  BY VersionsShape DEF ScreenTypeOK
<1>6. Dated'
  <2>1. loaded => versions.cache \in 0..version
    BY <1>0, <1>5 DEF Dated
  <2>2. \A g \in Goroutines : pc[g] = "selected" => versions.seen[g] \in 0..version
    BY <1>0, <1>5 DEF Dated
  <2> QED
    BY <1>0, <1>1, <1>2, <1>3, <1>4, <1>5, <2>1, <2>2 DEF Dated
<1>7. Recent'
  <2>1. \A g \in Goroutines : versions'.of[g] <= version + 1
    BY <1>0, <1>3, <1>5 DEF Recent
  <2>2. \A p \in Posters : versions'.of[p] = versions.of[p]
    BY <1>0, <1>3, <1>5 DEF Goroutines
  <2>3. \A b \in Admins : pc'[b] = "stored" => pc[b] = "stored" /\ versions'.of[b] = versions.of[b]
    BY <1>1, <1>3, <1>5 DEF Goroutines
  <2> QED
    BY <1>0, <1>2, <1>3, <1>5, <2>1, <2>2, <2>3 DEF Recent
<1>8. ASSUME NEW p \in trusted'
      PROVE  Judged(p)'
  <2>1. p \in trusted /\ p \in Goroutines /\ p # a
    BY <1>0, <1>2, <1>8 DEF Goroutines, ScreenTypeOK
  <2>2. PICK v \in versions.of[p]..version : verdict[p] = ScanText(text[p], tables[v])
    BY <2>1 DEF Judged
  <2>3. v \in 0..version /\ v \in versions'.of[p]..version'
    BY <1>0, <1>2, <1>3, <1>5, <2>1, <2>2
  <2>4. verdict'[p] = ScanText(text'[p], tables'[v])
    BY <1>2, <1>4, <2>2, <2>3 DEF ScanText
  <2> QED
    BY <1>1, <2>1, <2>3, <2>4 DEF Judged
<1> QED
  BY <1>6, <1>7, <1>8

LEMMA ReloadPromise ==
    ASSUME PromiseInv, NEW g \in Goroutines, ReloadTerms(g)
    PROVE  Dated' /\ Recent' /\ \A p \in trusted' : Judged(p)'
<1> USE DEF PromiseInv, CacheInv
<1>0. version \in 0..MaxChanges /\ version \in Nat /\ 0 \in 0..MaxChanges /\ versions.cache \in Nat
      /\ versions.of \in [Goroutines -> Nat] /\ versions.seen \in [Goroutines -> Nat] /\ promised \in Nat
  BY VersionsShape, FaultAssumption DEF ScreenTypeOK
<1>1. UNCHANGED <<dict, version, tables, text, verdict, trusted, promised>>
      /\ \A h \in Goroutines \ {g} : pc'[h] = pc[h]
  BY GoesTo DEF ReloadTerms, Select, SelectFails, Store, table
<1>2. g \notin trusted
  BY DEF ReloadTerms, Select, SelectFails, Store, Judged
<1>3. ASSUME versions'.of = versions.of \/ (g \in Admins /\ versions'.of = [versions.of EXCEPT ![g] = 0])
      PROVE  \A p \in trusted' : Judged(p)'
  <2>1. \A p \in trusted : p \in Goroutines /\ p # g /\ p \in Posters
    BY <1>2 DEF Goroutines, ScreenTypeOK
  <2>2. \A p \in trusted : pc'[p] = pc[p] /\ versions'.of[p] = versions.of[p]
    BY <1>0, <1>1, <1>3, <2>1
  <2> QED
    BY <1>1, <2>2 DEF Judged, ScanText
<1>4. CASE Select(g)
  <2>1. /\ versions'.of = versions.of /\ versions'.cache = versions.cache
        /\ versions'.seen = [versions.seen EXCEPT ![g] = version]
    BY <1>0, <1>4, VersionsShape DEF Select
  <2>2. UNCHANGED <<cache, loaded, tainted>> /\ seen' = [seen EXCEPT ![g] = dict] /\ pc'[g] = "selected"
    BY <1>4, GoesTo DEF Select, memory
  <2>3. Dated'
    BY <1>0, <1>1, <2>1, <2>2 DEF Dated, ScreenTypeOK
  <2>4. \A a \in Admins : a \in Goroutines /\ (pc'[a] = "stored" => pc[a] = "stored")
    BY <1>1, <2>2 DEF Goroutines
  <2>5. Recent'
    BY <1>1, <2>1, <2>2, <2>4 DEF Recent
  <2> QED
    BY <1>3, <2>1, <2>3, <2>5
<1>5. CASE SelectFails(g)
  <2>1. /\ versions'.of = versions.of \/ (g \in Admins /\ versions'.of = [versions.of EXCEPT ![g] = 0])
        /\ versions'.cache = versions.cache /\ versions'.seen = versions.seen
    BY <1>0, <1>5, VersionsShape DEF SelectFails
  <2>2. UNCHANGED <<cache, loaded, seen>> /\ tainted' = (tainted \/ g \in Admins)
        /\ pc'[g] \notin {"selected", "stored"}
    BY <1>5, GoesTo DEF SelectFails, memory
  <2>3. Dated'
    BY <1>1, <2>1, <2>2 DEF Dated
  <2>4. \A h \in Goroutines : versions'.of[h] = versions.of[h] \/ versions'.of[h] = 0
    BY <1>0, <2>1
  <2>5. \A p \in Posters : p \in Goroutines /\ versions'.of[p] <= promised
    BY <1>0, <2>4 DEF Recent, Goroutines
  <2>6. \A a \in Admins : a \in Goroutines /\ (pc'[a] = "stored" => pc[a] = "stored" /\ a # g)
    BY <1>1, <2>2 DEF Goroutines
  <2>7. \A h \in Goroutines : versions'.of[h] <= version
    BY <1>0, <2>4 DEF Recent
  <2>8. ASSUME loaded', ~tainted'
        PROVE  /\ promised <= versions.cache
               /\ \A a \in Admins : pc'[a] = "stored" => versions'.of[a] <= versions.cache
    <3>1. loaded /\ ~tainted
      BY <2>2, <2>8
    <3>2. /\ promised <= versions.cache
          /\ \A a \in Admins : pc[a] = "stored" => versions.of[a] <= versions.cache
      BY <3>1 DEF Recent
    <3> QED
      BY <1>0, <2>4, <2>6, <3>2
  <2>9. Recent'
    BY <1>1, <2>1, <2>5, <2>7, <2>8 DEF Recent
  <2> QED
    BY <1>3, <2>1, <2>3, <2>9
<1>6. CASE Store(g)
  <2>1. /\ versions'.of = versions.of /\ versions'.cache = versions.seen[g]
        /\ versions'.seen = [versions.seen EXCEPT ![g] = 0]
    BY <1>6, StoreVersions
  <2>2. /\ cache' = seen[g] /\ seen' = [seen EXCEPT ![g] = Empty]
        /\ tainted' = (g \notin alone) /\ pc[g] = "selected" /\ pc'[g] # "selected"
    BY <1>6, GoesTo DEF Store
  <2>3. versions.seen[g] <= version /\ seen[g] = tables[versions.seen[g]]
    BY <2>2 DEF Dated
  <2>4. Dated'
    <3>1. \A h \in Goroutines : pc'[h] = "selected" =>
             h # g /\ pc[h] = "selected" /\ seen'[h] = seen[h] /\ versions'.seen[h] = versions.seen[h]
      BY <1>0, <1>1, <2>1, <2>2 DEF ScreenTypeOK
    <3> QED
      BY <1>1, <2>1, <2>2, <2>3, <3>1 DEF Dated
  <2>5. ~tainted' => versions'.cache = version
    BY <2>1, <2>2 DEF Lone
  <2>6. Recent'
    BY <1>1, <2>1, <2>5 DEF Recent, Goroutines
  <2> QED
    BY <1>3, <2>1, <2>4, <2>6
<1> QED
  BY <1>4, <1>5, <1>6 DEF ReloadTerms

LEMMA PostPromise ==
    ASSUME PromiseInv, NEW p \in Posters, NEW words,
           Arrive(p, words) \/ EnsureCache(p) \/ Scan(p) \/ Leave(p)
    PROVE  Dated' /\ Recent' /\ \A q \in trusted' : Judged(q)'
<1> USE DEF PromiseInv, CacheInv
<1>0. /\ version \in Nat /\ 0 \in 0..MaxChanges /\ promised \in 0..MaxChanges /\ promised \in Nat
      /\ versions.cache \in Nat /\ versions.of \in [Goroutines -> Nat]
      /\ p \in Goroutines /\ p \notin Admins /\ trusted \subseteq Posters
  BY VersionsShape, FaultAssumption, PeersAssumption DEF ScreenTypeOK, Goroutines
<1>1. UNCHANGED <<dict, version, tables, cache, loaded, seen, promised, tainted>>
      /\ (\A h \in Goroutines \ {p} : pc'[h] = pc[h]) /\ pc'[p] \notin {"selected", "stored"}
  <2>1. UNCHANGED <<dict, version, tables, cache, loaded, seen, promised, tainted>>
    BY DEF Arrive, EnsureCache, Scan, Judge, Leave, table, memory
  <2>2. PICK to \in {"passed", "ready", "unloaded", "scanned", "idle"} : Goes(p, to)
    BY DEF Arrive, EnsureCache, Scan, Judge, Leave
  <2>3. pc'[p] = to /\ \A h \in Goroutines \ {p} : pc'[h] = pc[h]
    BY <1>0, <2>2, GoesTo
  <2> QED
    BY <2>1, <2>2, <2>3
<1>2. /\ versions'.cache = versions.cache /\ versions'.seen = versions.seen
      /\ \/ versions'.of = versions.of
         \/ Arrive(p, words) /\ versions'.of = [versions.of EXCEPT ![p] = promised]
         \/ Leave(p) /\ versions'.of = [versions.of EXCEPT ![p] = 0]
  <2>1. CASE Arrive(p, words)
    BY <1>0, <2>1, VersionsShape DEF Arrive
  <2>2. CASE EnsureCache(p) \/ Scan(p)
    BY <2>2 DEF EnsureCache, Scan, Judge
  <2>3. CASE Leave(p)
    BY <1>0, <2>3, VersionsShape DEF Leave
  <2> QED
    BY <2>1, <2>2, <2>3
<1>3. Dated'
  BY <1>1, <1>2 DEF Dated
<1>4. versions'.of[p] <= promised /\ \A h \in Goroutines \ {p} : versions'.of[h] = versions.of[h]
  BY <1>0, <1>2 DEF Recent
<1>5. Recent'
  <2>1. \A h \in Goroutines : versions'.of[h] <= version
    BY <1>0, <1>2, <1>4 DEF Recent
  <2>2. \A q \in Posters : versions'.of[q] <= promised
    BY <1>0, <1>4 DEF Recent, Goroutines
  <2>3. \A a \in Admins : /\ versions'.of[a] = versions.of[a]
                          /\ pc'[a] = "stored" => pc[a] = "stored"
    BY <1>0, <1>1, <1>4 DEF Goroutines
  <2> QED
    BY <1>1, <1>2, <2>1, <2>2, <2>3 DEF Recent
<1>6. ASSUME NEW q \in trusted, q # p
      PROVE  Judged(q)'
  <2>1. q \in Goroutines /\ pc'[q] = pc[q] /\ versions'.of[q] = versions.of[q]
    BY <1>0, <1>1, <1>4, <1>6 DEF Goroutines
  <2>2. text'[q] = text[q] /\ verdict'[q] = verdict[q]
    BY <1>0, <1>6 DEF Arrive, EnsureCache, Scan, Judge, Leave, ScreenTypeOK
  <2> QED
    BY <1>1, <2>1, <2>2 DEF Judged, ScanText
<1>7. ASSUME Scan(p), p \in trusted'
      PROVE  Judged(p)'
  <2>1. pc'[p] = "scanned" /\ UNCHANGED <<text, versions>> /\ p \notin trusted
    BY <1>0, <1>7, GoesTo DEF Scan, Judge, Judged
  <2>2. loaded /\ ~tainted
    BY <1>7, <2>1 DEF Scan, Judge
  <2>3. verdict'[p] = ScanText(text[p], cache) /\ cache = tables[versions.cache]
    BY <1>7, <2>2 DEF Scan, Judge, ScreenTypeOK, Dated
  <2>4. versions.cache \in versions.of[p]..version
    BY <1>0, <2>2 DEF Dated, Recent
  <2> QED
    BY <1>1, <2>1, <2>3, <2>4 DEF Judged, ScanText
<1>8. ~Scan(p) => p \notin trusted'
  BY DEF Arrive, EnsureCache, Leave, Judged
<1>9. trusted' \subseteq trusted \cup {p}
  BY DEF Arrive, EnsureCache, Scan, Judge, Leave
<1> QED
  BY <1>3, <1>5, <1>6, <1>7, <1>8, <1>9

LEMMA NextPromise == PromiseInv /\ [Next]_vars => PromiseInv'
<1> SUFFICES ASSUME PromiseInv, [Next]_vars
             PROVE  Dated' /\ Recent' /\ \A p \in trusted' : Judged(p)'
  BY CacheStep DEF PromiseInv
<1>0. ScreenTypeOK /\ CacheInv
  BY DEF PromiseInv, CacheInv
<1>1. ASSUME NEW a \in Admins, NEW t \in Terms, NEW class \in Classes \cup {"none"},
             Change(a, [dict EXCEPT ![t] = class])
      PROVE  Dated' /\ Recent' /\ \A p \in trusted' : Judged(p)'
  <2>1. [dict EXCEPT ![t] = class] \in Dictionaries
    BY <1>0 DEF ScreenTypeOK, Dictionaries
  <2> QED
    BY <1>1, <2>1, ChangePromise
<1>2. ASSUME NEW a \in Admins, Answer(a)
      PROVE  Dated' /\ Recent' /\ \A p \in trusted' : Judged(p)'
  <2>0. /\ version \in Nat /\ 0 \in 0..MaxChanges /\ promised \in Nat
        /\ versions.cache \in Nat /\ versions.of \in [Goroutines -> Nat]
        /\ a \in Goroutines /\ a \notin Posters /\ trusted \subseteq Posters
    BY <1>0, VersionsShape, FaultAssumption, PeersAssumption DEF ScreenTypeOK, Goroutines
  <2>1. UNCHANGED <<dict, version, tables, cache, loaded, seen, text, verdict, trusted, tainted>>
        /\ (\A h \in Goroutines \ {a} : pc'[h] = pc[h]) /\ pc'[a] = "idle" /\ pc[a] = "stored"
    BY <1>0, <1>2, <2>0, GoesTo DEF Answer, table, memory
  <2>2. /\ versions'.cache = versions.cache /\ versions'.seen = versions.seen
        /\ versions'.of = [versions.of EXCEPT ![a] = 0]
    BY <1>0, <1>2, <2>0, VersionsShape DEF Answer
  <2>3. promised' = IF versions.of[a] > promised THEN versions.of[a] ELSE promised
    BY <1>2 DEF Answer
  <2>4. Dated'
    BY <2>1, <2>2 DEF PromiseInv, Dated
  <2>5. promised' <= version /\ promised <= promised'
    BY <2>0, <2>3 DEF PromiseInv, Recent
  <2>6. \A h \in Goroutines : versions'.of[h] <= version
    BY <2>0, <2>2 DEF PromiseInv, Recent
  <2>7. \A p \in Posters : versions'.of[p] = versions.of[p] /\ versions.of[p] <= promised /\ p \in Goroutines
    BY <2>0, <2>2 DEF PromiseInv, Recent, Goroutines
  <2>8. \A p \in Posters : versions'.of[p] <= promised'
    BY <2>0, <2>3, <2>5, <2>7
  <2>9. ASSUME loaded, ~tainted
        PROVE  /\ promised' <= versions.cache
               /\ \A b \in Admins : pc'[b] = "stored" => versions'.of[b] <= versions.cache
    <3>1. /\ promised <= versions.cache
          /\ \A b \in Admins : pc[b] = "stored" => versions.of[b] <= versions.cache
      BY <2>9 DEF PromiseInv, Recent
    <3>2. \A b \in Admins : pc'[b] = "stored" => b # a /\ pc[b] = "stored" /\ versions'.of[b] = versions.of[b]
      BY <2>0, <2>1, <2>2 DEF Goroutines
    <3> QED
      BY <2>1, <2>3, <3>1, <3>2
  <2>10. Recent'
    BY <2>1, <2>2, <2>5, <2>6, <2>8, <2>9 DEF Recent
  <2>11. \A p \in trusted : p \in Posters /\ p # a /\ p \in Goroutines /\ Judged(p)
    BY <2>0 DEF PromiseInv, Goroutines
  <2>12. \A p \in trusted : Judged(p)'
    BY <2>1, <2>2, <2>7, <2>11 DEF Judged, ScanText
  <2> QED
    BY <2>1, <2>4, <2>10, <2>12
<1>3. CASE Boot
  <2>1. /\ \A g \in Goroutines : pc'[g] = "idle" /\ versions'.of[g] = 0
        /\ versions'.cache = IF loaded' THEN version ELSE 0
        /\ UNCHANGED <<dict, version, tables, promised>> /\ trusted' = {}
        /\ loaded' => cache' = dict
    BY <1>0, <1>3, BootVersions DEF Boot, table
  <2>2. version \in Nat /\ promised \in Nat /\ promised <= version /\ tables[version] = dict
    BY <1>0, FaultAssumption DEF ScreenTypeOK, PromiseInv, Recent, Dated
  <2>3. Dated'
    BY <2>1, <2>2 DEF Dated
  <2>4. Recent'
    BY <2>1, <2>2 DEF Recent, Goroutines
  <2> QED
    BY <2>1, <2>3, <2>4
<1>4. CASE Clock \/ UNCHANGED vars
  BY <1>4 DEF Clock, vars, table, memory, history, PromiseInv, Dated, Recent, Judged, ScanText
<1> QED
  BY <1>1, <1>2, <1>3, <1>4, ReloadPromise, PostPromise DEF Next, AddTerm, DeleteTerm

\* A text is judged by a state of the dictionary that is at least as new as
\* what an administrator was told before the text arrived, unless reloads
\* crossed, one failed or none ever succeeded (Screen, ScreenContent).
THEOREM JudgedAsPromised == Spec => []ScreenedAsPromised
<1>1. Init => PromiseInv
  <2> SUFFICES ASSUME Init
               PROVE  Dated /\ Recent /\ \A p \in trusted : Judged(p)
    BY InitCache DEF PromiseInv
  <2>1. 0 \in 0..MaxChanges
    BY FaultAssumption
  <2>2. Dated
    BY <2>1 DEF Init, Dated
  <2>3. Recent
    BY DEF Init, Recent, Goroutines
  <2> QED
    BY <2>2, <2>3 DEF Init
<1>2. PromiseInv => ScreenedAsPromised
  BY DEF PromiseInv, Judged, ScreenedAsPromised
<1> QED
  BY <1>1, <1>2, NextPromise, PTL DEF Spec
=============================================================================
