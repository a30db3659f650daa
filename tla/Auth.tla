------------------------------- MODULE Auth -------------------------------
(***************************************************************************)
(* Signing in to one account, and the sessions that this opens             *)
(* (internal/auth, internal/session, middleware/auth.go).                  *)
(*                                                                         *)
(* A login counts the failures of a sliding window (CountFailures), asks   *)
(* when the last one was (DateLock), loads the account and compares the    *)
(* password (Compare); it then stores the failure (RecordFailure) and      *)
(* counts again in order to announce a lock (Announce), or opens a session *)
(* (Create).  A request reads its session (GetByID), and is admitted       *)
(* (Admit) or refused (Refuse), or ends the session (Expire).  That the    *)
(* session was used is stored by a goroutine of its own (Touch), beside    *)
(* which the request and others go on.                                     *)
(*                                                                         *)
(* Accounts share nothing, so that one is enough.  The clock ticks in      *)
(* units that are longer than the 5 s after which a Touch is given up.     *)
(***************************************************************************)
EXTENDS Naturals, FiniteSets

CONSTANTS Logins,     \* goroutines that serve logins
          Requests,   \* goroutines that serve requests with a session cookie
          Sessions,   \* ids of sessions; as many as can be opened
          Threshold,  \* lockoutFailures
          Window,     \* lockoutWindow
          Lock,       \* lockoutDuration
          Idle,       \* InactivityTimeout
          Lifetime,   \* AbsoluteTimeout
          MaxTime,    \* bound: the last tick of the clock
          MaxCalls,   \* bound: logins and requests
          MaxErrors   \* bound: statements that fail, and crashes

ASSUME GoroutinesAssumption == IsFiniteSet(Logins) /\ IsFiniteSet(Requests)
ASSUME DurationsAssumption == /\ {Threshold, Window, Idle, Lifetime} \subseteq Nat \ {0}
                              /\ Lock \in Nat
                              /\ Window < Lock
ASSUME AuthBoundAssumption == {MaxTime, MaxCalls, MaxErrors} \subseteq Nat

Time == 0..MaxTime

VARIABLES
    now,       \* the clock
    isActive,  \* users.is_active
    failed,    \* failed[t]: the failures in login_attempts with attempted_at = t
    session,   \* session[s]: the row of sessions
    login,     \* login[l]: how far goroutine l is in Login
    request,   \* request[r]: the locals of RequireAuth in goroutine r
    touching,  \* requests that were admitted and whose Touch is under way
    \* History.
    guesses,   \* guesses[t]: the passwords that were refused at time t
    locks,     \* failures that brought the window to the threshold
    notices,   \* calls of the lockout notifier
    overlaps,  \* failures stored, and ticks, while a login is about to count its own
    seen,      \* seen[s]: when a request of s was last admitted
    outdated,  \* requests whose copy of the session lacks another's Touch
    calls,     \* logins and requests so far
    errors     \* statements that failed, and crashes

lockout  == <<failed, guesses, locks, notices, overlaps>>
sessions == <<session, touching, seen, outdated>>
authVars == <<now, isActive, lockout, login, sessions, request, calls, errors>>

NoCall  == [pc |-> "idle"]
Row(s)  == session[s].state = "live"
Error   == errors < MaxErrors /\ errors' = errors + 1

AuthTypeOK ==
    /\ now \in Time
    /\ isActive \in BOOLEAN
    /\ failed \in [Time -> Nat]
    /\ session \in [Sessions ->
           [state : {"absent", "deleted"}]
              \cup [state : {"live"}, lastActive : Time, expires : Lifetime..(MaxTime + Lifetime)]]
    /\ login \in [Logins -> {"idle", "counting", "dating", "loading", "failing", "recounting", "opening"}]
    /\ request \in [Requests -> {NoCall} \cup [pc : {"loaded", "admitted"}, sess : Sessions,
                                                 lastActive : Time, expires : Nat]]
    /\ touching \in SUBSET [sess : Sessions, by : Requests, at : Time]
    /\ guesses \in [Time -> Nat]
    /\ locks \in Nat
    /\ notices \in Nat
    /\ overlaps \in Nat
    /\ seen \in [Sessions -> Time]
    /\ outdated \in SUBSET Requests
    /\ calls \in 0..MaxCalls
    /\ errors \in 0..MaxErrors

AuthInit ==
    /\ now = 0
    /\ isActive = TRUE
    /\ failed = [t \in Time |-> 0]
    /\ session = [s \in Sessions |-> [state |-> "absent"]]
    /\ login = [l \in Logins |-> "idle"]
    /\ request = [r \in Requests |-> NoCall]
    /\ touching = {}
    /\ guesses = [t \in Time |-> 0]
    /\ locks = 0
    /\ notices = 0
    /\ overlaps = 0
    /\ seen = [s \in Sessions |-> 0]
    /\ outdated = {}
    /\ calls = 0
    /\ errors = 0

Call == calls < MaxCalls /\ calls' = calls + 1

-----------------------------------------------------------------------------
(* Logging in.                                                             *)

InWindow == { t \in Time : t + Window > now }

\* The rows that count[t] of each time t stands for.
Attempts(count, times) == UNION { {t} \X (1..count[t]) : t \in times }

Failures == Cardinality(Attempts(failed, InWindow))

\* Mutant: one failure more is needed.
AboveThreshold == Failures > Threshold

AtThreshold == Failures >= Threshold

\* The end of a lock that begins with the last failure of the window.
LockEnd == Lock + CHOOSE t \in InWindow : /\ failed[t] > 0
                                         /\ \A u \in InWindow : failed[u] > 0 => u <= t

Locked == Failures > 0 /\ now < LockEnd

\* Goroutine l, which is at from, goes on to next.
Goes(l, from, next) == login[l] = from /\ login' = [login EXCEPT ![l] = next]

Login(l) ==
    /\ Goes(l, "idle", "counting")
    /\ Call
    /\ UNCHANGED <<now, isActive, lockout, sessions, request, errors>>

CountFailures(l) ==
    /\ Goes(l, "counting", IF AtThreshold THEN "dating" ELSE "loading")
    /\ UNCHANGED <<now, isActive, lockout, sessions, request, calls, errors>>

\* The second SELECT of checkLockout: NULL is an error if the failures have left
\* the window by now, and lets the login pass.
DateLock(l) ==
    /\ Goes(l, "dating", IF Locked THEN "idle" ELSE "loading")
    /\ UNCHANGED <<now, isActive, lockout, sessions, request, calls, errors>>

\* The user's row and the password; an inactive account fails every password.
Compare(l) ==
    /\ \/ /\ isActive
          /\ Goes(l, "loading", "opening")
          /\ UNCHANGED guesses
       \/ /\ Goes(l, "loading", "failing")
          /\ guesses' = [guesses EXCEPT ![now] = @ + 1]
    /\ UNCHANGED <<now, isActive, failed, locks, notices, overlaps, sessions, request, calls, errors>>

Recounting == { l \in Logins : login[l] = "recounting" }

NoteOverlap == overlaps' = IF Recounting = {} THEN overlaps ELSE overlaps + 1

RecordFailure(l) ==
    /\ Goes(l, "failing", "recounting")
    /\ failed' = [failed EXCEPT ![now] = @ + 1]
    /\ locks' = IF Failures + 1 = Threshold THEN locks + 1 ELSE locks
    /\ NoteOverlap
    /\ UNCHANGED <<now, isActive, guesses, notices, sessions, request, calls, errors>>

\* Mutant: the notice is for counts above the threshold.
AnnounceAbove(l) ==
    /\ Goes(l, "recounting", "idle")
    /\ notices' = IF Failures > Threshold THEN notices + 1 ELSE notices
    /\ UNCHANGED <<now, isActive, failed, guesses, locks, overlaps, sessions, request, calls, errors>>

\* The notifier is called if the count is the threshold exactly.
Announce(l) ==
    /\ Goes(l, "recounting", "idle")
    /\ notices' = IF Failures = Threshold THEN notices + 1 ELSE notices
    /\ UNCHANGED <<now, isActive, failed, guesses, locks, overlaps, sessions, request, calls, errors>>

\* A successful attempt is stored as well, but no statement ever reads it.
Create(l) ==
    /\ Goes(l, "opening", "idle")
    /\ \E s \in Sessions :
           /\ session[s].state = "absent"
           /\ session' = [session EXCEPT ![s] = [state |-> "live", lastActive |-> now,
                                                 expires |-> now + Lifetime]]
           /\ seen' = [seen EXCEPT ![s] = now]
    /\ UNCHANGED <<now, isActive, lockout, touching, outdated, request, calls, errors>>

-----------------------------------------------------------------------------
(* Requests that carry the cookie of a session.                            *)

GetByID(r, s) ==
    /\ request[r] = NoCall
    /\ Row(s)
    /\ Call
    /\ request' = [request EXCEPT ![r] = [pc |-> "loaded", sess |-> s,
                                          lastActive |-> session[s].lastActive,
                                          expires |-> session[s].expires]]
    /\ outdated' = IF \E t \in touching : t.sess = s THEN outdated \cup {r} ELSE outdated \ {r}
    /\ UNCHANGED <<now, isActive, lockout, login, session, touching, seen, errors>>

Loaded(r, s) == request[r].pc = "loaded" /\ request[r].sess = s
Expired(r)   == now > request[r].expires
Inactive(r)  == now > request[r].lastActive + Idle
Returns(r)   == request' = [request EXCEPT ![r] = NoCall]

Expire(r, s) ==
    /\ Loaded(r, s)
    /\ Expired(r) \/ Inactive(r)
    /\ Returns(r)
    /\ session' = [session EXCEPT ![s] = [state |-> "deleted"]]
    /\ UNCHANGED <<now, isActive, lockout, login, touching, seen, outdated, calls, errors>>

\* The account was deactivated meanwhile; its sessions stay.
Refuse(r, s) ==
    /\ Loaded(r, s)
    /\ ~ Expired(r) /\ ~ Inactive(r)
    /\ ~ isActive
    /\ Returns(r)
    /\ UNCHANGED <<now, isActive, lockout, login, sessions, calls, errors>>

Admit(r, s) ==
    /\ Loaded(r, s)
    /\ ~ Expired(r) /\ ~ Inactive(r)
    /\ isActive
    /\ request' = [request EXCEPT ![r].pc = "admitted"]
    /\ touching' = touching \cup {[sess |-> s, by |-> r, at |-> now]}
    /\ seen' = [seen EXCEPT ![s] = now]
    /\ outdated' = outdated \cup { q \in Requests \ {r} : Loaded(q, s) }
    /\ UNCHANGED <<now, isActive, lockout, login, session, calls, errors>>

\* Mutant: the UPDATE is cancelled with the request.
TouchOfRequest(t) ==
    /\ touching' = touching \ {t}
    /\ \E at \in t.at..now :
           session' = IF Row(t.sess) /\ request[t.by].pc = "admitted"
                      THEN [session EXCEPT ![t.sess].lastActive = at] ELSE session
    /\ UNCHANGED <<now, isActive, lockout, login, request, seen, outdated, calls, errors>>

\* The time is taken before the UPDATE waits for a connection, and the UPDATE
\* finds no row when the session has ended.
Touch(t) ==
    /\ touching' = touching \ {t}
    /\ \E at \in t.at..now :
           session' = IF Row(t.sess) THEN [session EXCEPT ![t.sess].lastActive = at] ELSE session
    /\ UNCHANGED <<now, isActive, lockout, login, request, seen, outdated, calls, errors>>

Answer(r) ==
    /\ request[r].pc = "admitted"
    /\ Returns(r)
    /\ UNCHANGED <<now, isActive, lockout, login, sessions, calls, errors>>

Logout(r) ==
    /\ request[r].pc = "admitted"
    /\ Returns(r)
    /\ session' = [session EXCEPT ![request[r].sess] = [state |-> "deleted"]]
    /\ UNCHANGED <<now, isActive, lockout, login, touching, seen, outdated, calls, errors>>

-----------------------------------------------------------------------------
(* The clock, the account and what fails.                                  *)

\* No Touch lasts longer than a tick.
Tick ==
    /\ now < MaxTime
    /\ \A t \in touching : t.at = now
    /\ now' = now + 1
    /\ NoteOverlap
    /\ UNCHANGED <<isActive, failed, guesses, locks, notices, login, sessions, request, calls, errors>>

Deactivate ==
    /\ isActive
    /\ isActive' = FALSE
    /\ UNCHANGED <<now, lockout, login, sessions, request, calls, errors>>

\* A SELECT of checkLockout fails, and the login passes.
CheckFails(l) ==
    /\ Goes(l, "counting", "loading") \/ Goes(l, "dating", "loading")
    /\ Error
    /\ UNCHANGED <<now, isActive, lockout, sessions, request, calls>>

\* The SELECT of the user fails, which counts as a failed attempt.
LoadFails(l) ==
    /\ Goes(l, "loading", "failing")
    /\ Error
    /\ UNCHANGED <<now, isActive, lockout, sessions, request, calls>>

\* An INSERT, or the COUNT or the SELECT before the notice, fails and is ignored,
\* or the client goes away.
LoginFails(l) ==
    /\ \E pc \in {"failing", "recounting", "opening"} : Goes(l, pc, "idle")
    /\ Error
    /\ UNCHANGED <<now, isActive, lockout, sessions, request, calls>>

RequestFails(r) ==
    /\ request[r].pc = "loaded"
    /\ Returns(r)
    /\ Error
    /\ UNCHANGED <<now, isActive, lockout, login, sessions, calls>>

TouchFails(t) ==
    /\ touching' = touching \ {t}
    /\ Error
    /\ UNCHANGED <<now, isActive, lockout, login, session, seen, outdated, request, calls>>

Restart ==
    /\ login' = [l \in Logins |-> "idle"]
    /\ request' = [r \in Requests |-> NoCall]
    /\ touching' = {}
    /\ Error
    /\ UNCHANGED <<now, isActive, lockout, session, seen, outdated, calls>>

LogIn(l) == \/ Login(l) \/ CountFailures(l) \/ DateLock(l) \/ Compare(l)
            \/ RecordFailure(l) \/ Announce(l) \/ Create(l)
            \/ CheckFails(l) \/ LoadFails(l) \/ LoginFails(l)

RequireAuth(r) == \/ \E s \in Sessions : GetByID(r, s) \/ Expire(r, s) \/ Refuse(r, s) \/ Admit(r, s)
                  \/ Answer(r) \/ Logout(r) \/ RequestFails(r)

AuthNext == \/ \E l \in Logins : LogIn(l)
            \/ \E r \in Requests : RequireAuth(r)
            \/ \E t \in touching : Touch(t) \/ TouchFails(t)
            \/ Tick
            \/ Deactivate
            \/ Restart

AuthSpec == AuthInit /\ [][AuthNext]_authVars

-----------------------------------------------------------------------------
(* Properties.                                                             *)

\* The passwords that can be tried in one window: those that the threshold
\* allows, one more for each login that is under way when it is reached, and for
\* each failed statement one that is let pass or whose row is lost: as many as
\* there are logins when the process dies.
GuessesBounded ==
    Cardinality(Attempts(guesses, InWindow))
        <= Threshold + (Cardinality(Logins) - 1) + errors * Cardinality(Logins)

\* A lock is announced once.  What comes between a failure's INSERT and its COUNT,
\* another failure or a tick of the clock, hides one lock or announces one again
\* at most, and a failed statement or a crash hides one; so that notices and locks
\* agree when nothing of the kind happened and no login is about to count.
LockAnnounced ==
    /\ notices <= locks + overlaps
    /\ Recounting = {} => locks <= notices + overlaps + errors

\* A session ends for inactivity only if no request of it was admitted in the
\* timeout (less the tick by which a Touch may come late), unless the request
\* that ends it had read the session before another's Touch.
EndedByInactivity(r, s) == /\ Loaded(r, s) /\ ~ Expired(r)
                           /\ Row(s) /\ session'[s].state = "deleted"
                           /\ request'[r] = NoCall

ExpiredOnlyIfIdle ==
    [][\A r \in Requests, s \in Sessions :
           EndedByInactivity(r, s) => \/ now >= seen[s] + Idle
                                      \/ r \in outdated
                                      \/ errors > 0]_authVars
=============================================================================
