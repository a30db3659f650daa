-------------------------------- MODULE Keys --------------------------------
(***************************************************************************)
(* The keys of the signed internal API: their administration               *)
(* (internal/hmacadmin) and the verifier that every internal request       *)
(* passes (internal/middleware/hmac_verify.go).                            *)
(*                                                                         *)
(* An administrator's request changes one row of hmac_keys in a single     *)
(* statement (CreateInsert, Rotate, Revoke); then it reads the row again   *)
(* for the answer, writes an audit entry and answers with the new secret   *)
(* in clear, which nobody can read again (Audit).  Create looks for the    *)
(* key_id first (CreateLookup).  A client's request reads the secret of an *)
(* active key (LoadSecret), then its own body, and compares the signature  *)
(* (Verify).                                                               *)
(*                                                                         *)
(* key_id is UNIQUE and no row is ever deleted, so a row goes by the name  *)
(* of its key_id.  Secrets are numbered in the order they are generated.   *)
(***************************************************************************)
EXTENDS Naturals, FiniteSets

CONSTANTS KeyIds,
          DevKey,      \* DevBootstrapKeyID
          Dev,         \* APP_ENV is "development"
          Admins,      \* goroutines of administrators' requests
          Clients,     \* goroutines of signed requests
          MaxSecrets,  \* bound: secrets that are ever generated
          MaxFaults    \* bound: crashes and failed statements

Secrets == 1..MaxSecrets

NoSecret == 0          \* no row

ASSUME KeyAssumption == DevKey \in KeyIds /\ Dev \in BOOLEAN
ASSUME PeerAssumption == IsFiniteSet(Admins) /\ IsFiniteSet(KeyIds)
ASSUME BoundAssumption == MaxSecrets \in Nat /\ MaxFaults \in Nat

VARIABLES
    secret,    \* secret[k]: the decrypted secret_encrypted, NoSecret without a row
    active,    \* active[k]: is_active
    lastAudit, \* lastAudit[k]: what the newest audit entry about k says was done
    minted,    \* secrets generated so far
    up,        \* the server is running
    req,       \* req[a]: the locals of an administrator's request
    call,      \* call[c]: the locals of a signed request
    revealed,  \* history: secrets shown in an answer or in the log
    created,   \* history: created[k], answers that told somebody he created k
    changes,   \* history: changes[k], changes of k by administrators
    audited,   \* history: audited[k], audit entries about k
    crossed,   \* history: keys changed while an earlier change was unaudited
    cut,       \* history: requests that a fault ended after their change
    faults     \* faults so far

rows    == <<secret, active, minted>>
told    == <<revealed, created>>
log     == <<lastAudit, audited>>
history == <<changes, crossed>>
vars    == <<rows, told, log, history, up, req, call, cut, faults>>

NoRequest == [pc |-> "idle"]

Ops == {"create", "rotate", "revoke"}

Locals == [pc : {"looked"}, key : KeyIds]
             \cup [pc : {"changed"}, op : Ops, key : KeyIds,
                   secret : Secrets \cup {NoSecret}]

\* since: the secrets that were accepted for the key at some time since the
\* request arrived, a history.
Calls == [pc : {"arrived", "loaded", "admitted"}, key : KeyIds, signed : Secrets,
          loaded : Secrets \cup {NoSecret}, since : SUBSET Secrets]

TypeOK ==
    /\ secret \in [KeyIds -> Secrets \cup {NoSecret}]
    /\ active \in [KeyIds -> BOOLEAN]
    /\ lastAudit \in [KeyIds -> Ops \cup {"none"}]
    /\ minted \in 0..MaxSecrets
    /\ up \in BOOLEAN
    /\ req \in [Admins -> Locals \cup {NoRequest}]
    /\ call \in [Clients -> Calls \cup {NoRequest}]
    /\ revealed \in SUBSET Secrets
    /\ created \in [KeyIds -> Nat]
    /\ changes \in [KeyIds -> Nat]
    /\ audited \in [KeyIds -> Nat]
    /\ crossed \in SUBSET KeyIds
    /\ cut \in Nat
    /\ faults \in 0..MaxFaults

Init ==
    /\ secret = [k \in KeyIds |-> NoSecret]
    /\ active = [k \in KeyIds |-> FALSE]
    /\ lastAudit = [k \in KeyIds |-> "none"]
    /\ minted = 0
    /\ up = FALSE
    /\ req = [a \in Admins |-> NoRequest]
    /\ call = [c \in Clients |-> NoRequest]
    /\ revealed = {}
    /\ created = [k \in KeyIds |-> 0]
    /\ changes = [k \in KeyIds |-> 0]
    /\ audited = [k \in KeyIds |-> 0]
    /\ crossed = {}
    /\ cut = 0
    /\ faults = 0

Fault == faults < MaxFaults /\ faults' = faults + 1

\* Requests of administrators that have changed key k and go on.
Unaudited(k) == { a \in Admins : req[a].pc = "changed" /\ req[a].key = k }

-----------------------------------------------------------------------------
(* The statements that change a row.                                       *)

Exists(k) == secret[k] # NoSecret

\* What a request that is under way might have seen of key k from now on.
Witness(k, s) ==
    call' = [c \in Clients |->
                IF call[c] # NoRequest /\ call[c].key = k
                THEN [call[c] EXCEPT !.since = @ \cup {s}] ELSE call[c]]

\* Request a has changed key k.
Changed(a, op, k, s) ==
    /\ req' = [req EXCEPT ![a] = [pc |-> "changed", op |-> op, key |-> k, secret |-> s]]
    /\ changes' = [changes EXCEPT ![k] = @ + 1]
    /\ crossed' = IF Unaudited(k) = {} THEN crossed ELSE crossed \cup {k}
    /\ UNCHANGED <<told, log, up, cut, faults>>

\* Mutant of Store: a rotation leaves is_active alone.
StoreAsIs(k) ==
    /\ minted < MaxSecrets
    /\ minted' = minted + 1
    /\ secret' = [secret EXCEPT ![k] = minted + 1]
    /\ active' = IF Exists(k) THEN active ELSE [active EXCEPT ![k] = TRUE]
    /\ Witness(k, minted + 1)

\* generateSecret, and the statement that stores what it returned.
Store(k) ==
    /\ minted < MaxSecrets
    /\ minted' = minted + 1
    /\ secret' = [secret EXCEPT ![k] = minted + 1]
    /\ active' = [active EXCEPT ![k] = TRUE]
    /\ Witness(k, minted + 1)

CreateLookup(a, k) ==
    /\ up
    /\ req[a] = NoRequest
    /\ ~Exists(k)
    /\ req' = [req EXCEPT ![a] = [pc |-> "looked", key |-> k]]
    /\ UNCHANGED <<rows, told, log, history, up, call, cut, faults>>

\* The INSERT, which the UNIQUE index refuses when the key_id was taken since.
CreateInsert(a) ==
    /\ req[a].pc = "looked"
    /\ \/ /\ ~Exists(req[a].key)
          /\ Store(req[a].key)
          /\ Changed(a, "create", req[a].key, minted + 1)
       \/ /\ Exists(req[a].key)
          /\ req' = [req EXCEPT ![a] = NoRequest]
          /\ UNCHANGED <<rows, told, log, history, up, call, cut, faults>>

\* The UPDATE names the key_id alone: it also reactivates a revoked key.
Rotate(a, k) ==
    /\ up
    /\ req[a] = NoRequest
    /\ Exists(k)
    /\ Store(k)
    /\ Changed(a, "rotate", k, minted + 1)

\* The UPDATE affects no row of a key that is inactive already: not found.
Revoke(a, k) ==
    /\ up
    /\ req[a] = NoRequest
    /\ Exists(k) /\ active[k]
    /\ active' = [active EXCEPT ![k] = FALSE]
    /\ Changed(a, "revoke", k, NoSecret)
    /\ UNCHANGED <<secret, minted, call>>

-----------------------------------------------------------------------------
(* The rest of an administrator's request.                                 *)

\* Mutant of Reveal: the answer to a rotation shows the row alone.
RevealCreated(r) == /\ revealed' = IF r.op = "create" THEN revealed \cup {r.secret} ELSE revealed
                    /\ created' = IF r.op = "create" THEN [created EXCEPT ![r.key] = @ + 1] ELSE created

\* The answer shows the secret, if there is one.
Reveal(r) == /\ revealed' = revealed \cup ({r.secret} \ {NoSecret})
             /\ created' = IF r.op = "create" THEN [created EXCEPT ![r.key] = @ + 1] ELSE created

\* writeAudit.
Entry(r) == /\ lastAudit' = [lastAudit EXCEPT ![r.key] = r.op]
            /\ audited' = [audited EXCEPT ![r.key] = @ + 1]

\* The second SELECT, writeAudit and the answer.  A failed audit entry is
\* ignored, a failed SELECT is a Fail.
Audit(a) ==
    /\ req[a].pc = "changed"
    /\ \/ Entry(req[a]) /\ UNCHANGED <<cut, faults>>
       \/ Fault /\ cut' = cut + 1 /\ UNCHANGED log
    /\ Reveal(req[a])
    /\ req' = [req EXCEPT ![a] = NoRequest]
    /\ UNCHANGED <<rows, history, up, call>>

\* A statement fails, the client is gone or the handler panics: the answer is
\* an error, or is lost after the entry was written, and a new secret goes
\* with it.
Fail(a) ==
    /\ req[a] # NoRequest
    /\ Fault
    /\ \/ UNCHANGED log
       \/ req[a].pc = "changed" /\ Entry(req[a])
    /\ cut' = IF req[a].pc = "looked" THEN cut ELSE cut + 1
    /\ req' = [req EXCEPT ![a] = NoRequest]
    /\ UNCHANGED <<rows, told, history, up, call>>

-----------------------------------------------------------------------------
(* Signed requests.                                                        *)

\* A client signs with a secret that it was given.
Arrive(c, k, s) ==
    /\ up
    /\ call[c] = NoRequest
    /\ s \in revealed
    /\ call' = [call EXCEPT ![c] =
                   [pc |-> "arrived", key |-> k, signed |-> s, loaded |-> NoSecret,
                    since |-> IF active[k] THEN {secret[k]} ELSE {}]]
    /\ UNCHANGED <<rows, told, log, history, up, req, cut, faults>>

Leave(c) == call' = [call EXCEPT ![c] = NoRequest]

\* Mutant of Accepts: the SELECT forgets is_active.
AcceptsRevoked(k) == Exists(k)

\* The SELECT of loadSecret finds the row.
Accepts(k) == Exists(k) /\ active[k]

LoadSecret(c) ==
    /\ call[c].pc = "arrived"
    /\ IF Accepts(call[c].key)
       THEN call' = [call EXCEPT ![c].pc = "loaded", ![c].loaded = secret[call[c].key]]
       ELSE Leave(c)
    /\ UNCHANGED <<rows, told, log, history, up, req, cut, faults>>

\* The body has been read and hashed; the signature is compared.
Verify(c) ==
    /\ call[c].pc = "loaded"
    /\ IF call[c].signed = call[c].loaded
       THEN call' = [call EXCEPT ![c].pc = "admitted"]
       ELSE Leave(c)
    /\ UNCHANGED <<rows, told, log, history, up, req, cut, faults>>

\* The handler behind the verifier is done.
Done(c) ==
    /\ call[c].pc = "admitted"
    /\ Leave(c)
    /\ UNCHANGED <<rows, told, log, history, up, req, cut, faults>>

-----------------------------------------------------------------------------
(* The process.                                                            *)

\* router.New, before the server listens: EnsureDevKey mints a first key and
\* logs it, unless its last SELECT fails.
Boot ==
    /\ ~up
    /\ up' = TRUE
    /\ IF Dev /\ \A k \in KeyIds : ~Exists(k)
       THEN /\ Store(DevKey)
            /\ \/ /\ revealed' = revealed \cup {minted + 1}
                  /\ created' = [created EXCEPT ![DevKey] = @ + 1]
                  /\ UNCHANGED <<cut, faults>>
               \/ Fault /\ cut' = cut + 1 /\ UNCHANGED told
       ELSE UNCHANGED <<rows, told, call, cut, faults>>
    /\ UNCHANGED <<log, history, req>>

Crash ==
    /\ up
    /\ Fault
    /\ up' = FALSE
    /\ cut' = cut + Cardinality({ a \in Admins : req[a].pc = "changed" })
    /\ req' = [a \in Admins |-> NoRequest]
    /\ call' = [c \in Clients |-> NoRequest]
    /\ UNCHANGED <<rows, told, log, history>>

Administer(a) ==
    \/ \E k \in KeyIds : CreateLookup(a, k) \/ Rotate(a, k) \/ Revoke(a, k)
    \/ CreateInsert(a) \/ Audit(a) \/ Fail(a)

Serve(c) ==
    \/ \E k \in KeyIds, s \in Secrets : Arrive(c, k, s)
    \/ LoadSecret(c) \/ Verify(c) \/ Done(c)

Next == \/ \E a \in Admins : Administer(a)
        \/ \E c \in Clients : Serve(c)
        \/ Boot \/ Crash

Spec == Init /\ [][Next]_vars

-----------------------------------------------------------------------------
(* Correctness.                                                            *)

\* A signed request is admitted only with a secret that its key accepted at
\* some instant between the arrival of the request and its admission, whatever
\* rotations and revocations ran meanwhile (ValidateHMAC): a request that
\* arrives after the answer to a revocation or a rotation is refused the old
\* secret, until the key is rotated.
AdmittedWhileAccepted ==
    \A c \in Clients : call[c].pc = "admitted" => call[c].signed \in call[c].since

\* Request a still has the secret of key k to tell.
Tells(a, k) == req[a].pc = "changed" /\ req[a].secret = secret[k]

\* Keys whose secret in force nobody was told, nor will be.
Mute == { k \in KeyIds : /\ Exists(k) /\ secret[k] \notin revealed
                         /\ \A a \in Admins : ~Tells(a, k) }

\* Keys that nobody holds the secret of are as rare as requests that a fault
\* ended between their UPDATE or INSERT and their answer, whichever of two
\* overlapping rotations was applied last; and of any number of requests that
\* create one key_id at most one is told that it did, although all of them may
\* have found the name free (Create, Rotate, EnsureDevKey).
SecretReaches == /\ Cardinality(Mute) <= cut
                 /\ \A k \in KeyIds : created[k] <= 1

\* The audit log has an entry for every change of a key by an administrator
\* but those under way and those that a fault cut, and none for anything else;
\* and its newest entry about a key tells whether the key is accepted, if no
\* change of it is under way, none overtook another and no fault cut one.  An
\* entry is written after the change and outside its statement (writeAudit).
AuditAgrees ==
    \A k \in KeyIds :
        /\ audited[k] <= changes[k]
        /\ changes[k] <= audited[k] + Cardinality(Unaudited(k)) + cut
        /\ (Unaudited(k) = {} /\ k \notin crossed /\ cut = 0 /\ lastAudit[k] # "none") =>
              (active[k] <=> lastAudit[k] # "revoke")
=============================================================================
