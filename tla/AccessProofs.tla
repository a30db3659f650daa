---------------------------- MODULE AccessProofs ----------------------------
(***************************************************************************)
(* Theorems about who is let in: Keys, for every set of keys,              *)
(* administrators and clients, and Auth, for every set of goroutines and   *)
(* sessions, every threshold and duration; both for every bound.  The two  *)
(* components share no state.                                              *)
(***************************************************************************)
EXTENDS Keys, Auth, FiniteSetTheorems, NaturalsInduction, WellFoundedInduction, TLAPS

\* An active key has a row: with this part TypeOK is inductive, since a client
\* that arrives takes down the secret of an active key.
ActiveExists == \A k \in KeyIds : active[k] => Exists(k)

TypeInv == TypeOK /\ ActiveExists

-----------------------------------------------------------------------------
(* Type correctness.                                                       *)

LEMMA InitType == Init => TypeInv
<1> SUFFICES ASSUME Init
             PROVE  TypeInv
  OBVIOUS
<1>1. TypeOK
  <2>1. 0 \in 0..MaxSecrets /\ 0 \in 0..MaxFaults
    BY BoundAssumption
  <2>2. /\ secret \in [KeyIds -> Secrets \cup {NoSecret}]
        /\ lastAudit \in [KeyIds -> Ops \cup {"none"}]
        /\ req \in [Admins -> Locals \cup {NoRequest}]
        /\ call \in [Clients -> Calls \cup {NoRequest}]
    BY DEF Init
  <2>3. active \in [KeyIds -> BOOLEAN]
    BY DEF Init
  <2>4. /\ created \in [KeyIds -> Nat] /\ changes \in [KeyIds -> Nat]
        /\ audited \in [KeyIds -> Nat]
    BY DEF Init
  <2> QED
    BY <2>1, <2>2, <2>3, <2>4 DEF Init, TypeOK
<1>2. ActiveExists
  BY DEF Init, ActiveExists
<1> QED
  BY <1>1, <1>2 DEF TypeInv

\* A secret that is stored is a secret.
LEMMA StoreType ==
    ASSUME TypeInv, NEW k \in KeyIds, Store(k)
    PROVE  /\ minted + 1 \in Secrets
           /\ minted' \in 0..MaxSecrets
           /\ secret' \in [KeyIds -> Secrets \cup {NoSecret}]
           /\ active' \in [KeyIds -> BOOLEAN]
           /\ call' \in [Clients -> Calls \cup {NoRequest}]
           /\ ActiveExists'
<1> USE BoundAssumption DEF TypeInv, TypeOK, Store, Secrets
<1>1. minted + 1 \in Secrets /\ minted + 1 # NoSecret
  BY DEF NoSecret
<1>2. call' \in [Clients -> Calls \cup {NoRequest}]
  <2>1. ASSUME NEW c \in Clients, call[c] \in Calls
        PROVE  [call[c] EXCEPT !.since = @ \cup {minted + 1}] \in Calls
    BY <1>1, <2>1 DEF Calls
  <2> QED
    BY <2>1 DEF Witness
<1>3. ActiveExists'
  BY <1>1 DEF ActiveExists, Exists
<1> QED
  BY <1>1, <1>2, <1>3

LEMMA ChangedType ==
    ASSUME TypeOK, NEW a \in Admins, NEW op \in Ops, NEW k \in KeyIds,
           NEW s \in Secrets \cup {NoSecret}, Changed(a, op, k, s)
    PROVE  /\ req' \in [Admins -> Locals \cup {NoRequest}]
           /\ changes' \in [KeyIds -> Nat]
           /\ crossed' \in SUBSET KeyIds
           /\ UNCHANGED <<lastAudit, audited, revealed, created, up, cut, faults>>
BY DEF TypeOK, Changed, Locals, told, log

\* The locals of a request that has changed a key.
LEMMA ChangedLocals ==
    ASSUME TypeOK, NEW a \in Admins, req[a].pc = "changed"
    PROVE  /\ req[a] # NoRequest
           /\ req[a].op \in Ops /\ req[a].key \in KeyIds
           /\ req[a].secret \in Secrets \cup {NoSecret}
BY DEF TypeOK, Locals, NoRequest

LEMMA LookedLocals ==
    ASSUME TypeOK, NEW a \in Admins, req[a].pc = "looked"
    PROVE  req[a] # NoRequest /\ req[a].key \in KeyIds
BY DEF TypeOK, Locals, NoRequest

LEMMA RevealType ==
    ASSUME TypeOK, NEW a \in Admins, req[a].pc = "changed", Reveal(req[a])
    PROVE  revealed' \in SUBSET Secrets /\ created' \in [KeyIds -> Nat]
<1>1. req[a].secret \in Secrets \cup {NoSecret} /\ req[a].key \in KeyIds
  BY ChangedLocals
<1> QED
  BY <1>1 DEF TypeOK, Reveal

LEMMA NextType == TypeInv /\ [Next]_vars => TypeInv'
<1> SUFFICES ASSUME TypeInv, [Next]_vars
             PROVE  TypeInv'
  OBVIOUS
<1> USE DEF TypeInv
<1>1. ASSUME NEW a \in Admins, NEW k \in KeyIds, CreateLookup(a, k)
      PROVE  TypeInv'
  BY <1>1 DEF CreateLookup, TypeOK, Locals, ActiveExists, Exists, rows, told, log, history
<1>2. ASSUME NEW a \in Admins, CreateInsert(a)
      PROVE  TypeInv'
  <2> DEFINE k == req[a].key
  <2>1. k \in KeyIds
    BY <1>2, LookedLocals DEF CreateInsert
  <2>2. CASE Store(k) /\ Changed(a, "create", k, minted + 1)
    <3> HIDE DEF k
    <3>1. minted + 1 \in Secrets /\ minted' \in 0..MaxSecrets
          /\ secret' \in [KeyIds -> Secrets \cup {NoSecret}]
          /\ active' \in [KeyIds -> BOOLEAN]
          /\ call' \in [Clients -> Calls \cup {NoRequest}] /\ ActiveExists'
      BY <2>1, <2>2, StoreType
    <3>2. /\ req' \in [Admins -> Locals \cup {NoRequest}]
          /\ changes' \in [KeyIds -> Nat]
          /\ crossed' \in SUBSET KeyIds
          /\ UNCHANGED <<lastAudit, audited, revealed, created, up, cut, faults>>
      BY <2>1, <2>2, <3>1, ChangedType DEF Ops
    <3> QED
      BY <3>1, <3>2 DEF TypeOK
  <2>3. CASE /\ req' = [req EXCEPT ![a] = NoRequest]
             /\ UNCHANGED <<rows, told, log, history, up, call, cut, faults>>
    BY <2>3 DEF TypeOK, ActiveExists, Exists, rows, told, log, history
  <2> QED
    BY <1>2, <2>2, <2>3 DEF CreateInsert
<1>3. ASSUME NEW a \in Admins, NEW k \in KeyIds, Rotate(a, k)
      PROVE  TypeInv'
  <2>1. Store(k) /\ Changed(a, "rotate", k, minted + 1)
    BY <1>3 DEF Rotate
  <2>2. minted + 1 \in Secrets /\ minted' \in 0..MaxSecrets
        /\ secret' \in [KeyIds -> Secrets \cup {NoSecret}]
        /\ active' \in [KeyIds -> BOOLEAN]
        /\ call' \in [Clients -> Calls \cup {NoRequest}] /\ ActiveExists'
    BY <2>1, StoreType
  <2>3. /\ req' \in [Admins -> Locals \cup {NoRequest}]
        /\ changes' \in [KeyIds -> Nat]
        /\ crossed' \in SUBSET KeyIds
        /\ UNCHANGED <<lastAudit, audited, revealed, created, up, cut, faults>>
    BY <2>1, <2>2, ChangedType DEF Ops
  <2> QED
    BY <2>2, <2>3 DEF TypeOK
<1>4. ASSUME NEW a \in Admins, NEW k \in KeyIds, Revoke(a, k)
      PROVE  TypeInv'
  <2>1. Changed(a, "revoke", k, NoSecret)
    BY <1>4 DEF Revoke
  <2>2. /\ req' \in [Admins -> Locals \cup {NoRequest}]
        /\ changes' \in [KeyIds -> Nat]
        /\ crossed' \in SUBSET KeyIds
        /\ UNCHANGED <<lastAudit, audited, revealed, created, up, cut, faults>>
    BY <2>1, ChangedType DEF Ops
  <2> QED
    BY <1>4, <2>2 DEF Revoke, TypeOK, ActiveExists, Exists
<1>5. ASSUME NEW a \in Admins, Audit(a)
      PROVE  TypeInv'
  <2>1. req[a].op \in Ops /\ req[a].key \in KeyIds
        /\ revealed' \in SUBSET Secrets /\ created' \in [KeyIds -> Nat]
    BY <1>5, ChangedLocals, RevealType DEF Audit
  <2> QED
    BY <1>5, <2>1, BoundAssumption DEF Audit, Entry, Fault, TypeOK, ActiveExists, Exists, rows, history, log
<1>6. ASSUME NEW a \in Admins, Fail(a)
      PROVE  TypeInv'
  <2>1. lastAudit' \in [KeyIds -> Ops \cup {"none"}] /\ audited' \in [KeyIds -> Nat]
    <3>1. CASE UNCHANGED log
      BY <3>1 DEF log, TypeOK
    <3>2. CASE req[a].pc = "changed" /\ Entry(req[a])
      <4>1. req[a].op \in Ops /\ req[a].key \in KeyIds
        BY <3>2, ChangedLocals
      <4> QED
        BY <3>2, <4>1 DEF Entry, TypeOK
    <3> QED
      BY <1>6, <3>1, <3>2 DEF Fail
  <2> QED
    BY <1>6, <2>1, BoundAssumption DEF Fail, Fault, TypeOK, ActiveExists, Exists, rows, told, history
<1>7. ASSUME NEW c \in Clients, NEW k \in KeyIds, NEW s \in Secrets, Arrive(c, k, s)
      PROVE  TypeInv'
  <2>1. (IF active[k] THEN {secret[k]} ELSE {}) \in SUBSET Secrets
    BY DEF TypeOK, ActiveExists, Exists
  <2> QED
    BY <1>7, <2>1 DEF Arrive, TypeOK, Calls, ActiveExists, Exists, rows, told, log, history
<1>8. ASSUME NEW c \in Clients, LoadSecret(c) \/ Verify(c) \/ Done(c)
      PROVE  TypeInv'
  <2>1. call[c] \in Calls
    BY <1>8 DEF LoadSecret, Verify, Done, TypeOK, NoRequest
  <2>2. call' \in [Clients -> Calls \cup {NoRequest}]
    BY <1>8, <2>1 DEF LoadSecret, Verify, Done, Leave, TypeOK, Calls
  <2> QED
    BY <1>8, <2>2 DEF LoadSecret, Verify, Done, TypeOK, ActiveExists, Exists, rows, told, log, history
<1>9. CASE Boot
  <2>1. CASE Store(DevKey)
    <3>1. minted + 1 \in Secrets /\ minted' \in 0..MaxSecrets
          /\ secret' \in [KeyIds -> Secrets \cup {NoSecret}]
          /\ active' \in [KeyIds -> BOOLEAN]
          /\ call' \in [Clients -> Calls \cup {NoRequest}] /\ ActiveExists'
      BY <2>1, StoreType, KeyAssumption
    <3>2. /\ revealed' \in SUBSET Secrets /\ created' \in [KeyIds -> Nat]
          /\ cut' \in Nat /\ faults' \in 0..MaxFaults
      BY <1>9, <3>1, KeyAssumption, BoundAssumption DEF Boot, Fault, TypeOK, told
    <3> QED
      BY <1>9, <3>1, <3>2 DEF Boot, TypeOK, log, history
  <2>2. CASE UNCHANGED <<rows, told, call, cut, faults>>
    BY <1>9, <2>2 DEF Boot, TypeOK, ActiveExists, Exists, rows, told, log, history
  <2> QED
    BY <1>9, <2>1, <2>2 DEF Boot
<1>10. CASE Crash
  <2>1. Cardinality({ a \in Admins : req[a].pc = "changed" }) \in Nat
    BY PeerAssumption, FS_Subset, FS_CardinalityType
  <2>2. cut' \in Nat
    BY <1>10, <2>1 DEF Crash, TypeOK
  <2>3. faults' \in 0..MaxFaults
    BY <1>10, BoundAssumption DEF Crash, Fault, TypeOK
  <2>4. /\ up' = FALSE
        /\ req' = [a \in Admins |-> NoRequest]
        /\ call' = [c \in Clients |-> NoRequest]
        /\ UNCHANGED <<secret, active, minted, revealed, created, lastAudit, audited, changes, crossed>>
    BY <1>10 DEF Crash, rows, told, log, history
  <2> QED
    BY <2>2, <2>3, <2>4 DEF TypeOK, ActiveExists, Exists
<1>11. CASE UNCHANGED vars
  BY <1>11 DEF vars, TypeOK, ActiveExists, Exists, rows, told, log, history
<1>12. ASSUME NEW a \in Admins, Administer(a)
       PROVE  TypeInv'
  <2> HIDE DEF TypeInv
  <2> QED
    BY <1>1, <1>2, <1>3, <1>4, <1>5, <1>6, <1>12 DEF Administer
<1>13. ASSUME NEW c \in Clients, Serve(c)
       PROVE  TypeInv'
  <2> HIDE DEF TypeInv
  <2> QED
    BY <1>7, <1>8, <1>13 DEF Serve
<1> HIDE DEF TypeInv
<1> QED
  BY <1>9, <1>10, <1>11, <1>12, <1>13 DEF Next

\* Every column, every request's locals and every history keep their types.
THEOREM TypeCorrect == Spec => []TypeOK
<1>1. Spec => []TypeInv
  BY InitType, NextType, PTL DEF Spec
<1> QED
  BY <1>1, PTL DEF TypeInv

-----------------------------------------------------------------------------
(* A request is admitted with a secret that its key accepted meanwhile.    *)

\* What a request has witnessed contains the secret in force, the secret that
\* it loaded and, once it is admitted, the secret that it signed with.
Witnessed(c) ==
    /\ Accepts(call[c].key) => secret[call[c].key] \in call[c].since
    /\ call[c].pc = "loaded" => call[c].loaded \in call[c].since
    /\ call[c].pc = "admitted" => call[c].signed \in call[c].since

Admission == \A c \in Clients : call[c] # NoRequest => Witnessed(c)

LEMMA StoreAdmission ==
    ASSUME TypeInv, Admission, NEW k \in KeyIds, Store(k)
    PROVE  Admission'
<1> SUFFICES ASSUME NEW c \in Clients, call'[c] # NoRequest
             PROVE  Witnessed(c)'
  BY DEF Admission
<1> USE DEF TypeInv, TypeOK
<1>1. secret' = [secret EXCEPT ![k] = minted + 1] /\ active' = [active EXCEPT ![k] = TRUE]
  BY DEF Store
<1>2. call[c] \in Calls /\ Witnessed(c)
  <2>1. call[c] # NoRequest
    BY DEF Store, Witness
  <2> QED
    BY <2>1 DEF Admission
<1>3. CASE call[c].key = k
  <2>1. call'[c] = [call[c] EXCEPT !.since = @ \cup {minted + 1}]
    BY <1>2, <1>3 DEF Store, Witness, Calls, NoRequest
  <2>2. /\ call'[c].pc = call[c].pc /\ call'[c].key = k
        /\ call'[c].loaded = call[c].loaded /\ call'[c].signed = call[c].signed
        /\ call'[c].since = call[c].since \cup {minted + 1}
    BY <1>2, <1>3, <2>1 DEF Calls
  <2> QED
    BY <1>1, <1>2, <2>2 DEF Witnessed
<1>4. CASE call[c].key # k
  <2>1. call'[c] = call[c] /\ call[c].key \in KeyIds
    BY <1>2, <1>4 DEF Store, Witness, Calls
  <2> QED
    BY <1>1, <1>2, <1>4, <2>1 DEF Witnessed, Accepts, Exists
<1> QED
  BY <1>3, <1>4

LEMMA NextAdmission == TypeInv /\ Admission /\ [Next]_vars => Admission'
<1> SUFFICES ASSUME TypeInv, Admission, [Next]_vars
             PROVE  Admission'
  OBVIOUS
<1>1. ASSUME UNCHANGED <<secret, active, call>>
      PROVE  Admission'
  BY <1>1 DEF Admission, Witnessed, Accepts, Exists
<1>2. ASSUME NEW a \in Admins, NEW k \in KeyIds, Revoke(a, k)
      PROVE  Admission'
  BY <1>2 DEF Revoke, Admission, Witnessed, Accepts, Exists, TypeInv, TypeOK, Calls
<1>3. ASSUME NEW a \in Admins, Administer(a)
      PROVE  Admission'
  <2>1. ASSUME NEW k \in KeyIds, CreateLookup(a, k) \/ Rotate(a, k) \/ Revoke(a, k)
        PROVE  Admission'
    BY <2>1, <1>1, <1>2, StoreAdmission DEF CreateLookup, Rotate, rows
  <2>2. ASSUME CreateInsert(a)
        PROVE  Admission'
    BY <2>2, <1>1, StoreAdmission, LookedLocals DEF CreateInsert, rows, TypeInv
  <2>3. ASSUME Audit(a) \/ Fail(a)
        PROVE  Admission'
    BY <2>3, <1>1 DEF Audit, Fail, rows
  <2> QED
    BY <1>3, <2>1, <2>2, <2>3 DEF Administer
<1>4. ASSUME NEW c \in Clients, NEW k \in KeyIds, NEW s \in Secrets, Arrive(c, k, s)
      PROVE  Admission'
  <2> SUFFICES ASSUME NEW d \in Clients, call'[d] # NoRequest
               PROVE  Witnessed(d)'
    BY DEF Admission
  <2>1. UNCHANGED <<secret, active>>
    BY <1>4 DEF Arrive, rows
  <2>2. CASE d = c
    BY <1>4, <2>1, <2>2 DEF Arrive, Witnessed, Accepts, Exists, TypeInv, TypeOK
  <2>3. CASE d # c
    <3>1. call'[d] = call[d]
      BY <1>4, <2>3 DEF Arrive, TypeInv, TypeOK
    <3> QED
      BY <2>1, <3>1 DEF Admission, Witnessed, Accepts, Exists
  <2> QED
    BY <2>2, <2>3
<1>5. ASSUME NEW c \in Clients, LoadSecret(c) \/ Verify(c) \/ Done(c)
      PROVE  Admission'
  <2> SUFFICES ASSUME NEW d \in Clients, call'[d] # NoRequest
               PROVE  Witnessed(d)'
    BY DEF Admission
  <2>1. UNCHANGED <<secret, active>>
    BY <1>5 DEF LoadSecret, Verify, Done, rows
  <2>2. CASE d = c
    <3>1. call[c] \in Calls /\ Witnessed(c)
      BY <1>5 DEF LoadSecret, Verify, Done, Admission, TypeInv, TypeOK, NoRequest
    <3>2. CASE LoadSecret(c)
      <4>1. Accepts(call[c].key)
            /\ call'[c] = [call[c] EXCEPT !.pc = "loaded", !.loaded = secret[call[c].key]]
        BY <2>2, <3>2 DEF LoadSecret, Leave, TypeInv, TypeOK
      <4>2. /\ call'[c].pc = "loaded" /\ call'[c].loaded = secret[call[c].key]
            /\ call'[c].key = call[c].key /\ call'[c].since = call[c].since
        BY <3>1, <4>1 DEF Calls
      <4> QED
        BY <2>1, <2>2, <3>1, <4>1, <4>2 DEF Witnessed, Accepts, Exists
    <3>3. CASE Verify(c)
      <4>1. call[c].pc = "loaded" /\ call[c].signed = call[c].loaded
            /\ call'[c] = [call[c] EXCEPT !.pc = "admitted"]
        BY <2>2, <3>3 DEF Verify, Leave, TypeInv, TypeOK
      <4>2. /\ call'[c].pc = "admitted" /\ call'[c].signed = call[c].signed
            /\ call'[c].key = call[c].key /\ call'[c].since = call[c].since
        BY <3>1, <4>1 DEF Calls
      <4> QED
        BY <2>1, <2>2, <3>1, <4>1, <4>2 DEF Witnessed, Accepts, Exists
    <3>4. CASE Done(c)
      BY <2>2, <3>4 DEF Done, Leave, TypeInv, TypeOK
    <3> QED
      BY <1>5, <3>2, <3>3, <3>4
  <2>3. CASE d # c
    <3>1. call'[d] = call[d]
      BY <1>5, <2>3 DEF LoadSecret, Verify, Done, Leave, TypeInv, TypeOK
    <3> QED
      BY <2>1, <3>1 DEF Admission, Witnessed, Accepts, Exists
  <2> QED
    BY <2>2, <2>3
<1>6. ASSUME NEW c \in Clients, Serve(c)
      PROVE  Admission'
  BY <1>6, <1>4, <1>5 DEF Serve
<1>7. CASE Boot
  BY <1>7, <1>1, StoreAdmission, KeyAssumption DEF Boot, rows
<1>8. CASE Crash
  BY <1>8 DEF Crash, Admission
<1>9. CASE UNCHANGED vars
  BY <1>9, <1>1 DEF vars, rows
<1> QED
  BY <1>3, <1>6, <1>7, <1>8, <1>9 DEF Next

\* A signed request is admitted only with a secret that its key accepted at
\* some instant since the request arrived (ValidateHMAC).
THEOREM AdmittedTimely == Spec => []AdmittedWhileAccepted
<1>1. Init => Admission
  BY DEF Init, Admission
<1>2. TypeInv /\ Admission => AdmittedWhileAccepted
  BY DEF AdmittedWhileAccepted, Admission, Witnessed, NoRequest
<1> QED
  BY <1>1, <1>2, InitType, NextType, NextAdmission, PTL DEF Spec

-----------------------------------------------------------------------------
(* How the requests that have changed a key come and go.                   *)

LEMMA UnauditedFinite ==
    ASSUME NEW k
    PROVE  IsFiniteSet(Unaudited(k)) /\ Cardinality(Unaudited(k)) \in Nat
<1>1. Unaudited(k) \subseteq Admins /\ IsFiniteSet(Admins)
  BY PeerAssumption DEF Unaudited
<1> QED
  BY <1>1, FS_Subset, FS_CardinalityType

\* A request that changes key k joins those that go on, and no other does.
LEMMA Joins ==
    ASSUME TypeOK, NEW a \in Admins, NEW op, NEW k, NEW s,
           req[a].pc # "changed", Changed(a, op, k, s)
    PROVE  /\ a \notin Unaudited(k)
           /\ Unaudited(k)' = Unaudited(k) \cup {a}
           /\ \A j : j # k => Unaudited(j)' = Unaudited(j)
BY DEF TypeOK, Changed, Unaudited

\* A request that ends leaves them.
LEMMA Leaves ==
    ASSUME TypeOK, NEW a \in Admins, req' = [req EXCEPT ![a] = NoRequest], NEW k
    PROVE  Unaudited(k)' = Unaudited(k) \ {a}
BY DEF TypeOK, Unaudited, NoRequest

-----------------------------------------------------------------------------
(* The audit log agrees with the keys.                                     *)

\* Key k is as the newest audit entry says, or as the one request that has
\* still to write one.
Tracked(k) ==
    /\ \A a, b \in Unaudited(k) : a = b
    /\ \A a \in Unaudited(k) : active[k] <=> req[a].op # "revoke"
    /\ Unaudited(k) = {} /\ lastAudit[k] # "none" => (active[k] <=> lastAudit[k] # "revoke")

\* The entries about key k, those still to come and those that a fault cut are
\* its changes; a key without a row has none.
Accounted(k) ==
    /\ audited[k] + Cardinality(Unaudited(k)) <= changes[k]
    /\ changes[k] <= audited[k] + Cardinality(Unaudited(k)) + cut
    /\ ~Exists(k) => lastAudit[k] = "none" /\ Unaudited(k) = {}
    /\ cut = 0 /\ k \notin crossed => Tracked(k)

Accounting == \A k \in KeyIds : Accounted(k)

\* One more change of k, and k is as it says.
LEMMA ChangeAccounting ==
    ASSUME TypeInv, Accounting, NEW a \in Admins, NEW op \in Ops, NEW k \in KeyIds, NEW s,
           req[a].pc # "changed", Changed(a, op, k, s),
           active' = [active EXCEPT ![k] = (op # "revoke")],
           Exists(k)', \A j \in KeyIds \ {k} : secret'[j] = secret[j]
    PROVE  Accounting'
<1> SUFFICES ASSUME NEW j \in KeyIds
             PROVE  Accounted(j)'
  BY DEF Accounting
<1> USE DEF TypeInv, TypeOK
<1>1. Accounted(j) /\ IsFiniteSet(Unaudited(j)) /\ Cardinality(Unaudited(j)) \in Nat
  BY UnauditedFinite DEF Accounting
<1>2. UNCHANGED <<lastAudit, audited, cut>>
  BY DEF Changed, log
<1>3. CASE j = k
  <2>1. a \notin Unaudited(k) /\ Unaudited(k)' = Unaudited(k) \cup {a}
    BY Joins
  <2>2. Cardinality(Unaudited(k)') = Cardinality(Unaudited(k)) + 1
    BY <1>1, <1>3, <2>1, FS_AddElement
  <2>3. changes'[k] = changes[k] + 1
    BY DEF Changed
  <2>4. ASSUME k \notin crossed'
        PROVE  Tracked(k)'
    <3>1. Unaudited(k) = {}
      BY <2>4 DEF Changed
    <3>2. Unaudited(k)' = {a} /\ req'[a].op = op /\ (active'[k] <=> op # "revoke")
      BY <2>1, <3>1 DEF Changed
    <3> QED
      BY <3>2 DEF Tracked
  <2>5. Exists(j)'
    BY <1>3
  <2>6. audited[k] \in Nat /\ changes[k] \in Nat /\ cut \in Nat
    OBVIOUS
  <2>7. audited'[k] + Cardinality(Unaudited(k)') <= changes'[k]
        /\ changes'[k] <= audited'[k] + Cardinality(Unaudited(k)') + cut'
    BY <1>1, <1>2, <1>3, <2>2, <2>3, <2>6 DEF Accounted
  <2> QED
    BY <1>3, <2>4, <2>5, <2>7 DEF Accounted
<1>4. CASE j # k
  <2>1. Unaudited(j)' = Unaudited(j)
    BY <1>4, Joins
  <2>2. changes'[j] = changes[j] /\ (j \notin crossed' => j \notin crossed)
    BY <1>4 DEF Changed
  <2>3. active'[j] = active[j] /\ (Exists(j)' <=> Exists(j))
    BY <1>4 DEF Exists
  <2>4. \A b \in Unaudited(j) : req'[b] = req[b]
    BY DEF Changed, Unaudited
  <2> QED
    BY <1>1, <1>2, <2>1, <2>2, <2>3, <2>4 DEF Accounted, Tracked
<1> QED
  BY <1>3, <1>4

\* A request ends, with its audit entry or cut by a fault.
LEMMA EndAccounting ==
    ASSUME TypeInv, Accounting, NEW a \in Admins,
           req' = [req EXCEPT ![a] = NoRequest], UNCHANGED <<secret, active, changes, crossed>>,
           \/ req[a].pc # "changed" /\ UNCHANGED <<log, cut>>
           \/ req[a].pc = "changed" /\ cut' = cut + 1 /\ UNCHANGED log
           \/ /\ req[a].pc = "changed" /\ cut' \in {cut, cut + 1}
              /\ lastAudit' = [lastAudit EXCEPT ![req[a].key] = req[a].op]
              /\ audited' = [audited EXCEPT ![req[a].key] = @ + 1]
    PROVE  Accounting'
<1> SUFFICES ASSUME NEW k \in KeyIds
             PROVE  Accounted(k)'
  BY DEF Accounting
<1> USE DEF TypeInv, TypeOK
<1>1. Accounted(k) /\ IsFiniteSet(Unaudited(k)) /\ Cardinality(Unaudited(k)) \in Nat
  BY UnauditedFinite DEF Accounting
<1>2. Unaudited(k)' = Unaudited(k) \ {a}
  BY Leaves
<1>3. \A b \in Unaudited(k)' : req'[b] = req[b]
  BY <1>2 DEF Unaudited
<1>4. Exists(k)' <=> Exists(k)
  BY DEF Exists
<1>5. audited[k] \in Nat /\ changes[k] \in Nat /\ cut \in Nat
  OBVIOUS
<1>6. CASE a \notin Unaudited(k)
  <2>1. Unaudited(k)' = Unaudited(k)
    BY <1>2, <1>6
  <2>2. lastAudit'[k] = lastAudit[k] /\ audited'[k] = audited[k]
    BY <1>6 DEF Unaudited, log
  <2>3. cut' = cut \/ cut' = cut + 1
    BY DEF log
  <2> QED
    BY <1>1, <1>3, <1>4, <1>5, <2>1, <2>2, <2>3 DEF Accounted, Tracked
<1>7. CASE a \in Unaudited(k)
  <2>1. req[a].pc = "changed" /\ req[a].key = k /\ Exists(k)
    BY <1>1, <1>7 DEF Unaudited, Accounted
  <2>2. Cardinality(Unaudited(k)') = Cardinality(Unaudited(k)) - 1
    BY <1>1, <1>2, <1>7, FS_RemoveElement
  <2>3. CASE cut' = cut + 1 /\ UNCHANGED log
    <3>1. cut' # 0 /\ audited'[k] = audited[k] /\ changes'[k] = changes[k]
      BY <1>5, <2>3 DEF log
    <3> QED
      BY <1>1, <1>4, <1>5, <2>1, <2>2, <2>3, <3>1 DEF Accounted
  <2>4. CASE /\ cut' \in {cut, cut + 1}
             /\ lastAudit' = [lastAudit EXCEPT ![req[a].key] = req[a].op]
             /\ audited' = [audited EXCEPT ![req[a].key] = @ + 1]
    <3>1. audited'[k] = audited[k] + 1 /\ lastAudit'[k] = req[a].op /\ changes'[k] = changes[k]
      BY <2>1, <2>4
    <3>2. ASSUME cut' = 0, k \notin crossed'
          PROVE  Tracked(k)'
      <4>1. Tracked(k)
        BY <1>1, <2>4, <3>2 DEF Accounted
      <4>2. Unaudited(k)' = {} /\ (active'[k] <=> lastAudit'[k] # "revoke")
        BY <1>2, <1>7, <3>1, <4>1 DEF Tracked
      <4> QED
        BY <4>2 DEF Tracked
    <3> QED
      BY <1>1, <1>4, <1>5, <2>1, <2>2, <2>4, <3>1, <3>2 DEF Accounted
  <2> QED
    BY <2>1, <2>3, <2>4
<1> QED
  BY <1>6, <1>7

LEMMA NextAccounting == TypeInv /\ Accounting /\ [Next]_vars => Accounting'
<1> SUFFICES ASSUME TypeInv, Accounting, [Next]_vars
             PROVE  Accounting'
  OBVIOUS
<1>1. ASSUME UNCHANGED <<secret, active, lastAudit, audited, changes, crossed, cut>>,
             \A k \in KeyIds : Unaudited(k)' = Unaudited(k),
             \A a \in Admins : req[a].pc = "changed" => req'[a] = req[a]
      PROVE  Accounting'
  <2>1. \A k \in KeyIds : \A a \in Unaudited(k) : req'[a] = req[a]
    BY <1>1 DEF Unaudited
  <2> QED
    BY <1>1, <2>1 DEF Accounting, Accounted, Tracked, Exists
<1>2. ASSUME UNCHANGED <<secret, active, lastAudit, audited, changes, crossed, cut, req>>
      PROVE  Accounting'
  BY <1>1, <1>2 DEF Unaudited
<1>3. ASSUME NEW a \in Admins, NEW k \in KeyIds, CreateLookup(a, k)
      PROVE  Accounting'
  <2>1. /\ UNCHANGED <<secret, active, lastAudit, audited, changes, crossed, cut>>
        /\ req[a].pc # "changed" /\ req'[a].pc # "changed"
        /\ \A b \in Admins : b # a => req'[b] = req[b]
    BY <1>3 DEF CreateLookup, rows, told, log, history, NoRequest, TypeInv, TypeOK
  <2>2. \A j : Unaudited(j)' = Unaudited(j)
    BY <2>1 DEF Unaudited
  <2> QED
    BY <1>1, <2>1, <2>2
<1>4. ASSUME NEW a \in Admins, NEW op \in Ops \ {"revoke"}, NEW k \in KeyIds,
             req[a].pc # "changed", Store(k), Changed(a, op, k, minted + 1)
      PROVE  Accounting'
  <2>1. active' = [active EXCEPT ![k] = (op # "revoke")]
    BY <1>4 DEF Store
  <2>2. Exists(k)' /\ \A j \in KeyIds \ {k} : secret'[j] = secret[j]
    BY <1>4 DEF Store, Exists, NoSecret, TypeInv, TypeOK
  <2> QED
    BY <1>4, <2>1, <2>2, ChangeAccounting
<1>5. ASSUME NEW a \in Admins, NEW k \in KeyIds, Rotate(a, k)
      PROVE  Accounting'
  BY <1>4, <1>5 DEF Rotate, Ops, NoRequest
<1>6. ASSUME NEW a \in Admins, NEW k \in KeyIds, Revoke(a, k)
      PROVE  Accounting'
  <2>1. req[a].pc # "changed" /\ Changed(a, "revoke", k, NoSecret) /\ "revoke" \in Ops
    BY <1>6 DEF Revoke, NoRequest, Ops
  <2>2. active' = [active EXCEPT ![k] = ("revoke" # "revoke")]
    BY <1>6 DEF Revoke
  <2>3. Exists(k)' /\ \A j \in KeyIds \ {k} : secret'[j] = secret[j]
    BY <1>6 DEF Revoke, Exists
  <2> QED
    BY <2>1, <2>2, <2>3, ChangeAccounting
<1>7. ASSUME NEW a \in Admins, CreateInsert(a)
      PROVE  Accounting'
  <2>1. CASE Store(req[a].key) /\ Changed(a, "create", req[a].key, minted + 1)
    BY <1>4, <1>7, <2>1, LookedLocals DEF CreateInsert, Ops, TypeInv
  <2>2. CASE /\ req' = [req EXCEPT ![a] = NoRequest]
             /\ UNCHANGED <<rows, told, log, history, up, call, cut, faults>>
    BY <1>7, <2>2, EndAccounting DEF CreateInsert, rows, history
  <2> QED
    BY <1>7, <2>1, <2>2 DEF CreateInsert
<1>8. ASSUME NEW a \in Admins, Audit(a) \/ Fail(a)
      PROVE  Accounting'
  <2>1. CASE Audit(a)
    BY <2>1, EndAccounting DEF Audit, Entry, rows, history
  <2>2. CASE Fail(a)
    <3>1. req[a].pc \in {"looked", "changed"}
      BY <2>2 DEF Fail, TypeInv, TypeOK, Locals, NoRequest
    <3> QED
      BY <2>2, <3>1, EndAccounting DEF Fail, Entry, rows, history
  <2> QED
    BY <1>8, <2>1, <2>2
<1>9. ASSUME NEW a \in Admins, Administer(a)
      PROVE  Accounting'
  BY <1>3, <1>5, <1>6, <1>7, <1>8, <1>9 DEF Administer
<1>10. ASSUME NEW c \in Clients, Serve(c)
       PROVE  Accounting'
  BY <1>2, <1>10 DEF Serve, Arrive, LoadSecret, Verify, Done, rows, log, history
<1>11. CASE Boot
  <2>1. CASE UNCHANGED rows
    <3>1. cut' = cut
      BY <1>11, <2>1 DEF Boot, rows, Store, TypeInv, TypeOK
    <3> QED
      BY <1>2, <1>11, <2>1, <3>1 DEF Boot, rows, log, history
  <2>2. CASE Store(DevKey) /\ \A k \in KeyIds : ~Exists(k)
    <3> SUFFICES ASSUME NEW k \in KeyIds
                 PROVE  Accounted(k)'
      BY DEF Accounting
    <3>1. Accounted(k) /\ lastAudit[k] = "none" /\ Unaudited(k) = {}
      BY <2>2 DEF Accounting, Accounted
    <3>2. Unaudited(k)' = Unaudited(k) /\ UNCHANGED <<lastAudit, audited, changes, crossed>>
      BY <1>11 DEF Boot, Unaudited, log, history
    <3>3. cut' \in Nat /\ (cut' = cut \/ cut' = cut + 1) /\ cut \in Nat
      BY <1>11, <2>2 DEF Boot, TypeInv, TypeOK
    <3>4. Cardinality(Unaudited(k)) = 0 /\ audited[k] \in Nat /\ changes[k] \in Nat
      BY <3>1, FS_EmptySet DEF TypeInv, TypeOK
    <3> QED
      BY <3>1, <3>2, <3>3, <3>4 DEF Accounted, Tracked
  <2> QED
    BY <1>11, <2>1, <2>2 DEF Boot
<1>12. CASE Crash
  <2> SUFFICES ASSUME NEW k \in KeyIds
               PROVE  Accounted(k)'
    BY DEF Accounting
  <2> DEFINE going == { a \in Admins : req[a].pc = "changed" }
  <2>1. Accounted(k) /\ UNCHANGED <<secret, active, lastAudit, audited, changes, crossed>>
    BY <1>12 DEF Crash, Accounting, rows, log, history
  <2>2. Unaudited(k)' = {}
    BY <1>12 DEF Crash, Unaudited, NoRequest
  <2>3. IsFiniteSet(going) /\ Unaudited(k) \subseteq going
    BY PeerAssumption, FS_Subset DEF Unaudited
  <2>4. /\ Cardinality(going) \in Nat /\ Cardinality(Unaudited(k)) \in Nat
        /\ Cardinality(Unaudited(k)) <= Cardinality(going)
    BY <2>3, FS_Subset, FS_CardinalityType
  <2>5. cut' = cut + Cardinality(going) /\ cut \in Nat
    BY <1>12 DEF Crash, TypeInv, TypeOK
  <2> HIDE DEF going
  <2>6. Cardinality(Unaudited(k)') = 0 /\ audited[k] \in Nat /\ changes[k] \in Nat
    BY <2>2, FS_EmptySet DEF TypeInv, TypeOK
  <2>7. audited'[k] + Cardinality(Unaudited(k)') <= changes'[k]
        /\ changes'[k] <= audited'[k] + Cardinality(Unaudited(k)') + cut'
    BY <2>1, <2>4, <2>5, <2>6 DEF Accounted
  <2>8. (Exists(k)' <=> Exists(k)) /\ (cut' = 0 => cut = 0 /\ Cardinality(Unaudited(k)) = 0)
    BY <2>1, <2>4, <2>5 DEF Exists
  <2>9. cut' = 0 => Unaudited(k) = {}
    BY <2>8, <2>3, FS_EmptySet, FS_Subset
  <2> QED
    BY <2>1, <2>2, <2>7, <2>8, <2>9 DEF Accounted, Tracked
<1>13. CASE UNCHANGED vars
  BY <1>2, <1>13 DEF vars, rows, log, history
<1> QED
  BY <1>9, <1>10, <1>11, <1>12, <1>13 DEF Next

\* The audit log has an entry for every change but those under way and those
\* that a fault cut, and its newest entry about a key tells the key's state
\* unless changes overlapped or a fault cut one (writeAudit).
THEOREM AuditTells == Spec => []AuditAgrees
<1>1. Init => Accounting
  <2> SUFFICES ASSUME Init, NEW k \in KeyIds
               PROVE  Accounted(k)
    BY DEF Accounting
  <2>1. Unaudited(k) = {}
    BY DEF Init, Unaudited, NoRequest
  <2>2. Cardinality(Unaudited(k)) = 0
    BY <2>1, FS_EmptySet
  <2> QED
    BY <2>1, <2>2 DEF Init, Accounted, Tracked
<1>2. TypeInv /\ Accounting => AuditAgrees
  <2> SUFFICES ASSUME TypeInv, NEW k \in KeyIds, Accounted(k)
               PROVE  /\ audited[k] <= changes[k]
                      /\ changes[k] <= audited[k] + Cardinality(Unaudited(k)) + cut
                      /\ (Unaudited(k) = {} /\ k \notin crossed /\ cut = 0 /\ lastAudit[k] # "none") =>
                            (active[k] <=> lastAudit[k] # "revoke")
    BY DEF AuditAgrees, Accounting
  <2>1. Cardinality(Unaudited(k)) \in Nat
    BY UnauditedFinite
  <2>2. audited[k] \in Nat /\ changes[k] \in Nat
    BY DEF TypeInv, TypeOK
  <2> QED
    BY <2>1, <2>2 DEF Accounted, Tracked
<1> QED
  BY <1>1, <1>2, InitType, NextType, NextAccounting, PTL DEF Spec

-----------------------------------------------------------------------------
(* A key is created once.                                                  *)

Creating(a, k) == req[a].pc = "changed" /\ req[a].op = "create" /\ req[a].key = k

\* A key without a row was not created; one with a row has one creator, who
\* was told or will be.
CreatedOnce(k) ==
    /\ created[k] <= 1
    /\ \A a, b \in Admins : Creating(a, k) /\ Creating(b, k) => a = b
    /\ \A a \in Admins : Creating(a, k) => created[k] = 0 /\ Exists(k)
    /\ ~Exists(k) => created[k] = 0

Creation == \A k \in KeyIds : CreatedOnce(k)

LEMMA NextCreation == TypeInv /\ Creation /\ [Next]_vars => Creation'
<1> SUFFICES ASSUME TypeInv, Creation, [Next]_vars, NEW k \in KeyIds
             PROVE  CreatedOnce(k)'
  BY DEF Creation
<1>0. CreatedOnce(k) /\ created[k] \in Nat
  BY DEF Creation, TypeInv, TypeOK
<1>1. ASSUME Exists(k) => Exists(k)', created'[k] = created[k],
             \A a \in Admins : Creating(a, k)' => Creating(a, k)
      PROVE  CreatedOnce(k)'
  BY <1>0, <1>1 DEF CreatedOnce
<1>2. ASSUME NEW j \in KeyIds, Store(j)
      PROVE  Exists(j)' /\ (Exists(k) => Exists(k)')
  BY <1>2 DEF Store, Exists, NoSecret, TypeInv, TypeOK
<1>3. ASSUME NEW a \in Admins, NEW j \in KeyIds, CreateLookup(a, j) \/ Rotate(a, j) \/ Revoke(a, j)
      PROVE  CreatedOnce(k)'
  <2>1. \A b \in Admins : Creating(b, k)' => Creating(b, k)
    BY <1>3 DEF CreateLookup, Rotate, Revoke, Changed, Creating, TypeInv, TypeOK
  <2>2. created' = created
    BY <1>3 DEF CreateLookup, Rotate, Revoke, Changed, told
  <2>3. Exists(k) => Exists(k)'
    BY <1>3, <1>2 DEF CreateLookup, Rotate, Revoke, Exists, rows
  <2> QED
    BY <1>1, <2>1, <2>2, <2>3
<1>4. ASSUME NEW a \in Admins, CreateInsert(a)
      PROVE  CreatedOnce(k)'
  <2>1. CASE ~Exists(req[a].key) /\ Store(req[a].key) /\ Changed(a, "create", req[a].key, minted + 1)
    <3> PICK j \in KeyIds : j = req[a].key
      BY <1>4, LookedLocals DEF CreateInsert, TypeInv
    <3>1. Exists(j)' /\ (Exists(k) => Exists(k)') /\ created' = created
      BY <2>1, <1>2 DEF Changed, told
    <3>2. \A b \in Admins : Creating(b, k)' => Creating(b, k) \/ (b = a /\ k = j)
      BY <2>1 DEF Changed, Creating, TypeInv, TypeOK
    <3>3. k = j => created[k] = 0 /\ \A b \in Admins : ~Creating(b, k)
      BY <1>0, <2>1 DEF CreatedOnce
    <3> QED
      BY <1>0, <3>1, <3>2, <3>3 DEF CreatedOnce
  <2>2. CASE /\ req' = [req EXCEPT ![a] = NoRequest]
             /\ UNCHANGED <<rows, told, log, history, up, call, cut, faults>>
    BY <1>1, <2>2 DEF Creating, Exists, NoRequest, rows, told, TypeInv, TypeOK
  <2> QED
    BY <1>4, <2>1, <2>2 DEF CreateInsert
<1>5. ASSUME NEW a \in Admins, Audit(a)
      PROVE  CreatedOnce(k)'
  <2>1. Exists(k)' <=> Exists(k)
    BY <1>5 DEF Audit, Exists, rows
  <2>2. \A b \in Admins : Creating(b, k)' => Creating(b, k) /\ b # a
    BY <1>5 DEF Audit, Creating, NoRequest, TypeInv, TypeOK
  <2>3. created'[k] = IF Creating(a, k) THEN created[k] + 1 ELSE created[k]
    BY <1>5 DEF Audit, Reveal, Creating, TypeInv, TypeOK
  <2> QED
    BY <1>0, <2>1, <2>2, <2>3 DEF CreatedOnce
<1>6. ASSUME NEW a \in Admins, Fail(a)
      PROVE  CreatedOnce(k)'
  BY <1>1, <1>6 DEF Fail, Creating, Exists, NoRequest, rows, told, TypeInv, TypeOK
<1>7. ASSUME NEW a \in Admins, Administer(a)
      PROVE  CreatedOnce(k)'
  BY <1>3, <1>4, <1>5, <1>6, <1>7 DEF Administer
<1>8. ASSUME UNCHANGED <<secret, created, req>>
      PROVE  CreatedOnce(k)'
  BY <1>1, <1>8 DEF Creating, Exists
<1>9. ASSUME NEW c \in Clients, Serve(c)
      PROVE  CreatedOnce(k)'
  BY <1>8, <1>9 DEF Serve, Arrive, LoadSecret, Verify, Done, rows, told
<1>10. CASE Boot
  <2>1. CASE UNCHANGED <<rows, told, call, cut, faults>>
    BY <1>8, <1>10, <2>1 DEF Boot, rows, told
  <2>2. CASE Store(DevKey) /\ \A j \in KeyIds : ~Exists(j)
    <3>1. Exists(DevKey)' /\ (Exists(k) => Exists(k)')
      BY <2>2, <1>2, KeyAssumption
    <3>2. created[k] = 0 /\ \A b \in Admins : ~Creating(b, k)
      BY <1>0, <2>2 DEF CreatedOnce
    <3>3. req' = req /\ (created' = created \/ created' = [created EXCEPT ![DevKey] = @ + 1])
      BY <1>10, <2>2 DEF Boot, told
    <3>4. \A b \in Admins : ~Creating(b, k)'
      BY <3>2, <3>3 DEF Creating
    <3>5. created'[k] = 0 \/ (created'[k] = 1 /\ k = DevKey)
      BY <3>2, <3>3 DEF TypeInv, TypeOK
    <3> QED
      BY <3>1, <3>4, <3>5 DEF CreatedOnce
  <2> QED
    BY <1>10, <2>1, <2>2 DEF Boot
<1>11. CASE Crash
  BY <1>1, <1>11 DEF Crash, Creating, Exists, NoRequest, rows, told
<1>12. CASE UNCHANGED vars
  BY <1>8, <1>12 DEF vars, rows, told
<1> QED
  BY <1>7, <1>9, <1>10, <1>11, <1>12 DEF Next

-----------------------------------------------------------------------------
(* A key whose secret nobody holds is the work of a fault.                 *)

\* Every secret in force was minted, and no two keys have one secret.
Numbered ==
    /\ \A k \in KeyIds : Exists(k) => secret[k] <= minted
    /\ \A j, k \in KeyIds : Exists(j) /\ secret[j] = secret[k] => j = k

LEMMA StoreNumbered ==
    ASSUME TypeInv, Numbered, NEW k \in KeyIds, Store(k)
    PROVE  Numbered'
<1> USE DEF TypeInv, TypeOK
<1>1. minted \in Nat /\ minted' = minted + 1 /\ minted + 1 # NoSecret
  BY BoundAssumption DEF Store, NoSecret
<1>2. secret'[k] = minted + 1 /\ \A j \in KeyIds \ {k} : secret'[j] = secret[j]
  BY DEF Store
<1>3. \A j \in KeyIds : Exists(j) => secret[j] \in Nat /\ secret[j] <= minted
  BY DEF Numbered, Secrets, Exists
<1> QED
  BY <1>1, <1>2, <1>3 DEF Numbered, Exists

LEMMA NextNumbered == TypeInv /\ Numbered /\ [Next]_vars => Numbered'
<1> SUFFICES ASSUME TypeInv, Numbered, [Next]_vars
             PROVE  Numbered'
  OBVIOUS
<1>1. ASSUME UNCHANGED <<secret, minted>>
      PROVE  Numbered'
  BY <1>1 DEF Numbered, Exists
<1>2. ASSUME NEW a \in Admins, CreateInsert(a)
      PROVE  Numbered'
  BY <1>1, <1>2, StoreNumbered, LookedLocals DEF CreateInsert, rows, TypeInv
<1>3. ASSUME NEW a \in Admins, Administer(a)
      PROVE  Numbered'
  BY <1>1, <1>2, <1>3, StoreNumbered DEF Administer, CreateLookup, Rotate, Revoke, Audit, Fail, rows
<1>4. ASSUME NEW c \in Clients, Serve(c)
      PROVE  Numbered'
  BY <1>1, <1>4 DEF Serve, Arrive, LoadSecret, Verify, Done, rows
<1> QED
  BY <1>1, <1>3, <1>4, StoreNumbered, KeyAssumption DEF Next, Boot, Crash, vars, rows

Finite == IsFiniteSet(Mute) /\ Cardinality(Mute) \in Nat

LEMMA MuteFinite == Finite
<1>1. Mute \subseteq KeyIds /\ IsFiniteSet(KeyIds)
  BY PeerAssumption DEF Mute
<1> QED
  BY <1>1, FS_Subset, FS_CardinalityType DEF Finite

\* If no key falls mute, the bound stays.
LEMMA NoneFalls ==
    ASSUME Finite', Finite, Cardinality(Mute) <= cut, Mute' \subseteq Mute,
           cut \in Nat, cut' \in Nat, cut <= cut'
    PROVE  Cardinality(Mute') <= cut'
<1>1. Cardinality(Mute') <= Cardinality(Mute)
  BY FS_Subset DEF Finite
<1> QED
  BY <1>1 DEF Finite

\* A key may fall mute for every fault.
LEMMA OneFalls ==
    ASSUME Finite', Finite, Cardinality(Mute) <= cut, NEW k, Mute' \subseteq Mute \cup {k},
           cut \in Nat, cut' = cut + 1
    PROVE  Cardinality(Mute') <= cut'
<1>1. /\ IsFiniteSet(Mute \cup {k})
      /\ Cardinality(Mute \cup {k}) \in Nat
      /\ Cardinality(Mute \cup {k}) <= Cardinality(Mute) + 1
  <2>1. IsFiniteSet(Mute) /\ Cardinality(Mute) \in Nat
    BY DEF Finite
  <2>2. /\ IsFiniteSet(Mute \cup {k})
        /\ Cardinality(Mute \cup {k}) =
               IF k \in Mute THEN Cardinality(Mute) ELSE Cardinality(Mute) + 1
    BY <2>1, FS_AddElement
  <2> QED
    BY <2>1, <2>2
<1>2. Cardinality(Mute') <= Cardinality(Mute \cup {k})
  BY <1>1, FS_Subset
<1>3. Cardinality(Mute) \in Nat /\ Cardinality(Mute') \in Nat
  BY DEF Finite
<1> QED
  BY <1>1, <1>2, <1>3

\* The keys that requests under way have to tell of are at most as many as
\* these requests.
LEMMA TellersSuffice ==
    ASSUME TypeInv, Numbered, NEW going, going = { a \in Admins : req[a].pc = "changed" },
           NEW told_of, told_of = { k \in KeyIds : Exists(k) /\ \E a \in Admins : Tells(a, k) }
    PROVE  /\ IsFiniteSet(told_of) /\ IsFiniteSet(going)
           /\ Cardinality(told_of) \in Nat /\ Cardinality(going) \in Nat
           /\ Cardinality(told_of) <= Cardinality(going)
<1>1. IsFiniteSet(told_of) /\ IsFiniteSet(going)
  <2>1. told_of \subseteq KeyIds /\ going \subseteq Admins
    OBVIOUS
  <2> QED
    BY <2>1, PeerAssumption, FS_Subset
<1>2. PICK f : f = [k \in told_of |-> CHOOSE a \in Admins : Tells(a, k)]
  OBVIOUS
<1>3. ASSUME NEW k \in told_of
      PROVE  f[k] \in Admins /\ Tells(f[k], k)
  BY <1>2, <1>3
<1>4. f \in [told_of -> going]
  BY <1>2, <1>3 DEF Tells
<1>5. \A j, k \in told_of : f[j] = f[k] => j = k
  <2> SUFFICES ASSUME NEW j \in told_of, NEW k \in told_of, f[j] = f[k]
               PROVE  j = k
    OBVIOUS
  <2>1. secret[j] = secret[k]
    BY <1>3 DEF Tells
  <2> QED
    BY <2>1 DEF Numbered
<1>6. f \in Injection(told_of, going)
  BY <1>4, <1>5 DEF Injection, IsInjective
<1> QED
  BY <1>1, <1>6, FS_Injection, FS_CardinalityType

FewMute == Cardinality(Mute) <= cut

\* A step that stores a secret that somebody tells leaves no more keys mute.
LEMMA StoreTold ==
    ASSUME TypeInv, NEW a \in Admins, NEW op, NEW k \in KeyIds,
           req[a].pc # "changed", Store(k), Changed(a, op, k, minted + 1)
    PROVE  Mute' \subseteq Mute
<1> SUFFICES ASSUME NEW j \in Mute'
             PROVE  j \in Mute
  OBVIOUS
<1> USE DEF TypeInv, TypeOK
<1>1. secret' = [secret EXCEPT ![k] = minted + 1] /\ UNCHANGED revealed
      /\ req' = [req EXCEPT ![a] = [pc |-> "changed", op |-> op, key |-> k, secret |-> minted + 1]]
  BY DEF Store, Changed, told
<1>2. j # k
  <2>1. req'[a].pc = "changed" /\ req'[a].secret = minted + 1 /\ secret'[k] = minted + 1
    BY <1>1
  <2> QED
    BY <2>1 DEF Mute, Tells
<1>3. j \in KeyIds /\ secret'[j] = secret[j]
  BY <1>1, <1>2 DEF Mute
<1>4. \A b \in Admins : Tells(b, j) => Tells(b, j)'
  BY <1>1, <1>3 DEF Tells
<1> QED
  BY <1>1, <1>3, <1>4 DEF Mute, Exists

LEMMA NextFewMute == TypeInv /\ Numbered /\ FewMute /\ [Next]_vars => FewMute'
<1> SUFFICES ASSUME TypeInv, Numbered, FewMute, [Next]_vars
             PROVE  FewMute'
  OBVIOUS
<1>0. TypeInv' /\ Finite /\ Finite' /\ cut \in Nat /\ cut' \in Nat
  <2>1. TypeInv'
    BY NextType
  <2>2. Finite'
    BY MuteFinite, PTL
  <2> QED
    BY <2>1, <2>2, MuteFinite DEF TypeInv, TypeOK
<1>1. ASSUME Mute' \subseteq Mute, cut <= cut'
      PROVE  FewMute'
  BY <1>0, <1>1, NoneFalls DEF FewMute
<1>2. ASSUME UNCHANGED <<secret, revealed, cut>>,
             \A b \in Admins : req[b].pc = "changed" => req'[b] = req[b]
      PROVE  FewMute'
  BY <1>0, <1>1, <1>2 DEF Mute, Tells, Exists
<1>12. ASSUME NEW a \in Admins, NEW op, NEW k \in KeyIds,
              req[a].pc # "changed", Store(k), Changed(a, op, k, minted + 1)
       PROVE  FewMute'
  <2>1. cut' = cut
    BY <1>12 DEF Changed
  <2>2. Mute' \subseteq Mute
    BY <1>12, StoreTold
  <2> QED
    BY <1>0, <1>1, <2>1, <2>2
<1>3. ASSUME NEW a \in Admins, NEW k \in KeyIds, CreateLookup(a, k) \/ Rotate(a, k) \/ Revoke(a, k)
      PROVE  FewMute'
  <2>1. CASE Rotate(a, k)
    <3>1. req[a].pc # "changed" /\ Store(k) /\ Changed(a, "rotate", k, minted + 1)
      BY <2>1 DEF Rotate, NoRequest
    <3> QED
      BY <1>12, <3>1
  <2>2. CASE CreateLookup(a, k) \/ Revoke(a, k)
    BY <1>2, <2>2 DEF CreateLookup, Revoke, Changed, NoRequest, rows, told, TypeInv, TypeOK
  <2> QED
    BY <1>3, <2>1, <2>2
<1>4. ASSUME NEW a \in Admins, CreateInsert(a)
      PROVE  FewMute'
  <2>1. CASE Store(req[a].key) /\ Changed(a, "create", req[a].key, minted + 1)
    <3>1. req[a].pc # "changed" /\ req[a].key \in KeyIds
      BY <1>4, LookedLocals DEF CreateInsert, TypeInv
    <3> QED
      BY <1>12, <2>1, <3>1
  <2>2. CASE /\ req' = [req EXCEPT ![a] = NoRequest]
             /\ UNCHANGED <<rows, told, log, history, up, call, cut, faults>>
    BY <1>2, <1>4, <2>2 DEF CreateInsert, rows, told, TypeInv, TypeOK
  <2> QED
    BY <1>4, <2>1, <2>2 DEF CreateInsert
<1>5. ASSUME NEW a \in Admins, Audit(a)
      PROVE  FewMute'
  <2>1. secret' = secret /\ revealed' = revealed \cup ({req[a].secret} \ {NoSecret})
    BY <1>5 DEF Audit, Reveal, rows
  <2>2. \A b \in Admins \ {a} : req'[b] = req[b]
    BY <1>5 DEF Audit, TypeInv, TypeOK
  <2>3. Mute' \subseteq Mute
    BY <2>1, <2>2 DEF Mute, Tells, Exists
  <2>4. cut <= cut'
    BY <1>0, <1>5 DEF Audit
  <2> QED
    BY <1>1, <2>3, <2>4
<1>6. ASSUME NEW a \in Admins, Fail(a)
      PROVE  FewMute'
  <2>1. CASE req[a].pc = "looked"
    BY <1>2, <1>6, <2>1 DEF Fail, rows, told, TypeInv, TypeOK
  <2>2. CASE req[a].pc # "looked"
    <3>1. cut' = cut + 1 /\ UNCHANGED <<secret, revealed>> /\ \A b \in Admins \ {a} : req'[b] = req[b]
      BY <1>6, <2>2 DEF Fail, rows, told, TypeInv, TypeOK
    <3>2. ASSUME NEW j \in Mute', j \notin Mute
          PROVE  Exists(j) /\ secret[j] = req[a].secret
      BY <3>1, <3>2 DEF Mute, Tells, Exists
    <3>3. \A i, j \in Mute' \ Mute : i = j
      BY <3>2 DEF Numbered, Mute
    <3>4. PICK j : Mute' \subseteq Mute \cup {j}
      BY <3>3
    <3> QED
      BY <1>0, <3>1, <3>4, OneFalls DEF FewMute
  <2> QED
    BY <2>1, <2>2
<1>7. ASSUME NEW a \in Admins, Administer(a)
      PROVE  FewMute'
  BY <1>3, <1>4, <1>5, <1>6, <1>7 DEF Administer
<1>8. ASSUME NEW c \in Clients, Serve(c)
      PROVE  FewMute'
  BY <1>2, <1>8 DEF Serve, Arrive, LoadSecret, Verify, Done, rows, told
<1>9. CASE Boot
  <2>1. CASE UNCHANGED <<rows, told, call, cut, faults>>
    BY <1>2, <1>9, <2>1 DEF Boot, rows, told
  <2>2. CASE Store(DevKey)
    <3>1. /\ req' = req
          /\ secret' = [secret EXCEPT ![DevKey] = minted + 1]
      BY <1>9, <2>2 DEF Boot, Store
    <3>2. \A j \in KeyIds \ {DevKey} : secret'[j] = secret[j]
      BY <3>1, KeyAssumption DEF TypeInv, TypeOK
    <3>3. revealed \subseteq revealed'
      BY <1>9, <2>2 DEF Boot, told, rows
    <3>4. Mute' \subseteq Mute \cup {DevKey}
      BY <3>1, <3>2, <3>3 DEF Mute, Tells, Exists
    <3>5. CASE revealed' = revealed \cup {minted + 1} /\ UNCHANGED <<cut, faults>>
      <4>1. secret'[DevKey] = minted + 1
        BY <3>1, KeyAssumption DEF TypeInv, TypeOK
      <4>2. DevKey \notin Mute'
        BY <3>5, <4>1 DEF Mute
      <4> QED
        BY <1>0, <1>1, <3>4, <3>5, <4>2
    <3>6. CASE cut' = cut + 1
      BY <1>0, <3>4, <3>6, OneFalls DEF FewMute
    <3> QED
      BY <1>9, <2>2, <3>5, <3>6, <2>1 DEF Boot
  <2> QED
    BY <1>9, <2>1, <2>2 DEF Boot
<1>10. CASE Crash
  <2> DEFINE going == { a \in Admins : req[a].pc = "changed" }
             told_of == { k \in KeyIds : Exists(k) /\ \E a \in Admins : Tells(a, k) }
  <2>1. cut' = cut + Cardinality(going) /\ UNCHANGED <<secret, revealed>>
    BY <1>10 DEF Crash, rows, told
  <2>2. Mute' \subseteq Mute \cup told_of
    BY <2>1 DEF Mute, Exists
  <2>3. /\ IsFiniteSet(told_of) /\ IsFiniteSet(going)
        /\ Cardinality(told_of) \in Nat /\ Cardinality(going) \in Nat
        /\ Cardinality(told_of) <= Cardinality(going)
    BY TellersSuffice
  <2> HIDE DEF going, told_of
  <2>4. /\ IsFiniteSet(Mute \cup told_of)
        /\ Cardinality(Mute \cup told_of) =
               Cardinality(Mute) + Cardinality(told_of) - Cardinality(Mute \cap told_of)
    BY <1>0, <2>3, FS_Union DEF Finite
  <2>5. Cardinality(Mute \cap told_of) \in Nat /\ Cardinality(Mute \cup told_of) \in Nat
    BY <1>0, <2>3, <2>4, FS_Subset, FS_CardinalityType DEF Finite
  <2>6. Cardinality(Mute') <= Cardinality(Mute \cup told_of)
    BY <2>2, <2>4, FS_Subset
  <2>7. Cardinality(Mute) \in Nat /\ Cardinality(Mute') \in Nat
    BY <1>0 DEF Finite
  <2> QED
    BY <1>0, <2>1, <2>3, <2>4, <2>5, <2>6, <2>7 DEF FewMute
<1>11. CASE UNCHANGED vars
  BY <1>2, <1>11 DEF vars, rows, told
<1> QED
  BY <1>7, <1>8, <1>9, <1>10, <1>11 DEF Next

\* Keys whose secret nobody holds are at most as many as the requests that a
\* fault ended between their change and their answer, and no key is created
\* twice (Create, Rotate, EnsureDevKey).
THEOREM SecretsReach == Spec => []SecretReaches
<1>1. Init => Creation /\ Numbered
  BY DEF Init, Creation, CreatedOnce, Creating, Numbered, Exists, NoRequest, NoSecret
<1>2. Init => FewMute
  <2> SUFFICES ASSUME Init
               PROVE  FewMute
    OBVIOUS
  <2>1. Mute = {} /\ cut = 0
    BY DEF Init, Mute, Exists
  <2>2. Cardinality(Mute) = 0
    BY <2>1, FS_EmptySet
  <2> QED
    BY <2>1, <2>2 DEF FewMute
<1>3. FewMute /\ Creation => SecretReaches
  BY DEF FewMute, Creation, CreatedOnce, SecretReaches
<1> QED
  BY <1>1, <1>2, <1>3, InitType, NextType, NextCreation, NextNumbered, NextFewMute, PTL DEF Spec
-----------------------------------------------------------------------------
(* The largest of numbers that are bounded.                                *)

LEMMA MaxExists ==
    ASSUME NEW S \in SUBSET Nat, S # {}, NEW n \in Nat, \A s \in S : s <= n
    PROVE  \E m \in S : \A s \in S : s <= m
<1> DEFINE B == { b \in Nat : \A s \in S : s <= b }
           Less == OpToRel(<, Nat)
<1>1. n \in B
  OBVIOUS
<1>2. \A x \in Nat, y \in Nat : <<x, y>> \in Less <=> x < y
  BY DEF OpToRel
<1>3. PICK m \in B : \A b \in B : <<b, m>> \notin Less
  <2>1. B \subseteq Nat /\ B # {}
    BY <1>1
  <2> HIDE DEF B, Less
  <2>2. IsWellFoundedOn(Less, Nat)
    BY NatLessThanWellFounded DEF Less
  <2> QED
    BY <2>1, <2>2, WFMin
<1>4. m \in Nat /\ (\A s \in S : s <= m) /\ \A b \in B : ~ (b < m)
  BY <1>2, <1>3
<1> HIDE DEF Less
<1>5. m \in S
  <2>1. SUFFICES ASSUME m \notin S
                 PROVE  FALSE
    OBVIOUS
  <2>2. PICK s \in S : TRUE
    OBVIOUS
  <2>3. m - 1 \in Nat /\ \A u \in S : u <= m - 1
    BY <1>4, <2>1, <2>2
  <2> QED
    BY <1>4, <2>3
<1> QED
  BY <1>4, <1>5

-----------------------------------------------------------------------------
(* Auth: the types.                                                        *)

States == {"idle", "counting", "dating", "loading", "failing", "recounting", "opening"}

\* A row of sessions that exists, and a request beyond its session's SELECT.
Live == [state : {"live"}, lastActive : Time, expires : Lifetime..(MaxTime + Lifetime)]

Served == [pc : {"loaded", "admitted"}, sess : Sessions, lastActive : Time, expires : Nat]

LEMMA LiveRow ==
    ASSUME AuthTypeOK, NEW s \in Sessions, Row(s)
    PROVE  /\ session[s] \in Live
           /\ session[s].lastActive \in Time
           /\ session[s].expires \in Nat
<1>1. session[s] \in [state : {"absent", "deleted"}] \cup Live
  BY DEF AuthTypeOK, Live
<1>2. session[s] \in Live
  BY <1>1 DEF Row
<1> QED
  BY <1>2, DurationsAssumption, AuthBoundAssumption DEF Live

LEMMA ServedRequest ==
    ASSUME AuthTypeOK, NEW r \in Requests, request[r].pc \in {"loaded", "admitted"}
    PROVE  /\ request[r] \in Served
           /\ request[r].sess \in Sessions
           /\ request[r].lastActive \in Time
BY DEF AuthTypeOK, NoCall, Served

LEMMA AuthInitType == AuthInit => AuthTypeOK
<1>1. 0 \in Time /\ 0 \in 0..MaxCalls /\ 0 \in 0..MaxErrors
  BY AuthBoundAssumption DEF Time
<1> SUFFICES ASSUME AuthInit
             PROVE  AuthTypeOK
  OBVIOUS
<1>2. failed \in [Time -> Nat] /\ guesses \in [Time -> Nat]
  BY DEF AuthInit
<1>3. session \in [Sessions -> [state : {"absent", "deleted"}] \cup Live]
  BY DEF AuthInit
<1>4. login \in [Logins -> States] /\ request \in [Requests -> {NoCall} \cup Served]
  BY DEF AuthInit, States
<1>5. seen \in [Sessions -> Time]
  BY <1>1 DEF AuthInit
<1> QED
  BY <1>1, <1>2, <1>3, <1>4, <1>5 DEF AuthInit, AuthTypeOK, States, Live, Served

\* Where a goroutine of a login may go.
LEMMA GoesType ==
    ASSUME AuthTypeOK, NEW l \in Logins, NEW from \in States, NEW next \in States, Goes(l, from, next)
    PROVE  login' \in [Logins -> States]
BY DEF AuthTypeOK, Goes, States

LEMMA LogInType ==
    ASSUME AuthTypeOK, NEW l \in Logins, LogIn(l)
    PROVE  AuthTypeOK'
<1>1. now \in Time /\ now \in Nat /\ errors \in Nat /\ calls \in Nat
  BY AuthBoundAssumption DEF AuthTypeOK, Time
<1>2. login' \in [Logins -> States]
  <2> USE GoesType DEF States
  <2>1. CASE Login(l)
    BY <2>1 DEF Login
  <2>2. CASE CountFailures(l)
    BY <2>2 DEF CountFailures
  <2>3. CASE DateLock(l)
    BY <2>3 DEF DateLock
  <2>4. CASE Compare(l)
    BY <2>4 DEF Compare
  <2>5. CASE RecordFailure(l)
    BY <2>5 DEF RecordFailure
  <2>6. CASE Announce(l)
    BY <2>6 DEF Announce
  <2>7. CASE Create(l)
    BY <2>7 DEF Create
  <2>8. CASE CheckFails(l)
    BY <2>8 DEF CheckFails
  <2>9. CASE LoadFails(l)
    BY <2>9 DEF LoadFails
  <2>10. CASE LoginFails(l)
    BY <2>10 DEF LoginFails
  <2> QED
    BY <2>1, <2>2, <2>3, <2>4, <2>5, <2>6, <2>7, <2>8, <2>9, <2>10 DEF LogIn
<1>3. ASSUME Error
      PROVE  errors' \in 0..MaxErrors
  BY <1>1, <1>3, AuthBoundAssumption DEF Error
<1>4. ASSUME Call
      PROVE  calls' \in 0..MaxCalls
  BY <1>1, <1>4, AuthBoundAssumption DEF Call
<1> USE <1>2 DEF AuthTypeOK, States
<1>5. CASE Login(l)
  BY <1>4, <1>5 DEF Login, lockout, sessions
<1>6. CASE CountFailures(l) \/ DateLock(l)
  BY <1>6 DEF CountFailures, DateLock, lockout, sessions
<1>7. CASE Compare(l)
  BY <1>1, <1>7 DEF Compare, sessions
<1>8. CASE RecordFailure(l)
  <2>1. failed' \in [Time -> Nat] /\ locks' \in Nat /\ overlaps' \in Nat
    BY <1>1, <1>8 DEF RecordFailure, NoteOverlap
  <2> QED
    BY <1>8, <2>1 DEF RecordFailure, sessions
<1>9. CASE Announce(l)
  <2>1. notices' \in Nat
    BY <1>9 DEF Announce
  <2> QED
    BY <1>9, <2>1 DEF Announce, sessions
<1>10. CASE Create(l)
  <2>1. PICK s \in Sessions :
            /\ session' = [session EXCEPT ![s] = [state |-> "live", lastActive |-> now,
                                                  expires |-> now + Lifetime]]
            /\ seen' = [seen EXCEPT ![s] = now]
    BY <1>10 DEF Create
  <2>2. now + Lifetime \in Lifetime..(MaxTime + Lifetime)
    BY <1>1, DurationsAssumption, AuthBoundAssumption DEF Time
  <2>3. session' \in [Sessions -> [state : {"absent", "deleted"}] \cup Live]
    BY <1>1, <2>1, <2>2 DEF Live
  <2>4. seen' \in [Sessions -> Time]
    BY <1>1, <2>1
  <2> QED
    BY <1>10, <2>3, <2>4 DEF Create, lockout, Live
<1>11. CASE CheckFails(l) \/ LoadFails(l) \/ LoginFails(l)
  BY <1>3, <1>11 DEF CheckFails, LoadFails, LoginFails, lockout, sessions
<1> QED
  BY <1>5, <1>6, <1>7, <1>8, <1>9, <1>10, <1>11 DEF LogIn

LEMMA RequireAuthType ==
    ASSUME AuthTypeOK, NEW r \in Requests, RequireAuth(r)
    PROVE  AuthTypeOK'
<1>1. now \in Time /\ now \in Nat /\ errors \in Nat /\ calls \in Nat
  BY AuthBoundAssumption DEF AuthTypeOK, Time
<1>2. ASSUME NEW s \in Sessions, session' = [session EXCEPT ![s] = [state |-> "deleted"]]
      PROVE  session' \in [Sessions -> [state : {"absent", "deleted"}] \cup Live]
  BY <1>2 DEF AuthTypeOK, Live
<1>3. ASSUME Returns(r)
      PROVE  request' \in [Requests -> {NoCall} \cup Served]
  BY <1>3 DEF AuthTypeOK, Returns, Served
<1>4. ASSUME NEW s \in Sessions, GetByID(r, s)
      PROVE  AuthTypeOK'
  <2>1. request' \in [Requests -> {NoCall} \cup Served]
    <3>1. session[s].lastActive \in Time /\ session[s].expires \in Nat
      BY <1>4, LiveRow DEF GetByID
    <3> QED
      BY <1>4, <3>1 DEF GetByID, AuthTypeOK, Served
  <2>2. calls' \in 0..MaxCalls
    BY <1>1, <1>4, AuthBoundAssumption DEF GetByID, Call
  <2>3. outdated' \in SUBSET Requests
    BY <1>4 DEF GetByID, AuthTypeOK
  <2> QED
    BY <1>4, <2>1, <2>2, <2>3 DEF GetByID, AuthTypeOK, Served, lockout
<1>5. ASSUME NEW s \in Sessions, Expire(r, s)
      PROVE  AuthTypeOK'
  <2>1. session' \in [Sessions -> [state : {"absent", "deleted"}] \cup Live]
    BY <1>2, <1>5 DEF Expire
  <2>2. request' \in [Requests -> {NoCall} \cup Served]
    BY <1>3, <1>5 DEF Expire
  <2> QED
    BY <1>5, <2>1, <2>2 DEF Expire, AuthTypeOK, Served, Live, lockout
<1>6. ASSUME NEW s \in Sessions, Refuse(r, s)
      PROVE  AuthTypeOK'
  BY <1>3, <1>6 DEF Refuse, AuthTypeOK, Served, lockout, sessions
<1>7. ASSUME NEW s \in Sessions, Admit(r, s)
      PROVE  AuthTypeOK'
  <2>1. request' \in [Requests -> {NoCall} \cup Served]
    <3>1. request[r] \in Served
      BY <1>7, ServedRequest DEF Admit, Loaded
    <3> QED
      BY <1>7, <3>1 DEF Admit, AuthTypeOK, Served
  <2>2. /\ touching' \in SUBSET [sess : Sessions, by : Requests, at : Time]
        /\ seen' \in [Sessions -> Time]
        /\ outdated' \in SUBSET Requests
    BY <1>1, <1>7 DEF Admit, AuthTypeOK
  <2> QED
    BY <1>7, <2>1, <2>2 DEF Admit, AuthTypeOK, Served, lockout
<1>8. CASE Answer(r)
  BY <1>3, <1>8 DEF Answer, AuthTypeOK, Served, lockout, sessions
<1>9. CASE Logout(r)
  <2>1. request[r].sess \in Sessions
    BY <1>9, ServedRequest DEF Logout
  <2>2. session' \in [Sessions -> [state : {"absent", "deleted"}] \cup Live]
    BY <1>2, <1>9, <2>1 DEF Logout
  <2>3. request' \in [Requests -> {NoCall} \cup Served]
    BY <1>3, <1>9 DEF Logout
  <2> QED
    BY <1>9, <2>2, <2>3 DEF Logout, AuthTypeOK, Served, Live, lockout
<1>10. CASE RequestFails(r)
  <2>1. errors' \in 0..MaxErrors
    BY <1>1, <1>10, AuthBoundAssumption DEF RequestFails, Error
  <2>2. request' \in [Requests -> {NoCall} \cup Served]
    BY <1>3, <1>10 DEF RequestFails
  <2> QED
    BY <1>10, <2>1, <2>2 DEF RequestFails, AuthTypeOK, Served, lockout, sessions
<1> QED
  BY <1>4, <1>5, <1>6, <1>7, <1>8, <1>9, <1>10 DEF RequireAuth

LEMMA TouchType ==
    ASSUME AuthTypeOK, NEW t \in touching, Touch(t) \/ TouchFails(t)
    PROVE  AuthTypeOK'
<1>1. /\ now \in Nat /\ errors \in Nat /\ now <= MaxTime
      /\ t.sess \in Sessions /\ t.at \in Nat
  BY AuthBoundAssumption DEF AuthTypeOK, Time
<1>2. CASE Touch(t)
  <2>1. PICK at \in t.at..now :
            session' = IF Row(t.sess) THEN [session EXCEPT ![t.sess].lastActive = at] ELSE session
    BY <1>2 DEF Touch
  <2>2. at \in Time
    BY <1>1, <2>1, AuthBoundAssumption DEF Time
  <2>3. session' \in [Sessions -> [state : {"absent", "deleted"}] \cup Live]
    <3>1. session \in [Sessions -> [state : {"absent", "deleted"}] \cup Live]
      BY DEF AuthTypeOK, Live
    <3>2. CASE Row(t.sess)
      <4>1. [session[t.sess] EXCEPT !.lastActive = at] \in Live
        BY <1>1, <2>2, <3>2, LiveRow DEF Live
      <4> QED
        BY <1>1, <2>1, <3>1, <3>2, <4>1
    <3> QED
      BY <2>1, <3>1, <3>2
  <2> QED
    BY <1>2, <2>3 DEF Touch, AuthTypeOK, Live, lockout
<1>3. CASE TouchFails(t)
  <2>1. errors' \in 0..MaxErrors
    BY <1>1, <1>3, AuthBoundAssumption DEF TouchFails, Error
  <2> QED
    BY <1>3, <2>1 DEF TouchFails, AuthTypeOK, lockout
<1> QED
  BY <1>2, <1>3

LEMMA AuthNextType == AuthTypeOK /\ [AuthNext]_authVars => AuthTypeOK'
<1> SUFFICES ASSUME AuthTypeOK, [AuthNext]_authVars
             PROVE  AuthTypeOK'
  OBVIOUS
<1>1. now \in Nat /\ errors \in Nat
  BY AuthBoundAssumption DEF AuthTypeOK, Time
<1>2. CASE \E l \in Logins : LogIn(l)
  BY <1>2, LogInType
<1>3. CASE \E r \in Requests : RequireAuth(r)
  BY <1>3, RequireAuthType
<1>4. CASE \E t \in touching : Touch(t) \/ TouchFails(t)
  BY <1>4, TouchType
<1>5. CASE Tick
  <2>1. now' \in Time /\ overlaps' \in Nat
    BY <1>1, <1>5, AuthBoundAssumption DEF Tick, NoteOverlap, AuthTypeOK, Time
  <2> QED
    BY <1>5, <2>1 DEF Tick, AuthTypeOK, sessions
<1>6. CASE Deactivate
  BY <1>6 DEF Deactivate, AuthTypeOK, lockout, sessions
<1>7. CASE Restart
  <2>1. errors' \in 0..MaxErrors
    BY <1>1, <1>7, AuthBoundAssumption DEF Restart, Error
  <2> QED
    BY <1>7, <2>1 DEF Restart, AuthTypeOK, lockout
<1>8. CASE UNCHANGED authVars
  BY <1>8 DEF authVars, AuthTypeOK, lockout, sessions
<1> QED
  BY <1>2, <1>3, <1>4, <1>5, <1>6, <1>7, <1>8 DEF AuthNext

\* Signing in and its sessions have the values that the columns, the locals and
\* the counters of the window can have, whatever the order of the statements.
THEOREM AuthTypeCorrect == AuthSpec => []AuthTypeOK
<1> QED
  BY AuthInitType, AuthNextType, PTL DEF AuthSpec

-----------------------------------------------------------------------------
(* Auth: counting attempts and logins.                                     *)

\* The rows of a window are finitely many.
LEMMA AttemptsFinite ==
    ASSUME NEW c \in [Time -> Nat], NEW T \in SUBSET Time
    PROVE  IsFiniteSet(Attempts(c, T)) /\ Cardinality(Attempts(c, T)) \in Nat
<1> DEFINE Of(t) == {t} \X (1..c[t])
           All   == { Of(t) : t \in T }
           f     == [t \in T |-> Of(t)]
<1>1. IsFiniteSet(T)
  <2>1. IsFiniteSet(Time)
    BY FS_Interval, AuthBoundAssumption DEF Time
  <2> QED
    BY <2>1, FS_Subset
<1>2. IsFiniteSet(All)
  <2>1. f \in Surjection(T, All)
    BY DEF Surjection
  <2> HIDE DEF f, All
  <2> QED
    BY <1>1, <2>1, FS_Surjection
<1>3. \A t \in T : IsFiniteSet(Of(t))
  <2> SUFFICES ASSUME NEW t \in T
               PROVE  IsFiniteSet({t} \X (1..c[t]))
    OBVIOUS
  <2>1. c[t] \in Nat
    OBVIOUS
  <2>2. IsFiniteSet(1..c[t])
    BY <2>1, FS_Interval
  <2>3. IsFiniteSet({t})
    BY FS_Singleton
  <2> QED
    BY <2>2, <2>3, FS_Product
<1>4. IsFiniteSet(UNION All)
  <2>1. \A S \in All : IsFiniteSet(S)
    BY <1>3
  <2> HIDE DEF All
  <2> QED
    BY <1>2, <2>1, FS_UNION
<1>5. IsFiniteSet(Attempts(c, T))
  BY <1>4 DEF Attempts
<1> QED
  BY <1>5, FS_CardinalityType

LEMMA AttemptsAre ==
    ASSUME NEW c \in [Time -> Nat], NEW T \in SUBSET Time
    PROVE  \A x : x \in Attempts(c, T) <=> \E t \in T : \E i \in 1..c[t] : x = <<t, i>>
BY DEF Attempts

\* A shorter window has no more rows.
LEMMA FewerAttempts ==
    ASSUME NEW c \in [Time -> Nat], NEW T \in SUBSET Time, NEW S \in SUBSET T
    PROVE  Cardinality(Attempts(c, S)) <= Cardinality(Attempts(c, T))
<1>1. Attempts(c, S) \subseteq Attempts(c, T)
  BY DEF Attempts
<1> QED
  BY <1>1, AttemptsFinite, FS_Subset

\* One more attempt at a time of the window.
LEMMA OneMoreAttempt ==
    ASSUME NEW c \in [Time -> Nat], NEW T \in SUBSET Time, NEW t \in T
    PROVE  Cardinality(Attempts([c EXCEPT ![t] = @ + 1], T)) = Cardinality(Attempts(c, T)) + 1
<1> DEFINE d == [c EXCEPT ![t] = @ + 1]
           x == <<t, c[t] + 1>>
<1>1. d \in [Time -> Nat] /\ d[t] = c[t] + 1 /\ \A u \in T : u # t => d[u] = c[u]
  OBVIOUS
<1>2. x \notin Attempts(c, T)
  <2>1. \A u \in T : \A i \in 1..c[u] : <<u, i>> # <<t, c[t] + 1>>
    OBVIOUS
  <2> QED
    BY <2>1, AttemptsAre
<1>3. Attempts(d, T) = Attempts(c, T) \cup {x}
  <2>1. 1..d[t] = (1..c[t]) \cup {c[t] + 1}
    BY <1>1
  <2>2. \A y : y \in Attempts(d, T) <=> \E u \in T : \E i \in 1..d[u] : y = <<u, i>>
    <3> HIDE DEF d
    <3> QED
      BY <1>1, AttemptsAre
  <2>3. \A y : y \in Attempts(c, T) <=> \E u \in T : \E i \in 1..c[u] : y = <<u, i>>
    BY AttemptsAre
  <2>4. \A u \in T : \A i \in 1..d[u] : <<u, i>> \in Attempts(c, T) \cup {x}
    BY <1>1, <2>1, <2>3
  <2>5. \A u \in T : \A i \in 1..c[u] : <<u, i>> \in Attempts(d, T)
    BY <1>1, <2>1, <2>2
  <2>6. x \in Attempts(d, T)
    BY <2>1, <2>2
  <2> HIDE DEF d, x
  <2>7. Attempts(d, T) \subseteq Attempts(c, T) \cup {x}
    BY <2>2, <2>4
  <2>8. Attempts(c, T) \subseteq Attempts(d, T)
    BY <2>3, <2>5
  <2> QED
    BY <2>6, <2>7, <2>8
<1>4. IsFiniteSet(Attempts(c, T))
  BY AttemptsFinite
<1> HIDE DEF x, d
<1>5. Cardinality(Attempts(d, T)) = Cardinality(Attempts(c, T)) + 1
  BY <1>2, <1>3, <1>4, FS_AddElement
<1> QED
  BY <1>5 DEF d

LEMMA NoAttempt ==
    ASSUME NEW c \in [Time -> Nat], NEW T \in SUBSET Time, \A t \in T : c[t] = 0
    PROVE  Cardinality(Attempts(c, T)) = 0
<1>1. \A t \in T : 1..c[t] = {}
  OBVIOUS
<1>2. Attempts(c, T) = {}
  BY <1>1, AttemptsAre
<1> QED
  BY <1>2, FS_EmptySet

\* Logins that are at one of the stages S.
At(S) == { l \in Logins : login[l] \in S }

LEMMA AtFinite ==
    ASSUME NEW S
    PROVE  /\ IsFiniteSet(At(S))
           /\ Cardinality(At(S)) \in Nat
           /\ Cardinality(Logins) \in Nat
           /\ Cardinality(At(S)) <= Cardinality(Logins)
<1>1. At(S) \subseteq Logins
  BY DEF At
<1> QED
  BY <1>1, GoroutinesAssumption, FS_Subset, FS_CardinalityType

LEMMA AtFiniteNext ==
    ASSUME NEW S
    PROVE  /\ IsFiniteSet(At(S)')
           /\ Cardinality(At(S)') \in Nat
           /\ Cardinality(At(S)') <= Cardinality(Logins)
<1>1. At(S)' \subseteq Logins
  BY DEF At
<1> QED
  BY <1>1, GoroutinesAssumption, FS_Subset, FS_CardinalityType

LEMMA SomeLogin ==
    ASSUME NEW l \in Logins
    PROVE  Cardinality(Logins) \in Nat /\ 1 <= Cardinality(Logins)
<1>1. Cardinality(Logins) \in Nat
  BY GoroutinesAssumption, FS_CardinalityType
<1>2. Cardinality(Logins) # 0
  BY GoroutinesAssumption, FS_EmptySet
<1> QED
  BY <1>1, <1>2

\* A login that goes on changes the count of the stages it leaves or reaches.
LEMMA GoesOn ==
    ASSUME AuthTypeOK, NEW l \in Logins, NEW from \in States, NEW next \in States,
           Goes(l, from, next), NEW S
    PROVE  /\ from \in S /\ next \in S => At(S)' = At(S)
           /\ from \notin S /\ next \notin S => At(S)' = At(S)
           /\ from \notin S /\ next \in S => Cardinality(At(S)') = Cardinality(At(S)) + 1
           /\ from \in S /\ next \notin S => Cardinality(At(S)) = Cardinality(At(S)') + 1
<1>1. /\ login[l] = from /\ login'[l] = next
      /\ \A k \in Logins : k # l => login'[k] = login[k]
  BY DEF AuthTypeOK, Goes
<1>2. ASSUME from \in S <=> next \in S
      PROVE  At(S)' = At(S)
  BY <1>1, <1>2 DEF At
<1>3. ASSUME from \notin S, next \in S
      PROVE  Cardinality(At(S)') = Cardinality(At(S)) + 1
  <2>1. At(S)' = At(S) \cup {l} /\ l \notin At(S)
    BY <1>1, <1>3 DEF At
  <2> QED
    BY <2>1, AtFinite, FS_AddElement
<1>4. ASSUME from \in S, next \notin S
      PROVE  Cardinality(At(S)) = Cardinality(At(S)') + 1
  <2>1. At(S)' = At(S) \ {l} /\ l \in At(S)
    BY <1>1, <1>4 DEF At
  <2>2. Cardinality(At(S)') = Cardinality(At(S)) - 1
    BY <2>1, AtFinite, FS_RemoveElement
  <2> QED
    BY <2>2, AtFinite, AtFiniteNext
<1> QED
  BY <1>2, <1>3, <1>4

-----------------------------------------------------------------------------
(* Auth: the passwords that one window lets try.                           *)

From(u) == { t \in Time : u <= t }

Future == \A t \in Time : now < t => guesses[t] = 0

\* A refused password is a row, or its login has the INSERT before it, or is one
\* of a that never make it.
Balanced(a) ==
    \A u \in Time :
        u <= now => Cardinality(Attempts(guesses, From(u)))
                        <= Cardinality(Attempts(failed, From(u))) + Cardinality(At({"failing"})) + a

\* Logins beyond the check have seen the window below the threshold, all but b.
LetPass(b) ==
    Failures + Cardinality(At({"loading", "failing"})) <= Threshold + Cardinality(Logins) - 1 + b

Guessing ==
    /\ Future
    /\ \E a \in Nat, b \in Nat :
           /\ a + b <= errors * Cardinality(Logins)
           /\ Balanced(a)
           /\ LetPass(b)

LEMMA FailuresType ==
    ASSUME AuthTypeOK
    PROVE  /\ Failures \in Nat
           /\ failed \in [Time -> Nat] /\ guesses \in [Time -> Nat]
           /\ InWindow \in SUBSET Time
           /\ now \in Time /\ now \in Nat /\ now <= MaxTime /\ MaxTime \in Nat
           /\ errors \in Nat
           /\ Threshold \in Nat /\ Window \in Nat /\ Threshold >= 1 /\ Window >= 1
<1>1. /\ now \in Nat /\ now <= MaxTime /\ MaxTime \in Nat /\ errors \in Nat
  BY AuthBoundAssumption DEF AuthTypeOK, Time
<1>2. InWindow \in SUBSET Time
  BY DEF InWindow
<1>3. Failures \in Nat
  BY <1>2, AttemptsFinite DEF AuthTypeOK, Failures
<1> QED
  BY <1>1, <1>2, <1>3, DurationsAssumption DEF AuthTypeOK

\* A window reaches back to a time of its own.
LEMMA WindowIsFrom ==
    ASSUME AuthTypeOK
    PROVE  \E u \in Time : u <= now /\ InWindow = From(u)
<1> USE FailuresType
<1>1. CASE now < Window
  <2>1. 0 \in Time /\ 0 <= now
    BY DEF Time
  <2>2. InWindow = From(0)
    BY <1>1 DEF InWindow, From, Time
  <2> QED
    BY <2>1, <2>2
<1>2. CASE now >= Window
  <2>1. now - Window + 1 \in Time /\ now - Window + 1 <= now
    BY <1>2 DEF Time
  <2>2. InWindow = From(now - Window + 1)
    BY <1>2 DEF InWindow, From, Time
  <2> QED
    BY <2>1, <2>2
<1> QED
  BY <1>1, <1>2

LEMMA GuessingBound ==
    ASSUME AuthTypeOK, Guessing
    PROVE  GuessesBounded
<1>1. PICK u \in Time : u <= now /\ InWindow = From(u)
  BY WindowIsFrom
<1>2. PICK a \in Nat, b \in Nat :
          a + b <= errors * Cardinality(Logins) /\ Balanced(a) /\ LetPass(b)
  BY DEF Guessing
<1> DEFINE g  == Cardinality(Attempts(guesses, InWindow))
           f  == Cardinality(At({"failing"}))
           lf == Cardinality(At({"loading", "failing"}))
           n  == Cardinality(Logins)
           e  == errors * n
<1>3. g \in Nat /\ Failures \in Nat /\ Threshold \in Nat /\ n \in Nat
  BY FailuresType, AttemptsFinite, AtFinite
<1>4. e \in Nat
  <2>1. \A x, y \in Nat : x * y \in Nat
    OBVIOUS
  <2> QED
    BY <1>3, <2>1, FailuresType
<1>5. g <= Failures + f + a
  BY <1>1, <1>2 DEF Balanced, Failures
<1>6. f <= lf /\ f \in Nat /\ lf \in Nat
  <2>1. At({"failing"}) \subseteq At({"loading", "failing"})
    BY DEF At
  <2> QED
    BY <2>1, AtFinite, FS_Subset
<1>7. Failures + lf <= Threshold + n - 1 + b
  BY <1>2 DEF LetPass
<1>8. a + b <= e
  BY <1>2
<1> HIDE DEF g, f, lf, n, e
<1>9. g <= Threshold + (n - 1) + e
  BY <1>2, <1>3, <1>4, <1>5, <1>6, <1>7, <1>8
<1> QED
  BY <1>9 DEF GuessesBounded, g, n, e

LEMMA AuthInitGuessing == AuthInit => Guessing
<1> SUFFICES ASSUME AuthInit
             PROVE  Guessing
  OBVIOUS
<1> USE AuthInitType
<1>1. Future
  BY DEF AuthInit, Future
<1>2. At({"failing"}) = {} /\ At({"loading", "failing"}) = {}
  BY DEF AuthInit, At
<1>3. Cardinality(At({"failing"})) = 0 /\ Cardinality(At({"loading", "failing"})) = 0
  BY <1>2, FS_EmptySet
<1>4. \A T \in SUBSET Time : /\ Cardinality(Attempts(failed, T)) = 0
                             /\ Cardinality(Attempts(guesses, T)) = 0
  <2>1. failed \in [Time -> Nat] /\ guesses \in [Time -> Nat]
    BY FailuresType
  <2> QED
    BY <2>1, NoAttempt DEF AuthInit
<1>5. Balanced(0)
  <2>1. \A u \in Time : From(u) \in SUBSET Time
    BY DEF From
  <2> QED
    BY <1>3, <1>4, <2>1 DEF Balanced
<1>6. LetPass(0)
  <2>1. Failures = 0
    BY <1>4, FailuresType DEF Failures
  <2> QED
    BY <1>3, <2>1, AtFinite, FailuresType DEF LetPass
<1>7. 0 + 0 <= errors * Cardinality(Logins)
  BY AtFinite DEF AuthInit
<1> QED
  BY <1>1, <1>5, <1>6, <1>7 DEF Guessing

\* The steps that store nothing: d logins lose the INSERT they had before them,
\* and e are let pass, for which the errors of the step make up.
LEMMA GuessingKept ==
    ASSUME AuthTypeOK, Guessing,
           errors' \in Nat, now' = now, guesses' = guesses, failed' = failed,
           NEW d \in Nat, NEW e \in Nat,
           Cardinality(At({"failing"})) <= Cardinality(At({"failing"})') + d,
           Cardinality(At({"loading", "failing"})') <= Cardinality(At({"loading", "failing"})) + e,
           errors * Cardinality(Logins) + d + e <= errors' * Cardinality(Logins)
    PROVE  Guessing'
<1>1. PICK a \in Nat, b \in Nat :
          a + b <= errors * Cardinality(Logins) /\ Balanced(a) /\ LetPass(b)
  BY DEF Guessing
<1> DEFINE n == Cardinality(Logins)
           was == errors * n
           is == errors' * n
<1>2. n \in Nat /\ was \in Nat /\ is \in Nat
  <2>1. \A x, y \in Nat : x * y \in Nat
    OBVIOUS
  <2>2. n \in Nat /\ errors \in Nat
    BY AtFinite, FailuresType
  <2> QED
    BY <2>1, <2>2
<1>3. (a + d) + (b + e) <= is
  <2>1. a + b <= was /\ was + d + e <= is
    BY <1>1
  <2> HIDE DEF was, is
  <2> QED
    BY <1>2, <2>1
<1>4. Future'
  BY DEF Guessing, Future
<1>5. Balanced(a + d)'
  <2>1. \A u \in Time :
            u <= now => Cardinality(Attempts(guesses, From(u)))
                            <= Cardinality(Attempts(failed, From(u))) + Cardinality(At({"failing"})) + a
    BY <1>1 DEF Balanced
  <2>2. \A u \in Time : Cardinality(Attempts(guesses, From(u))) \in Nat
                        /\ Cardinality(Attempts(failed, From(u))) \in Nat
    <3>1. \A u \in Time : From(u) \in SUBSET Time
      BY DEF From
    <3> QED
      BY <3>1, AttemptsFinite, FailuresType
  <2>3. Cardinality(At({"failing"})) \in Nat /\ Cardinality(At({"failing"})') \in Nat
    BY AtFinite, AtFiniteNext
  <2>4. \A u \in Time :
            u <= now => Cardinality(Attempts(guesses, From(u)))
                            <= Cardinality(Attempts(failed, From(u))) + Cardinality(At({"failing"})') + (a + d)
    BY <2>1, <2>2, <2>3
  <2> QED
    BY <2>4 DEF Balanced, Attempts, From
<1>6. LetPass(b + e)'
  <2>1. Failures + Cardinality(At({"loading", "failing"})) <= Threshold + n - 1 + b
    BY <1>1 DEF LetPass
  <2>2. Failures' = Failures /\ Failures \in Nat /\ Threshold \in Nat
    BY FailuresType DEF Failures, InWindow, Attempts
  <2>3. /\ Cardinality(At({"loading", "failing"})) \in Nat
        /\ Cardinality(At({"loading", "failing"})') \in Nat
    BY AtFinite, AtFiniteNext
  <2> HIDE DEF n
  <2>4. Failures' + Cardinality(At({"loading", "failing"})') <= Threshold + n - 1 + (b + e)
    BY <1>2, <2>1, <2>2, <2>3
  <2> QED
    BY <2>4 DEF LetPass, n
<1> QED
  BY <1>3, <1>4, <1>5, <1>6 DEF Guessing, n, is

\* A login that goes on without an error, keeps what it had before it and is not
\* let pass.
LEMMA GuessingGoes ==
    ASSUME AuthTypeOK, Guessing, NEW l \in Logins, NEW from \in States, NEW next \in States,
           Goes(l, from, next), from # "failing",
           next \in {"loading", "failing"} => from \in {"loading", "failing"},
           errors' = errors, now' = now, guesses' = guesses, failed' = failed
    PROVE  Guessing'
<1>1. /\ Cardinality(At({"failing"})) \in Nat /\ Cardinality(At({"failing"})') \in Nat
      /\ Cardinality(At({"loading", "failing"})) \in Nat
      /\ Cardinality(At({"loading", "failing"})') \in Nat
  BY AtFinite, AtFiniteNext
<1>2. Cardinality(At({"failing"})) <= Cardinality(At({"failing"})')
  <2>1. from \notin {"failing"}
    OBVIOUS
  <2>2. \/ At({"failing"})' = At({"failing"})
        \/ Cardinality(At({"failing"})') = Cardinality(At({"failing"})) + 1
    BY <2>1, GoesOn
  <2> QED
    BY <1>1, <2>2
<1>3. Cardinality(At({"loading", "failing"})') <= Cardinality(At({"loading", "failing"}))
  <2>1. \/ At({"loading", "failing"})' = At({"loading", "failing"})
        \/ Cardinality(At({"loading", "failing"})) = Cardinality(At({"loading", "failing"})') + 1
    BY GoesOn
  <2> QED
    BY <1>1, <2>1
<1>4. errors \in Nat /\ errors * Cardinality(Logins) \in Nat
  <2>1. \A x, y \in Nat : x * y \in Nat
    OBVIOUS
  <2> QED
    BY <2>1, AtFinite, FailuresType
<1>5. errors * Cardinality(Logins) + 0 + 0 <= errors' * Cardinality(Logins)
  BY <1>4
<1>6. 0 \in Nat /\ errors' \in Nat
  BY <1>4
<1>7. /\ Cardinality(At({"failing"})) <= Cardinality(At({"failing"})') + 0
      /\ Cardinality(At({"loading", "failing"})') <= Cardinality(At({"loading", "failing"})) + 0
  BY <1>1, <1>2, <1>3
<1> QED
  BY <1>5, <1>6, <1>7, GuessingKept

\* A login that saw the window below the threshold.
LEMMA GuessingPasses ==
    ASSUME AuthTypeOK, Guessing, NEW l \in Logins, NEW from \in {"counting", "dating"},
           Goes(l, from, "loading"), Failures < Threshold,
           errors' = errors, now' = now, guesses' = guesses, failed' = failed
    PROVE  Guessing'
<1>1. PICK a \in Nat, b \in Nat :
          a + b <= errors * Cardinality(Logins) /\ Balanced(a) /\ LetPass(b)
  BY DEF Guessing
<1>2. Future'
  BY DEF Guessing, Future
<1>3. At({"failing"})' = At({"failing"})
  <2>1. from \in States /\ "loading" \in States /\ from \notin {"failing"} /\ "loading" \notin {"failing"}
    BY DEF States
  <2> QED
    BY <2>1, GoesOn
<1>4. Balanced(a)'
  <2> HIDE DEF At
  <2> QED
    BY <1>1, <1>3 DEF Balanced, Attempts, From
<1>5. LetPass(b)'
  <2>1. Failures' = Failures /\ Failures \in Nat /\ Threshold \in Nat
    BY FailuresType DEF Failures, InWindow, Attempts
  <2>2. /\ Cardinality(At({"loading", "failing"})') \in Nat
        /\ Cardinality(At({"loading", "failing"})') <= Cardinality(Logins)
        /\ Cardinality(Logins) \in Nat
    BY AtFinite, AtFiniteNext
  <2>3. Failures' + Cardinality(At({"loading", "failing"})') <= Threshold + Cardinality(Logins) - 1 + b
    BY <2>1, <2>2
  <2> QED
    BY <2>3 DEF LetPass
<1> QED
  BY <1>1, <1>2, <1>4, <1>5 DEF Guessing

\* A lock that has ended left no failure in the window, for Lock is the longer.
LEMMA NotLocked ==
    ASSUME AuthTypeOK, ~ Locked
    PROVE  Failures = 0
<1> SUFFICES ASSUME Failures # 0
             PROVE  Locked
  OBVIOUS
<1>1. PICK u \in InWindow : failed[u] > 0
  <2>1. ASSUME \A u \in InWindow : failed[u] = 0
        PROVE  FALSE
    BY <2>1, FailuresType, NoAttempt DEF Failures
  <2>2. \A u \in InWindow : failed[u] \in Nat
    BY FailuresType
  <2> QED
    BY <2>1, <2>2
<1> DEFINE S == { t \in InWindow : failed[t] > 0 }
<1>2. S \in SUBSET Nat /\ S # {} /\ MaxTime \in Nat /\ \A t \in S : t <= MaxTime
  <2>1. S \subseteq Time /\ S # {}
    BY <1>1, FailuresType
  <2> HIDE DEF S
  <2> QED
    BY <2>1, FailuresType DEF Time
<1>3. PICK m \in S : \A t \in S : t <= m
  <2> HIDE DEF S
  <2> QED
    BY <1>2, MaxExists
<1> DEFINE Last(t) == /\ failed[t] > 0
                      /\ \A v \in InWindow : failed[v] > 0 => v <= t
<1>4. m \in InWindow /\ Last(m)
  BY <1>3
<1>5. PICK t : t = CHOOSE w \in InWindow : Last(w)
  OBVIOUS
<1>6. t \in InWindow
  <2> HIDE DEF Last
  <2> QED
    BY <1>4, <1>5
<1>7. LockEnd = Lock + t
  BY <1>5 DEF LockEnd
<1>8. now < Lock + t
  BY <1>6, DurationsAssumption, FailuresType DEF InWindow, Time
<1> QED
  BY <1>7, <1>8, FailuresType DEF Locked

LEMMA CompareGuessing ==
    ASSUME AuthTypeOK, Guessing, NEW l \in Logins, Compare(l)
    PROVE  Guessing'
<1>1. errors' = errors /\ now' = now /\ failed' = failed
  BY DEF Compare
<1>2. CASE Goes(l, "loading", "opening") /\ guesses' = guesses
  <2>1. "loading" \in States /\ "opening" \in States
    BY DEF States
  <2> QED
    BY <1>1, <1>2, <2>1, GuessingGoes
<1>3. CASE Goes(l, "loading", "failing") /\ guesses' = [guesses EXCEPT ![now] = @ + 1]
  <2>1. PICK a \in Nat, b \in Nat :
            a + b <= errors * Cardinality(Logins) /\ Balanced(a) /\ LetPass(b)
    BY DEF Guessing
  <2>2. "loading" \in States /\ "failing" \in States
    BY DEF States
  <2>3. /\ At({"loading", "failing"})' = At({"loading", "failing"})
        /\ Cardinality(At({"failing"})') = Cardinality(At({"failing"})) + 1
    <3>1. /\ "loading" \in {"loading", "failing"} /\ "failing" \in {"loading", "failing"}
          /\ "loading" \notin {"failing"} /\ "failing" \in {"failing"}
      OBVIOUS
    <3> QED
      BY <1>3, <2>2, <3>1, GoesOn
  <2>4. Future'
    BY <1>1, <1>3, FailuresType DEF Guessing, Future
  <2>5. Balanced(a)'
    <3>1. \A u \in Time :
              u <= now => Cardinality(Attempts(guesses, From(u)))
                              <= Cardinality(Attempts(failed, From(u))) + Cardinality(At({"failing"})) + a
      BY <2>1 DEF Balanced
    <3>2. \A u \in Time :
              u <= now => Cardinality(Attempts([guesses EXCEPT ![now] = @ + 1], From(u)))
                              = Cardinality(Attempts(guesses, From(u))) + 1
      <4>1. \A u \in Time : u <= now => now \in From(u) /\ From(u) \in SUBSET Time
        BY FailuresType DEF From
      <4> QED
        BY <4>1, OneMoreAttempt, FailuresType
    <3>3. \A u \in Time : Cardinality(Attempts(guesses, From(u))) \in Nat
                          /\ Cardinality(Attempts(failed, From(u))) \in Nat
      <4>1. \A u \in Time : From(u) \in SUBSET Time
        BY DEF From
      <4> QED
        BY <4>1, AttemptsFinite, FailuresType
    <3>4. Cardinality(At({"failing"})) \in Nat
      BY AtFinite
    <3>5. \A u \in Time :
              u <= now => Cardinality(Attempts([guesses EXCEPT ![now] = @ + 1], From(u)))
                              <= Cardinality(Attempts(failed, From(u))) + Cardinality(At({"failing"})') + a
      <4> SUFFICES ASSUME NEW u \in Time, u <= now
                   PROVE  Cardinality(Attempts([guesses EXCEPT ![now] = @ + 1], From(u)))
                              <= Cardinality(Attempts(failed, From(u))) + Cardinality(At({"failing"})') + a
        OBVIOUS
      <4> DEFINE h == Cardinality(Attempts([guesses EXCEPT ![now] = @ + 1], From(u)))
                 g == Cardinality(Attempts(guesses, From(u)))
                 f == Cardinality(Attempts(failed, From(u)))
                 k == Cardinality(At({"failing"}))
      <4>1. h = g + 1 /\ g <= f + k + a /\ g \in Nat /\ f \in Nat /\ k \in Nat
        BY <3>1, <3>2, <3>3, <3>4
      <4>2. Cardinality(At({"failing"})') = k + 1
        BY <2>3
      <4> HIDE DEF h, g, f, k
      <4>3. h <= f + (k + 1) + a
        BY <4>1
      <4> QED
        BY <4>2, <4>3 DEF h, f
    <3>6. \A u \in Time :
              u <= now => Cardinality(Attempts(guesses', From(u)))
                              <= Cardinality(Attempts(failed', From(u))) + Cardinality(At({"failing"})') + a
      BY <1>1, <1>3, <3>5
    <3> QED
      BY <1>1, <3>6 DEF Balanced, Attempts, From
  <2>6. LetPass(b)'
    BY <1>1, <2>1, <2>3 DEF LetPass, Failures, InWindow, Attempts
  <2> QED
    BY <1>1, <2>1, <2>4, <2>5, <2>6 DEF Guessing
<1> QED
  BY <1>2, <1>3 DEF Compare

LEMMA RecordGuessing ==
    ASSUME AuthTypeOK, Guessing, NEW l \in Logins, RecordFailure(l)
    PROVE  Guessing'
<1>1. /\ errors' = errors /\ now' = now /\ guesses' = guesses
      /\ failed' = [failed EXCEPT ![now] = @ + 1] /\ Goes(l, "failing", "recounting")
  BY DEF RecordFailure
<1>2. PICK a \in Nat, b \in Nat :
          a + b <= errors * Cardinality(Logins) /\ Balanced(a) /\ LetPass(b)
  BY DEF Guessing
<1>3. /\ Cardinality(At({"loading", "failing"})) = Cardinality(At({"loading", "failing"})') + 1
      /\ Cardinality(At({"failing"})) = Cardinality(At({"failing"})') + 1
  <2>1. /\ "failing" \in States /\ "recounting" \in States
        /\ "failing" \in {"loading", "failing"} /\ "recounting" \notin {"loading", "failing"}
        /\ "failing" \in {"failing"} /\ "recounting" \notin {"failing"}
    BY DEF States
  <2> QED
    BY <1>1, <2>1, GoesOn
<1>4. /\ Cardinality(At({"failing"})') \in Nat /\ Cardinality(At({"loading", "failing"})') \in Nat
      /\ Cardinality(Logins) \in Nat
  BY AtFiniteNext, AtFinite
<1>5. Future'
  BY <1>1 DEF Guessing, Future
<1>6. Balanced(a)'
  <2>1. \A u \in Time :
            u <= now => Cardinality(Attempts(guesses, From(u)))
                            <= Cardinality(Attempts(failed, From(u))) + Cardinality(At({"failing"})) + a
    BY <1>2 DEF Balanced
  <2>2. \A u \in Time :
            u <= now => Cardinality(Attempts([failed EXCEPT ![now] = @ + 1], From(u)))
                            = Cardinality(Attempts(failed, From(u))) + 1
    <3>1. \A u \in Time : u <= now => now \in From(u) /\ From(u) \in SUBSET Time
      BY FailuresType DEF From
    <3> QED
      BY <3>1, OneMoreAttempt, FailuresType
  <2>3. \A u \in Time : Cardinality(Attempts(guesses, From(u))) \in Nat
                        /\ Cardinality(Attempts(failed, From(u))) \in Nat
    <3>1. \A u \in Time : From(u) \in SUBSET Time
      BY DEF From
    <3> QED
      BY <3>1, AttemptsFinite, FailuresType
  <2>4. \A u \in Time :
            u <= now => Cardinality(Attempts(guesses, From(u)))
                            <= Cardinality(Attempts([failed EXCEPT ![now] = @ + 1], From(u)))
                                   + Cardinality(At({"failing"})') + a
    <3> SUFFICES ASSUME NEW u \in Time, u <= now
                 PROVE  Cardinality(Attempts(guesses, From(u)))
                            <= Cardinality(Attempts([failed EXCEPT ![now] = @ + 1], From(u)))
                                   + Cardinality(At({"failing"})') + a
      OBVIOUS
    <3> DEFINE h == Cardinality(Attempts([failed EXCEPT ![now] = @ + 1], From(u)))
               g == Cardinality(Attempts(guesses, From(u)))
               f == Cardinality(Attempts(failed, From(u)))
               k == Cardinality(At({"failing"}))
               j == Cardinality(At({"failing"})')
    <3>1. h = f + 1 /\ g <= f + k + a /\ g \in Nat /\ f \in Nat
      BY <2>1, <2>2, <2>3
    <3>2. k = j + 1 /\ j \in Nat
      BY <1>3, <1>4
    <3> HIDE DEF h, g, f, k, j
    <3>3. g <= h + j + a
      BY <3>1, <3>2
    <3> QED
      BY <3>3 DEF g, h, j
  <2>5. \A u \in Time :
            u <= now => Cardinality(Attempts(guesses', From(u)))
                            <= Cardinality(Attempts(failed', From(u))) + Cardinality(At({"failing"})') + a
    BY <1>1, <2>4
  <2> QED
    BY <1>1, <2>5 DEF Balanced, Attempts, From
<1>7. LetPass(b)'
  <2>1. Failures + Cardinality(At({"loading", "failing"})) <= Threshold + Cardinality(Logins) - 1 + b
    BY <1>2 DEF LetPass
  <2>2. Failures' = Failures + 1
    <3>1. now \in InWindow
      BY FailuresType DEF InWindow
    <3>2. Cardinality(Attempts([failed EXCEPT ![now] = @ + 1], InWindow)) = Failures + 1
      BY <3>1, OneMoreAttempt, FailuresType DEF Failures
    <3>3. Cardinality(Attempts(failed', InWindow)) = Failures + 1
      BY <1>1, <3>2
    <3> QED
      BY <1>1, <3>3 DEF Failures, Attempts, InWindow
  <2>3. Failures' + Cardinality(At({"loading", "failing"})') <= Threshold + Cardinality(Logins) - 1 + b
    BY <1>3, <1>4, <2>1, <2>2, FailuresType
  <2> QED
    BY <2>3 DEF LetPass
<1> QED
  BY <1>1, <1>2, <1>5, <1>6, <1>7 DEF Guessing

\* The clock only makes rows leave the window.
LEMMA FailuresTick ==
    ASSUME AuthTypeOK, now' = now + 1, failed' = failed
    PROVE  Failures' \in Nat /\ Failures' <= Failures
<1>1. InWindow' \in SUBSET InWindow
  BY FailuresType DEF InWindow, Time
<1>2. Cardinality(Attempts(failed, InWindow')) <= Failures
  BY <1>1, FailuresType, FewerAttempts DEF Failures
<1>3. Cardinality(Attempts(failed, InWindow')) \in Nat
  BY <1>1, FailuresType, AttemptsFinite
<1>4. Failures' = Cardinality(Attempts(failed, InWindow'))
  BY DEF Failures, Attempts
<1> QED
  BY <1>2, <1>3, <1>4

LEMMA TickGuessing ==
    ASSUME AuthTypeOK, Guessing, Tick
    PROVE  Guessing'
<1>1. /\ errors' = errors /\ now' = now + 1 /\ guesses' = guesses /\ failed' = failed
      /\ login' = login
  BY DEF Tick
<1>2. PICK a \in Nat, b \in Nat :
          a + b <= errors * Cardinality(Logins) /\ Balanced(a) /\ LetPass(b)
  BY DEF Guessing
<1>3. \A S : At(S)' = At(S)
  BY <1>1 DEF At
<1>4. Future'
  BY <1>1, FailuresType DEF Guessing, Future, Time
<1>5. Balanced(a)'
  <2>1. \A u \in Time :
            u <= now => Cardinality(Attempts(guesses, From(u)))
                            <= Cardinality(Attempts(failed, From(u))) + Cardinality(At({"failing"})) + a
    BY <1>2 DEF Balanced
  <2>2. /\ \A u \in Time : /\ From(u) \in SUBSET Time
                           /\ Cardinality(Attempts(failed, From(u))) \in Nat
        /\ Cardinality(At({"failing"})) \in Nat
    <3>1. \A u \in Time : From(u) \in SUBSET Time
      BY DEF From
    <3> QED
      BY <3>1, AttemptsFinite, AtFinite, FailuresType
  <2>3. \A u \in Time : u = now + 1 => Cardinality(Attempts(guesses, From(u))) = 0
    <3> SUFFICES ASSUME NEW u \in Time, u = now + 1
                 PROVE  Cardinality(Attempts(guesses, From(u))) = 0
      OBVIOUS
    <3>1. \A t \in From(u) : guesses[t] = 0
      BY FailuresType DEF Guessing, Future, From, Time
    <3> QED
      BY <2>2, <3>1, NoAttempt, FailuresType
  <2>4. \A u \in Time :
            u <= now + 1 => Cardinality(Attempts(guesses, From(u)))
                                <= Cardinality(Attempts(failed, From(u))) + Cardinality(At({"failing"})) + a
    <3> SUFFICES ASSUME NEW u \in Time, u <= now + 1
                 PROVE  Cardinality(Attempts(guesses, From(u)))
                            <= Cardinality(Attempts(failed, From(u))) + Cardinality(At({"failing"})) + a
      OBVIOUS
    <3>1. u <= now \/ u = now + 1
      BY FailuresType DEF Time
    <3> QED
      BY <2>1, <2>2, <2>3, <3>1
  <2> QED
    BY <1>1, <1>3, <2>4 DEF Balanced, Attempts, From
<1>6. LetPass(b)'
  <2>1. Failures + Cardinality(At({"loading", "failing"})) <= Threshold + Cardinality(Logins) - 1 + b
    BY <1>2 DEF LetPass
  <2>2. Failures' \in Nat /\ Failures' <= Failures
    BY <1>1, FailuresTick
  <2>3. Failures' + Cardinality(At({"loading", "failing"})) <= Threshold + Cardinality(Logins) - 1 + b
    BY <2>1, <2>2, AtFinite, FailuresType
  <2> QED
    BY <1>3, <2>3 DEF LetPass
<1> QED
  BY <1>1, <1>2, <1>4, <1>5, <1>6 DEF Guessing

\* The steps of a login.
LEMMA LogInGuessing ==
    ASSUME AuthTypeOK, Guessing, NEW l \in Logins, LogIn(l)
    PROVE  Guessing'
<1> USE DEF States
<1>1. CASE Login(l)
  BY <1>1, GuessingGoes DEF Login, lockout
<1>2. CASE CountFailures(l)
  <2>1. errors' = errors /\ now' = now /\ guesses' = guesses /\ failed' = failed
    BY <1>2 DEF CountFailures, lockout
  <2>2. CASE AtThreshold
    <3>1. Goes(l, "counting", "dating")
      BY <1>2, <2>2 DEF CountFailures
    <3> QED
      BY <2>1, <3>1, GuessingGoes
  <2>3. CASE ~ AtThreshold
    <3>1. Goes(l, "counting", "loading")
      BY <1>2, <2>3 DEF CountFailures
    <3>2. Failures < Threshold
      BY <2>3, FailuresType DEF AtThreshold
    <3> QED
      BY <2>1, <3>1, <3>2, GuessingPasses
  <2> QED
    BY <2>2, <2>3
<1>3. CASE DateLock(l)
  <2>1. errors' = errors /\ now' = now /\ guesses' = guesses /\ failed' = failed
    BY <1>3 DEF DateLock, lockout
  <2>2. CASE Locked
    <3>1. Goes(l, "dating", "idle")
      BY <1>3, <2>2 DEF DateLock
    <3> QED
      BY <2>1, <3>1, GuessingGoes
  <2>3. CASE ~ Locked
    <3>1. Goes(l, "dating", "loading")
      BY <1>3, <2>3 DEF DateLock
    <3>2. Failures < Threshold
      BY <2>3, NotLocked, FailuresType
    <3> QED
      BY <2>1, <3>1, <3>2, GuessingPasses
  <2> QED
    BY <2>2, <2>3
<1>4. CASE Compare(l)
  BY <1>4, CompareGuessing
<1>5. CASE RecordFailure(l)
  BY <1>5, RecordGuessing
<1>6. CASE Announce(l)
  BY <1>6, GuessingGoes DEF Announce
<1>7. CASE Create(l)
  BY <1>7, GuessingGoes DEF Create, lockout
<1> DEFINE n == Cardinality(Logins)
<1>8. ASSUME Error
      PROVE  /\ errors' = errors + 1 /\ errors \in Nat /\ errors' \in Nat
             /\ errors * n \in Nat
             /\ errors' * n = errors * n + n
             /\ n \in Nat /\ 1 <= n
  <2>1. \A x, y \in Nat : x * y \in Nat /\ (x + 1) * y = x * y + y
    OBVIOUS
  <2>2. n \in Nat /\ 1 <= n
    BY SomeLogin
  <2>3. errors \in Nat /\ errors' = errors + 1 /\ errors' \in Nat
    BY <1>8, FailuresType DEF Error
  <2> HIDE DEF n
  <2>4. errors * n \in Nat /\ (errors + 1) * n = errors * n + n
    BY <2>1, <2>2, <2>3
  <2> QED
    BY <2>2, <2>3, <2>4
<1>9. /\ Cardinality(At({"failing"})) \in Nat /\ Cardinality(At({"failing"})') \in Nat
      /\ Cardinality(At({"loading", "failing"})) \in Nat
      /\ Cardinality(At({"loading", "failing"})') \in Nat
  BY AtFinite, AtFiniteNext
<1>10. CASE CheckFails(l)
  <2>1. now' = now /\ guesses' = guesses /\ failed' = failed /\ Error
    BY <1>10 DEF CheckFails, lockout
  <2>2. /\ Cardinality(At({"failing"})) <= Cardinality(At({"failing"})') + 0
        /\ Cardinality(At({"loading", "failing"})') <= Cardinality(At({"loading", "failing"})) + 1
    <3>1. PICK from \in {"counting", "dating"} : Goes(l, from, "loading")
      BY <1>10 DEF CheckFails
    <3>2. /\ At({"failing"})' = At({"failing"})
          /\ Cardinality(At({"loading", "failing"})') = Cardinality(At({"loading", "failing"})) + 1
      BY <3>1, GoesOn
    <3> QED
      BY <1>9, <3>2
  <2>3. errors * n + 0 + 1 <= errors' * n /\ errors' \in Nat
    <3> HIDE DEF n
    <3> QED
      BY <1>8, <2>1
  <2>4. 0 \in Nat /\ 1 \in Nat
    OBVIOUS
  <2> QED
    BY <2>1, <2>2, <2>3, <2>4, GuessingKept
<1>11. CASE LoadFails(l)
  <2>1. now' = now /\ guesses' = guesses /\ failed' = failed /\ Error
    BY <1>11 DEF LoadFails, lockout
  <2>2. /\ Cardinality(At({"failing"})) <= Cardinality(At({"failing"})') + 0
        /\ Cardinality(At({"loading", "failing"})') <= Cardinality(At({"loading", "failing"})) + 0
    <3>1. Goes(l, "loading", "failing")
      BY <1>11 DEF LoadFails
    <3>2. /\ Cardinality(At({"failing"})') = Cardinality(At({"failing"})) + 1
          /\ At({"loading", "failing"})' = At({"loading", "failing"})
      BY <3>1, GoesOn
    <3> QED
      BY <1>9, <3>2
  <2>3. errors * n + 0 + 0 <= errors' * n /\ errors' \in Nat
    <3> HIDE DEF n
    <3> QED
      BY <1>8, <2>1
  <2>4. 0 \in Nat
    OBVIOUS
  <2> QED
    BY <2>1, <2>2, <2>3, <2>4, GuessingKept
<1>12. CASE LoginFails(l)
  <2>1. now' = now /\ guesses' = guesses /\ failed' = failed /\ Error
    BY <1>12 DEF LoginFails, lockout
  <2>2. /\ Cardinality(At({"failing"})) <= Cardinality(At({"failing"})') + 1
        /\ Cardinality(At({"loading", "failing"})') <= Cardinality(At({"loading", "failing"})) + 0
    <3>1. PICK from \in {"failing", "recounting", "opening"} : Goes(l, from, "idle")
      BY <1>12 DEF LoginFails
    <3>2. \/ At({"failing"})' = At({"failing"})
          \/ Cardinality(At({"failing"})) = Cardinality(At({"failing"})') + 1
      BY <3>1, GoesOn
    <3>3. \/ At({"loading", "failing"})' = At({"loading", "failing"})
          \/ Cardinality(At({"loading", "failing"})) = Cardinality(At({"loading", "failing"})') + 1
      BY <3>1, GoesOn
    <3> QED
      BY <1>9, <3>2, <3>3
  <2>3. errors * n + 1 + 0 <= errors' * n /\ errors' \in Nat
    <3> HIDE DEF n
    <3> QED
      BY <1>8, <2>1
  <2>4. 0 \in Nat /\ 1 \in Nat
    OBVIOUS
  <2> QED
    BY <2>1, <2>2, <2>3, <2>4, GuessingKept
<1> QED
  BY <1>1, <1>2, <1>3, <1>4, <1>5, <1>6, <1>7, <1>10, <1>11, <1>12 DEF LogIn

\* The steps that leave the logins where they are.
LEMMA GuessingRests ==
    ASSUME AuthTypeOK, Guessing, login' = login, now' = now, guesses' = guesses, failed' = failed,
           errors' = errors \/ Error
    PROVE  Guessing'
<1>1. At({"failing"})' = At({"failing"}) /\ At({"loading", "failing"})' = At({"loading", "failing"})
  BY DEF At
<1>2. /\ Cardinality(At({"failing"})) \in Nat /\ Cardinality(At({"loading", "failing"})) \in Nat
      /\ Cardinality(Logins) \in Nat /\ errors \in Nat
  BY AtFinite, FailuresType
<1>3. errors' \in Nat /\ errors * Cardinality(Logins) + 0 + 0 <= errors' * Cardinality(Logins)
  <2>1. \A x, y \in Nat : /\ x * y \in Nat
                          /\ (x + 1) * y = x * y + y
                          /\ x * y + 0 + 0 <= x * y
                          /\ x * y + 0 + 0 <= (x + 1) * y
    OBVIOUS
  <2> QED
    BY <1>2, <2>1 DEF Error
<1>4. /\ Cardinality(At({"failing"})) <= Cardinality(At({"failing"})') + 0
      /\ Cardinality(At({"loading", "failing"})') <= Cardinality(At({"loading", "failing"})) + 0
  BY <1>1, <1>2
<1>5. 0 \in Nat
  OBVIOUS
<1> QED
  BY <1>3, <1>4, <1>5, GuessingKept

LEMMA RestartGuessing ==
    ASSUME AuthTypeOK, Guessing, Restart
    PROVE  Guessing'
<1>1. now' = now /\ guesses' = guesses /\ failed' = failed /\ errors' = errors + 1
  BY DEF Restart, lockout, Error
<1> DEFINE n == Cardinality(Logins)
<1>2. n \in Nat /\ errors \in Nat
  BY AtFinite, FailuresType
<1>3. errors' \in Nat /\ errors * n + n + 0 <= errors' * n
  <2>1. \A x, y \in Nat : x * y \in Nat /\ (x + 1) * y = x * y + y
    OBVIOUS
  <2>2. errors * n \in Nat /\ errors' * n = errors * n + n
    BY <1>1, <1>2, <2>1
  <2> DEFINE m == errors * n
  <2>3. m \in Nat /\ errors' * n = m + n
    BY <2>2
  <2>4. m + n + 0 <= m + n
    <3> HIDE DEF m, n
    <3> QED
      BY <1>2, <2>3
  <2> QED
    BY <1>1, <1>2, <2>3, <2>4
<1>4. At({"failing"})' = {} /\ At({"loading", "failing"})' = {}
  BY DEF Restart, At
<1>5. Cardinality(At({"failing"})') = 0 /\ Cardinality(At({"loading", "failing"})') = 0
  BY <1>4, FS_EmptySet
<1>6. /\ Cardinality(At({"failing"})) <= Cardinality(At({"failing"})') + n
      /\ Cardinality(At({"loading", "failing"})') <= Cardinality(At({"loading", "failing"})) + 0
  BY <1>5, AtFinite
<1>7. 0 \in Nat
  OBVIOUS
<1> QED
  BY <1>1, <1>2, <1>3, <1>6, <1>7, GuessingKept

LEMMA NextGuessing == AuthTypeOK /\ Guessing /\ [AuthNext]_authVars => Guessing'
<1> SUFFICES ASSUME AuthTypeOK, Guessing, [AuthNext]_authVars
             PROVE  Guessing'
  OBVIOUS
<1>1. CASE \E l \in Logins : LogIn(l)
  BY <1>1, LogInGuessing
<1>2. CASE \E r \in Requests : RequireAuth(r)
  <2>1. PICK r \in Requests : RequireAuth(r)
    BY <1>2
  <2>2. ASSUME NEW s \in Sessions, GetByID(r, s) \/ Expire(r, s)
        PROVE  Guessing'
    BY <2>2, GuessingRests DEF GetByID, Expire, lockout
  <2>3. ASSUME NEW s \in Sessions, Refuse(r, s) \/ Admit(r, s)
        PROVE  Guessing'
    BY <2>3, GuessingRests DEF Refuse, Admit, lockout
  <2>4. CASE Answer(r) \/ Logout(r) \/ RequestFails(r)
    BY <2>4, GuessingRests DEF Answer, Logout, RequestFails, lockout
  <2> QED
    BY <2>1, <2>2, <2>3, <2>4 DEF RequireAuth
<1>3. CASE \E t \in touching : Touch(t) \/ TouchFails(t)
  BY <1>3, GuessingRests DEF Touch, TouchFails, lockout
<1>4. CASE Tick
  BY <1>4, TickGuessing
<1>5. CASE Deactivate
  BY <1>5, GuessingRests DEF Deactivate, lockout
<1>6. CASE Restart
  BY <1>6, RestartGuessing
<1>7. CASE UNCHANGED authVars
  BY <1>7, GuessingRests DEF authVars, lockout
<1> QED
  BY <1>1, <1>2, <1>3, <1>4, <1>5, <1>6, <1>7 DEF AuthNext

\* However many logins try passwords at once, and whatever they find while others
\* store failures, one window lets no more be tried than the threshold, one for
\* each other login and one per login for each error.
THEOREM GuessesAreBounded == AuthSpec => []GuessesBounded
<1>1. AuthInit => AuthTypeOK /\ Guessing
  BY AuthInitType, AuthInitGuessing
<1>2. AuthTypeOK /\ Guessing /\ [AuthNext]_authVars => AuthTypeOK' /\ Guessing'
  BY AuthNextType, NextGuessing
<1>3. AuthTypeOK /\ Guessing => GuessesBounded
  BY GuessingBound
<1> QED
  BY <1>1, <1>2, <1>3, PTL DEF AuthSpec

-----------------------------------------------------------------------------
(* Auth: a lock is announced once.                                         *)

Counters == Cardinality(At({"recounting"}))

\* The logins about to count that would announce a lock, or would after a tick,
\* beside the one that stored its failure while no other was about to.
Extra == IF Failures = Threshold THEN Counters
         ELSE IF Counters = 0 THEN 0 ELSE Counters - 1

\* The lock that a login about to count may yet announce.
Pending == IF Failures = Threshold /\ Counters # 0 THEN 1 ELSE 0

Announcing ==
    /\ notices + Extra <= locks + overlaps
    /\ locks <= notices + overlaps + errors + Pending

LEMMA CountersAre ==
    /\ At({"recounting"}) = Recounting
    /\ Counters \in Nat
    /\ Counters = 0 <=> Recounting = {}
<1>1. At({"recounting"}) = Recounting
  BY DEF At, Recounting
<1>2. IsFiniteSet(At({"recounting"})) /\ Counters \in Nat
  BY AtFinite DEF Counters
<1> QED
  BY <1>1, <1>2, FS_EmptySet DEF Counters

LEMMA AnnouncingTypes ==
    ASSUME AuthTypeOK
    PROVE  /\ notices \in Nat /\ locks \in Nat /\ overlaps \in Nat /\ errors \in Nat
           /\ Failures \in Nat /\ Threshold \in Nat /\ Counters \in Nat
           /\ Extra \in Nat /\ Pending \in Nat
BY FailuresType, CountersAre DEF AuthTypeOK, Extra, Pending

LEMMA AnnouncingTells ==
    ASSUME AuthTypeOK, Announcing
    PROVE  LockAnnounced
<1> USE AnnouncingTypes
<1>1. notices <= locks + overlaps
  BY DEF Announcing
<1>2. ASSUME Recounting = {}
      PROVE  locks <= notices + overlaps + errors
  <2>1. Pending = 0
    BY <1>2, CountersAre DEF Pending
  <2> QED
    BY <2>1 DEF Announcing
<1> QED
  BY <1>1, <1>2 DEF LockAnnounced

LEMMA AuthInitAnnouncing == AuthInit => Announcing
<1> SUFFICES ASSUME AuthInit
             PROVE  Announcing
  OBVIOUS
<1>1. AuthTypeOK
  BY AuthInitType
<1>2. Recounting = {}
  BY DEF AuthInit, Recounting
<1>3. Counters = 0
  BY <1>2, CountersAre
<1>4. Extra = 0 /\ Pending = 0
  BY <1>3 DEF Extra, Pending
<1> QED
  BY <1>1, <1>4, AnnouncingTypes DEF AuthInit, Announcing

\* The steps that neither begin nor end a count and leave the window alone.
LEMMA AnnouncingKept ==
    ASSUME AuthTypeOK, Announcing, Counters' = Counters, now' = now, failed' = failed,
           locks' = locks, notices' = notices, overlaps' = overlaps, errors' \in Nat,
           errors <= errors'
    PROVE  Announcing'
<1>1. Failures' = Failures
  BY DEF Failures, InWindow, Attempts
<1>2. Extra' = Extra /\ Pending' = Pending
  BY <1>1 DEF Extra, Pending
<1> QED
  BY <1>2, AnnouncingTypes DEF Announcing

\* Logins that were about to count, and do not, are paid for by an error.
LEMMA AnnouncingStops ==
    ASSUME AuthTypeOK, Announcing, Counters' \in Nat, Counters' <= Counters, now' = now,
           failed' = failed, locks' = locks, notices' = notices, overlaps' = overlaps,
           errors' = errors + 1
    PROVE  Announcing'
<1>1. Failures' = Failures
  BY DEF Failures, InWindow, Attempts
<1>2. Extra' \in Nat /\ Extra' <= Extra
  <2>1. Extra' = IF Failures = Threshold THEN Counters'
                 ELSE IF Counters' = 0 THEN 0 ELSE Counters' - 1
    BY <1>1 DEF Extra
  <2>2. Extra = IF Failures = Threshold THEN Counters
                ELSE IF Counters = 0 THEN 0 ELSE Counters - 1
    BY DEF Extra
  <2> HIDE DEF Extra, Counters
  <2>3. \A c, d \in Nat : d <= c => /\ (IF d = 0 THEN 0 ELSE d - 1) \in Nat
                                   /\ (IF d = 0 THEN 0 ELSE d - 1)
                                          <= IF c = 0 THEN 0 ELSE c - 1
    OBVIOUS
  <2>4. Counters \in Nat
    BY AnnouncingTypes
  <2>5. CASE Failures = Threshold
    BY <2>1, <2>2, <2>4, <2>5
  <2>6. CASE Failures # Threshold
    BY <2>1, <2>2, <2>3, <2>4, <2>6
  <2> QED
    BY <2>5, <2>6
<1>3. Pending' \in {0, 1} /\ Pending \in {0, 1}
  BY DEF Pending
<1> QED
  BY <1>2, <1>3, AnnouncingTypes DEF Announcing

\* A login that goes on elsewhere.
LEMMA AnnouncingGoes ==
    ASSUME AuthTypeOK, NEW l \in Logins, NEW from \in States, NEW next \in States,
           Goes(l, from, next), from # "recounting", next # "recounting"
    PROVE  Counters' = Counters
<1>1. At({"recounting"})' = At({"recounting"})
  BY GoesOn
<1> QED
  BY <1>1 DEF Counters

LEMMA RecordAnnouncing ==
    ASSUME AuthTypeOK, Announcing, NEW l \in Logins, RecordFailure(l)
    PROVE  Announcing'
<1> USE AnnouncingTypes
<1>1. Counters' = Counters + 1
  <2>1. Goes(l, "failing", "recounting")
    BY DEF RecordFailure
  <2>2. Cardinality(At({"recounting"})') = Cardinality(At({"recounting"})) + 1
    BY <2>1, GoesOn DEF States
  <2> QED
    BY <2>2 DEF Counters
<1>2. Failures' = Failures + 1
  <2>1. now \in InWindow
    BY FailuresType DEF InWindow
  <2>2. Cardinality(Attempts([failed EXCEPT ![now] = @ + 1], InWindow)) = Failures + 1
    BY <2>1, OneMoreAttempt, FailuresType DEF Failures
  <2>3. Cardinality(Attempts(failed', InWindow)) = Failures + 1 /\ now' = now
    BY <2>2 DEF RecordFailure
  <2> QED
    BY <2>3 DEF Failures, Attempts, InWindow
<1>3. /\ locks' = IF Failures + 1 = Threshold THEN locks + 1 ELSE locks
      /\ notices' = notices /\ errors' = errors
      /\ overlaps' = IF Counters = 0 THEN overlaps ELSE overlaps + 1
  BY CountersAre DEF RecordFailure, NoteOverlap
<1>4. Extra' = IF Failures + 1 = Threshold THEN Counters + 1 ELSE Counters
  BY <1>1, <1>2 DEF Extra
<1>5. Pending' = IF Failures + 1 = Threshold THEN 1 ELSE 0
  BY <1>1, <1>2 DEF Pending
<1>6. notices' + Extra' <= locks' + overlaps'
  BY <1>3, <1>4 DEF Announcing, Extra
<1>7. locks' <= notices' + overlaps' + errors' + Pending'
  BY <1>3, <1>5 DEF Announcing, Pending
<1> QED
  BY <1>6, <1>7 DEF Announcing

LEMMA AnnounceAnnouncing ==
    ASSUME AuthTypeOK, Announcing, NEW l \in Logins, Announce(l)
    PROVE  Announcing'
<1> USE AnnouncingTypes
<1>1. Counters = Counters' + 1 /\ Counters' \in Nat
  <2>1. Goes(l, "recounting", "idle")
    BY DEF Announce
  <2>2. Cardinality(At({"recounting"})) = Cardinality(At({"recounting"})') + 1
    BY <2>1, GoesOn DEF States
  <2> QED
    BY <2>2, AtFiniteNext DEF Counters
<1>2. Failures' = Failures /\ Counters # 0
  <2>1. Failures' = Failures
    BY DEF Announce, Failures, InWindow, Attempts
  <2>2. \A c, d \in Nat : c = d + 1 => c # 0
    OBVIOUS
  <2>3. Counters # 0
    BY <1>1, <2>2
  <2> QED
    BY <2>1, <2>3
<1>3. /\ notices' = IF Failures = Threshold THEN notices + 1 ELSE notices
      /\ locks' = locks /\ errors' = errors /\ overlaps' = overlaps
  BY DEF Announce
<1>4. notices' + Extra' <= locks' + overlaps'
  <2>1. Extra' = IF Failures = Threshold THEN Counters'
                 ELSE IF Counters' = 0 THEN 0 ELSE Counters' - 1
    BY <1>2 DEF Extra
  <2>2. notices + Extra <= locks + overlaps
    BY DEF Announcing
  <2>3. Extra = IF Failures = Threshold THEN Counters ELSE Counters - 1
    BY <1>2 DEF Extra
  <2> QED
    BY <1>1, <1>3, <2>1, <2>2, <2>3
<1>5. locks' <= notices' + overlaps' + errors' + Pending'
  <2>1. locks <= notices + overlaps + errors + Pending
    BY DEF Announcing
  <2>2. Pending = IF Failures = Threshold THEN 1 ELSE 0
    BY <1>2 DEF Pending
  <2>3. Pending' \in {0, 1}
    BY DEF Pending
  <2> QED
    BY <1>3, <2>1, <2>2, <2>3
<1> QED
  BY <1>4, <1>5 DEF Announcing

LEMMA TickAnnouncing ==
    ASSUME AuthTypeOK, Announcing, Tick
    PROVE  Announcing'
<1> USE AnnouncingTypes
<1>1. Counters' = Counters
  BY DEF Tick, Counters, At
<1>2. /\ locks' = locks /\ notices' = notices /\ errors' = errors
      /\ overlaps' = IF Counters = 0 THEN overlaps ELSE overlaps + 1
  BY CountersAre DEF Tick, NoteOverlap
<1>3. /\ Extra' \in {Counters, IF Counters = 0 THEN 0 ELSE Counters - 1}
      /\ Extra \in {Counters, IF Counters = 0 THEN 0 ELSE Counters - 1}
  BY <1>1 DEF Extra
<1>4. Pending' \in {0, 1} /\ Pending \in {0, 1} /\ (Counters = 0 => Pending' = 0 /\ Pending = 0)
  BY <1>1 DEF Pending
<1>5. notices' + Extra' <= locks' + overlaps'
  BY <1>2, <1>3 DEF Announcing
<1>6. locks' <= notices' + overlaps' + errors' + Pending'
  BY <1>2, <1>4 DEF Announcing
<1> QED
  BY <1>5, <1>6 DEF Announcing

LEMMA NextAnnouncing == AuthTypeOK /\ Announcing /\ [AuthNext]_authVars => Announcing'
<1> SUFFICES ASSUME AuthTypeOK, Announcing, [AuthNext]_authVars
             PROVE  Announcing'
  OBVIOUS
<1> USE AnnouncingTypes
<1>1. ASSUME login' = login, now' = now, UNCHANGED lockout,
             errors' = errors \/ errors' = errors + 1
      PROVE  Announcing'
  <2>1. Counters' = Counters
    BY <1>1 DEF Counters, At
  <2> QED
    BY <1>1, <2>1, AnnouncingKept DEF lockout
<1>2. CASE \E l \in Logins : LogIn(l)
  <2>1. PICK l \in Logins : LogIn(l)
    BY <1>2
  <2>2. CASE Login(l) \/ CountFailures(l) \/ DateLock(l) \/ Compare(l) \/ Create(l)
                \/ CheckFails(l) \/ LoadFails(l)
    <3>1. \E from, next \in States :
              Goes(l, from, next) /\ from # "recounting" /\ next # "recounting"
      BY <2>2 DEF Login, CountFailures, DateLock, Compare, Create, CheckFails, LoadFails, States
    <3>2. Counters' = Counters
      BY <3>1, AnnouncingGoes
    <3>3. /\ now' = now /\ failed' = failed /\ locks' = locks /\ notices' = notices
          /\ overlaps' = overlaps /\ (errors' = errors \/ errors' = errors + 1)
      BY <2>2 DEF Login, CountFailures, DateLock, Compare, Create, CheckFails, LoadFails,
                  Error, lockout
    <3> QED
      BY <3>2, <3>3, AnnouncingKept
  <2>3. CASE LoginFails(l)
    <3>1. Counters' \in Nat /\ Counters' <= Counters
      <4>1. PICK from \in {"failing", "recounting", "opening"} : Goes(l, from, "idle")
        BY <2>3 DEF LoginFails
      <4>2. CASE from = "recounting"
        <5>1. Cardinality(At({"recounting"})) = Cardinality(At({"recounting"})') + 1
          BY <4>1, <4>2, GoesOn DEF States
        <5> QED
          BY <5>1, AtFiniteNext DEF Counters
      <4>3. CASE from # "recounting"
        <5>1. Counters' = Counters
          BY <4>1, <4>3, AnnouncingGoes DEF States
        <5> QED
          BY <5>1
      <4> QED
        BY <4>2, <4>3
    <3> QED
      BY <2>3, <3>1, AnnouncingStops DEF LoginFails, Error, lockout
  <2> QED
    BY <2>1, <2>2, <2>3, RecordAnnouncing, AnnounceAnnouncing DEF LogIn
<1>3. CASE \E r \in Requests : RequireAuth(r)
  <2>1. PICK r \in Requests : RequireAuth(r)
    BY <1>3
  <2>2. ASSUME NEW s \in Sessions, GetByID(r, s) \/ Expire(r, s) \/ Refuse(r, s) \/ Admit(r, s)
        PROVE  Announcing'
    BY <1>1, <2>2 DEF GetByID, Expire, Refuse, Admit
  <2>3. CASE Answer(r) \/ Logout(r) \/ RequestFails(r)
    BY <1>1, <2>3 DEF Answer, Logout, RequestFails, Error
  <2> QED
    BY <2>1, <2>2, <2>3 DEF RequireAuth
<1>4. CASE \E t \in touching : Touch(t) \/ TouchFails(t)
  BY <1>1, <1>4 DEF Touch, TouchFails, Error
<1>5. CASE Tick
  BY <1>5, TickAnnouncing
<1>6. CASE Deactivate
  BY <1>1, <1>6 DEF Deactivate
<1>7. CASE Restart
  <2>1. Counters' = 0
    <3>1. At({"recounting"})' = {}
      BY <1>7 DEF Restart, At
    <3>2. Counters' = Cardinality({})
      BY <3>1 DEF Counters
    <3> QED
      BY <3>2, FS_EmptySet
  <2> QED
    BY <1>7, <2>1, AnnouncingStops DEF Restart, Error, lockout
<1>8. CASE UNCHANGED authVars
  BY <1>1, <1>8 DEF authVars
<1> QED
  BY <1>2, <1>3, <1>4, <1>5, <1>6, <1>7, <1>8 DEF AuthNext

\* A lock is announced once, but that each failure stored, and each tick, between
\* another failure and its count may hide one lock or announce one again, and that
\* each failed statement or crash may hide one.
THEOREM LocksAreAnnounced == AuthSpec => []LockAnnounced
<1>1. AuthInit => AuthTypeOK /\ Announcing
  BY AuthInitType, AuthInitAnnouncing
<1>2. AuthTypeOK /\ Announcing /\ [AuthNext]_authVars => AuthTypeOK' /\ Announcing'
  BY AuthNextType, NextAnnouncing
<1>3. AuthTypeOK /\ Announcing => LockAnnounced
  BY AnnouncingTells
<1> QED
  BY <1>1, <1>2, <1>3, PTL DEF AuthSpec

-----------------------------------------------------------------------------
(* Auth: a session that is used does not end for inactivity.               *)

\* A Touch is at most a tick behind the clock, and a session was used before now.
Recent ==
    /\ \A t \in touching : t.at <= now /\ now <= t.at + 1
    /\ \A s \in Sessions : seen[s] <= now

Opened == \A r \in Requests, s \in Sessions : Loaded(r, s) => session[s].state # "absent"

\* The row knows the last use to a tick, or the Touch of that use is under way.
Stored ==
    \A s \in Sessions :
        Row(s) => \/ seen[s] <= session[s].lastActive + 1
                  \/ \E t \in touching : t.sess = s /\ t.at = seen[s]

\* So does a copy of the row, unless another request was admitted beside it.
Copied ==
    \A r \in Requests \ outdated, s \in Sessions :
        Loaded(r, s) /\ Row(s) => seen[s] <= request[r].lastActive + 1

Using == Recent /\ Opened /\ (errors = 0 => Stored /\ Copied)

LEMMA UsingTypes ==
    ASSUME AuthTypeOK
    PROVE  /\ now \in Time /\ now \in Nat /\ Time \subseteq Nat
           /\ \A t \in touching : t.sess \in Sessions /\ t.by \in Requests /\ t.at \in Nat
           /\ \A s \in Sessions : seen[s] \in Nat
           /\ \A s \in Sessions : Row(s) => session[s].lastActive \in Nat
<1>1. Time \subseteq Nat
  BY AuthBoundAssumption DEF Time
<1> QED
  BY <1>1, LiveRow DEF AuthTypeOK

LEMMA AuthInitUsing == AuthInit => Using
BY AuthBoundAssumption DEF AuthInit, Using, Recent, Opened, Stored, Copied, Loaded, Row, NoCall

\* The steps of a login, except Create, and those of the account.
LEMMA UsingRests ==
    ASSUME AuthTypeOK, Using, now' = now, UNCHANGED sessions, request' = request,
           errors' = errors \/ Error
    PROVE  Using'
<1>1. errors' = 0 => errors = 0
  BY FailuresType DEF Error
<1> QED
  BY <1>1 DEF Using, Recent, Opened, Stored, Copied, Loaded, Row, sessions

\* A request that returns leaves less to say.
LEMMA UsingReturns ==
    ASSUME AuthTypeOK, Using, NEW r \in Requests, Returns(r), now' = now, UNCHANGED sessions,
           errors' = errors \/ Error
    PROVE  Using'
<1>1. errors' = 0 => errors = 0
  BY FailuresType DEF Error
<1>2. /\ request'[r] = NoCall
      /\ \A q \in Requests : q # r => request'[q] = request[q]
  BY DEF Returns, AuthTypeOK
<1>3. \A q \in Requests, s \in Sessions :
          Loaded(q, s)' => Loaded(q, s) /\ request'[q] = request[q]
  BY <1>2 DEF Loaded, NoCall
<1>4. Recent'
  BY DEF Using, Recent, sessions
<1>5. Opened'
  BY <1>3 DEF Using, Opened, sessions
<1>6. ASSUME errors' = 0
      PROVE  Stored' /\ Copied'
  <2>1. Stored /\ Copied
    BY <1>1, <1>6 DEF Using
  <2> QED
    BY <1>3, <2>1 DEF Stored, Copied, Row, sessions
<1> QED
  BY <1>4, <1>5, <1>6 DEF Using

\* A session that ends takes its uses with it.
LEMMA UsingEnds ==
    ASSUME AuthTypeOK, Using, NEW r \in Requests, NEW s \in Sessions, Returns(r),
           session' = [session EXCEPT ![s] = [state |-> "deleted"]],
           UNCHANGED <<now, touching, seen, outdated, errors>>
    PROVE  Using'
<1>1. /\ request'[r] = NoCall
      /\ \A q \in Requests : q # r => request'[q] = request[q]
  BY DEF Returns, AuthTypeOK
<1>2. \A q \in Requests, u \in Sessions :
          Loaded(q, u)' => Loaded(q, u) /\ request'[q] = request[q]
  BY <1>1 DEF Loaded, NoCall
<1>3. /\ session'[s].state = "deleted"
      /\ \A u \in Sessions : u # s => session'[u] = session[u]
  BY DEF AuthTypeOK
<1>4. \A u \in Sessions : Row(u)' => Row(u) /\ session'[u] = session[u]
  BY <1>3 DEF Row
<1>5. Recent'
  BY DEF Using, Recent
<1>6. Opened'
  BY <1>2, <1>3 DEF Using, Opened
<1>7. ASSUME errors' = 0
      PROVE  Stored' /\ Copied'
  <2>1. Stored /\ Copied
    BY <1>7 DEF Using
  <2> QED
    BY <1>2, <1>4, <2>1 DEF Stored, Copied
<1> QED
  BY <1>5, <1>6, <1>7 DEF Using

LEMMA CreateUsing ==
    ASSUME AuthTypeOK, Using, NEW l \in Logins, Create(l)
    PROVE  Using'
<1>1. PICK s \in Sessions :
          /\ session[s].state = "absent"
          /\ session' = [session EXCEPT ![s] = [state |-> "live", lastActive |-> now,
                                                expires |-> now + Lifetime]]
          /\ seen' = [seen EXCEPT ![s] = now]
  BY DEF Create
<1>2. UNCHANGED <<now, touching, outdated, request, errors>>
  BY DEF Create
<1>3. /\ session'[s].state = "live" /\ session'[s].lastActive = now /\ seen'[s] = now
      /\ \A u \in Sessions : u # s => session'[u] = session[u] /\ seen'[u] = seen[u]
  BY <1>1 DEF AuthTypeOK
<1>4. \A r \in Requests : ~ Loaded(r, s)
  BY <1>1 DEF Using, Opened
<1>5. Recent'
  BY <1>2, <1>3, UsingTypes DEF Using, Recent
<1>6. Opened'
  BY <1>2, <1>3 DEF Using, Opened, Loaded
<1>7. ASSUME errors' = 0
      PROVE  Stored' /\ Copied'
  <2>1. Stored /\ Copied
    BY <1>2, <1>7 DEF Using
  <2>2. Stored'
    <3>1. seen'[s] <= session'[s].lastActive + 1
      BY <1>3, UsingTypes
    <3>2. \A u \in Sessions :
              u # s /\ Row(u)' => \/ seen'[u] <= session'[u].lastActive + 1
                                  \/ \E t \in touching' : t.sess = u /\ t.at = seen'[u]
      BY <1>2, <1>3, <2>1 DEF Stored, Row
    <3> QED
      BY <3>1, <3>2 DEF Stored
  <2>3. Copied'
    BY <1>2, <1>3, <1>4, <2>1 DEF Copied, Loaded, Row
  <2> QED
    BY <2>2, <2>3
<1> QED
  BY <1>5, <1>6, <1>7 DEF Using

LEMMA GetUsing ==
    ASSUME AuthTypeOK, Using, NEW r \in Requests, NEW s \in Sessions, GetByID(r, s)
    PROVE  Using'
<1>1. UNCHANGED <<now, session, touching, seen, errors>> /\ Row(s)
  BY DEF GetByID
<1>2. /\ request'[r].sess = s /\ request'[r].lastActive = session[s].lastActive
      /\ \A q \in Requests : q # r => request'[q] = request[q]
  BY DEF GetByID, AuthTypeOK
<1>3. /\ \A q \in Requests : q # r => (q \in outdated' <=> q \in outdated)
      /\ r \notin outdated' => ~ \E t \in touching : t.sess = s
  BY DEF GetByID
<1>4. \A u \in Sessions : Loaded(r, u)' => u = s
  BY <1>2 DEF Loaded
<1>5. \A q \in Requests, u \in Sessions : q # r => (Loaded(q, u)' <=> Loaded(q, u))
  BY <1>2 DEF Loaded
<1>6. Recent'
  BY <1>1 DEF Using, Recent
<1>7. Opened'
  BY <1>1, <1>4, <1>5 DEF Using, Opened, Row
<1>8. ASSUME errors' = 0
      PROVE  Stored' /\ Copied'
  <2>1. Stored /\ Copied
    BY <1>1, <1>8 DEF Using
  <2>2. Stored'
    BY <1>1, <2>1 DEF Stored, Row
  <2>3. r \notin outdated' => seen[s] <= session[s].lastActive + 1
    BY <1>1, <1>3, <2>1 DEF Stored
  <2>4. \A u \in Sessions : Row(u)' <=> Row(u)
    BY <1>1 DEF Row
  <2>5. Copied'
    BY <1>1, <1>2, <1>3, <1>4, <1>5, <2>1, <2>3, <2>4 DEF Copied
  <2> QED
    BY <2>2, <2>5
<1> QED
  BY <1>6, <1>7, <1>8 DEF Using

LEMMA AdmitUsing ==
    ASSUME AuthTypeOK, Using, NEW r \in Requests, NEW s \in Sessions, Admit(r, s)
    PROVE  Using'
<1>1. /\ UNCHANGED <<now, session, errors>>
      /\ touching' = touching \cup {[sess |-> s, by |-> r, at |-> now]}
      /\ outdated' = outdated \cup { q \in Requests \ {r} : Loaded(q, s) }
  BY DEF Admit
<1>2. /\ request'[r].pc = "admitted"
      /\ \A q \in Requests : q # r => request'[q] = request[q]
  BY DEF Admit, AuthTypeOK
<1>3. seen'[s] = now /\ \A u \in Sessions : u # s => seen'[u] = seen[u]
  BY DEF Admit, AuthTypeOK
<1>4. \A q \in Requests, u \in Sessions :
          Loaded(q, u)' => q # r /\ Loaded(q, u) /\ request'[q] = request[q]
  BY <1>2 DEF Loaded
<1>5. \A u \in Sessions : Row(u)' <=> Row(u)
  BY <1>1 DEF Row
<1>6. Recent'
  <2>1. \A t \in touching' : t.at <= now' /\ now' <= t.at + 1
    BY <1>1, UsingTypes DEF Using, Recent
  <2>2. \A u \in Sessions : seen'[u] <= now'
    BY <1>1, <1>3, UsingTypes DEF Using, Recent
  <2> QED
    BY <2>1, <2>2 DEF Recent
<1>7. Opened'
  BY <1>1, <1>4 DEF Using, Opened
<1>8. ASSUME errors' = 0
      PROVE  Stored' /\ Copied'
  <2>1. Stored /\ Copied
    BY <1>1, <1>8 DEF Using
  <2>2. Stored'
    <3>1. \E t \in touching' : t.sess = s /\ t.at = seen'[s]
      <4> DEFINE t == [sess |-> s, by |-> r, at |-> now]
      <4>1. t \in touching'
        BY <1>1
      <4>2. t.sess = s /\ t.at = seen'[s]
        BY <1>3
      <4> QED
        BY <4>1, <4>2
    <3>2. \A u \in Sessions :
              u # s /\ Row(u)' => \/ seen'[u] <= session'[u].lastActive + 1
                                  \/ \E t \in touching' : t.sess = u /\ t.at = seen'[u]
      BY <1>1, <1>3, <1>5, <2>1 DEF Stored
    <3> QED
      BY <3>1, <3>2 DEF Stored
  <2>3. Copied'
    <3> SUFFICES ASSUME NEW q \in Requests, q \notin outdated', NEW u \in Sessions,
                        Loaded(q, u)', Row(u)'
                 PROVE  seen'[u] <= request'[q].lastActive + 1
      BY DEF Copied
    <3>1. u # s /\ q \notin outdated
      BY <1>1, <1>4
    <3> QED
      BY <1>3, <1>4, <1>5, <2>1, <3>1 DEF Copied
  <2> QED
    BY <2>2, <2>3
<1> QED
  BY <1>6, <1>7, <1>8 DEF Using

LEMMA TouchUsing ==
    ASSUME AuthTypeOK, Using, NEW t \in touching, Touch(t)
    PROVE  Using'
<1>1. UNCHANGED <<now, request, seen, outdated, errors>> /\ touching' = touching \ {t}
  BY DEF Touch
<1>2. PICK at \in t.at..now :
          session' = IF Row(t.sess) THEN [session EXCEPT ![t.sess].lastActive = at] ELSE session
  BY DEF Touch
<1>3. at \in Nat /\ t.at <= at /\ at <= now /\ now <= t.at + 1
  BY <1>2, UsingTypes DEF Using, Recent
<1>4. /\ \A u \in Sessions : session'[u].state = session[u].state
      /\ \A u \in Sessions : u # t.sess => session'[u] = session[u]
      /\ Row(t.sess) => session'[t.sess].lastActive = at
  <2>1. session \in [Sessions -> [state : {"absent", "deleted"}] \cup Live] /\ t.sess \in Sessions
    BY UsingTypes DEF AuthTypeOK, Live
  <2>2. CASE Row(t.sess)
    <3>1. session[t.sess] \in Live
      BY <2>1, <2>2, LiveRow
    <3>2. session' = [session EXCEPT ![t.sess] = [session[t.sess] EXCEPT !.lastActive = at]]
      BY <1>2, <2>2
    <3>3. /\ [session[t.sess] EXCEPT !.lastActive = at].state = session[t.sess].state
          /\ [session[t.sess] EXCEPT !.lastActive = at].lastActive = at
      BY <3>1 DEF Live
    <3> QED
      BY <2>1, <3>2, <3>3
  <2>3. CASE ~ Row(t.sess)
    BY <1>2, <2>3
  <2> QED
    BY <2>2, <2>3
<1>5. \A u \in Sessions : Row(u)' <=> Row(u)
  BY <1>4 DEF Row
<1>6. Recent'
  BY <1>1 DEF Using, Recent
<1>7. Opened'
  BY <1>1, <1>4 DEF Using, Opened, Loaded
<1>8. ASSUME errors' = 0
      PROVE  Stored' /\ Copied'
  <2>1. Stored /\ Copied
    BY <1>1, <1>8 DEF Using
  <2>2. Stored'
    <3> SUFFICES ASSUME NEW u \in Sessions, Row(u)
                 PROVE  \/ seen'[u] <= session'[u].lastActive + 1
                        \/ \E v \in touching' : v.sess = u /\ v.at = seen'[u]
      BY <1>5 DEF Stored
    <3>1. CASE u = t.sess
      <4>1. session'[u].lastActive = at /\ seen'[u] = seen[u] /\ seen[u] <= now /\ seen[u] \in Nat
        BY <1>1, <1>4, <3>1, UsingTypes DEF Using, Recent
      <4>2. seen[u] <= at + 1
        BY <1>3, <4>1, UsingTypes
      <4> QED
        BY <4>1, <4>2
    <3>2. CASE u # t.sess
      <4>1. session'[u] = session[u]
        BY <1>4, <3>2
      <4> QED
        BY <1>1, <2>1, <3>2, <4>1 DEF Stored
    <3> QED
      BY <3>1, <3>2
  <2>3. Copied'
    BY <1>1, <1>5, <2>1 DEF Copied, Loaded
  <2> QED
    BY <2>2, <2>3
<1> QED
  BY <1>6, <1>7, <1>8 DEF Using

\* The steps that only leave Touches, requests or the present behind.
LEMMA LosingUsing ==
    ASSUME AuthTypeOK, Using, errors' # 0, now' = now, UNCHANGED <<session, seen>>,
           touching' \subseteq touching,
           request' = request \/ request' = [r \in Requests |-> NoCall]
    PROVE  Using'
<1>1. Recent'
  BY DEF Using, Recent
<1>2. \A q \in Requests, u \in Sessions : Loaded(q, u)' => Loaded(q, u)
  BY DEF Loaded, NoCall
<1>3. Opened'
  BY <1>2 DEF Using, Opened
<1> QED
  BY <1>1, <1>3 DEF Using

LEMMA TickUsing ==
    ASSUME AuthTypeOK, Using, Tick
    PROVE  Using'
<1>1. /\ now' = now + 1 /\ UNCHANGED <<sessions, request, errors>>
      /\ \A t \in touching : t.at = now
  BY DEF Tick
<1>2. Recent'
  <2>1. \A t \in touching' : t.at <= now' /\ now' <= t.at + 1
    BY <1>1, UsingTypes DEF sessions
  <2>2. \A s \in Sessions : seen'[s] <= now'
    BY <1>1, UsingTypes DEF Using, Recent, sessions
  <2> QED
    BY <2>1, <2>2 DEF Recent
<1> QED
  BY <1>1, <1>2 DEF Using, Opened, Stored, Copied, Loaded, Row, sessions

LEMMA NextUsing == AuthTypeOK /\ Using /\ [AuthNext]_authVars => Using'
<1> SUFFICES ASSUME AuthTypeOK, Using, [AuthNext]_authVars
             PROVE  Using'
  OBVIOUS
<1>1. CASE \E l \in Logins : LogIn(l)
  <2>1. PICK l \in Logins : LogIn(l)
    BY <1>1
  <2>2. CASE Login(l) \/ CountFailures(l) \/ DateLock(l) \/ Compare(l)
    BY <2>2, UsingRests DEF Login, CountFailures, DateLock, Compare
  <2>3. CASE RecordFailure(l) \/ Announce(l)
    BY <2>3, UsingRests DEF RecordFailure, Announce
  <2>4. CASE CheckFails(l) \/ LoadFails(l) \/ LoginFails(l)
    BY <2>4, UsingRests DEF CheckFails, LoadFails, LoginFails
  <2> QED
    BY <2>1, <2>2, <2>3, <2>4, CreateUsing DEF LogIn
<1>2. CASE \E r \in Requests : RequireAuth(r)
  <2>1. PICK r \in Requests : RequireAuth(r)
    BY <1>2
  <2>2. ASSUME NEW s \in Sessions, Expire(r, s)
        PROVE  Using'
    BY <2>2, UsingEnds DEF Expire
  <2>3. ASSUME NEW s \in Sessions, Refuse(r, s)
        PROVE  Using'
    BY <2>3, UsingReturns DEF Refuse
  <2>4. CASE Answer(r) \/ RequestFails(r)
    BY <2>4, UsingReturns DEF Answer, RequestFails
  <2>5. CASE Logout(r)
    <3>1. request[r].sess \in Sessions
      BY <2>5, ServedRequest DEF Logout
    <3> QED
      BY <2>5, <3>1, UsingEnds DEF Logout
  <2> QED
    BY <2>1, <2>2, <2>3, <2>4, <2>5, GetUsing, AdmitUsing DEF RequireAuth
<1>3. CASE \E t \in touching : Touch(t)
  BY <1>3, TouchUsing
<1>4. CASE \E t \in touching : TouchFails(t)
  <2>1. errors' # 0
    BY <1>4, FailuresType DEF TouchFails, Error
  <2> QED
    BY <1>4, <2>1, LosingUsing DEF TouchFails
<1>5. CASE Tick
  BY <1>5, TickUsing
<1>6. CASE Deactivate
  BY <1>6, UsingRests DEF Deactivate
<1>7. CASE Restart
  <2>1. errors' # 0
    BY <1>7, FailuresType DEF Restart, Error
  <2> QED
    BY <1>7, <2>1, LosingUsing DEF Restart
<1>8. CASE UNCHANGED authVars
  BY <1>8, UsingRests DEF authVars
<1> QED
  BY <1>1, <1>2, <1>3, <1>4, <1>5, <1>6, <1>7, <1>8 DEF AuthNext

\* The one step that ends a session for inactivity.
LEMMA EndsByExpire ==
    ASSUME AuthTypeOK, [AuthNext]_authVars, NEW r \in Requests, NEW s \in Sessions,
           EndedByInactivity(r, s)
    PROVE  Expire(r, s)
<1>1. Loaded(r, s) /\ Row(s) /\ session'[s].state = "deleted" /\ request'[r] = NoCall
  BY DEF EndedByInactivity
<1>2. session' # session /\ request' # request /\ request[r] # NoCall
  BY <1>1 DEF Row, Loaded, NoCall
<1>3. CASE \E l \in Logins : LogIn(l)
  <2>1. PICK l \in Logins : LogIn(l)
    BY <1>3
  <2>2. request' = request
    BY <2>1 DEF LogIn, Login, CountFailures, DateLock, Compare, RecordFailure, Announce, Create,
                CheckFails, LoadFails, LoginFails
  <2> QED
    BY <1>2, <2>2
<1>4. CASE \E q \in Requests : RequireAuth(q)
  <2>1. PICK q \in Requests : RequireAuth(q)
    BY <1>4
  <2>2. ASSUME NEW u \in Sessions, Expire(q, u)
        PROVE  Expire(r, s)
    <3>1. q = r
      BY <1>1, <1>2, <2>2 DEF Expire, Returns, AuthTypeOK
    <3>2. u = s
      BY <1>1, <2>2, <3>1 DEF Expire, Loaded
    <3> QED
      BY <2>2, <3>1, <3>2
  <2>3. CASE Logout(q)
    <3>1. q # r
      BY <1>1, <2>3 DEF Logout, Loaded
    <3>2. request'[r] = request[r]
      BY <2>3, <3>1 DEF Logout, Returns, AuthTypeOK
    <3> QED
      BY <1>1, <1>2, <3>2
  <2>4. CASE \/ \E u \in Sessions : GetByID(q, u) \/ Refuse(q, u) \/ Admit(q, u)
             \/ Answer(q) \/ RequestFails(q)
    <3>1. session' = session
      BY <2>4 DEF GetByID, Refuse, Admit, Answer, RequestFails, sessions
    <3> QED
      BY <1>2, <3>1
  <2> QED
    BY <2>1, <2>2, <2>3, <2>4 DEF RequireAuth
<1>5. CASE \E t \in touching : Touch(t) \/ TouchFails(t)
  BY <1>2, <1>5 DEF Touch, TouchFails
<1>6. CASE Tick \/ Deactivate \/ Restart
  BY <1>2, <1>6 DEF Tick, Deactivate, Restart, sessions
<1>7. CASE UNCHANGED authVars
  BY <1>2, <1>7 DEF authVars
<1> QED
  BY <1>3, <1>4, <1>5, <1>6, <1>7 DEF AuthNext

LEMMA EndsIdle ==
    ASSUME AuthTypeOK, Using, [AuthNext]_authVars, NEW r \in Requests, NEW s \in Sessions,
           EndedByInactivity(r, s)
    PROVE  now >= seen[s] + Idle \/ r \in outdated \/ errors > 0
<1>1. Expire(r, s) /\ Loaded(r, s) /\ ~ Expired(r) /\ Row(s)
  BY EndsByExpire DEF EndedByInactivity
<1>2. now > request[r].lastActive + Idle
  BY <1>1 DEF Expire, Inactive
<1> SUFFICES ASSUME r \notin outdated, ~ (errors > 0)
             PROVE  now >= seen[s] + Idle
  OBVIOUS
<1>3. errors = 0
  BY FailuresType
<1>4. seen[s] <= request[r].lastActive + 1
  BY <1>1, <1>3 DEF Using, Copied
<1>5. request[r].lastActive \in Nat /\ seen[s] \in Nat /\ now \in Nat /\ Idle \in Nat
  BY <1>1, ServedRequest, UsingTypes, DurationsAssumption DEF Loaded
<1> QED
  BY <1>2, <1>4, <1>5

\* The Touch of a use is stored beside the request that makes it and beside
\* others, and a request acts on a copy of the row; even so a session that was
\* used within the timeout, less a tick, ends for inactivity only at the hands of
\* a request whose copy was older than another's Touch.
THEOREM UsedSessionsStay == AuthSpec => ExpiredOnlyIfIdle
<1>1. AuthInit => AuthTypeOK /\ Using
  BY AuthInitType, AuthInitUsing
<1>2. AuthTypeOK /\ Using /\ [AuthNext]_authVars => AuthTypeOK' /\ Using'
  BY AuthNextType, NextUsing
<1>3. AuthTypeOK /\ Using /\ [AuthNext]_authVars =>
          [\A r \in Requests, s \in Sessions :
               EndedByInactivity(r, s) => \/ now >= seen[s] + Idle
                                          \/ r \in outdated
                                          \/ errors > 0]_authVars
  BY EndsIdle
<1> QED
  BY <1>1, <1>2, <1>3, PTL DEF AuthSpec, ExpiredOnlyIfIdle
=============================================================================
