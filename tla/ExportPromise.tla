--------------------------- MODULE ExportPromise ---------------------------
(***************************************************************************)
(* What the export pipeline promises of one row, however the worker, the   *)
(* downloads and the purge interleave and whatever step of them fails: a   *)
(* row is asked for once, and its archive is offered once and does not     *)
(* change while it stands.  It is taken away, and the row withdrawn, only  *)
(* when its time is over, and a row counts as taken only after a download  *)
(* has received what the archive was.                                      *)
(***************************************************************************)
EXTENDS Naturals

CONSTANT Exports

VARIABLES stage,     \* stage[i]: how far row i has come
          archive,   \* archive[i]: what its user can download
          late,      \* the rows whose retention is over
          got        \* got[i]: what downloads of it have received

vars == <<stage, archive, late, got>>

Served == {"offered", "taken", "withdrawn"}

Init == /\ stage = [i \in Exports |-> "none"]
        /\ archive = [i \in Exports |-> "none"]
        /\ late = {}
        /\ got = [i \in Exports |-> {}]

Enter(i, s) == stage' = [stage EXCEPT ![i] = s]

Ask(i) == /\ stage[i] = "none"
          /\ Enter(i, "asked")
          /\ UNCHANGED <<archive, late, got>>

\* An archive that a fault has truncated is offered like any other.
Offer(i) == /\ stage[i] = "asked"
            /\ Enter(i, "offered")
            /\ \E a \in {"complete", "partial"} : archive' = [archive EXCEPT ![i] = a]
            /\ late' = late \ {i}
            /\ UNCHANGED got

FallDue(i) == /\ stage[i] \in {"offered", "taken"}
              /\ late' = late \cup {i}
              /\ UNCHANGED <<stage, archive, got>>

Fetch(i) == /\ stage[i] \in Served
            /\ got' = [got EXCEPT ![i] = @ \cup {archive[i]}]
            /\ UNCHANGED <<stage, archive, late>>

Confirm(i) == /\ stage[i] \in Served
              /\ got[i] # {}
              /\ Enter(i, "taken")
              /\ UNCHANGED <<archive, late, got>>

Clear(i) == /\ stage[i] \in Served
            /\ i \in late
            /\ archive' = [archive EXCEPT ![i] = "missing"]
            /\ UNCHANGED <<stage, late, got>>

Withdraw(i) == /\ stage[i] \in Served
               /\ i \in late
               /\ Enter(i, "withdrawn")
               /\ UNCHANGED <<archive, late, got>>

Next == \E i \in Exports :
            \/ Ask(i) \/ Offer(i) \/ FallDue(i) \/ Fetch(i)
            \/ Confirm(i) \/ Clear(i) \/ Withdraw(i)

Spec == Init /\ [][Next]_vars

=============================================================================
