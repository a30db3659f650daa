--------------------------- MODULE TicketPromise ---------------------------
(***************************************************************************)
(* What the ticket service promises about one ticket, however the requests *)
(* that move it interleave: the life of a ticket is the growing set of     *)
(* stages it has reached.  A stage of the service agents' path is reached  *)
(* only after the stage before it, unless an administrator has moved the   *)
(* ticket by hand; Closed is reached by an administrator's hand only; and  *)
(* the breach flag is raised once, on tickets past their deadline, and     *)
(* never taken back.                                                       *)
(***************************************************************************)
EXTENDS FiniteSets

CONSTANT Tickets

VARIABLES reached,   \* reached[t]: the stages ticket t has ever been in
          forced,    \* the tickets an administrator has moved
          late,      \* the tickets whose SLA deadline has passed
          flagged    \* the tickets whose breach flag is set

vars == <<reached, forced, late, flagged>>

\* <<p, s>>: a ticket no administrator moved enters stage s from stage p.
Path == { <<"Accepted", "Dispatched">>, <<"Dispatched", "In Service">>,
          <<"In Service", "Completed">>, <<"Accepted", "Cancelled">> }

Stages == {"Accepted", "Dispatched", "In Service", "Completed", "Closed", "Cancelled"}

Init == /\ reached = [t \in Tickets |-> {}]
        /\ forced = {}
        /\ late = {}
        /\ flagged = {}

Enter(t, s) == reached' = [reached EXCEPT ![t] = @ \cup {s}]

File(t) == /\ reached[t] = {}
           /\ Enter(t, "Accepted")
           /\ UNCHANGED <<forced, late, flagged>>

\* A customer or an agent takes the ticket one step along the path.
Work(t, s) == /\ \E p \in reached[t] : <<p, s>> \in Path
              /\ Enter(t, s)
              /\ UNCHANGED <<forced, late, flagged>>

\* An administrator moves the ticket anywhere.
Force(t, s) == /\ reached[t] # {}
               /\ Enter(t, s)
               /\ forced' = forced \cup {t}
               /\ UNCHANGED <<late, flagged>>

Expire(t) == /\ reached[t] # {}
             /\ late' = late \cup {t}
             /\ UNCHANGED <<reached, forced, flagged>>

Flag(T) == /\ T \subseteq late
           /\ flagged' = flagged \cup T
           /\ UNCHANGED <<reached, forced, late>>

Next == \/ \E t \in Tickets : File(t) \/ Expire(t)
        \/ \E t \in Tickets, s \in Stages : Work(t, s) \/ Force(t, s)
        \/ \E T \in SUBSET Tickets : Flag(T)

Spec == Init /\ [][Next]_vars

=============================================================================
