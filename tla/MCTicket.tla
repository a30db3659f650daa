------------------------------ MODULE MCTicket ------------------------------
(* Instances of Ticket for TLC: a customer who owns the tickets, a service *)
(* agent, and a caller who is both service agent and administrator.        *)
EXTENDS Ticket

CONSTANTS cust, ag, boss

MCOwner == [t \in Tickets |-> cust]
MCCustomers == {cust}
MCAgents == {ag, boss}
MCAdmins == {boss}
=============================================================================
