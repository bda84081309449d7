-------------------------- MODULE MCTicketLifecycle --------------------------
(* A small instance of TicketLifecycle: two members of staff, one of them a  *)
(* master, one queue, the delivered operational workflow.                   *)
EXTENDS TicketLifecycle, WorkflowSeed

CONSTANTS agent, master, front

MCStaff  == {agent, master}
MCQueues == {front}
MCRoles  == (agent :> {"agent"}) @@ (master :> {"assistant-master", "deputy-master", "master"})
MCReassign    == {master}
MCRouteTo     == (front :> {master}) @@ (Nobody :> {master})
MCEligible    == (front :> {agent}) @@ (Nobody :> {agent, master})
MCSupervisors == {master}

(* Every instant is open; the tickets of these runs only need a few.        *)
MCKinds   == {"first_response", "resolution"}
MCTarget  == [k \in MCKinds |-> 1]
MCElapsed == [t \in 0 .. Horizon |-> t]
=============================================================================
