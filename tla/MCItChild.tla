------------------------------ MODULE MCItChild ------------------------------
(* A small instance of ItChild: one supervisor, two children.               *)
EXTENDS ItChild, WorkflowSeed

CONSTANTS master, c1, c2

MCStaff  == {master}
MCRoles  == master :> {"assistant-master", "deputy-master", "master"}
MCRouteTo  == Nobody :> {}
MCEligible == Nobody :> {master}
MCChildren == {c1, c2}

MCKinds   == {"first_response", "resolution"}
MCTarget  == [k \in MCKinds |-> 1]
MCElapsed == [t \in 0 .. Horizon |-> t]

(* Seeded transitions through in_progress, IT, resolution and closing.      *)
MCParentWorkflow ==
  {e \in OperationalTransitions :
     {e[1], e[2]} \subseteq {"triage", "in_progress", "waiting_it", "resolved", "reopened",
                            "closed", "cancelled"}}
MCParentRole == [e \in MCParentWorkflow |-> OperationalRequiredRole[e]]
MCParentWaiting == [s \in {"waiting_it"} |-> OperationalWaiting[s]]

(* A straight path of the IT workflow: a child returns when it is resolved  *)
(* and once more when it is closed.                                         *)
MCItWorkflow ==
  {e \in ItTransitions :
     {e[1], e[2]} \subseteq {"new", "triage", "in_progress", "validation", "resolved",
                            "closed"}}

MCParentStatuses == {"triage", "in_progress", "waiting_it", "reopened"}
(* Every edge between these statuses that a writer of the row could take.   *)
MCEdges ==
  MCParentWorkflow
  \union {<<s, "waiting_it">> : s \in MCParentStatuses} \union {<<"waiting_it", "resolved">>}

=============================================================================
