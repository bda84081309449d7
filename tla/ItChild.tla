------------------------------- MODULE ItChild -------------------------------
(***************************************************************************)
(* An operational ticket and the IT tickets created from it                *)
(* (tickets/it_child.py).  Creating a child puts the parent on             *)
(* "waiting_it"; the return of a child puts it back to work.  Both write   *)
(* the parent's row, clocks, history and custody ledger beside the         *)
(* services of TicketLifecycle, and neither carries a view of the parent.  *)
(*                                                                         *)
(* Of a child only its status is kept: its own transitions are             *)
(* transition_ticket again, which TicketLifecycle models.                  *)
(***************************************************************************)
EXTENDS TicketLifecycle

CONSTANTS
  Children,      \* IT tickets that may be created
  ItWorkflow,    \* the active transitions of the IT domain
  TerminalCodes  \* statuses of the seed with is_terminal

VARIABLE child   \* status of each IT child, "absent" before it is created

itVars == <<ticketVars, child>>

(* Mutant: a child that is closed is not taken for returned.                *)
Returned_Resolved == {"resolved"}

Returned == {"resolved", "closed"}

ItStatuses == {"absent", "new"} \union UNION {{e[1], e[2]} : e \in ItWorkflow}

(* The writes to the parent leave Workflow, but not the synchronised edges. *)
ItEdges ==
  {<<s, "waiting_it">> : s \in Statuses \ (TerminalCodes \union {"resolved"})}
  \union {<<"waiting_it", "in_progress">>}

ASSUME ItEdgesAssumption == ItEdges \subseteq Edges
(* A clock is frozen on account of IT in no other status (WAITING_SLA_STATES). *)
ASSUME ItWaitingAssumption ==
  \A s \in DOMAIN Waiting : Waiting[s] = "paused_it" => s = "waiting_it"

(* Mutant: the previous status is read after the row was changed.           *)
ItChildEvent_ReadLate(source, to) ==
  [type |-> "status_changed", source |-> source,
   prev |-> [status |-> to, queue |-> queue],
   new |-> [status |-> to, queue |-> queue]]

ItChildEvent(source, to) ==
  [type |-> "status_changed", source |-> source,
   prev |-> [status |-> status, queue |-> queue],
   new |-> [status |-> to, queue |-> queue]]

ItInit == TicketInit /\ child = [c \in Children |-> "absent"]

(* Mutants: the parent's clocks, or its ledger, are left as they were.      *)
MoveParent_Unsynchronised(to, source) ==
  /\ status' = to
  /\ history' = Append(history, <<status, to>>)
  /\ RecordCustody(<<ItChildEvent(source, to)>>)
  /\ Save(1)
  /\ UNCHANGED <<now, responded, sla, sweep, ran, alerts, resolution, owner, queue, views>>
MoveParent_Unrecorded(to, source) ==
  /\ EnterStatus(to)
  /\ Save(1)
  /\ UNCHANGED <<owner, queue, views, ledger>>

(* The parent's part of both operations, in one transaction with the child. *)
MoveParent(to, source) ==
  /\ EnterStatus(to)
  /\ RecordCustody(<<ItChildEvent(source, to)>>)
  /\ Save(1)
  /\ UNCHANGED <<owner, queue, views>>

(* Mutant: the child starts in the status of its parent.                    *)
CreateItChild_CopiesStatus(c) ==
  /\ child[c] = "absent"
  /\ status \notin TerminalCodes \union {"resolved", "cancelled", "rejected"}
  /\ child' = [child EXCEPT ![c] = status]
  /\ MoveParent("waiting_it", "ticket.it_child.create")

(* A parent that already waits for IT is written again.                     *)
CreateItChild(c) ==
  /\ child[c] = "absent"
  /\ status \notin TerminalCodes \union {"resolved", "cancelled", "rejected"}
  /\ child' = [child EXCEPT ![c] = "new"]
  /\ MoveParent("waiting_it", "ticket.it_child.create")

(* Mutant: the parent follows the child into "resolved".                    *)
ChildTransition_Resolves(c, to) ==
  /\ <<child[c], to>> \in ItWorkflow
  /\ child' = [child EXCEPT ![c] = to]
  /\ IF to \in Returned /\ status = "waiting_it"
       THEN MoveParent("resolved", "ticket.it_child.sync")
       ELSE UNCHANGED ticketVars

(* transition_ticket on the child, then sync_child_status_to_parent.        *)
ChildTransition(c, to) ==
  /\ <<child[c], to>> \in ItWorkflow
  /\ child' = [child EXCEPT ![c] = to]
  /\ IF to \in Returned /\ status = "waiting_it"
       THEN MoveParent("in_progress", "ticket.it_child.sync")
       ELSE UNCHANGED ticketVars

ItNext ==
  \/ TicketNext /\ UNCHANGED child
  \/ \E c \in Children : CreateItChild(c)
  \/ \E c \in Children, to \in ItStatuses : ChildTransition(c, to)

ItSpec == ItInit /\ [][ItNext]_itVars

-----------------------------------------------------------------------------
(* What the hand-over to IT promises.                                       *)

ItTypeOK == child \in [Children -> ItStatuses]

(* Work by IT never resolves or closes the operational parent: that takes a *)
(* request about the parent itself (FR-030).                                *)
ItNeverCloses ==
  [][child' # child => status' \notin TerminalCodes \union {"resolved"}
                       \/ status' = status]_itVars

(* When a child comes back, the parent is no longer waiting for IT and none *)
(* of its open clocks is still frozen on IT's account, however many         *)
(* children were sent and whatever was done to the parent meanwhile.        *)
ReturnResumesWork ==
  [][\A c \in Children :
       child'[c] # child[c] /\ child'[c] \in {"resolved", "closed"} =>
         status' # "waiting_it" /\ \A k \in Kinds : sla'[k].state # "paused_it"]_itVars
=============================================================================
