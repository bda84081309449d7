--------------------------- MODULE TicketLifecycle ---------------------------
(***************************************************************************)
(* One ticket and the services that change it (tickets/services.py,        *)
(* tickets/assignment.py, tickets/escalation.py), together with its SLA    *)
(* clocks (SlaClock), its transition history and its custody ledger.       *)
(*                                                                         *)
(* A service is one transaction that holds the ticket's row lock from its  *)
(* first read to its commit, so each is one action.  What interleaves is   *)
(* the staff: each works from the ticket as it last saw it, and a request  *)
(* carries the updated_at of that view.                                    *)
(***************************************************************************)
EXTENDS SlaClock, Sequences, FiniteSets

CONSTANTS
  Staff,               \* users who work on the ticket
  Queues,              \* active queues of the ticket's office
  Workflow,            \* the active transitions of the ticket's domain
  RequiredRole,        \* the role each transition requires, "" for none
  Roles,               \* the role aliases each user holds for the ticket
  MayUpdate,           \* users whose roles let them work on the ticket's domain
  MayReassign,         \* users who may give the ticket to somebody else
  MayRouteTo,          \* users who may route the ticket into each queue, or out
  EligibleIn,          \* the eligible assignees of the ticket in each queue
  Supervisors,         \* users an operational ticket may be escalated to
  SupervisedStatuses,  \* statuses entered only with a supervisor: "escalated"
  Nobody,              \* no owner, no queue
  MaxVersion           \* bound: the last version of the ticket row

ASSUME WorkflowAssumption == Workflow \subseteq Edges
ASSUME BoundsAssumption == MaxVersion \in Nat /\ IsFiniteSet(Kinds)
(* Nobody is neither a user nor a queue.                                   *)
ASSUME NobodyAssumption == Nobody \notin Staff \union Queues

VARIABLES
  owner,       \* assignee
  queue,       \* queue
  resolution,  \* resolution code, summary and resolved_at are set
  version,     \* updated_at: a new value for every save of the row
  views,       \* the ticket as each user last saw it
  history,     \* TransitionHistory rows, oldest first
  ledger       \* TicketCustodyEvent rows, in sequence order

rowVars    == <<owner, queue, resolution, version>>
logVars    == <<history, ledger>>
ticketVars == <<clockVars, rowVars, views, logVars>>

Facts == [status |-> status, owner |-> owner, queue |-> queue]
View  == [version |-> version, facts |-> Facts]

(***************************************************************************)
(* Custody events.  prev and new hold the aspects the event is about.      *)
(***************************************************************************)
NoAspects == [x \in {} |-> Nobody]

CreatedEvent(initial) ==
  [type |-> "created", source |-> "ticket.create", prev |-> NoAspects,
   new |-> [status |-> initial, queue |-> Nobody]]

CustodyEventTypeForTransition(to) ==
  IF to \in {"escalated", "reopened", "closed"} THEN to ELSE "status_changed"

TransitionEvent(from, to) ==
  [type |-> CustodyEventTypeForTransition(to), source |-> "ticket.transition",
   prev |-> [status |-> from], new |-> [status |-> to]]

ActionForChange(from, to) ==
  CASE from = Nobody -> "assigned"
    [] from # Nobody /\ to = Nobody -> "unassigned"
    [] OTHER -> "reassigned"

(* Mutant: the previous owner is read after the row was changed.            *)
OwnerEvent_ReadLate(source, from, to) ==
  [type |-> ActionForChange(from, to), source |-> source,
   prev |-> [owner |-> to], new |-> [owner |-> to]]

OwnerEvent(source, from, to) ==
  [type |-> ActionForChange(from, to), source |-> source,
   prev |-> [owner |-> from], new |-> [owner |-> to]]

QueueEvent(from, to) ==
  [type |-> "queue_changed", source |-> "ticket.routing",
   prev |-> [queue |-> from], new |-> [queue |-> to]]

EscalationEvent(at) ==
  [type |-> "escalated", source |-> "sla.escalation",
   prev |-> [status |-> at], new |-> [status |-> at]]

TicketInit ==
  /\ ClockInit
  /\ owner = Nobody
  /\ queue = Nobody
  /\ resolution = FALSE
  /\ version = 0
  /\ views = [a \in Staff |-> View]
  /\ history = << <<"", InitialStatus>> >>
  /\ ledger = << CreatedEvent(InitialStatus) >>

-----------------------------------------------------------------------------
(* Steps that a request is made of.                                         *)

(* Mutant: a request is refused only when the status has changed.           *)
UpToDate_SameStatus(a) == views[a].facts.status = status

UpToDate(a) == views[a].version = version

(* Somebody without any role for the ticket may take no transition of it.   *)
Permitted(a, e) ==
  /\ Roles[a] # {}
  /\ "admin" \in Roles[a] \/ RequiredRole[e] = "" \/ RequiredRole[e] \in Roles[a]

Save(times) ==
  /\ version + times <= MaxVersion
  /\ version' = version + times

(* Mutant: the response foresees the token of a further save.               *)
Respond_Ahead(a) == views' = [views EXCEPT ![a] = [View' EXCEPT !.version = @ + 1]]

(* The response carries the ticket as the request left it.                  *)
Respond(a) == views' = [views EXCEPT ![a] = View']

RecordCustody(events) == ledger' = ledger \o events

(* Mutants: no history row; no synchronised clocks; the resolution outlives *)
(* a reopening.                                                             *)
EnterStatus_Unlogged(to) ==
  /\ SyncStatus(to)
  /\ resolution' = IF to = "resolved" THEN TRUE ELSE resolution /\ to # "reopened"
  /\ UNCHANGED history
EnterStatus_Unsynchronised(to) ==
  /\ status' = to
  /\ resolution' = IF to = "resolved" THEN TRUE ELSE resolution /\ to # "reopened"
  /\ history' = Append(history, <<status, to>>)
  /\ UNCHANGED <<now, responded, sla, sweep, ran, alerts>>
EnterStatus_KeepsResolution(to) ==
  /\ SyncStatus(to)
  /\ resolution' = (resolution \/ to = "resolved")
  /\ history' = Append(history, <<status, to>>)

(* transition_ticket from the assignment of the status to the history row.  *)
EnterStatus(to) ==
  /\ SyncStatus(to)
  /\ resolution' = CASE to = "resolved" -> TRUE
                     [] to = "reopened" -> FALSE
                     [] OTHER -> resolution
  /\ history' = Append(history, <<status, to>>)

KeepStatus == UNCHANGED <<clockVars, resolution, history>>

-----------------------------------------------------------------------------
(* The operations.                                                          *)

(* A user opens the ticket.                                                 *)
Read(a) ==
  /\ views[a] # View
  /\ views' = [views EXCEPT ![a] = View]
  /\ UNCHANGED <<clockVars, rowVars, logVars>>

Transition(a, to) ==
  /\ UpToDate(a)
  /\ <<status, to>> \in Workflow
  /\ to \notin SupervisedStatuses
  /\ Permitted(a, <<status, to>>)
  /\ EnterStatus(to)
  /\ RecordCustody(<<TransitionEvent(status, to)>>)
  /\ Save(1)
  /\ UNCHANGED <<owner, queue>>
  /\ Respond(a)

HandedTo(supervisor) ==
  IF owner = supervisor THEN << >>
  ELSE <<OwnerEvent("ticket.escalation", owner, supervisor)>>

(* An operational escalation also hands the ticket to the supervisor.       *)
Escalate(a, to, supervisor) ==
  /\ UpToDate(a)
  /\ <<status, to>> \in Workflow
  /\ to \in SupervisedStatuses
  /\ Permitted(a, <<status, to>>)
  /\ supervisor \in Supervisors
  /\ EnterStatus(to)
  /\ owner' = supervisor
  /\ RecordCustody(HandedTo(supervisor) \o <<TransitionEvent(status, to)>>)
  /\ Save(1)
  /\ UNCHANGED queue
  /\ Respond(a)

(* An assignment of an unowned ticket carries the transition to "assigned"  *)
(* when the workflow and the actor's roles allow it; an assignment to the   *)
(* present owner writes nothing.                                            *)
MovesToAssigned(a, assignee) ==
  /\ owner = Nobody
  /\ assignee # Nobody
  /\ <<status, "assigned">> \in Workflow
  /\ Permitted(a, <<status, "assigned">>)

AssignTicket(a, assignee) ==
  /\ UpToDate(a)
  /\ assignee # owner
  /\ a \in IF owner = Nobody /\ assignee = a THEN MayUpdate ELSE MayReassign
  /\ assignee \in EligibleIn[queue] \union {Nobody}
  /\ owner' = assignee
  /\ UNCHANGED queue
  /\ IF MovesToAssigned(a, assignee)
       THEN /\ EnterStatus("assigned")
            /\ RecordCustody(<<OwnerEvent("ticket.assignment", owner, assignee),
                               TransitionEvent(status, "assigned")>>)
            /\ Save(2)
       ELSE /\ KeepStatus
            /\ RecordCustody(<<OwnerEvent("ticket.assignment", owner, assignee)>>)
            /\ Save(1)
  /\ Respond(a)

(* An internal process assigns without a view of the ticket.                *)
AssignTicketBySystem(assignee) ==
  /\ assignee # owner
  /\ assignee \in EligibleIn[queue] \union {Nobody}
  /\ owner' = assignee
  /\ RecordCustody(<<OwnerEvent("system", owner, assignee)>>)
  /\ Save(1)
  /\ KeepStatus
  /\ UNCHANGED <<queue, views>>

(* Routing sets the resulting queue and owner together.                     *)
Reallocate(destination, assignee) ==
  /\ destination # queue \/ assignee # owner
  /\ destination \in Queues \union {Nobody}
  /\ assignee \in EligibleIn[destination] \union {Nobody}
  /\ owner' = assignee
  /\ queue' = destination
  /\ RecordCustody(
       (IF destination = queue THEN << >> ELSE <<QueueEvent(queue, destination)>>)
       \o (IF assignee = owner THEN << >>
           ELSE <<OwnerEvent("ticket.routing", owner, assignee)>>))
  /\ Save(1)
  /\ KeepStatus

RouteTicket(a, destination, assignee) ==
  /\ UpToDate(a)
  /\ a \in MayRouteTo[destination]
  /\ Reallocate(destination, assignee)
  /\ Respond(a)

RouteTicketBySystem(destination, assignee) ==
  Reallocate(destination, assignee) /\ UNCHANGED views

(* Team, next action, waiting reason: nothing that custody is about.        *)
UpdateWorkState(a) ==
  /\ UpToDate(a)
  /\ a \in MayUpdate
  /\ Save(1)
  /\ KeepStatus
  /\ UNCHANGED <<owner, queue, ledger>>
  /\ Respond(a)

(* The first reply that counts as delivered is recorded on the ticket row.  *)
AddMessage ==
  /\ FirstResponse
  /\ Save(1)
  /\ UNCHANGED <<owner, queue, resolution, views, logVars>>

(* A sweep that escalates clocks records one event for each.                *)
EscalatedBy(w, due) == {k \in due : Escalates(k, sla[k], sweep[w].at)}

EvaluateSlas(w, due) ==
  /\ SweepTicket(w, due)
  /\ RecordCustody([i \in 1 .. Cardinality(EscalatedBy(w, due)) |-> EscalationEvent(status)])
  /\ UNCHANGED <<rowVars, views, history>>

(* Clock steps that touch neither the ticket row nor its logs.              *)
ClockOnly ==
  /\ \/ \E k \in Kinds : InstantiateSla(k)
     \/ Tick
     \/ \E w \in Sweepers : SweepStart(w) \/ SweepSkip(w)
  /\ UNCHANGED <<rowVars, views, logVars>>

StaffStep(a) ==
  \/ Read(a)
  \/ \E to \in Statuses : Transition(a, to)
  \/ \E to \in Statuses, supervisor \in Staff : Escalate(a, to, supervisor)
  \/ \E assignee \in Staff \union {Nobody} : AssignTicket(a, assignee)
  \/ \E destination \in Queues \union {Nobody}, assignee \in Staff \union {Nobody} :
        RouteTicket(a, destination, assignee)
  \/ UpdateWorkState(a)

SystemStep ==
  \/ \E assignee \in Staff \union {Nobody} : AssignTicketBySystem(assignee)
  \/ \E destination \in Queues \union {Nobody}, assignee \in Staff \union {Nobody} :
        RouteTicketBySystem(destination, assignee)
  \/ AddMessage
  \/ \E w \in Sweepers, due \in SUBSET Kinds : EvaluateSlas(w, due)
  \/ ClockOnly

TicketNext == SystemStep \/ \E a \in Staff : StaffStep(a)

TicketSpec == TicketInit /\ [][TicketNext]_ticketVars

-----------------------------------------------------------------------------
(* What the lifecycle promises.                                             *)

TicketTypeOK ==
  /\ owner \in Staff \union {Nobody}
  /\ queue \in Queues \union {Nobody}
  /\ resolution \in BOOLEAN
  /\ version \in 0 .. MaxVersion
  /\ \A a \in Staff : views[a].version \in 0 .. version

(* No user's request changes the status, owner or queue of a ticket that    *)
(* differs from the one the user was looking at: whoever else has changed   *)
(* it in between, staff, an internal process or a reply, the request is     *)
(* refused (expected_updated_at).                                           *)
NoLostUpdate ==
  [][\A a \in Staff :
       Facts' # Facts /\ views'[a] # views[a] => views[a].facts = Facts]_ticketVars

(* The ticket keeps the promises of its custody ledger: every event         *)
(* continues the ledger, nothing is rewritten, and the ledger tells the     *)
(* ticket's status, owner and queue after every transaction.                *)
Custody == INSTANCE CustodyLedger WITH facts <- Facts
CustodyLedgerSpec == Custody!LedgerSpec

(* The events that are about a change of status, and where a ledger has them.*)
IsWorkflow(e) == "status" \in DOMAIN e.new /\ e.source # "sla.escalation"

WorkflowEvents(l) == {i \in 1 .. Len(l) : IsWorkflow(l[i])}

RowOf(i, l) == Cardinality({j \in WorkflowEvents(l) : j <= i})

(* The rows h are the workflow events of the ledger l, one for one, in      *)
(* their order.                                                             *)
SameChanges(h, l) ==
  /\ Cardinality(WorkflowEvents(l)) = Len(h)
  /\ \A i \in WorkflowEvents(l) : h[RowOf(i, l)][2] = l[i].new["status"]

(* The two append-only records of status changes never disagree: the        *)
(* transition history is unbroken, and the workflow events of the custody   *)
(* ledger are its rows in its order.                                        *)
LogsAgree ==
  /\ \A i \in 2 .. Len(history) : history[i][1] = history[i - 1][2]
  /\ SameChanges(history, ledger)

(* A resolution is on record exactly while the ticket is resolved, or       *)
(* closed from resolved: reopening clears it, and a ticket closed after a   *)
(* cancellation has none (FR-022).                                          *)
ResolutionOnRecord ==
  resolution <=> \/ status = "resolved"
                 \/ status = "closed" /\ history[Len(history)][1] = "resolved"
=============================================================================
