--------------------------- MODULE CustodyTimeline ---------------------------
(***************************************************************************)
(* The life of one ticket's custody ledger across the deployment that      *)
(* introduced it, and the two timelines that are read from it: the         *)
(* requester's progress (tickets/tracking.py) and the staff activity       *)
(* (tickets/activity.py).                                                  *)
(*                                                                         *)
(* Older code wrote transition rows and audit rows only.  docs/deployment  *)
(* and docs/pilot-runbook start the new code first and migrate then, so    *)
(* new code can write custody events after migration 0005 made the table   *)
(* and before or while migration 0006 fills it from the older rows.        *)
(*                                                                         *)
(* Each request is one transaction under the ticket's row lock and so one  *)
(* action; a sweep of the SLA evaluator reads its time in one action and   *)
(* records an escalation at that time in a later one.                      *)
(***************************************************************************)
EXTENDS Integers, SequencesExt

CONSTANTS
  Edges,      \* the workflow: pairs of status codes
  Initial,    \* the initial status
  Terminal,   \* the terminal statuses
  Staff, Queues,
  Clocks,     \* the SLA clocks that can cross their escalation threshold
  Nobody,     \* null
  MaxTime     \* bound on the instants

ASSUME TimelineAssumption ==
  /\ Nobody \notin Staff \cup Queues \cup {Initial}
  /\ \A e \in Edges : e[1] # Nobody /\ e[2] # Nobody

VARIABLES
  app,        \* which code runs: "old" or "new"
  schema,     \* "none", "table" (0005 applied) or "filled" (0006 applied)
  reading,    \* what a running backfill has read, or Nobody
  now,
  sweep,      \* the time that a running sweep holds, or Nobody
  alerted,    \* the clocks whose escalation is recorded
  ticket,     \* [status, owner, queue, createdAt]
  history,    \* TransitionHistory rows, in the order of their commits
  audits,     \* AuditEvent rows, in the order of their commits
  ledger      \* TicketCustodyEvent rows, by sequence

system == <<app, schema, reading>>
vars == <<app, schema, reading, now, sweep, alerted, ticket, history, audits, ledger>>

-----------------------------------------------------------------------------
(* The chain.  A digest is taken to be injective: it is all that went into *)
(* it, the payload and before it what the hash before it was made of.      *)

\* MUTANT: a payload that forgets the time of the event
ChainPayload_Undated(e) ==
  [sequence |-> e.sequence, type |-> e.type, source |-> e.source, prev |-> e.prev, new |-> e.new]

ChainPayload(e) ==
  [sequence |-> e.sequence, type |-> e.type, at |-> e.at, source |-> e.source,
   prev |-> e.prev, new |-> e.new]

EventHash(previousHash, payload) == Append(previousHash, payload)

LastSequence(l) == IF l = <<>> THEN 0 ELSE Last(l).sequence
LastHash(l) == IF l = <<>> THEN <<>> ELSE Last(l).eventHash

Numbered(input, n) ==
  [sequence |-> n, type |-> input.type, at |-> input.at, source |-> input.source,
   prev |-> input.prev, new |-> input.new]

Chained(row, previousHash) ==
  [sequence |-> row.sequence, type |-> row.type, at |-> row.at, source |-> row.source,
   prev |-> row.prev, new |-> row.new, previousHash |-> previousHash,
   eventHash |-> EventHash(previousHash, ChainPayload(row))]

(* Each event takes the next number, and the hash of the one before it.    *)
RecordCustody(l, inputs) ==
  LET Input(i) == Numbered(inputs[i], LastSequence(l) + i)
      Hash(n) == LastHash(l) \o [i \in 1 .. n |-> ChainPayload(Input(i))]
  IN  l \o [i \in 1 .. Len(inputs) |-> Chained(Input(i), Hash(i - 1))]

VerifyCustodyChain(l) ==
  \A i \in 1 .. Len(l) :
    /\ l[i].sequence = i
    /\ l[i].previousHash = LastHash(SubSeq(l, 1, i - 1))
    /\ l[i].eventHash = EventHash(l[i].previousHash, ChainPayload(l[i]))

-----------------------------------------------------------------------------
(* Rows.  An event's prev and new are functions on the aspects it is about. *)

Transitioned(id) == <<"workflow_transition", id>>
Audited(id) == <<"audit_event", id>>

Event(type, at, source, prev, new) ==
  [type |-> type, at |-> at, source |-> source, prev |-> prev, new |-> new]

TypeForTransition(code) ==
  IF code \in {"reopened", "closed"} THEN code ELSE "status_changed"

StatusEvent(type, at, id, row) ==
  Event(type, at, Transitioned(id), [status |-> row.from], [status |-> row.to])

OwnerEvent(at, id, before, after) ==
  LET type == CASE before = Nobody -> "assigned"
                [] after = Nobody -> "unassigned"
                [] OTHER -> "reassigned"
  IN  Event(type, at, Audited(id), [owner |-> before], [owner |-> after])

QueueEvent(at, id, before, after) ==
  Event("queue_changed", at, Audited(id), [queue |-> before], [queue |-> after])

Row(from, to, at) == [from |-> from, to |-> to, at |-> at]

(* An audit row keeps the fields that changed, each with before and after. *)
Audit(action, at, owner, queue) ==
  [action |-> action, at |-> at,
   fields |-> {x \in {<<"owner", ticket.owner, owner>>, <<"queue", ticket.queue, queue>>} :
                 x[2] # x[3]}]

-----------------------------------------------------------------------------
(* The backfill of migration 0006.                                         *)

(* The row of the creation, if the older code wrote one.                   *)
Creations(h) == {i \in 1 .. Len(h) : h[i].from = Nobody}

CreatedEvent(r) ==
  LET audit == {i \in 1 .. Len(r.audits) : r.audits[i].action = "ticket.created"}
      at == IF audit = {} THEN ticket.createdAt ELSE r.audits[Min(audit)].at
      source == IF Creations(r.history) # {} THEN Transitioned(Min(Creations(r.history)))
                ELSE IF audit # {} THEN Audited(Min(audit)) ELSE <<>>
      status == IF Creations(r.history) = {} THEN Initial
                ELSE r.history[Min(Creations(r.history))].to
  IN  Event("created", at, source, <<>>, [status |-> status])

BackfillSources(r) ==
  LET OfAudit(i) ==
        {CASE f[1] = "owner" -> <<r.audits[i].at, 2, i, OwnerEvent(r.audits[i].at, i, f[2], f[3])>>
           [] f[1] = "queue" -> <<r.audits[i].at, 1, i, QueueEvent(r.audits[i].at, i, f[2], f[3])>> :
           f \in r.audits[i].fields}
      OfRow(i) == LET row == r.history[i]
                  IN  <<row.at, 3, i, StatusEvent(TypeForTransition(row.to), row.at, i, row)>>
  IN  {<<CreatedEvent(r).at, 0, 0, CreatedEvent(r)>>}
        \cup (UNION {OfAudit(i) : i \in 1 .. Len(r.audits)})
        \cup {OfRow(i) : i \in 1 .. Len(r.history) \ Creations(r.history)}

(* Sources in order of time, then kind, then identifier.                   *)
Before(a, b) ==
  \/ a[1] < b[1]
  \/ a[1] = b[1] /\ a[2] < b[2]
  \/ a[1] = b[1] /\ a[2] = b[2] /\ a[3] < b[3]

Sorted(S) ==
  [i \in 1 .. Cardinality(S) |-> (CHOOSE m \in S : Cardinality({x \in S : Before(x, m)}) = i - 1)[4]]

Backfilled(r) == RecordCustody(<<>>, Sorted(BackfillSources(r)))

-----------------------------------------------------------------------------
(* The two timelines.                                                      *)

TrackingByCode ==
  [new |-> "Submitted", triage |-> "Acknowledged", assigned |-> "Assigned",
   in_progress |-> "In Progress", diagnosing |-> "In Progress",
   quality_review |-> "In Progress", validation |-> "In Progress",
   escalated |-> "Escalated", resolved |-> "Resolved", reopened |-> "Reopened",
   closed |-> "Closed", cancelled |-> "Closed", rejected |-> "Closed",
   duplicate |-> "Closed", spam |-> "Closed"]

WaitingCodes == {"waiting_requester", "waiting_internal", "waiting_it",
                 "waiting_user", "waiting_vendor", "waiting_change"}

TrackingStatusFor(code) ==
  CASE code \in WaitingCodes -> "Awaiting Information"
    [] code \in DOMAIN TrackingByCode -> TrackingByCode[code]
    [] OTHER -> IF code \in Terminal THEN "Closed" ELSE "In Progress"

(* The transition rows that an event of the ledger stands for.             *)
Represented == {e.source[2] : e \in {e \in Range(ledger) : e.source # <<>> /\ e.source[1] = "workflow_transition"}}

OfLedger == {<<ledger[i].at, 1, i, ledger[i].new["status"]>> :
               i \in {i \in 1 .. Len(ledger) : "status" \in DOMAIN ledger[i].new}}
OfHistory == {<<history[i].at, 2, i, history[i].to>> : i \in 1 .. Len(history) \ Represented}
OfTicket == {<<ticket.createdAt, 3, 0, ticket.status>>}

\* MUTANT: transitions that the ledger does not have count only without a ledger
Milestones_LedgerFirst ==
  IF OfLedger # {} THEN OfLedger ELSE IF OfHistory # {} THEN OfHistory ELSE OfTicket

Milestones == IF OfLedger \cup OfHistory # {} THEN OfLedger \cup OfHistory ELSE OfTicket

(* Labels of a sequence of status codes, adjacent equal ones once.         *)
Collapse(codes) ==
  LET Label(i) == TrackingStatusFor(codes[i])
      kept == {i \in 1 .. Len(codes) : i = 1 \/ Label(i) # Label(i - 1)}
  IN  Sorted({<<i, 0, i, Label(i)>> : i \in kept})

Progress(milestones) == Collapse(Sorted(milestones))

StatusUpdatedAt == Max({m[1] : m \in Milestones})

\* MUTANT: only the owner of an audit row counts as represented
CustodyAuditFields_OwnerOnly(id) ==
  UNION {DOMAIN e.new \cap {"owner"} : e \in {e \in Range(ledger) : e.source = Audited(id)}}

(* The owner and queue fields of an audit row that events stand for.       *)
CustodyAuditFields(id) ==
  UNION {DOMAIN e.new \cup DOMAIN e.prev : e \in {e \in Range(ledger) : e.source = Audited(id)}}

(* Activity items, each with the changes it shows.                         *)
Activity ==
  LET Fields(id) == {f[1] : f \in audits[id].fields}
      shownRows == {[item |-> <<"transition", i>>, shows |-> {<<"status", Transitioned(i)>>}] :
                      i \in 1 .. Len(history) \ Represented}
      shownAudits == {[item |-> Audited(i), shows |-> (Fields(i) \ CustodyAuditFields(i)) \X {Audited(i)}] :
                        i \in {i \in 1 .. Len(audits) : audits[i].action = "ticket.work_state.changed"}}
      shownEvents == {[item |-> <<"custody", i>>,
                       shows |-> IF ledger[i].source = <<>> \/ ledger[i].source[1] = "sla_instance" THEN {}
                                 ELSE (DOMAIN ledger[i].new) \X {ledger[i].source}] :
                        i \in 1 .. Len(ledger)}
  IN  {a \in shownRows \cup shownAudits : a.shows # {}} \cup shownEvents

-----------------------------------------------------------------------------
(* Actions.  Every transaction reads the clock at an instant of its own.   *)

Tick(n) == now + n <= MaxTime /\ now' = now + n

Created == ticket.status # Nobody
NotYet == [status |-> Nobody, owner |-> Nobody, queue |-> Nobody, createdAt |-> 0]

Init ==
  /\ app = "old" /\ schema = "none" /\ reading = Nobody
  /\ now = 0 /\ sweep = Nobody /\ alerted = {}
  /\ ticket = NotYet
  /\ history = <<>> /\ audits = <<>> /\ ledger = <<>>

(* Older code: it may have written an audit row, a transition row, both or neither. *)
LegacyCreate ==
  /\ app = "old" /\ ~Created /\ Tick(1)
  /\ \E queue \in Queues \cup {Nobody}, audited, logged \in BOOLEAN :
       /\ ticket' = [status |-> Initial, owner |-> Nobody, queue |-> queue, createdAt |-> now']
       /\ audits' = IF audited THEN <<[action |-> "ticket.created", at |-> now', fields |-> {}]>> ELSE <<>>
       /\ history' = IF logged THEN <<Row(Nobody, Initial, now')>> ELSE <<>>
  /\ UNCHANGED <<system, sweep, alerted, ledger>>

LegacyTransition ==
  /\ app = "old" /\ Created /\ Tick(1)
  /\ \E to \in {e[2] : e \in {e \in Edges : e[1] = ticket.status}} :
       /\ ticket' = [ticket EXCEPT !.status = to]
       /\ history' = Append(history, Row(ticket.status, to, now'))
  /\ UNCHANGED <<system, sweep, alerted, audits, ledger>>

LegacyChange ==
  /\ app = "old" /\ Created /\ Tick(1)
  /\ \E owner \in Staff \cup {Nobody}, queue \in Queues \cup {Nobody} :
       /\ <<owner, queue>> # <<ticket.owner, ticket.queue>>
       /\ \E action \in {"ticket.work_state.changed"} \cup
                        (IF queue = ticket.queue THEN {"ticket.assignment.changed"} ELSE {}) :
            audits' = Append(audits, Audit(action, now', owner, queue))
       /\ ticket' = [ticket EXCEPT !.owner = owner, !.queue = queue]
  /\ UNCHANGED <<system, sweep, alerted, history, ledger>>

(* The deployment.                                                         *)
Deploy == app = "old" /\ app' = "new" /\ UNCHANGED <<schema, reading, now, sweep, alerted, ticket, history, audits, ledger>>

CreateTable ==
  /\ app = "new" /\ schema = "none"
  /\ schema' = "table"
  /\ UNCHANGED <<app, reading, now, sweep, alerted, ticket, history, audits, ledger>>

BackfillRead ==
  /\ schema = "table" /\ reading = Nobody
  /\ reading' = [history |-> history, audits |-> audits,
                 skip |-> ledger # <<>> \/ ~Created]
  /\ UNCHANGED <<app, schema, now, sweep, alerted, ticket, history, audits, ledger>>

\* MUTANT: a backfill that goes on with the chain it finds
BackfillWrite_GoesOn ==
  /\ reading # Nobody
  /\ reading' = Nobody
  /\ schema' = "filled"
  /\ ledger' = IF ~Created THEN ledger
               ELSE RecordCustody(ledger, Backfilled(reading))
  /\ UNCHANGED <<app, now, sweep, alerted, ticket, history, audits>>

(* A ticket with events is skipped.  Events that were written since collide *)
(* with the backfill's own, which rolls the migration back.                *)
BackfillWrite ==
  /\ reading # Nobody
  /\ reading' = Nobody
  /\ IF ~reading.skip /\ ledger # <<>>
     THEN UNCHANGED <<schema, ledger>>
     ELSE /\ schema' = "filled"
          /\ ledger' = IF reading.skip THEN ledger ELSE Backfilled(reading)
  /\ UNCHANGED <<app, now, sweep, alerted, ticket, history, audits>>

(* Newer code.  It needs the table: without it the transaction fails.      *)
Live == app = "new" /\ schema # "none"

Create ==
  /\ Live /\ ~Created /\ Tick(1)
  /\ ticket' = [status |-> Initial, owner |-> Nobody, queue |-> Nobody, createdAt |-> now']
  /\ ledger' = RecordCustody(ledger,
       <<Event("created", now', Transitioned(1), <<>>, [status |-> Initial])>>)
  /\ history' = <<Row(Nobody, Initial, now')>>
  /\ audits' = <<[action |-> "ticket.created", at |-> now', fields |-> {}]>>
  /\ UNCHANGED <<system, sweep, alerted>>

Transition ==
  /\ Live /\ Created /\ Tick(1)
  /\ \E to \in {e[2] : e \in {e \in Edges : e[1] = ticket.status}} \ {"escalated"} :
       LET row == Row(ticket.status, to, now')
       IN  /\ ticket' = [ticket EXCEPT !.status = to]
           /\ history' = Append(history, row)
           /\ ledger' = RecordCustody(ledger,
                <<StatusEvent(TypeForTransition(to), now', Len(history'), row)>>)
  /\ UNCHANGED <<system, sweep, alerted, audits>>

(* An escalation by staff: a new owner and a new status, both dated when   *)
(* the transaction began; the transition row is dated when it is written.  *)
Escalate ==
  /\ Live /\ Created /\ Tick(2)
  /\ <<ticket.status, "escalated">> \in Edges
  /\ \E supervisor \in Staff :
       LET row == Row(ticket.status, "escalated", now')
           changed == supervisor # ticket.owner
       IN  /\ ticket' = [ticket EXCEPT !.status = "escalated", !.owner = supervisor]
           /\ history' = Append(history, row)
           /\ audits' = IF changed
                        THEN Append(audits, Audit("ticket.assignment.changed", now', supervisor, ticket.queue))
                        ELSE audits
           /\ ledger' = RecordCustody(ledger,
                (IF changed THEN <<OwnerEvent(now + 1, Len(audits'), ticket.owner, supervisor)>> ELSE <<>>)
                \o <<StatusEvent("escalated", now + 1, Len(history'), row)>>)
  /\ UNCHANGED <<system, sweep, alerted>>

AssignTicket ==
  /\ Live /\ Created /\ Tick(1)
  /\ \E owner \in (Staff \cup {Nobody}) \ {ticket.owner} :
       /\ ticket' = [ticket EXCEPT !.owner = owner]
       /\ audits' = Append(audits, Audit("ticket.assignment.changed", now', owner, ticket.queue))
       /\ ledger' = RecordCustody(ledger, <<OwnerEvent(now', Len(audits'), ticket.owner, owner)>>)
  /\ UNCHANGED <<system, sweep, alerted, history>>

RouteTicket ==
  /\ Live /\ Created /\ Tick(1)
  /\ \E owner \in Staff \cup {Nobody}, queue \in Queues \cup {Nobody} :
       /\ <<owner, queue>> # <<ticket.owner, ticket.queue>>
       /\ ticket' = [ticket EXCEPT !.owner = owner, !.queue = queue]
       /\ audits' = Append(audits, Audit("ticket.routing.changed", now', owner, queue))
       /\ ledger' = RecordCustody(ledger,
            (IF queue # ticket.queue THEN <<QueueEvent(now', Len(audits'), ticket.queue, queue)>> ELSE <<>>)
            \o (IF owner # ticket.owner THEN <<OwnerEvent(now', Len(audits'), ticket.owner, owner)>> ELSE <<>>))
  /\ UNCHANGED <<system, sweep, alerted, history>>

SweepStart ==
  /\ Live /\ sweep = Nobody /\ Tick(1)
  /\ sweep' = now'
  /\ UNCHANGED <<system, alerted, ticket, history, audits, ledger>>

(* An escalation by the evaluator restates the status, at the time that    *)
(* the sweep holds.                                                        *)
RecordEscalation ==
  /\ sweep # Nobody /\ Created
  /\ \E k \in Clocks \ alerted :
       /\ alerted' = alerted \cup {k}
       /\ ledger' = RecordCustody(ledger,
            <<Event("escalated", sweep, <<"sla_instance", k>>,
                    [status |-> ticket.status], [status |-> ticket.status])>>)
  /\ UNCHANGED <<system, now, sweep, ticket, history, audits>>

SweepEnd ==
  /\ sweep # Nobody /\ sweep' = Nobody
  /\ UNCHANGED <<system, now, alerted, ticket, history, audits, ledger>>

Next ==
  \/ LegacyCreate \/ LegacyTransition \/ LegacyChange
  \/ Deploy \/ CreateTable \/ BackfillRead \/ BackfillWrite
  \/ Create \/ Transition \/ Escalate \/ AssignTicket \/ RouteTicket
  \/ SweepStart \/ RecordEscalation \/ SweepEnd

TimelineSpec == Init /\ [][Next]_vars

-----------------------------------------------------------------------------
(* The ledger verifies at every moment, however backfill, requests and     *)
(* sweeps interleave, and it verifies no longer when one stored value is   *)
(* replaced by another row's or a row other than the last is lost          *)
(* (verify_custody_chain).                                                 *)
Columns == {"sequence", "type", "at", "source", "prev", "new", "previousHash", "eventHash"}

Damaged(l) ==
  {[l EXCEPT ![i][f] = l[j][f]] : i, j \in 1 .. Len(l), f \in Columns}
    \cup {RemoveAt(l, i) : i \in 1 .. Len(l) - 1}

ChainTellsDamage ==
  /\ VerifyCustodyChain(ledger)
  /\ \A l \in Damaged(ledger) \ {ledger} : ~VerifyCustodyChain(l)

(* What an event says was so before is what the ledger last said, and what *)
(* the ledger last said is so, also when a backfill wrote its beginning.   *)
Sayings(n, x) == {i \in 1 .. n : x \in DOMAIN ledger[i].new}

LedgerTellsTruth ==
  \A x \in {"status", "owner", "queue"} :
    /\ \A i \in 1 .. Len(ledger) :
         (x \in DOMAIN ledger[i].prev /\ Sayings(i - 1, x) # {})
           => ledger[i].prev[x] = ledger[Max(Sayings(i - 1, x))].new[x]
    /\ Sayings(Len(ledger), x) # {}
         => ledger[Max(Sayings(Len(ledger), x))].new[x] = ticket[x]

(* The requester's progress, the evaluator's restatements left out, is the *)
(* statuses in the order in which they were entered, from the creation if  *)
(* anything recorded it; restatements included, it ends with the status of *)
(* now.                                                                    *)
Entered ==
  (IF Creations(history) = {} THEN <<Initial>> ELSE <<>>) \o [i \in 1 .. Len(history) |-> history[i].to]

Restatements ==
  {<<ledger[i].at, 1, i, ledger[i].new["status"]>> :
     i \in {i \in 1 .. Len(ledger) : ledger[i].source # <<>> /\ ledger[i].source[1] = "sla_instance"}}

CreationRecorded == Creations(history) # {} \/ \E e \in Range(ledger) : e.type = "created"

ProgressIsTrue ==
  Created =>
    /\ Last(Progress(Milestones)) = TrackingStatusFor(ticket.status)
    /\ Milestones \ Restatements # {} =>
         Progress(Milestones \ Restatements)
           = IF CreationRecorded \/ Len(Entered) = 1 THEN Collapse(Entered) ELSE Collapse(Tail(Entered))

(* The activity of a ticket shows no change twice, and every change of     *)
(* status, owner and queue once, as soon as its ledger has a beginning.    *)
Changes ==
  {<<"status", Transitioned(i)>> : i \in 1 .. Len(history)}
    \cup UNION {{f[1] : f \in audits[i].fields} \X {Audited(i)} : i \in 1 .. Len(audits)}

ActivityShowsEachOnce ==
  /\ \A a, b \in Activity : a.item # b.item => a.shows \cap b.shows = {}
  /\ (\E e \in Range(ledger) : e.type = "created") => Changes \subseteq UNION {a.shows : a \in Activity}

(* status_updated_at is never later than the last change of the status:    *)
(* tracking.py:76 "the latest underlying status-change time".              *)
StatusUpdatedByChange ==
  history # <<>> => StatusUpdatedAt <= Last(history).at
=============================================================================
