# MHC Service Desk: a verification project

The service desk (`backend/`, Django, Celery, PostgreSQL; `frontend/`, React) takes
requests by web form, e-mail and WhatsApp, turns them into *tickets*, and takes each
ticket through a workflow under SLA clocks. Every change of status, owner or queue is
recorded in an append-only *custody ledger*. IT work is done on child tickets. Who may
see and do what follows from roles, scopes and offices. What has expired is disposed of,
with its attachments.

This directory holds TLA+ models of the parts of it that are hard to test, runs of the
model checker TLC, and proofs checked by TLAPS. Paths below are relative to
`backend/apps/`.

## 1. Inventory

| Component | State | Operations | Talks to |
|---|---|---|---|
| SLA clocks (`sla/services.py`) | `SlaInstance` rows, pause history | instantiate, pause, resume, complete, restart, synchronise with a transition, periodic evaluator (Celery, every 60 s) | called by the ticket services under the ticket lock; the evaluator writes ticket events |
| Ticket services (`tickets/services.py`, `workflow.py`, `events.py`) | `Ticket`, `TransitionHistory`, messages, notes, events, outbox | create, transition, work state, message, note, link | clocks, custody, locks, references |
| Assignment (`tickets/assignment.py`, `escalation.py`) | `assignee`, `queue` of the ticket | assign, route (by staff or by the system), escalate | access rules, custody, transition |
| Custody ledger (`tickets/custody.py`, migrations 0005 and 0006) | `TicketCustodyEvent`, hash chain | append, verify, backfill from older rows | every service that changes status, owner or queue |
| Timelines (`tickets/tracking.py`, `activity.py`) | none: read from ledger, history and audit | requester's progress, staff activity | custody ledger |
| IT children (`tickets/it_child.py`) | a link from child to parent | create, return | parent's row, clocks and ledger |
| Authority locks (`identity_access/authority_lock.py`) | user, role, membership, group rows | lock and snapshot; change of authority | every mutation |
| Access rules (`identity_access/scope.py`, `authentication.py`, `tickets/eligibility.py`, `permissions.py`) | `UserRole`, `Role.scopes`, token groups, office | sign-in, snapshot, sight, work, assign, route, candidates | every view and mutation |
| References (`tickets/references.py`) | counter row per domain and prefix | allocate, create with retry | create_ticket; retention deletes tickets |
| Workflow (`workflow/`, `tickets/seed_workflow.py`) | statuses, transitions | seed | transition |
| WhatsApp (`whatsapp/`) | accounts, messages, delivery status | inbound webhook, send, status callback, template discovery | provider, tickets |
| E-mail (`email_channel/`) | webhook events, deliveries | inbound, bounce | adapter, tickets |
| Attachments (`files/`) | attachment rows, stored objects, access logs | upload, scan, download | object store, tickets |
| Retention (`administration/`) | holds, disposal events, object jobs, certificates | dispose, side-effect worker (every 60 s) | every table, object store |
| Monitoring, automation, CSAT, knowledge, reporting, audit, notifications | rows of their own | small | tickets |

What is hard: staff act on views of a ticket that are stale; requests, webhooks,
evaluator and workers interleave at row locks; the evaluator works with an old time;
entitlement must survive any number of pauses; authority is withdrawn while a request
waits; counters are created by two transactions at once; providers deliver twice, late
and out of order; the database and the object store share no transaction, so a crash
separates a side effect from its record; authority falls back from stored roles to the
groups of a token; a migration fills the ledger while requests write it.
`PROJECT.json` lists each of these hazards at its line, with the property that covers it
or the reason why none does.

What makes each part correct: *clocks*, entitlement is conserved and every verdict and
escalation is earned; *services*, no lost update, and the two logs of status changes agree;
*custody*, an unbroken ledger that always tells the ticket's facts, and a chain that tells
damage; *timelines*, they show what happened, each thing once; *IT children*, work by
IT never resolves a parent and its return ends the wait; *locks*, no circular wait, no
commit without authority, every request ends; *access*, sight stays within office and
clearance, authority implies sight, and the four rules that read scopes agree;
*references*, no number issued twice, creation gets through; *channels*, one record for
one message, nothing confirmed before it is recorded, no status that goes backwards;
*attachments*, no stored object that nothing knows of; *retention*, nothing held is
deleted and no certificate precedes the last deletion.

## 2. Modules

| Module | Models | Composes |
|---|---|---|
| `SlaInstance` | one clock row and the functions of `sla/services.py` on it, as pure operators | |
| `SlaClock` | the clocks of a ticket: transitions, replies, time, overlapping sweeps | `SlaInstance` |
| `CustodyLedger` | what a custody ledger promises (abstract) | |
| `WorkflowSeed` | the delivered workflows, as data | |
| `TicketLifecycle` | the services on one ticket | `SlaClock` (EXTENDS), implements `CustodyLedger` |
| `ItChild` | a parent and its IT children | `TicketLifecycle`; implements `CustodyLedger` and `SlaClock` |
| `MutationLocks` | transactions that take row locks one by one, changes of authority | |
| `TicketReferences` | the number allocator | |
| `ObjectLifecycle` | what becomes of a stored file (abstract) | |
| `AttachmentStore` | uploads with their compensation, downloads | |
| `Retention` | disposal runs, object jobs, workers, certificates | `AttachmentStore` (EXTENDS), implements `ObjectLifecycle` |
| `WhatsappOutbound` | template messages and delivery reports | |
| `MessageFiling` | what inbound channels promise of a message (abstract) | |
| `ChannelIntake` | inbound e-mail and WhatsApp, bounces | implements `MessageFiling` |
| `AccessRules` | roles, scopes, offices, sign-ins and the rules that read them | |
| `CustodyTimeline` | the ledger's chain and backfill, and the timelines read from it | |
| `TicketProofs` | theorems about clocks, ticket and IT children, see section 4 | `ItChild` and all it extends |
| other `*Proofs` | theorems, see section 4 | the module of that name (`Whatsapp`: `WhatsappOutbound`, `Access`: `AccessRules`) |
| `MC*` | the small instances | |

Operators whose name carries a suffix after an underscore (`ResumeSla_OldDeadline`) are
*mutants*: the definition as a plausible bug would have it. No specification uses them. For
every property `PROJECT.json` names one that, put in the place of the original, makes TLC
find the property violated.

### SLA clocks

`sla[k]` is the row of kind `k`: `state`, `due` (`due_at`), `remaining`
(`remaining_business_microseconds`), `completed`, `escalated`
(`escalation_notified_at`). Time is a number of ticks, the model's microseconds;
`TicksPerSecond` gives `remaining_business_seconds`, which the code rounds down and
`complete_sla` reads. The calendar is any monotonic function `Elapsed` from instants to
business time gone by, flat outside opening hours; `AddBusinessTime` is the first instant
by which that much has gone by. What the weekly intervals, holidays and time zones of
`BusinessCalendar` make of `Elapsed` is not modelled.

`SyncStatus` is any accepted status change with `sync_slas_for_transition`;
`FirstResponse` the first reply that counts as delivered (`add_message`). A sweep reads its time and
candidates in `SweepStart` and rewrites the clocks of one ticket in `SweepTicket`, much
later and possibly beside another sweep. The sweep holds the ticket lock from the first
candidate at which it gets it until it commits, so that part is one step, for any subset of the
candidates; `SweepSkip` is a sweep that never gets the lock or is rolled back. The
intake view writes each clock in a transaction of its own after the ticket
(`InstantiateSla`).

`ran` and `alerts` are history variables: business time a clock has really run, and
escalations recorded, since it was started. The properties compare the rows with them.

### The ticket

Each service is one transaction that holds the ticket's row lock from its first read to
its commit, and so one action, with everything it writes: row, clocks, history, custody
events. What interleaves is staff: `views[a]` is the ticket as `a` last saw it,
`version` stands for `updated_at`, and `UpToDate` is the comparison of
`expected_updated_at` under the lock. An assignment of an unowned ticket carries a
transition to `assigned`, with two saves. Who holds which role, may reassign, route or be
assigned is a constant; required fields are taken to be supplied. `RequiredRole`, `Workflow`
and `Waiting` may be any workflow; runs use the delivered one or a part of it.

A custody event is its type, its source and the aspects it is about, before and after.
`CustodyLedger` says that the ledger only grows, every event continues from what the ledger said
before it, and after each transaction the ledger tells the ticket's status, owner and
queue. `TicketLifecycle` implements it (`CustodyLedgerSpec`), with the facts refined to
the columns of the row, and implements `SlaClock` (`ClockSpec`).

`ItChild` adds the two operations that write the parent's row without a view of it, and the
status of each child. `ChildTransition` is `transition_ticket` of the child together with
`sync_child_status_to_parent`, one transaction in the code.

### Locks

`MutationLocks` opens the transactions up: `Steps(r)` are the rows a request locks and the
point at which it reads authority again, and `Stage(r, x)` is their order: ticket, users,
their grants (user-role rows, roles, memberships, groups, each by id), recheck, and for a
return the parent ticket. `LockOrder` may be any order in which users come before grants. Four
kinds of request: a mutation, the return of an IT child, the creation of an IT child (parent
only, no recheck), a change of authority. The authority of a user is one fact that changes
commit. `DeadlockVictim` is PostgreSQL's detection. SLA and custody rows are locked only
under their ticket's lock and add nothing; the evaluator never waits (`skip_locked`) and is
left out.

### References

`TicketReferences` steps through `allocate_ticket_reference` and `create_referenced_ticket`:
read and lock the counter, or find none, count the tickets and insert one (the unique
constraint makes the second insert wait, and lose); advance; insert the ticket in a
savepoint; on a collision try again, at most `COLLISION_RETRIES` times; commit or roll
back. `Dispose` is the deletion of a ticket by retention.

### Attachments and retention

`AttachmentStore` has two stores that share no transaction: `row` appears at commit,
`store` at once. An upload locks its ticket, stores file after file, and records all rows;
when something fails it deletes what it has stored, which may fail too (`lost` remembers
that, and what a crash left).

`Retention` follows `_dispose_table` for messages and tickets: candidates are listed, their
tickets locked one by one, the selection made again under the locks (`SelectDisposal`),
then rows are deleted and object jobs written, all in one transaction with the disposal
event. `_orm_disposal_queryset` becomes `DisposableTickets` and `DisposableMessages`: age,
holds on the ticket or anything that belongs to it, and the ages of dependents. The side-effect
worker claims a job, deletes the object, locks the event, sees whether other jobs are left,
and completes; the certificate and its export follow. Every step between may fail or be the
last of its process. `ObjectLifecycle` is the life of one stored file, from upload to a
certificate that comes after the last removal; `Phase` maps the variables to it.

### Channels

`WhatsappOutbound`: `channel[m]` is the `WhatsappMessage` and `mirror[m]` the ticket
message of a send. The request records an attempt, asks for the template, records the
message as pending, calls the provider outside any transaction, and records the answer; it may
crash at each point, and the answer may be lost. Reports come in batches, in any order, again
and again until confirmed. `RecordMetaDeliveryStatus` compares ranks; a batch with an
unknown message is answered 503 and confirmed only when every row is known.

`ChannelIntake` has workers that process overlapping batches in one transaction each.
Unique keys (`Keys`) are claims: an insert waits for an uncommitted one (`Blockers`), so
batches in opposite orders deadlock and one is rolled back. `Targets` is the threading of
`find_target_ticket` (references, then the token in the subject, of the same requester and
domain), which sees what is committed and what the worker has filed itself (`Visible`).
`delivery` is one outbound e-mail and its receipts. `MessageFiling` says what all this is
for: a message is filed once, stays where it was filed, is confirmed only when it is
filed, and joins a ticket only of its own requester and domain whose opening message is filed
too. `MessagesAreFiled` is that specification, of the committed tables.

### Access

`AccessRules` keeps what a snapshot is made of (roles, scopes, groups, office) and one
ticket. `Authority` is `get_authority_snapshot`: stored assignments if any is active and readable,
groups otherwise, then the office boundary. Four readers of scopes are translated side by
side: `InScope` (`scope_ticket_queryset`), `GrantCovers` and the aliases
(`matching_actor_role_aliases`), the list of candidates, and the check of the one chosen.
Sign-ins write groups and office in two transactions, so `SynchronizeGroups` and
`SynchronizeOffice` may mix two tokens.

### Chain, backfill, timelines

In `CustodyTimeline` the old code writes history and audit rows, the new one custody events
too. `BackfillRead` and `BackfillWrite` are the two ends of migration 0006, which runs
beside requests because the new code is started first (`docs/deployment.md`).
The digest is taken to be injective: `EventHash` keeps everything that was ever digested into it.
`Milestones`, `Progress` and `Activity` are the timelines of `tracking.py` and `activity.py`.
`RecordCustody` and `Sorted` are the loop of `record_custody_events` and the sort of the
sources in closed form, so that they can be proved about.

## 3. Runs

| Run | Instance | Shows |
|---|---|---|
| `clock` | 2 clocks, 2 sweeps, 4 instants and closed hours, 2 waiting statuses, fairness | entitlement, verdicts, escalations, freezing; an overdue clock is noticed |
| `lifecycle` | 2 staff, 1 queue, 1 sweep, delivered workflow from triage, 2 saves | no lost update, logs agree, `CustodyLedger` implemented |
| `it_child` | 2 children, part of the delivered workflows, 4 saves | the hand-over to IT, resolution on record, both refinements |
| `locks` | 3 workers, 2 users sharing a group, 7 requests with returns, fairness | circles need a return, authority at commit, every request ends |
| `references` | 3 workers, 5 numbers, 2 of them taken, counter absent or 2 behind, fairness | no reissue, no needless collision, creation gets through |
| `retention` | 2 tickets, 3 objects, one of them unversioned, an upload, a run, 2 workers, 2 policies, fairness | nothing held or young is disposed of, no forgotten object, certificates, `ObjectLifecycle` implemented |
| `whatsapp` | 2 messages, 2 provider ids, 2 reports, batches of 1 or 2, fairness | copies agree, records are true, no regression, reports get through |
| `intake` | 2 workers, 8 events in 6 scenarios of batches, a known contact, 2 faults, fairness | one record each, acknowledged means recorded, bounces, `MessageFiling` implemented (with it the threading), intake gets through |
| `access` | 2 offices, 2 queues, 9 roles of which 2 are held at once, 2 configurations, 5 tokens | sight, authority, candidates, assignees and routers agree |
| `timeline` | 1 ticket, 1 member of staff, 1 queue, 1 clock, 4 instants, 3 transitions | chain, ledger, progress, activity across the deployment |

Bounds. `MaxTime` stops the clock, and other bounds stop faults, reports and saves (so these
runs may stop: `CHECK_DEADLOCK FALSE`); four instants let a clock of target 3 pause,
cross a closed period, resume, breach and be reopened. `MaxVersion` bounds the saves of a
ticket: two are enough for a stale request (read, somebody else's save, request), and four
for resolve, reopen, resolve, close or for create, return, create, return. Two staff are
enough for a conflict, since a request is refused or not by comparing one view with one row;
two sweeps for a double escalation; three workers for a circle longer than two and for a
waiter behind the loser of a race. A `MaxSequence` of 5 lets the numbers run out. Two
objects of one run and two workers are what the race for the last job needs; days 0 and 2
are what is expired and what is not. Two reports of one message give every pair of ranks
in either order and twice. Two faults in `intake` let a crash follow a lost confirmation.
Two assignments at once are enough for one that confines and one that widens. Four instants in
`timeline` let a change, the start of a sweep, the backfill and an escalation have times of
their own. The proofs need none of these bounds.

Fairness. `SweepFairness`: Celery beat starts the evaluator every 60 seconds
(`config/settings/base.py:296`), and acknowledges late, so a sweep starts again and again;
requests hold the ticket's lock for one transaction, so a sweep that tries again and again
gets it (strong fairness of the step in which it gets the lock at its first candidate). No step
of staff is fair. `FairLockSpec`: a transaction goes on while it can, and PostgreSQL serves the
waiters of a row lock in turn. `FairRefSpec`: creations are asked for again and again, and not
every one of them fails for reasons of its own. `SideEffectFairness`: the retention worker
starts every minute and retries; store, file system and workers may fail again and again but
not each time. `FairWhatsappSpec`: the provider delivers what is not confirmed again, and an
account is not switched off for good. `FairIntakeSpec`: batches are delivered again until
confirmed, transactions go on while they can, faults are finitely many, and misconfiguration
is mended.

### Violations

Two runs check what a document or comment says and find that the code does otherwise;
`PROJECT.json` quotes each line.

* `unqueue`: `can_unqueue_ticket` says that it requires authority "that remains valid after
  queue removal", and lets an ordinary grant vouch for a reassigning one that is confined to the
  queue (`tickets/permissions.py:212`).
* `create_authority`: the creation of an IT child can commit after the authority for it
  was withdrawn (`docs/roadmap.md:31` says mutations recheck it under locks).

### Known not to hold

These are stated in the modules and checked by no run, as the code does not keep them.

* `OriginalSlaPreserved`: reopening overwrites a breached resolution clock (FR-023 asks to
  preserve the original SLA). `BreachKept`, proved, says that nothing else does.
* `BreachExact`: a clock frozen with less than a second left is completed as breached,
  because `complete_sla` reads whole seconds. `VerdictsEarned` states what does hold.
* `NoDeadlock` with returns of IT children, which lock the parent ticket after user rows.
  `OnlyReturnsDeadlock` and `RequestsEnd` state what does hold.
* A counter three or more behind is never caught up: all three attempts collide and are rolled
  back with the counter. `CreationGetsThrough` is checked for one that is two behind.
* `AccessLogsKept`: the log of a download between selection and locks is disposed of although
  it is young.
* `NumberNamesOneContact`: two first messages of a number at once make two contacts, since
  `phone_e164` is not unique; later messages of it fail. `IntakeGetsThrough` leaves such
  numbers out.
* `AssigneeCanWork`: a national role without an office, or an administrator whose role names
  another office than the one assigned, may be given a ticket and not work on it.
  `LocalAssigneeCanWork` leaves both out.
* `StatusUpdatedByChange`: the restatement of an escalation moves the requester's
  "status updated" time without a change of status.

## 4. Proofs

TLAPS checks, for every value of the constants that satisfies the named assumptions:

`TicketProofs` has the clocks, the ticket and the IT children, in this order.

*Clocks.* The inductive invariant `ClockInv` strengthens `EntitlementConserved`:
each clock is *sound* (what it has run plus what its row says is left is its target, a
closed clock has the verdict it earned, an escalated one has used its share), alerts equal
the escalated flag, and no sweep holds a time of the future. That last conjunct is why a
stale sweep does no harm: business time is monotonic, so what was due at an earlier time
is due now. The operators get a lemma each (`PauseSound`, `ResumeSound`, `CompleteSound`,
`EvaluateSound`, `TickSound`), and `NextInv` has one step for each action. From it follow
`ClockTypes`, `EntitlementTheorem`, `VerdictTheorem`, `EscalationTheorem`; the
action properties and `FrozenTheorem` use the type invariant alone. Assumptions:
`KindsAssumption`, `CalendarAssumption`, `DeadlineAssumption` (the calendar keeps opening
within the horizon), `WaitingAssumption`, `InitialAssumption`, `OutcomeAssumption`.

*The ticket.* `ClocksImplemented`: every step of the lifecycle is a step of
`SlaClock` or leaves it alone, so the theorems above hold of every ticket
(`TicketEntitlement`, `TicketFrozen`). `NoLostUpdateTheorem` rests on `TokenInv`: a view
whose token is the row's shows the row's facts, and no token is from the future. It needs
the view's *facts*, which the property is about, tied to the version, and versions that
only grow.

`CustodyTheorem`: the ticket implements `CustodyLedger`. `LedgerInv` says that
the ledger is a sequence of custody events, continuous, and tells the facts. `ChainOne` and
`ChainSame` are the two ways it grows: an event that starts from the present facts and leads to
new ones, and any number of events that restate a fact (a sweep writes one for each
clock). One lemma for each operation shows that what it writes is such an event or two of
them with the facts between (owner changed, status not yet).

`LogsTheorem`: the history, which the transition writes, and the ledger, which every service
writes, tell the same changes of status in the same order. `LogsInv` adds that the history ends
with the status of now. An operation either moves the status and appends one row and, among its events,
one change of status (`ChangeAdded`), or appends only events that are *quiet* (`QuietKeeps`).

`ResolutionTheorem`: a resolution is on record exactly while it should be. That depends on the
workflow: a resolved ticket may only be reopened or closed, a closed one stays closed, and no
ticket starts in either (`KeepsOutcome`). `DeliveredKeepOutcome` proves it of both delivered
workflows.

*IT children.* `ItSteps`: to the parent, the creation of a child and its return are one more
change of status along an edge of the workflow. So clocks, views, ledger, logs and
resolution carry over (`ItClocksImplemented`, `ItNoLostUpdate`, `ItCustody`, `ItLogs`,
`ItResolution`), and `ReturnTheorem`, that a return ends the wait and leaves no clock frozen for
it, follows from `FrozenOnlyWhileWaiting` and `ItWaitingAssumption`.

`MutationLocksProofs`. `LockInv`: a transaction holds exactly the rows among the steps it has
done, all of which come in earlier stages than what is left. If `w` waits for `v` and neither
serves a return, the two agree on the stage of the row between them (`StageIsShared`), so
`v` waits in a later stage (`StagesAscend`); a circle would have no last one. Hence
`OnlyReturnsTheorem`, and `OthersNeverDeadlock` for requests without returns. Whoever has
rechecked authority holds the actor's row, and a change of authority needs it
(`RecheckedHoldsActor`): hence `AuthorisedTheorem`, for requests that create no IT child.
`OrderAssumption` asks of the lock order only that it lists users before grants, each row
once.

`TicketReferencesProofs`. `RefInv` adds to the types who holds the counter row, that no number
issued is above the counter, and where a transaction is (`Ahead`): never behind the counter, and
between the two there are only numbers that tickets had without it. It is why a rolled back
attempt burns no number and why a disposed ticket's number does not come back.

`RetentionProofs`. `RetInv` ties the two stores together: a file with a row is stored and has
no job, one with a job has no row and a committed run, what an upload holds has neither
(`FilesInv`, `UploadInv`); what a run has decided about a ticket or message stays true while
it has the lock (`RunInv`, the point of locking before selecting again); and two workers never
hold the same job nor finish the same event (`WorkerInv`). From it follow
`DisposalTheorem`, `ForgottenTheorem` and the refinement `LifecycleTheorem`.

`WhatsappProofs`. `WInv` says that an id is linked to one message, the one the provider knows
by it; that the two rows of a message agree; and what the rows hold at each step of the request.
A report can then only concern a finished request, which is why the two writers do not
undo each other.

`AccessProofs`. The rules are functions of one snapshot, so these are not inductions over
behaviours but over the shape of scopes: normalisation drops only what another scope
covers (`NormalisedCovers`), a confined snapshot only has scopes that were granted, within
the office, and a grant that matches a ticket therefore has a scope in the snapshot that sees
it. `AccessAssumption` asks that configured scopes are scopes.

`ChannelIntakeProofs`. `IInv` says what the tables know of each other (a claim implies a record,
a record is one home of its message, copies count the homes) and what a transaction in hand
may rely on: what it claimed nobody else has claimed, what it found claimed is recorded
already, what it filed is threaded to what is committed or its own. A commit then adds
homes of messages nobody has filed: hence `OneRecordTheorem`, `AckedTheorem`,
`ThreadTheorem` and the refinement `FilingTheorem`; crash, fault and deadlock give up the
claims and everything that rests on them together.

`CustodyTimelineProofs`. `TimelineInvariant` is the inductive invariant behind the four theorems
about ledger and timelines. It says, for any workflow and any number of requests and
sweeps: transition rows and audit rows follow each other in time and each continues from
what the last one said (`HistoryInv`, `AuditInv`); every event stands for exactly one thing that
happened, a row, a field, the creation without a row or an escalation, and was dated between
that row and the one before it (`EventsInv`); if there is an event for the creation, there is one for
everything (`CoverageInv`, which is what the two gaps of the deployment come down to: a ticket
is backfilled as a whole or not at all); the ledger tells before and now (`TruthInv`); the last
milestone is the status of now (`LastInv`, which survives an escalation dated earlier than
rows already written, because it restates the status); and a backfill that found no
events and still finds none has read what is there (`DeploymentInv`).

Every request of either code is shown to be a `Change`: it moves the status or not, owner and
queue or not, and records an event for each aspect it moves. `ChangeKeeps` is then proved
once. The backfill (`BackfillFilledKeeps`) is the one step that writes many events: its
sources, in their order, are shown to stand for each row and field once (`SourcesOnce`) and to
tell before and now (`StatusTold`, `FieldTold`). Sorting is defined by counting what lies
below, so that no induction is needed: `SortedLists` and `ListIsSorted` follow from
cardinalities of finite sets. `RecordCustody` chains rows to those before (`Recorded`).

`ChainTheorem` follows with the injectivity of the digest, `LedgerTheorem` with the
greatest index of a finite set. For `ProgressTheorem`, each transition row has one milestone, its
event's or its own, no earlier than the row before and no later than itself; so the
sorted milestones are the statuses in the order entered (`EnteredWithCreation`,
`EnteredWithoutCreation`), and leaving out repeated labels does not change the last one
(`CollapseEnds`, by a least counterexample). `ActivityTheorem` follows from `Once` and
coverage. `TimelineAssumption` asks only that null is no status, member of staff or queue.

Only model-checked: liveness (`OverdueIsNoticed`, `RequestsEnd`, `CreationGetsThrough`,
`CommittedIsCertified`, `ReportsGetThrough`, `IntakeGetsThrough`), which is out of the prover's
reach. Every other property of a passing run is stated by a theorem.

## 5. Not modelled

`PROJECT.json` gives each component its status and reason. Within the modelled parts:

* the recovery of clock rows older than the microsecond column
  (`sla/services.py:246-288`), whose rows no present code can write; pause history, the
  outbox; notes, links and messages beyond the first response; waiting reasons, which
  `transition_ticket` does not clear;
* a policy without a resolution target, and the clocks of cancelled or rejected tickets, which
  sweeps go on to escalate; a cancelled IT child, which never releases its parent;
* an upload whose commit succeeds while the client sees an error: it deletes objects that
  have rows; the expiry of a legal hold, which no code reads; tables other than tickets and
  messages, disposed of by the same function with fewer dependents;
* listing of templates, signatures, the shape of payloads, the choice of service and office
  for inbound mail; a batch of which every event is too old, refused as a whole;
* verification of tokens and sanitisation, which are pure;
* the arithmetic of business calendars over weekly hours, holidays and time zones;
* monitoring alerts (a lookup, a creation and a save without locks: two deliveries of one alert
  can make two tickets), automation (saves a ticket it read earlier; its functions have no caller
  outside the tests), CSAT (a second submission at the same time is refused by a lookup only),
  reporting, knowledge and the front end.

## 6. Plan

1. Clocks, ticket, custody, IT children, locks, references, attachments, retention, channels,
   access, timelines: modelled, checked, and their safety proved.
2. Next: the calendar's arithmetic against a reference over bounded weeks, which would
   discharge `CalendarAssumption`; a proof that the refinement of `CustodyLedger` and the ledger
   of `CustodyTimeline` are one (two modules record custody events, at two levels of detail).
3. Then: monitoring, and the editing of workflows and users by administrators.
