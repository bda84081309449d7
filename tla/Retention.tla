-------------------------------- MODULE Retention --------------------------------
(***************************************************************************)
(* The disposal of expired records (administration/retention.py) and its   *)
(* side effects (administration/tasks.py), beside uploads, holds and new   *)
(* messages.  A run is one transaction over several tables: it lists       *)
(* candidates, locks them ticket by ticket, selects again under the locks  *)
(* and deletes.  Stored files are deleted later, one job each, by any      *)
(* number of workers; the certificate of the run is published last.        *)
(***************************************************************************)
EXTENDS AttachmentStore

CONSTANTS
  Events,     \* disposal runs
  Workers,    \* processes of process_retention_side_effects
  Policies    \* policies an administrator may configure: days per table

Committed == [step |-> "committed"]

ASSUME PolicyAssumption ==
  /\ \A p \in Policies : /\ DOMAIN p \subseteq {"ticket_message", "ticket"}
                         /\ \A table \in DOMAIN p : p[table] \in Nat \ {0}
  /\ None \notin Events \union Workers \union {Committed}
  /\ Events \intersect Uploads = {}

VARIABLES
  held,          \* tickets on legal hold, by themselves, a message or a note
  messages,      \* the messages there are: ticket and date
  run,           \* each run, None before it starts and when it was rolled back
  job,           \* the run that wants an object deleted (ObjectDeleteJob), or None
  jobDone,       \* jobs that are completed
  cleaned,       \* runs with object_cleanup_completed_at
  certificates,  \* certificate files
  exported,      \* runs with certificate_exported_at
  worker         \* each worker: its step, its job, whether it was the last one

runVars == <<held, messages, run>>
effectVars == <<job, jobDone, cleaned, certificates, exported, worker>>
retentionVars == <<day, tickets, lock, storeVars, runVars, effectVars>>

InProgress(e) == run[e] \notin {None, Committed}

RetentionInit ==
  /\ StoreInit
  /\ held = {}
  /\ messages = {<<t, 0>> : t \in tickets}
  /\ run = [e \in Events |-> None]
  /\ job = [o \in Objects |-> None]
  /\ jobDone = {}
  /\ cleaned = {} /\ certificates = {} /\ exported = {}
  /\ worker = [w \in Workers |-> [step |-> "idle", object |-> None, last |-> FALSE]]

-----------------------------------------------------------------------------
(* What goes on beside the runs.                                            *)

NextDay ==
  /\ \E later \in Dates : /\ day < later
                          /\ \A d \in Dates : d <= day \/ later <= d
                          /\ day' = later
  /\ UNCHANGED <<tickets, lock, storeVars, runVars, effectVars>>

(* A hold is a change of the row, and a message is added under the lock.    *)
SetHold(t) ==
  /\ t \in tickets
  /\ lock[t] = None
  /\ held' = IF t \in held THEN held \ {t} ELSE held \union {t}
  /\ UNCHANGED <<day, tickets, lock, storeVars, messages, run, effectVars>>

AddMessage(t) ==
  /\ t \in tickets
  /\ lock[t] = None
  /\ messages' = messages \union {<<t, day>>}
  /\ UNCHANGED <<day, tickets, lock, storeVars, held, run, effectVars>>

-----------------------------------------------------------------------------
(* A run.                                                                   *)

StartRun(e, policy, only) ==
  /\ run[e] = None
  /\ only # {}
  /\ run' = [run EXCEPT ![e] =
       [step |-> "next", now |-> day, policy |-> policy, todo |-> only, table |-> None,
        candidates |-> {}, selected |-> {}, selectedMessages |-> {},
        gone |-> {}, goneMessages |-> {}, jobs |-> {}]]
  /\ UNCHANGED <<day, tickets, lock, storeVars, held, messages, effectVars>>

(* A row of that date is older than the table's class allows.               *)
Expired(e, table, date) == date + run[e].policy[table] < run[e].now

(* The rows the run's own transaction sees.                                 *)
TicketsLeft(e) == tickets \ run[e].gone
MessagesLeft(e) == {m \in messages \ run[e].goneMessages : m[1] \notin run[e].gone}

CandidateTicketIds(e, table) ==
  IF table = "ticket"
    THEN {t \in TicketsLeft(e) : Expired(e, "ticket", 0)}
    ELSE {m[1] : m \in {n \in MessagesLeft(e) : Expired(e, "ticket_message", n[2])}}

(* The tables come in the order in which the database keeps the policy.     *)
ListCandidates(e, table) ==
  /\ InProgress(e)
  /\ run[e].step = "next"
  /\ table \in run[e].todo
  /\ run' = [run EXCEPT ![e].step = "locking",
                        ![e].table = table,
                        ![e].candidates = CandidateTicketIds(e, table)]
  /\ UNCHANGED <<day, tickets, lock, storeVars, held, messages, effectVars>>

(* Candidates that are still there and not yet locked by the run.           *)
Unlocked(e) == {t \in run[e].candidates \intersect tickets : lock[t] # e}

(* Locked one by one in the order of their keys.                            *)
LockHoldGraph(e) ==
  /\ InProgress(e)
  /\ run[e].step = "locking"
  /\ \E t \in Unlocked(e) :
       /\ \A s \in Unlocked(e) : t <= s
       /\ lock[t] = None
       /\ lock' = [lock EXCEPT ![t] = e]
  /\ UNCHANGED <<day, tickets, storeVars, runVars, effectVars>>

(* A dependent row blocks the disposal of its parent until its own class,   *)
(* or the parent's when it has none of its own, has expired.  A table with  *)
(* a class of its own that the policy leaves out blocks for ever.           *)
Blocked(e, t) ==
  \/ \E m \in MessagesLeft(e) :
       /\ m[1] = t
       /\ "ticket_message" \in DOMAIN run[e].policy => ~Expired(e, "ticket_message", m[2])
  \/ \E o \in Objects :
       /\ row[o] = t
       /\ \/ ~Expired(e, "ticket", uploaded[o])
          \/ accessed[o] # None /\ ~Expired(e, "ticket", accessed[o])

DisposableTickets(e) ==
  {t \in CandidateTicketIds(e, "ticket") : t \notin held /\ ~Blocked(e, t)}
DisposableMessages(e) ==
  {m \in MessagesLeft(e) : m[1] \notin held /\ Expired(e, "ticket_message", m[2])}

Selected(e) ==
  run' = [run EXCEPT ![e] = [@ EXCEPT
    !.step = "selected",
    !.selected = IF run[e].table = "ticket" THEN DisposableTickets(e) ELSE {},
    !.selectedMessages = IF run[e].table = "ticket" THEN {} ELSE DisposableMessages(e)]]

(* Mutant: selected with the candidates, before they are locked.            *)
SelectDisposal_BeforeLocks(e) ==
  /\ InProgress(e)
  /\ run[e].step = "locking"
  /\ Selected(e)
  /\ UNCHANGED <<day, tickets, lock, storeVars, held, messages, effectVars>>

SelectDisposal(e) ==
  /\ InProgress(e)
  /\ run[e].step = "locking"
  /\ Unlocked(e) = {}
  /\ Selected(e)
  /\ UNCHANGED <<day, tickets, lock, storeVars, held, messages, effectVars>>

AttachmentsOf(S) == {o \in Objects : row[o] \in S}

(* The rows are deleted and their files get jobs.                           *)
Deleted(e, files) ==
  LET r == run[e] IN
  run' = [run EXCEPT ![e] = [r EXCEPT
    !.step = "next", !.todo = r.todo \ {r.table}, !.candidates = {},
    !.selected = {}, !.selectedMessages = {},
    !.gone = r.gone \union r.selected,
    !.goneMessages = r.goneMessages \union r.selectedMessages,
    !.jobs = r.jobs \union files]]

(* Mutant: attachments without coordinates are left out of the jobs.        *)
DeleteWithOrm_SkipsLegacy(e) ==
  /\ InProgress(e)
  /\ run[e].step = "selected"
  /\ Deleted(e, AttachmentsOf(run[e].selected) \ Legacy)
  /\ UNCHANGED <<day, tickets, lock, storeVars, held, messages, effectVars>>

(* The attachments are locked and get their jobs, the rows are deleted; all *)
(* of it becomes visible at commit.  An attachment without coordinates      *)
(* makes the run fail (RollBack).                                           *)
DeleteWithOrm(e) ==
  /\ InProgress(e)
  /\ run[e].step = "selected"
  /\ AttachmentsOf(run[e].selected) \intersect Legacy = {}
  /\ Deleted(e, AttachmentsOf(run[e].selected))
  /\ UNCHANGED <<day, tickets, lock, storeVars, held, messages, effectVars>>

(* A missing coordinate, an error of the database, the end of the process.  *)
RollBack(e) ==
  /\ InProgress(e)
  /\ run' = [run EXCEPT ![e] = None]
  /\ lock' = Release(e)
  /\ UNCHANGED <<day, tickets, storeVars, held, messages, effectVars>>

(* The event is finalised: without open jobs its cleanup is complete.       *)
CommitRun(e) ==
  LET r == run[e] IN
  /\ InProgress(e)
  /\ r.step = "next"
  /\ r.todo = {}
  /\ tickets' = tickets \ r.gone
  /\ held' = held \ r.gone
  /\ messages' = MessagesLeft(e)
  /\ row' = [o \in Objects |-> IF row[o] \in r.gone THEN None ELSE row[o]]
  /\ accessed' = [o \in Objects |-> IF row[o] \in r.gone THEN None ELSE accessed[o]]
  /\ job' = [o \in Objects |-> IF o \in r.jobs THEN e ELSE job[o]]
  /\ cleaned' = IF r.jobs = {} THEN cleaned \union {e} ELSE cleaned
  /\ run' = [run EXCEPT ![e] = Committed]
  /\ lock' = Release(e)
  /\ UNCHANGED <<day, uploaded, store, used, upload, lost, jobDone,
                 certificates, exported, worker>>

-----------------------------------------------------------------------------
(* Side effects.                                                            *)

SetWorker(w, step, o, last) ==
  worker' = [worker EXCEPT ![w] = [step |-> step, object |-> o, last |-> last]]

(* A due job that no other worker has locked (skip_locked).                 *)
ClaimJob(w, o) ==
  /\ worker[w].step = "idle"
  /\ job[o] # None
  /\ o \notin jobDone
  /\ \A v \in Workers : worker[v].object # o
  /\ SetWorker(w, "claimed", o, FALSE)
  /\ UNCHANGED <<day, tickets, lock, storeVars, runVars,
                 job, jobDone, cleaned, certificates, exported>>

(* Deleting a version that is gone already counts as done.                  *)
DeleteObject(w) ==
  /\ worker[w].step = "claimed"
  /\ store' = store \ {worker[w].object}
  /\ SetWorker(w, "deleted", worker[w].object, FALSE)
  /\ UNCHANGED <<day, tickets, lock, row, uploaded, accessed, used, upload, lost, runVars,
                 job, jobDone, cleaned, certificates, exported>>

(* The store fails, or its answer is lost: the job is tried again later.    *)
DeleteFails(w, deleted) ==
  /\ worker[w].step = "claimed"
  /\ store' = IF deleted THEN store \ {worker[w].object} ELSE store
  /\ SetWorker(w, "idle", None, FALSE)
  /\ UNCHANGED <<day, tickets, lock, row, uploaded, accessed, used, upload, lost, runVars,
                 job, jobDone, cleaned, certificates, exported>>

OthersDone(o) == \A p \in Objects \ {o} : job[p] = job[o] => p \in jobDone

(* Mutants: the event is not locked; open jobs are not looked for.          *)
LockEvent_Unlocked(w) ==
  /\ worker[w].step = "deleted"
  /\ SetWorker(w, "locked", worker[w].object, OthersDone(worker[w].object))
  /\ UNCHANGED <<day, tickets, lock, storeVars, runVars,
                 job, jobDone, cleaned, certificates, exported>>
LockEvent_AssumesLast(w) ==
  /\ worker[w].step = "deleted"
  /\ SetWorker(w, "locked", worker[w].object, TRUE)
  /\ UNCHANGED <<day, tickets, lock, storeVars, runVars,
                 job, jobDone, cleaned, certificates, exported>>

(* The event's row is locked, then other open jobs are looked for.          *)
LockEvent(w) ==
  /\ worker[w].step = "deleted"
  /\ \A v \in Workers :
       worker[v].step = "locked" => job[worker[v].object] # job[worker[w].object]
  /\ SetWorker(w, "locked", worker[w].object, OthersDone(worker[w].object))
  /\ UNCHANGED <<day, tickets, lock, storeVars, runVars,
                 job, jobDone, cleaned, certificates, exported>>

CompleteJob(w) ==
  /\ worker[w].step = "locked"
  /\ jobDone' = jobDone \union {worker[w].object}
  /\ cleaned' = IF worker[w].last THEN cleaned \union {job[worker[w].object]} ELSE cleaned
  /\ SetWorker(w, "idle", None, FALSE)
  /\ UNCHANGED <<day, tickets, lock, storeVars, runVars, job, certificates, exported>>

WorkerCrash(w) ==
  /\ worker[w].step # "idle"
  /\ SetWorker(w, "idle", None, FALSE)
  /\ UNCHANGED <<day, tickets, lock, storeVars, runVars,
                 job, jobDone, cleaned, certificates, exported>>

(* Mutant: published as soon as the run has committed.                      *)
WriteCertificate_AtCommit(e) ==
  /\ run[e] = Committed
  /\ e \notin exported
  /\ certificates' = certificates \union {e}
  /\ UNCHANGED <<day, tickets, lock, storeVars, runVars, job, jobDone, cleaned, exported, worker>>

(* By the run itself, the periodic task or --retry-event; the same file may *)
(* be written again.                                                        *)
WriteCertificate(e) ==
  /\ e \in cleaned \ exported
  /\ certificates' = certificates \union {e}
  /\ UNCHANGED <<day, tickets, lock, storeVars, runVars, job, jobDone, cleaned, exported, worker>>

RecordExport(e) ==
  /\ e \in certificates \ exported
  /\ exported' = exported \union {e}
  /\ UNCHANGED <<day, tickets, lock, storeVars, runVars,
                 job, jobDone, cleaned, certificates, worker>>

-----------------------------------------------------------------------------
AttachmentLocked(o) == \E e \in Events : InProgress(e) /\ o \in run[e].jobs

StoreSteps ==
  /\ \/ \E u \in Uploads : UploadStep(u)
     \/ \E o \in Objects : Download(o, AttachmentLocked(o))
  /\ UNCHANGED <<runVars, effectVars>>

RunSteps(e) ==
  \/ \E p \in Policies : \E only \in SUBSET DOMAIN p : StartRun(e, p, only)
  \/ \E table \in {"ticket_message", "ticket"} : ListCandidates(e, table)
  \/ LockHoldGraph(e) \/ SelectDisposal(e)
  \/ DeleteWithOrm(e) \/ RollBack(e) \/ CommitRun(e)
  \/ WriteCertificate(e) \/ RecordExport(e)

WorkerSteps(w) ==
  \/ \E o \in Objects : ClaimJob(w, o)
  \/ DeleteObject(w)
  \/ \E deleted \in BOOLEAN : DeleteFails(w, deleted)
  \/ LockEvent(w) \/ CompleteJob(w) \/ WorkerCrash(w)

RetentionNext ==
  \/ NextDay
  \/ \E t \in Tickets : SetHold(t) \/ AddMessage(t)
  \/ StoreSteps
  \/ \E e \in Events : RunSteps(e)
  \/ \E w \in Workers : WorkerSteps(w)

RetentionSpec == RetentionInit /\ [][RetentionNext]_retentionVars

(* The side effects run every minute; the object store, the file system and *)
(* the workers may fail again and again, but not each time.                 *)
SideEffectFairness ==
  /\ WF_retentionVars(\E w \in Workers, o \in Objects : ClaimJob(w, o))
  /\ SF_retentionVars(\E w \in Workers : DeleteObject(w))
  /\ SF_retentionVars(\E w \in Workers : LockEvent(w))
  /\ SF_retentionVars(\E w \in Workers : CompleteJob(w))
  /\ \A e \in Events : WF_retentionVars(WriteCertificate(e)) /\ WF_retentionVars(RecordExport(e))

FairRetentionSpec == RetentionSpec /\ SideEffectFairness

-----------------------------------------------------------------------------
(* What retention promises.                                                 *)

RunRecord ==
  [step : {"next", "locking", "selected"}, now : Dates, policy : Policies,
   todo : SUBSET {"ticket_message", "ticket"}, table : {"ticket_message", "ticket", None},
   candidates : SUBSET Tickets, selected : SUBSET Tickets,
   selectedMessages : SUBSET (Tickets \X Dates),
   gone : SUBSET Tickets, goneMessages : SUBSET (Tickets \X Dates), jobs : SUBSET Objects]

RetentionTypeOK ==
  /\ StoreTypeOK
  /\ day \in Dates
  /\ lock \in [Tickets -> Uploads \union Events \union {None}]
  /\ held \subseteq tickets
  /\ messages \subseteq tickets \X Dates
  /\ run \in [Events -> RunRecord \union {None, Committed}]
  /\ job \in [Objects -> Events \union {None}]
  /\ jobDone \subseteq {o \in Objects : job[o] # None}
  /\ cleaned \subseteq Events
  /\ certificates \subseteq cleaned
  /\ exported \subseteq certificates
  /\ worker \in [Workers -> [step : {"idle", "claimed", "deleted", "locked"},
                              object : Objects \union {None}, last : BOOLEAN]]

(* Retention never disposes of a ticket, or of a message, that is on hold   *)
(* when the disposal commits, nor of a ticket with a message or attachment  *)
(* that is younger than the policy allows: whatever was placed, added or    *)
(* uploaded between the listing of candidates and their locks is seen.      *)
OnlyExpiredDisposed ==
  [][\A e \in Events : CommitRun(e) =>
       /\ \A t \in tickets \ tickets' :
            /\ t \notin held
            /\ \A o \in AttachmentsOf({t}) : Expired(e, "ticket", uploaded[o])
            /\ \A m \in messages : m[1] = t => Expired(e, "ticket_message", m[2])
       /\ \A m \in messages \ messages' : m[1] \notin held]_retentionVars

(* The same for the log of a download: dependents age with their ticket     *)
(* (_orm_disposal_queryset).                                                *)
AccessLogsKept ==
  [][\A e \in Events : CommitRun(e) =>
       \A o \in AttachmentsOf(tickets \ tickets') :
         accessed[o] # None => Expired(e, "ticket", accessed[o])]_retentionVars

(* No stored file is forgotten: there is a row for it, a job that will      *)
(* delete it, a request that is still at it, or it was left behind by a     *)
(* crash or a failed clean-up.                                              *)
NoForgottenObject ==
  \A o \in store :
    \/ row[o] # None
    \/ job[o] # None /\ o \notin jobDone
    \/ \E u \in Uploads : o \in StoredBy(u)
    \/ o \in lost

(* A committed run gets its certificate, however its last jobs interleave,  *)
(* fail and are tried again.                                                *)
CommittedIsCertified ==
  \A e \in Events : run[e] = Committed ~> e \in exported

(* The life of the stored files, from upload to certificate.  A row without *)
(* its object has no phase.                                                 *)
Phase == [o \in Objects |->
  IF job[o] # None THEN <<IF o \in store THEN "condemned" ELSE "removed", job[o]>>
  ELSE IF row[o] # None THEN <<IF o \in store THEN "attached" ELSE "dangling", None>>
  ELSE <<IF o \in store THEN "stored" ELSE "absent", None>>]

Lifecycle == INSTANCE ObjectLifecycle
  WITH Object <- Objects, Event <- Events, NoEvent <- None, phase <- Phase, certified <- certificates

(* Uploads, disposals and workers together keep the promise of              *)
(* ObjectLifecycle: rows have their objects, and a certificate is last.     *)
ObjectsFollowLifecycle == Lifecycle!LifecycleSpec
=============================================================================
