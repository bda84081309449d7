------------------------------- MODULE SlaClock -------------------------------
(***************************************************************************)
(* The SLA clocks of one ticket over its life: a ticket moves through its  *)
(* workflow, staff answer the requester, time passes, and periodic sweeps  *)
(* (sla/services.py, evaluate_open_slas) escalate and breach the clocks.   *)
(* A sweep reads the time and its candidates when it begins and locks the  *)
(* ticket only later, so it works with a stale time while workflow         *)
(* transitions commit in between; two sweeps can overlap.                  *)
(***************************************************************************)
EXTENDS SlaInstance

CONSTANTS
  InitialStatus,   \* status of a new ticket
  Edges,           \* pairs of statuses a writer moves the ticket between
  Waiting,         \* paused SLA state of each waiting status
  Sweepers         \* Celery workers that can run the periodic evaluator

Statuses == {InitialStatus} \union {e[1] : e \in Edges} \union {e[2] : e \in Edges}

ASSUME WaitingAssumption == DOMAIN Waiting \subseteq Statuses
                            /\ Waiting \in [DOMAIN Waiting -> Paused]
ASSUME InitialAssumption == InitialStatus \notin DOMAIN Waiting
(* A reopened or resolved ticket is not waiting for anybody.               *)
ASSUME OutcomeAssumption == DOMAIN Waiting \intersect {"resolved", "reopened"} = {}

VARIABLES
  now,        \* wall time
  status,     \* status code of the ticket
  responded,  \* first_responded_at is set
  sla,        \* the SlaInstance row of each kind
  sweep,      \* what each running sweep has read: its time and its candidates
  ran,        \* history: business time each clock has run since it started
  alerts      \* history: "escalated" events recorded since the clock started

clockVars == <<now, status, responded, sla, sweep, ran, alerts>>

Idle == [at |-> None, pending |-> {}]

ClockInit ==
  /\ now = 0
  /\ status = InitialStatus
  /\ responded = FALSE
  /\ sla = [k \in Kinds |-> NoInstance]
  /\ sweep = [w \in Sweepers |-> Idle]
  /\ ran = [k \in Kinds |-> 0]
  /\ alerts = [k \in Kinds |-> 0]

(* The intake view materialises the clocks after create_ticket committed,  *)
(* each in a transaction of its own.  They start at ticket.created_at, at  *)
(* instant 0, however late they are written; a target that the policy      *)
(* leaves out, or that a failed request did not reach, is never written.   *)
InstantiateSla(k) ==
  /\ sla[k].state = "absent"
  /\ sla' = [sla EXCEPT ![k] = StartedAt(k, 0)]
  /\ ran' = [ran EXCEPT ![k] = Elapsed[now] - Elapsed[0]]
  /\ UNCHANGED <<now, status, responded, sweep, alerts>>

(* Any accepted status change, with the synchronisation it carries.        *)
SyncStatus(to) ==
  /\ <<status, to>> \in Edges
  /\ status' = to
  /\ sla' = SyncSlasForTransition(sla, Waiting, status, to, now)
  /\ ran' = [k \in Kinds |-> IF k = "resolution" /\ to = "reopened" THEN 0 ELSE ran[k]]
  /\ alerts' = [k \in Kinds |-> IF k = "resolution" /\ to = "reopened" THEN 0 ELSE alerts[k]]
  /\ UNCHANGED <<now, responded, sweep>>

(* The first outbound message that counts as delivered.                    *)
FirstResponse ==
  /\ ~responded
  /\ responded' = TRUE
  /\ sla' = [sla EXCEPT !["first_response"] = CompleteSla(@, now)]
  /\ UNCHANGED <<now, status, sweep, ran, alerts>>

(* Time passes; a clock consumes business time only while it is active.    *)
Tick ==
  /\ now < MaxTime
  /\ now' = now + 1
  /\ ran' = [k \in Kinds |->
               IF sla[k].state = "active"
                 THEN ran[k] + (Elapsed[now + 1] - Elapsed[now]) ELSE ran[k]]
  /\ UNCHANGED <<status, responded, sla, sweep, alerts>>

(***************************************************************************)
(* The periodic evaluator.                                                 *)
(***************************************************************************)
(* Mutant: a sweep passes over the clocks that have escalated.             *)
SweepStart_Unescalated(w) ==
  LET fresh == {k \in Kinds : sla[k].state \in Open /\ ~sla[k].escalated}
  IN  /\ sweep[w] = Idle
      /\ fresh # {}
      /\ sweep' = [sweep EXCEPT ![w] = [at |-> now, pending |-> fresh]]
      /\ UNCHANGED <<now, status, responded, sla, ran, alerts>>

SweepStart(w) ==
  /\ sweep[w] = Idle
  /\ \E k \in Kinds : sla[k].state \in Open
  /\ sweep' = [sweep EXCEPT
                 ![w] = [at |-> now, pending |-> {k \in Kinds : sla[k].state \in Open}]]
  /\ UNCHANGED <<now, status, responded, sla, ran, alerts>>

(* The sweep holds the ticket lock from the first candidate at which it    *)
(* gets it until it commits, so its writes to the ticket's clocks are one  *)
(* step; the candidates before, met while the row was locked by somebody   *)
(* else, are passed over (skip_locked).  Each clock is read again under    *)
(* the lock; one that is closed is passed.                                 *)
SweepTicket(w, due) ==
  LET at == sweep[w].at
  IN  /\ sweep[w] # Idle
      /\ due \subseteq sweep[w].pending
      /\ sla' = [k \in Kinds |->
                   IF k \in due THEN EvaluateSla(k, sla[k], at) ELSE sla[k]]
      /\ alerts' = [k \in Kinds |->
                      IF k \in due /\ Escalates(k, sla[k], at)
                        THEN alerts[k] + 1 ELSE alerts[k]]
      /\ sweep' = [sweep EXCEPT ![w] = Idle]
      /\ UNCHANGED <<now, status, responded, ran>>

(* The row is locked at every candidate, or the sweep's transaction is     *)
(* rolled back: nothing of it remains.                                     *)
SweepSkip(w) ==
  /\ sweep[w] # Idle
  /\ sweep' = [sweep EXCEPT ![w] = Idle]
  /\ UNCHANGED <<now, status, responded, sla, ran, alerts>>

ClockNext ==
  \/ \E k \in Kinds : InstantiateSla(k)
  \/ \E to \in Statuses : SyncStatus(to)
  \/ FirstResponse
  \/ Tick
  \/ \E w \in Sweepers : SweepStart(w) \/ SweepSkip(w)
  \/ \E w \in Sweepers, due \in SUBSET Kinds : SweepTicket(w, due)

ClockSpec == ClockInit /\ [][ClockNext]_clockVars

(* Celery beat starts a sweep every minute, and a ticket is not locked at  *)
(* every sweep for ever: a request holds its row lock for one transaction, *)
(* so that again and again a sweep gets it at its first candidate.         *)
SweepFairness ==
  \A w \in Sweepers : /\ WF_clockVars(SweepStart(w))
                      /\ SF_clockVars(SweepTicket(w, sweep[w].pending))

FairClockSpec == ClockSpec /\ SweepFairness

(***************************************************************************)
(* What the clocks promise.                                                *)
(***************************************************************************)
ClockTypeOK ==
  /\ now \in Moments
  /\ status \in Statuses
  /\ responded \in BOOLEAN
  /\ sla \in [Kinds -> SlaInstances]
  /\ sweep \in [Sweepers -> [at : Moments \union {None}, pending : SUBSET Kinds]]
  /\ ran \in [Kinds -> Nat]
  /\ alerts \in [Kinds -> Nat]

(* Pausing and resuming neither lose nor create entitlement: what a clock  *)
(* has run plus what its row says is left is its target, through every     *)
(* pause, relabelling and closed period; a row that says nothing is left   *)
(* belongs to a clock that has used up its target.                         *)
EntitlementOf(k) ==
  LET inst == sla[k] IN
  /\ inst.state = "active" /\ inst.remaining = None
       => ran[k] + Elapsed[inst.due] = Target[k] + Elapsed[now]
  /\ inst.state \in Paused /\ inst.remaining # 0
       => ran[k] + inst.remaining = Target[k]
  /\ inst.state \in Open /\ inst.remaining = 0
       => ran[k] >= Target[k]

EntitlementConserved == \A k \in Kinds : EntitlementOf(k)

(* A verdict is earned: a clock is met only with target time left, and is  *)
(* breached only when less than a second of it is left (complete_sla reads *)
(* whole seconds from a frozen clock), whatever stale time a sweep holds.  *)
VerdictsEarned ==
  \A k \in Kinds :
    /\ sla[k].state = "met" => ran[k] < Target[k]
    /\ sla[k].state = "breached" => ran[k] + TicksPerSecond > Target[k]

(* An escalation is recorded at most once for a clock, and only when the   *)
(* escalation share of the target has been used, even when sweeps overlap. *)
EscalationEarnedOnce ==
  \A k \in Kinds :
    /\ alerts[k] = IF sla[k].escalated THEN 1 ELSE 0
    /\ sla[k].escalated => ran[k] * 100 >= Target[k] * EscalationPercent

(* No clock stays frozen once the ticket has left the waiting status that  *)
(* froze it, and a frozen clock names the reason of the current status.    *)
FrozenOnlyWhileWaiting ==
  \A k \in Kinds :
    sla[k].state \in Paused =>
      status \in DOMAIN Waiting /\ sla[k].state = Waiting[status]

(* Entering a waiting status freezes every clock that is running.          *)
WaitingFreezes ==
  [][status' # status /\ status' \in DOMAIN Waiting =>
       \A k \in Kinds : sla'[k].state # "active"]_clockVars

(* A recorded breach is never erased, except that reopening the ticket     *)
(* measures the resolution anew.                                           *)
BreachKept ==
  [][\A k \in Kinds :
       sla[k].state = "breached" =>
         \/ sla'[k].state = "breached"
         \/ k = "resolution" /\ status' = "reopened"]_clockVars

(* A clock does not stay active past its deadline for ever: some sweep     *)
(* records the breach, or the ticket's own progress settles the clock.     *)
OverdueIsNoticed ==
  \A k \in Kinds : ~<>[](sla[k].state = "active" /\ sla[k].due <= now)

(* PRD FR-023: reopening preserves the original SLA.                       *)
OriginalSlaPreserved ==
  [][\A k \in Kinds :
       sla[k].state = "breached" => sla'[k].state = "breached"]_clockVars

(* A clock that has business time left is not recorded as breached.        *)
BreachExact ==
  \A k \in Kinds : sla[k].state = "breached" => ran[k] >= Target[k]
=============================================================================
