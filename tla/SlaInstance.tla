----------------------------- MODULE SlaInstance -----------------------------
(***************************************************************************)
(* One SLA clock of a ticket (sla/models.py, SlaInstance) and the          *)
(* functions of sla/services.py that rewrite it: pause, resume, complete,  *)
(* restart and evaluate.  Everything here is a pure operator on a record;  *)
(* SlaClock and the modules above it run them.                             *)
(*                                                                         *)
(* Time is counted in ticks, the model's microseconds.  The business       *)
(* calendar is the function Elapsed: Elapsed[t] is the business time that  *)
(* has gone by at instant t.  It is flat outside opening hours.            *)
(***************************************************************************)
EXTENDS Integers

CONSTANTS
  Kinds,              \* the targets of the policy: "first_response", "resolution"
  Target,             \* the business time each target allows
  EscalationPercent,  \* share of the target after which a clock escalates
  TicksPerSecond,     \* ticks in one second of remaining_business_seconds
  MaxTime,            \* bound: the last instant at which anything happens
  Horizon,            \* bound: the last instant the calendar knows
  Elapsed             \* the calendar

Paused    == {"paused_requester", "paused_internal", "paused_it"}
Open      == {"active"} \union Paused
SlaStates == {"absent", "met", "breached"} \union Open
None      == -1      \* a NULL column

Instants == 0 .. Horizon
Moments  == 0 .. MaxTime

(* The first instant d at which n more ticks of business time than at      *)
(* instant t have gone by.                                                 *)
IsDeadline(t, n, d) ==
  /\ Elapsed[d] = Elapsed[t] + n
  /\ \A u \in 0 .. d - 1 : Elapsed[u] < Elapsed[d]

ASSUME KindsAssumption ==
  /\ {"first_response", "resolution"} \subseteq Kinds
  /\ Target \in [Kinds -> Nat \ {0}]
  /\ EscalationPercent \in 0 .. 100
  /\ TicksPerSecond \in Nat \ {0}

ASSUME CalendarAssumption ==
  /\ MaxTime \in Nat
  /\ Horizon \in Nat
  /\ MaxTime <= Horizon
  /\ Elapsed \in [Instants -> Nat]
  /\ \A s, t \in Instants : s <= t => Elapsed[s] <= Elapsed[t]

(* The calendar keeps opening: every deadline falls within the horizon.    *)
ASSUME DeadlineAssumption ==
  \A k \in Kinds, t \in Moments : \A n \in 1 .. Target[k] :
     \E d \in Instants : IsDeadline(t, n, d)

AddBusinessTime(start, n) ==
  IF n <= 0 THEN start ELSE CHOOSE d \in Instants : IsDeadline(start, n, d)

BusinessTimeBetween(start, end) ==
  IF end <= start THEN 0 ELSE Elapsed[end] - Elapsed[start]

(***************************************************************************)
(* The record.  remaining is remaining_business_microseconds; the column   *)
(* remaining_business_seconds is always written next to it, rounded down.  *)
(***************************************************************************)
SlaInstances ==
  [state : SlaStates, due : Instants, remaining : Nat \union {None},
   completed : BOOLEAN, escalated : BOOLEAN]

NoInstance ==
  [state |-> "absent", due |-> 0, remaining |-> None,
   completed |-> FALSE, escalated |-> FALSE]

StartedAt(kind, at) ==
  [state |-> "active", due |-> AddBusinessTime(at, Target[kind]),
   remaining |-> None, completed |-> FALSE, escalated |-> FALSE]

RemainingSeconds(inst) ==
  IF inst.remaining = None THEN None ELSE inst.remaining \div TicksPerSecond

PauseSla(inst, reason, now) ==
  [inst EXCEPT
     !.state     = reason,
     !.remaining = IF inst.state = "active"
                     THEN BusinessTimeBetween(now, inst.due) ELSE @]

(* Mutant: resuming keeps the old deadline.                                *)
ResumeSla_OldDeadline(inst, now) ==
  IF inst.state = "active" THEN inst
  ELSE [inst EXCEPT !.state = "active", !.remaining = IF @ = 0 THEN 0 ELSE None]

ResumeSla(inst, now) ==
  IF inst.state = "active" THEN inst
  ELSE [inst EXCEPT
          !.state     = "active",
          !.due       = AddBusinessTime(now, inst.remaining),
          !.remaining = IF @ = 0 THEN 0 ELSE None]

(* Mutant: a clock completed exactly at its deadline is in time.           *)
IsOverdue_AfterDeadline(inst, at) ==
  \/ inst.state = "active" /\ at > inst.due
  \/ inst.state \in Paused /\ RemainingSeconds(inst) \in {None, 0}

IsOverdue(inst, at) ==
  \/ inst.state = "active" /\ (at >= inst.due \/ RemainingSeconds(inst) = 0)
  \/ inst.state \in Paused /\ RemainingSeconds(inst) \in {None, 0}

(* Mutant: completing measures anew a clock that was already breached.     *)
CompleteSla_ForgetsBreach(inst, at) ==
  IF inst.state \in {"absent", "met"} THEN inst
  ELSE [inst EXCEPT
          !.state     = IF IsOverdue(inst, at) THEN "breached" ELSE "met",
          !.completed = TRUE]

(* A breach already recorded stays a breach; a clock met stays met.        *)
CompleteSla(inst, at) ==
  IF inst.state \in {"absent", "met"} THEN inst
  ELSE [inst EXCEPT
          !.state     = IF @ = "breached" \/ IsOverdue(inst, at)
                          THEN "breached" ELSE "met",
          !.completed = TRUE]

RestartResolutionSla(at) == StartedAt("resolution", at)

(* Consumed business time has reached the escalation share of the target.  *)
CrossedEscalationThreshold(kind, inst, now) ==
  LET left     == BusinessTimeBetween(now, inst.due)
      consumed == IF left >= Target[kind] THEN 0 ELSE Target[kind] - left
  IN  consumed * 100 >= Target[kind] * EscalationPercent

(* Mutant: a clock that has escalated escalates again.                     *)
Escalates_Again(kind, inst, now) ==
  inst.state = "active" /\ CrossedEscalationThreshold(kind, inst, now)

Escalates(kind, inst, now) ==
  /\ inst.state = "active"
  /\ ~inst.escalated
  /\ CrossedEscalationThreshold(kind, inst, now)

(* What one sweep does to one clock it has locked and re-read.             *)
EvaluateSla(kind, inst, now) ==
  IF inst.state # "active" THEN inst
  ELSE [inst EXCEPT
          !.escalated = @ \/ Escalates(kind, inst, now),
          !.state     = IF inst.due <= now THEN "breached" ELSE @]

(***************************************************************************)
(* sync_slas_for_transition.  Waiting[code] is the paused state of a       *)
(* waiting status (WAITING_SLA_STATES of the ticket's domain).             *)
(***************************************************************************)
(* Mutant: a frozen clock keeps its reason when the ticket goes on waiting *)
(* for somebody else.                                                      *)
FreezeOrRelease_NoRelabel(inst, Waiting, from, to, now) ==
  IF to \in DOMAIN Waiting
    THEN IF inst.state = "active" THEN PauseSla(inst, Waiting[to], now) ELSE inst
    ELSE IF from \in DOMAIN Waiting /\ inst.state \in Paused
           THEN ResumeSla(inst, now) ELSE inst

(* Mutant: the waiting status is recorded in place of its paused state.     *)
FreezeOrRelease_ByStatus(inst, Waiting, from, to, now) ==
  IF to \in DOMAIN Waiting
    THEN IF inst.state \in Open \ {Waiting[to]}
           THEN PauseSla(inst, to, now) ELSE inst
    ELSE IF from \in DOMAIN Waiting /\ inst.state \in Paused
           THEN ResumeSla(inst, now) ELSE inst

FreezeOrRelease(inst, Waiting, from, to, now) ==
  IF to \in DOMAIN Waiting
    THEN IF inst.state \in Open \ {Waiting[to]}
           THEN PauseSla(inst, Waiting[to], now) ELSE inst
    ELSE IF from \in DOMAIN Waiting /\ inst.state \in Paused
           THEN ResumeSla(inst, now) ELSE inst

(* Mutant: only the resolution clock is frozen and released.               *)
SyncSlasForTransition_ResolutionOnly(clocks, Waiting, from, to, now) ==
  [k \in Kinds |->
     IF k # "resolution" THEN clocks[k]
     ELSE LET inst == FreezeOrRelease(clocks[k], Waiting, from, to, now)
          IN  IF to = "resolved" THEN CompleteSla(inst, now)
              ELSE IF to = "reopened" THEN RestartResolutionSla(now) ELSE inst]

SyncSlasForTransition(clocks, Waiting, from, to, now) ==
  [k \in Kinds |->
     LET inst == FreezeOrRelease(clocks[k], Waiting, from, to, now)
     IN  IF k = "resolution" /\ to = "resolved" THEN CompleteSla(inst, now)
         ELSE IF k = "resolution" /\ to = "reopened" THEN RestartResolutionSla(now)
         ELSE inst]
=============================================================================
